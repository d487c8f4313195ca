---------------------------- MODULE Si57xProofs ---------------------------
(***************************************************************************)
(* Proofs about Si57x, for any parts and frequencies, any register width   *)
(* of the reference, and any number of failed transfers and killed         *)
(* programs.                                                               *)
(***************************************************************************)
EXTENDS Si57x, SequenceTheorems, WellFoundedInduction, TLAPS

---------------------------------------------------------------------------
(* The search for a combination of dividers. *)

InFdco(f, d) == fdco_min <= f * d /\ f * d <= fdco_max

(* The products tried are those that put the oscillator into its range.    *)
LEMMA DivsInFdco ==
  ASSUME NEW f \in Nat \ {0}, NEW d \in Int
  PROVE  d \in Divs(f) <=> InFdco(f, d)
  <1>. DEFINE a == fdco_min + f - 1
              lo == a \div f
              hi == fdco_max \div f
  <1>1. /\ lo \in Int /\ f * lo <= a /\ a < f * lo + f
        /\ hi \in Int /\ f * hi <= fdco_max /\ fdco_max < f * hi + f
    BY DEF fdco_min, fdco_max
  <1>. HIDE DEF lo, hi
  <1>2. ASSUME NEW x \in Int, NEW y \in Int, x <= y PROVE f * x <= f * y
    BY <1>2
  <1>3. ASSUME NEW x \in Int, NEW y \in Int PROVE f * (x + 1) = f * x + f
    OBVIOUS
  <1>4. lo <= d => fdco_min <= f * d
    <2>1. f * lo >= fdco_min
      BY <1>1 DEF fdco_min
    <2>. QED
      BY <1>1, <1>2, <2>1 DEF fdco_min
  <1>5. ~ (lo <= d) => ~ (fdco_min <= f * d)
    <2>. SUFFICES ASSUME d + 1 <= lo PROVE f * d < fdco_min
      BY <1>1 DEF fdco_min
    <2>1. f * d + f <= f * lo
      BY <1>1, <1>2, <1>3
    <2>. QED
      BY <1>1, <2>1 DEF fdco_min
  <1>6. d <= hi => f * d <= fdco_max
    BY <1>1, <1>2 DEF fdco_max
  <1>7. ~ (d <= hi) => ~ (f * d <= fdco_max)
    <2>. SUFFICES ASSUME hi + 1 <= d PROVE fdco_max < f * d
      BY <1>1 DEF fdco_max
    <2>1. f * hi + f <= f * d
      BY <1>1, <1>2, <1>3
    <2>. QED
      BY <1>1, <2>1 DEF fdco_max
  <1>8. Divs(f) = lo .. hi
    BY DEF Divs, lo, hi
  <1>. QED
    BY <1>1, <1>4, <1>5, <1>6, <1>7, <1>8 DEF InFdco

Products == {18, 20, 22, 24, 28, 32, 36, 40, 44, 48, 56, 64, 72, 80, 88, 96, 108, 120, 132,
             144, 160, 180, 200, 216, 240, 264, 288, 320, 352, 384, 432, 480, 504}

(* For each of the part's frequencies one of these products will do.       *)
LEMMA ProductForAll ==
  ASSUME NEW f \in freq_min .. freq_max
  PROVE  \E d \in Products : InFdco(f, d)
  <1>1. f \in Nat /\ 10 <= f /\ f <= 280
    BY DEF freq_min, freq_max
  <1>2. \/ InFdco(f, 18) \/ InFdco(f, 20) \/ InFdco(f, 22) \/ InFdco(f, 24)
        \/ InFdco(f, 28) \/ InFdco(f, 32) \/ InFdco(f, 36) \/ InFdco(f, 40)
        \/ InFdco(f, 44) \/ InFdco(f, 48) \/ InFdco(f, 56) \/ InFdco(f, 64)
        \/ InFdco(f, 72) \/ InFdco(f, 80) \/ InFdco(f, 88) \/ InFdco(f, 96)
        \/ InFdco(f, 108) \/ InFdco(f, 120) \/ InFdco(f, 132) \/ InFdco(f, 144)
        \/ InFdco(f, 160) \/ InFdco(f, 180) \/ InFdco(f, 200) \/ InFdco(f, 216)
        \/ InFdco(f, 240) \/ InFdco(f, 264) \/ InFdco(f, 288) \/ InFdco(f, 320)
        \/ InFdco(f, 352) \/ InFdco(f, 384) \/ InFdco(f, 432) \/ InFdco(f, 480)
        \/ InFdco(f, 504)
    BY <1>1 DEF InFdco, fdco_min, fdco_max
  <1>. QED
    BY <1>2 DEF Products

(* Each of them is a product of a speed divider and an output divider.     *)
LEMMA ProductsFit ==
  ASSUME NEW d \in Products
  PROVE  \E h \in VALID_HS_DIV : Fits(d, h)
  <1>1. /\ d \in 18 .. 504
        /\ d % 8 = 0 \/ d \in {18, 36, 108, 180} \/ d = 20 \/ d \in {22, 44, 132} \/ d = 28
    <2>1. CASE d \in {18, 36, 108, 180} \/ d = 20 \/ d \in {22, 44, 132} \/ d = 28
      BY <2>1
    <2>2. CASE d \in {24, 32, 40, 48, 56, 64, 72, 80, 88, 96, 120}
      BY <2>2
    <2>3. CASE d \in {144, 160, 200, 216, 240, 264, 288, 320, 352, 384, 432, 480, 504}
      BY <2>3
    <2>. QED
      BY <2>1, <2>2, <2>3 DEF Products
  <1>2. CASE d % 8 = 0
    BY <1>1, <1>2 DEF Fits, Quotient, VALID_HS_DIV
  <1>3. CASE d \in {18, 36, 108, 180}
    <2>1. d % 9 = 0 /\ Quotient(d, 9) % 2 = 0
      BY <1>3 DEF Quotient
    <2>. QED
      BY <2>1 DEF Fits, VALID_HS_DIV
  <1>4. CASE d = 20
    BY <1>4 DEF Fits, Quotient, VALID_HS_DIV
  <1>5. CASE d \in {22, 44, 132}
    <2>1. d % 11 = 0 /\ Quotient(d, 11) % 2 = 0
      BY <1>5 DEF Quotient
    <2>. QED
      BY <2>1 DEF Fits, VALID_HS_DIV
  <1>6. CASE d = 28
    BY <1>6 DEF Fits, Quotient, VALID_HS_DIV
  <1>. QED
    BY <1>1, <1>2, <1>3, <1>4, <1>5, <1>6

(* A quotient that fits is an output divider: 1 or even.                   *)
LEMMA FitIsProduct ==
  ASSUME NEW d \in 1 .. 1000, NEW h \in VALID_HS_DIV
  PROVE  /\ Fits(d, h) => /\ Quotient(d, h) \in 1 .. d \div 4
                          /\ h * Quotient(d, h) = d
                          /\ Quotient(d, h) = 1 \/ Quotient(d, h) % 2 = 0
         /\ \A n \in 1 .. 255 :
              h * n = d /\ (n = 1 \/ n % 2 = 0) => Fits(d, h) /\ Quotient(d, h) = n
  <1>1. h \in {4, 5, 6, 7, 9, 11}
    BY DEF VALID_HS_DIV
  <1>2. CASE h = 4
    BY <1>2 DEF Fits, Quotient
  <1>3. CASE h = 5
    BY <1>3 DEF Fits, Quotient
  <1>4. CASE h = 6
    BY <1>4 DEF Fits, Quotient
  <1>5. CASE h = 7
    BY <1>5 DEF Fits, Quotient
  <1>6. CASE h = 9
    BY <1>6 DEF Fits, Quotient
  <1>7. CASE h = 11
    BY <1>7 DEF Fits, Quotient
  <1>. QED
    BY <1>1, <1>2, <1>3, <1>4, <1>5, <1>6, <1>7

(* Some numbers have a least one.                                          *)
LEMMA LeastElement ==
  ASSUME NEW S, S \subseteq Nat, S # {}
  PROVE  \E n \in S : \A m \in S : n <= m
  <1>. DEFINE R == {ss \in Nat \X Nat : ss[1] < ss[2]}
  <1>1. IsWellFoundedOn(R, Nat)
    BY NatLessThanWellFounded DEF OpToRel
  <1>. HIDE DEF R
  <1>2. PICK n \in S : \A y \in S : ~ (<<y, n>> \in R)
    BY <1>1, WFMin
  <1>3. \A x, y \in Nat : <<y, x>> \in R <=> y < x
    BY DEF R
  <1>4. ASSUME NEW m \in S PROVE n <= m
    <2>1. ~ (m < n)
      BY <1>2, <1>3
    <2>. QED
      BY <2>1
  <1>. QED
    BY <1>4

(* The least of some numbers is what Min names.                            *)
LEMMA Least ==
  ASSUME NEW S, S \subseteq Nat, S # {}
  PROVE  Min(S) \in S /\ \A m \in S : Min(S) <= m
  BY LeastElement DEF Min

(* The highest of some speed dividers is what Max names.                   *)
LEMMA HighestDivider ==
  ASSUME NEW S, S \subseteq VALID_HS_DIV, S # {}
  PROVE  Max(S) \in S /\ \A y \in S : Max(S) >= y
  <1>1. S \subseteq {4, 5, 6, 7, 9, 11} /\ S # {}
    BY DEF VALID_HS_DIV
  <1>2. \E m \in S : \A y \in S : m >= y
    <2>1. CASE 11 \in S
      BY <1>1, <2>1
    <2>2. CASE 11 \notin S /\ 9 \in S
      BY <1>1, <2>2
    <2>3. CASE 11 \notin S /\ 9 \notin S /\ 7 \in S
      BY <1>1, <2>3
    <2>4. CASE 11 \notin S /\ 9 \notin S /\ 7 \notin S /\ 6 \in S
      BY <1>1, <2>4
    <2>5. CASE 11 \notin S /\ 9 \notin S /\ 7 \notin S /\ 6 \notin S
      <3>1. S \subseteq {4, 5}
        BY <1>1, <2>5
      <3>2. CASE 5 \in S
        BY <3>1, <3>2
      <3>3. CASE 5 \notin S
        <4>1. \A y \in S : y = 4
          BY <3>1, <3>3
        <4>2. PICK m \in S : TRUE
          BY <1>1
        <4>. QED
          BY <4>1, <4>2
      <3>. QED
        BY <3>2, <3>3
    <2>. QED
      BY <2>1, <2>2, <2>3, <2>4, <2>5
  <1>. QED
    BY <1>2 DEF Max

(* What n1 can be: 1, or an even number.                                   *)
OutputDivs == {1} \cup {2 * k : k \in 1 .. 64}

(* For a frequency of the part, the loops end with a combination that puts *)
(* the oscillator into its range, by the smallest product that does, and   *)
(* the highest speed divider of those with that product.                   *)
LEMMA CombinationFound ==
  ASSUME NEW f \in freq_min .. freq_max, NEW c \in Combos(f)
  PROVE  /\ c[1] \in VALID_HS_DIV /\ c[2] \in OutputDivs
         /\ InFdco(f, c[1] * c[2])
         /\ \A x \in VALID_HS_DIV, y \in OutputDivs :
              InFdco(f, x * y) =>
                c[1] * c[2] < x * y \/ (c[1] * c[2] = x * y /\ x <= c[1])
  <1>. DEFINE fits(d) == {x \in VALID_HS_DIV : Fits(d, x)}
              good == {d \in Divs(f) : \E h \in VALID_HS_DIV : Fits(d, h)}
              d == Min(good)
              h == Max(fits(d))
              n == Quotient(d, h)
  <1>1. f \in Nat \ {0} /\ f >= 10
    BY DEF freq_min, freq_max
  <1>2. ASSUME NEW e \in Int, InFdco(f, e) PROVE e \in 1 .. 567
    <2>1. e >= 1
      <3>1. CASE e <= 0
        <4>1. f * e <= 0
          BY <1>1, <3>1
        <4>. QED
          BY <1>2, <4>1 DEF InFdco, fdco_min
      <3>. QED
        BY <3>1
    <2>2. 10 * e <= f * e
      BY <1>1, <2>1
    <2>. QED
      BY <1>1, <1>2, <2>1, <2>2 DEF InFdco, fdco_max
  <1>3. \A e \in Divs(f) : e \in 1 .. 567 /\ InFdco(f, e)
    <2>1. Divs(f) \subseteq Int
      BY <1>1 DEF Divs, fdco_min, fdco_max
    <2>. QED
      BY <1>1, <1>2, <2>1, DivsInFdco
  <1>4. PICK p \in Products : p \in good /\ p <= 504 /\ InFdco(f, p) /\ p \in Nat
    <2>1. PICK p \in Products : InFdco(f, p)
      BY ProductForAll
    <2>2. p \in Int /\ p <= 504 /\ p >= 0
      BY DEF Products
    <2>3. p \in Divs(f)
      BY <1>1, <2>1, <2>2, DivsInFdco
    <2>. QED
      BY <2>1, <2>2, <2>3, ProductsFit
  <1>5. d \in good /\ \A e \in good : d <= e
    <2>1. good \subseteq Nat
      BY <1>3
    <2>2. good # {}
      BY <1>4
    <2>. HIDE DEF good
    <2>. QED
      BY <2>1, <2>2, Least
  <1>6. h \in fits(d) /\ \A x \in fits(d) : h >= x
    <2>1. fits(d) \subseteq VALID_HS_DIV /\ fits(d) # {}
      BY <1>5
    <2>. QED
      BY <2>1, HighestDivider
  <1>7. c = <<h, n>>
    <2>1. good # {}
      BY <1>4
    <2>. QED
      BY <2>1 DEF Combos
  <1>. HIDE DEF d, h, n, good
  <1>8. /\ d \in 1 .. 1000 /\ d <= 504 /\ InFdco(f, d) /\ h \in VALID_HS_DIV /\ Fits(d, h)
    BY <1>3, <1>4, <1>5, <1>6 DEF good
  <1>9. n \in 1 .. d \div 4 /\ h * n = d /\ (n = 1 \/ n % 2 = 0)
    <2>1. d \in 1 .. 1000 /\ h \in VALID_HS_DIV /\ Fits(d, h)
      BY <1>8
    <2>2. /\ Quotient(d, h) \in 1 .. d \div 4 /\ h * Quotient(d, h) = d
          /\ Quotient(d, h) = 1 \/ Quotient(d, h) % 2 = 0
      BY <2>1, FitIsProduct, ZenonT(40)
    <2>. QED
      BY <2>2 DEF n
  <1>10. n \in OutputDivs
    <2>1. n \in 1 .. 126
      <3>1. d \in Nat /\ d \div 4 <= 126
        BY <1>8
      <3>. QED
        BY <1>9, <3>1
    <2>2. CASE n = 1
      BY <2>2 DEF OutputDivs
    <2>3. CASE n % 2 = 0
      <3>1. n \div 2 \in 1 .. 64 /\ n = 2 * (n \div 2)
        BY <2>1, <2>3
      <3>. QED
        BY <3>1 DEF OutputDivs
    <2>. QED
      BY <1>9, <2>2, <2>3
  <1>11. ASSUME NEW x \in VALID_HS_DIV, NEW y \in OutputDivs, InFdco(f, x * y)
         PROVE  h * n < x * y \/ (h * n = x * y /\ x <= h)
    <2>1. x \in Int /\ y \in 1 .. 255 /\ (y = 1 \/ y % 2 = 0)
      BY DEF VALID_HS_DIV, OutputDivs
    <2>2. x * y \in 1 .. 567 /\ x * y \in 1 .. 1000
      BY <1>2, <1>11, <2>1
    <2>3. Fits(x * y, x)
      <3>. DEFINE e == x * y
      <3>1. y \in 1 .. 255 /\ x * y = e /\ (y = 1 \/ y % 2 = 0) /\ e \in 1 .. 1000
        BY <2>1, <2>2
      <3>. HIDE DEF e
      <3>2. Fits(e, x)
        BY <3>1, FitIsProduct, ZenonT(40)
      <3>. QED
        BY <3>2 DEF e
    <2>4. x * y \in good
      BY <1>1, <1>11, <2>1, <2>2, <2>3, DivsInFdco DEF good
    <2>5. d <= x * y
      BY <1>5, <2>4
    <2>6. d = x * y => x <= h
      BY <1>6, <1>8, <2>1, <2>3 DEF VALID_HS_DIV
    <2>7. d < x * y \/ (d = x * y /\ x <= h)
      BY <1>8, <2>2, <2>5, <2>6
    <2>. QED
      BY <1>9, <2>7
  <1>12. c[1] = h /\ c[2] = n /\ InFdco(f, h * n)
    BY <1>7, <1>8, <1>9
  <1>. QED
    BY <1>8, <1>10, <1>11, <1>12

---------------------------------------------------------------------------
(* The inductive invariant. *)

Calls    == {"none", "reload", "find", "send_hard", "send_smooth", "download"}
Failures == {"recall", "fetch", "freeze", "write", "unfreeze", "mark"}

ChipTyped ==
  /\ config \in Raw
  /\ frozenM \in BOOLEAN /\ frozenDCO \in BOOLEAN /\ locked \in BOOLEAN

(* The driver's structs: a crystal that was read has a numerator.          *)
Typed ==
  /\ fnew \in Freqs /\ part \in Parts
  /\ reg_init \in Reg /\ reg_current \in Reg /\ reg_new \in Reg
  /\ reg_init.fout > 0
  /\ fxtal = <<0, 0>> \/ fxtal \in (Nat \ {0}) \X Nat
  /\ call \in Calls /\ failed \subseteq Failures
  /\ calls \in 0 .. MaxCalls /\ faults \in 0 .. MaxFaults
  /\ trusted \in BOOLEAN /\ sound \in BOOLEAN
  /\ ChipTyped

(* What is sent is what the search found.                                  *)
Found ==
  InRange(reg_new.fout) => <<reg_new.hsdiv, reg_new.n1>> \in Combos(reg_new.fout)

FreezeDCO      == Write("freeze", "dco", <<8>>)
FreezeM        == Write("freeze", "ctl", <<16>>)
Registers(raw) == Write("write", "config", raw)
ReleaseDCO     == Write("unfreeze", "dco", <<0>>)
ReleaseM       == Write("unfreeze", "ctl", <<0>>)
Mark           == Write("mark", "ctl", <<32>>)
Recall         == Write("recall", "ctl", <<1>>)

(* A send: what is left to do, and what the chip must be like for it.      *)
Taken  == config = reg_current.raw
Clean  == failed = {}
Frozen(is) == is \/ "freeze" \in failed

SendingHard ==
  LET raw == reg_current.raw IN
  \/ script = <<FreezeDCO, Registers(raw), ReleaseDCO, Mark>>
  \/ script = <<Registers(raw), ReleaseDCO, Mark>> /\ Frozen(frozenDCO)
  \/ script = <<ReleaseDCO, Mark>> /\ (Clean => Taken)
  \/ script = <<Mark>> /\ (Clean => Taken /\ ~ frozenDCO)
  \/ script = <<>> /\ (Clean => Taken /\ ~ frozenDCO /\ ~ frozenM /\ locked)

SendingSmooth ==
  LET raw == reg_current.raw IN
  \/ script = <<FreezeM, Registers(raw), ReleaseM>>
  \/ script = <<Registers(raw), ReleaseM>> /\ Frozen(frozenM)
  \/ script = <<ReleaseM>> /\ (Clean => Taken /\ frozenM)
  \/ script = <<>> /\ (Clean => Taken /\ ~ frozenM /\ locked)

Scripted ==
  CASE call = "reload"      -> script \in {<<Recall>>, <<Recall, Fetch>>, <<Fetch>>, <<>>}
    [] call = "download"    -> script \in {<<Fetch>>, <<>>}
    [] call = "send_hard"   -> SendingHard
    [] call = "send_smooth" -> SendingSmooth
    [] OTHER                -> script = <<>>

IInv == Typed /\ Found /\ Scripted

---------------------------------------------------------------------------
(* Registers. *)

(* What the proofs use of the assumptions on the constants.                *)
LEMMA Constants ==
  /\ FracBase \in Nat /\ 2 <= FracBase /\ FracBase <= 256
  /\ \A p \in Parts : p.fout0 \in Nat \ {0} /\ p.raw \in Raw /\ p.fixed \in BOOLEAN
  /\ Freqs \subseteq Nat \ {0}
  /\ Uninit \subseteq Digit /\ Digit \subseteq Byte /\ Uninit # {}
  /\ MaxCalls \in Nat /\ MaxFaults \in Nat
  BY Si57xAssumption DEF Digit, Byte

(* What the six configuration registers can hold.                          *)
LEMMA RawTuple ==
  ASSUME NEW a \in Byte, NEW b \in Byte,
         NEW c \in Digit, NEW d \in Digit, NEW e \in Digit, NEW f \in Digit
  PROVE  <<a, b, c, d, e, f>> \in Raw
  <1>. DEFINE r == <<a, b, c, d, e, f>>
  <1>1. r \in Seq(Byte) /\ Len(r) = 6
    BY Constants
  <1>2. \A k \in 3 .. 6 : r[k] \in Digit
    BY DEF Digit
  <1>. QED
    BY <1>1, <1>2 DEF Raw

(* What is in the registers, read back.                                    *)
LEMMA RawParts ==
  ASSUME NEW r \in Raw
  PROVE  /\ r \in Seq(Byte) /\ Len(r) = 6 /\ r = [k \in 1 .. 6 |-> r[k]]
         /\ \A k \in 1 .. 6 : r[k] \in Byte
         /\ \A k \in 3 .. 6 : r[k] \in Digit
  <1>1. r \in Seq(Byte) /\ Len(r) = 6 /\ \A k \in 3 .. 6 : r[k] \in Digit
    BY DEF Raw
  <1>2. r \in [1 .. Len(r) -> Byte]
    BY <1>1, LenProperties
  <1>3. r \in [1 .. 6 -> Byte]
    BY <1>1, <1>2
  <1>. QED
    BY <1>1, <1>3

(* Six registers, each of which holds what it can.                         *)
LEMMA RawFunction ==
  ASSUME NEW r, r = [k \in 1 .. 6 |-> r[k]],
         \A k \in 1 .. 6 : r[k] \in Byte, \A k \in 3 .. 6 : r[k] \in Digit
  PROVE  r \in Raw
  <1>1. r \in [1 .. 6 -> Byte]
    OBVIOUS
  <1>2. r \in Seq(Byte) /\ Len(r) = 6
    BY <1>1
  <1>. QED
    BY <1>2 DEF Raw

(* A write of registers that stops after some of them.                     *)
LEMMA WrittenRaw ==
  ASSUME NEW old \in Raw, NEW data \in Raw, NEW n \in 0 .. 6
  PROVE  /\ Written(old, SubSeq(data, 1, n)) \in Raw
         /\ n = 6 => Written(old, SubSeq(data, 1, n)) = data
  <1>. DEFINE s == SubSeq(data, 1, n)
              w == Written(old, s)
  <1>1. Len(s) = n /\ \A k \in 1 .. n : s[k] = data[k]
    BY RawParts
  <1>. HIDE DEF s
  <1>2. w = [k \in 1 .. 6 |-> IF k <= n THEN s[k] ELSE old[k]]
    BY <1>1 DEF Written
  <1>3. \A k \in 1 .. 6 : w[k] = IF k <= n THEN data[k] ELSE old[k]
    BY <1>1, <1>2
  <1>. HIDE DEF w
  <1>4. w \in Raw
    <2>1. w = [k \in 1 .. 6 |-> w[k]]
      BY <1>2
    <2>2. \A k \in 1 .. 6 : w[k] \in Byte
      BY <1>3, RawParts
    <2>3. \A k \in 3 .. 6 : w[k] \in Digit
      BY <1>3, RawParts
    <2>. QED
      BY <2>1, <2>2, <2>3, RawFunction
  <1>5. n = 6 => w = data
    <2>. SUFFICES ASSUME n = 6 PROVE w = data
      OBVIOUS
    <2>1. w = [k \in 1 .. 6 |-> w[k]] /\ data = [k \in 1 .. 6 |-> data[k]]
      BY <1>2, RawParts
    <2>2. \A k \in 1 .. 6 : w[k] = data[k]
      BY <1>3
    <2>. QED
      BY <2>1, <2>2
  <1>. QED
    BY <1>4, <1>5 DEF s, w

(* Decoding gives dividers that are at least 1.                            *)
LEMMA Decoded ==
  ASSUME NEW reg \in Reg
  PROVE  /\ regs_to_val(reg) \in Reg
         /\ regs_to_val(reg).hsdiv \in Nat \ {0} /\ regs_to_val(reg).n1 \in Nat \ {0}
         /\ regs_to_val(reg).fout = reg.fout /\ regs_to_val(reg).raw = reg.raw
  <1>. DEFINE r == reg.raw
              h == (r[1] \div 32) + 4
              m == ((r[1] % 32) * 4) + (r[2] \div 64)
              n == N1(m)
              x == Rfreq(r)
  <1>1. r \in Raw /\ r[1] \in Byte /\ r[2] \in Byte /\ r[3] \in Digit /\ r[4] \in Digit
        /\ r[5] \in Digit /\ r[6] \in Digit
    BY RawParts DEF Reg
  <1>. HIDE DEF r
  <1>2. h \in Byte /\ h # 0
    BY <1>1 DEF Byte
  <1>3. m \in 0 .. 127
    BY <1>1 DEF Byte
  <1>. HIDE DEF m
  <1>4. n \in Byte /\ n # 0
    BY <1>3 DEF N1, Byte
  <1>5. x \in Nat
    <2>1. \A a, b \in Nat : a * FracBase + b \in Nat
      BY Constants
    <2>2. r[2] % 64 \in Nat /\ r[3] \in Nat /\ r[4] \in Nat /\ r[5] \in Nat /\ r[6] \in Nat
      <3>1. r[2] % 64 \in Nat
        BY <1>1 DEF Byte
      <3>2. Digit \subseteq Nat
        BY DEF Digit
      <3>. QED
        BY <1>1, <3>1, <3>2
    <2>3. (r[2] % 64) * FracBase + r[3] \in Nat
      BY <2>1, <2>2
    <2>. DEFINE y == (r[2] % 64) * FracBase + r[3]
    <2>. HIDE DEF y
    <2>4. y * FracBase + r[4] \in Nat
      BY <2>1, <2>2, <2>3 DEF y
    <2>. DEFINE z == y * FracBase + r[4]
    <2>. HIDE DEF z
    <2>5. z * FracBase + r[5] \in Nat
      BY <2>1, <2>2, <2>4 DEF z
    <2>. DEFINE u == z * FracBase + r[5]
    <2>. HIDE DEF u
    <2>6. u * FracBase + r[6] \in Nat
      BY <2>1, <2>2, <2>5 DEF u
    <2>. QED
      BY <2>6 DEF Rfreq, u, z, y
  <1>6. regs_to_val(reg) = [reg EXCEPT !.hsdiv = h, !.n1 = n, !.rfreq = x]
    BY DEF regs_to_val, r, m
  <1>. HIDE DEF h, n, x
  <1>7. h \in Nat \ {0} /\ n \in Nat \ {0}
    BY <1>2, <1>4 DEF Byte
  <1>8. [reg EXCEPT !.hsdiv = h, !.n1 = n, !.rfreq = x] \in Reg
    BY <1>2, <1>4, <1>5 DEF Reg
  <1>9. LET v == [reg EXCEPT !.hsdiv = h, !.n1 = n, !.rfreq = x]
        IN v.hsdiv = h /\ v.n1 = n /\ v.fout = reg.fout /\ v.raw = reg.raw
    BY DEF Reg
  <1>. QED
    BY <1>6, <1>7, <1>8, <1>9

(* The larger of two numbers is one of them.                               *)
LEMMA MaxOfTwo ==
  ASSUME NEW a \in Int, NEW b \in Int
  PROVE  Max({a, b}) \in {a, b}
  <1>1. \E x \in {a, b} : \A y \in {a, b} : x >= y
    OBVIOUS
  <1>. QED
    BY <1>1 DEF Max

(* Encoding gives registers, and leaves the values alone.                  *)
LEMMA Encoded ==
  ASSUME NEW reg \in Reg
  PROVE  /\ val_to_regs(reg) \in Reg
         /\ val_to_regs(reg).hsdiv = reg.hsdiv /\ val_to_regs(reg).n1 = reg.n1
         /\ val_to_regs(reg).fout = reg.fout
  <1>. DEFINE n == N1Code(reg.n1)
              q0 == reg.rfreq
              q1 == q0 \div FracBase
              q2 == q1 \div FracBase
              q3 == q2 \div FracBase
              q4 == q3 \div FracBase
              a == HsdivCode(reg.hsdiv) + ((n \div 4) % 32)
              o == Or2((q4 \div 64) % 4, n % 4)
              b == (q4 % 64) + (64 * o)
              raw == <<a, b, q3 % FracBase, q2 % FracBase, q1 % FracBase, q0 % FracBase>>
  <1>1. /\ reg.hsdiv \in Byte /\ reg.n1 \in Byte /\ q0 \in Nat
    BY DEF Reg
  <1>2. n \in Byte
    BY <1>1 DEF N1Code, Byte
  <1>. HIDE DEF n, q0
  <1>3. \A x \in Nat : x \div FracBase \in Nat /\ x % FracBase \in Digit
    BY Constants DEF Digit
  <1>4. q1 \in Nat
    BY <1>1, <1>3
  <1>. HIDE DEF q1
  <1>5. q2 \in Nat
    BY <1>3, <1>4
  <1>. HIDE DEF q2
  <1>6. q3 \in Nat
    BY <1>3, <1>5
  <1>. HIDE DEF q3
  <1>7. q4 \in Nat
    BY <1>3, <1>6
  <1>. HIDE DEF q4
  <1>8. a \in Byte
    <2>1. HsdivCode(reg.hsdiv) \in {0, 32, 64, 96, 128, 160, 192, 224}
      BY <1>1 DEF HsdivCode, Byte
    <2>2. (n \div 4) % 32 \in 0 .. 31
      BY <1>2 DEF Byte
    <2>. QED
      BY <2>1, <2>2 DEF Byte
  <1>9. o \in 0 .. 3
    <2>1. ASSUME NEW x \in Nat, NEW y \in Nat PROVE Or2(x, y) \in 0 .. 3
      <3>. DEFINE bit(v, k) == (v \div k) % 2
      <3>1. bit(x, 2) \in 0 .. 1 /\ bit(y, 2) \in 0 .. 1 /\ bit(x, 1) \in 0 .. 1 /\ bit(y, 1) \in 0 .. 1
        OBVIOUS
      <3>2. Or2(x, y) = 2 * Max({bit(x, 2), bit(y, 2)}) + Max({bit(x, 1), bit(y, 1)})
        BY DEF Or2
      <3>. HIDE DEF bit
      <3>3. Max({bit(x, 2), bit(y, 2)}) \in 0 .. 1 /\ Max({bit(x, 1), bit(y, 1)}) \in 0 .. 1
        BY <3>1, MaxOfTwo
      <3>. QED
        BY <3>2, <3>3
    <2>2. (q4 \div 64) % 4 \in Nat /\ n % 4 \in Nat
      BY <1>2, <1>7 DEF Byte
    <2>. QED
      BY <2>1, <2>2
  <1>. HIDE DEF o
  <1>10. b \in Byte
    BY <1>7, <1>9 DEF Byte
  <1>11. val_to_regs(reg) = [reg EXCEPT !.raw = raw]
    BY DEF val_to_regs, n, q0, q1, q2, q3, q4, o
  <1>. HIDE DEF a, b
  <1>12. raw \in Raw
    BY <1>1, <1>3, <1>4, <1>5, <1>6, <1>8, <1>10, RawTuple
  <1>. HIDE DEF raw
  <1>. QED
    BY <1>11, <1>12 DEF Reg

---------------------------------------------------------------------------
(* The chip, transfer by transfer. *)

(* What is left of a list of transfers after the first.                    *)
LEMMA FirstOfList ==
  /\ \A a : Head(<<a>>) = a /\ Tail(<<a>>) = <<>>
  /\ \A a, b : Head(<<a, b>>) = a /\ Tail(<<a, b>>) = <<b>>
  /\ \A a, b, c : Head(<<a, b, c>>) = a /\ Tail(<<a, b, c>>) = <<b, c>>
  /\ \A a, b, c, d : Head(<<a, b, c, d>>) = a /\ Tail(<<a, b, c, d>>) = <<b, c, d>>
  OBVIOUS

(* A list of transfers is one of its kind only.                            *)
LEMMA ListsDiffer ==
  /\ \A a : <<a>> # <<>>
  /\ \A a, b : <<a, b>> # <<>>
  /\ \A a, b, c : <<a, b, c>> # <<>>
  /\ \A a, b, c, d : <<a, b, c, d>> # <<>>
  OBVIOUS

(* One byte is written, or none.                                           *)
LEMMA OneByte ==
  ASSUME NEW x \in Byte
  PROVE  /\ Len(<<x>>) = 1 /\ SubSeq(<<x>>, 1, 0) = <<>> /\ SubSeq(<<x>>, 1, 1) = <<x>>
  <1>1. <<x>> \in Seq(Byte) /\ Len(<<x>>) = 1
    OBVIOUS
  <1>2. SubSeq(<<x>>, 1, Len(<<x>>)) = <<x>>
    BY <1>1, SubSeqFull
  <1>3. SubSeq(<<x>>, 1, 0) = <<>>
    BY SubSeqEmpty
  <1>. QED
    BY <1>1, <1>2, <1>3

(* The bits that matter in what is written to the control registers.       *)
LEMMA Bits ==
  /\ Bit(8, 8) /\ ~ Bit(0, 8)
  /\ Bit(16, 16) /\ ~ Bit(16, 1)
  /\ ~ Bit(0, 16) /\ ~ Bit(0, 1)
  /\ Bit(32, 32) /\ ~ Bit(32, 16) /\ ~ Bit(32, 1)
  BY DEF Bit

(* Nothing is written.                                                     *)
LEMMA TakesNothing ==
  ASSUME NEW at, ChipTakes(at, <<>>)
  PROVE  UNCHANGED <<config, frozenM, frozenDCO, locked>>
  BY DEF ChipTakes, chip

(* Register 136.                                                           *)
LEMMA TakesDCO ==
  ASSUME NEW x \in Byte, ChipTakes("dco", <<x>>)
  PROVE  frozenDCO' = Bit(x, 8) /\ UNCHANGED <<config, frozenM, locked>>
  BY DEF ChipTakes

(* Register 135.                                                           *)
LEMMA TakesControl ==
  ASSUME NEW x \in Byte, ChipTakes("ctl", <<x>>)
  PROVE  /\ config' = IF Bit(x, 1) THEN part.raw ELSE config
         /\ frozenM' = Bit(x, 16)
         /\ locked' = (Bit(x, 1) \/ Bit(x, 32) \/ (frozenM /\ ~ frozenM') \/ locked)
         /\ UNCHANGED frozenDCO
  BY DEF ChipTakes

(* The configuration registers, all or some of them.                       *)
LEMMA TakesConfig ==
  ASSUME ChipTyped, NEW raw \in Raw, NEW n \in 0 .. 6,
         ChipTakes("config", SubSeq(raw, 1, n))
  PROVE  /\ config' \in Raw /\ (n = 6 => config' = raw)
         /\ locked' \in BOOLEAN /\ UNCHANGED <<frozenM, frozenDCO>>
  <1>. DEFINE s == SubSeq(raw, 1, n)
  <1>1. CASE s = <<>>
    <2>1. UNCHANGED <<config, frozenM, frozenDCO, locked>>
      BY <1>1, TakesNothing
    <2>2. n # 6
      <3>1. SubSeq(raw, 1, 6) # <<>>
        <4>1. SubSeq(raw, 1, Len(raw)) = raw /\ Len(raw) = 6
          BY RawParts, SubSeqFull
        <4>. QED
          BY <4>1
      <3>. QED
        BY <1>1, <3>1
    <2>. QED
      BY <2>1, <2>2 DEF ChipTyped
  <1>2. CASE s # <<>>
    <2>1. /\ config' = Written(config, s) /\ locked' = (locked /\ config' = config)
          /\ UNCHANGED <<frozenM, frozenDCO>>
      BY <1>2 DEF ChipTakes
    <2>2. config' \in Raw /\ (n = 6 => config' = raw)
      BY <2>1, WrittenRaw DEF ChipTyped
    <2>. QED
      BY <2>1, <2>2
  <1>. QED
    BY <1>1, <1>2

Controls == {Recall, FreezeDCO, FreezeM, ReleaseDCO, ReleaseM, Mark}

(* A transfer that writes, in full or in part: the chip stays a chip, and  *)
(* its settings change in a write of them and in a recall only.            *)
LEMMA WriteKeepsChip ==
  ASSUME ChipTyped, part \in Parts, NEW raw \in Raw,
         NEW t \in Controls \cup {Registers(raw)}, NEW n \in 0 .. Len(t.data),
         ChipTakes(t.at, SubSeq(t.data, 1, n))
  PROVE  /\ ChipTyped'
         /\ config' # config => t = Registers(raw) \/ t = Recall
  <1>1. ASSUME NEW x \in Byte, t.data = <<x>>
        PROVE  ChipTakes(t.at, <<>>) \/ ChipTakes(t.at, <<x>>)
    <2>1. /\ Len(<<x>>) = 1
          /\ SubSeq(<<x>>, 1, 0) = <<>> /\ SubSeq(<<x>>, 1, 1) = <<x>>
      BY OneByte
    <2>2. n = 0 \/ n = 1
      BY <1>1, <2>1
    <2>3. CASE n = 0
      <3>1. SubSeq(t.data, 1, n) = <<>>
        BY <1>1, <2>1, <2>3
      <3>. QED
        BY <3>1
    <2>4. CASE n = 1
      <3>1. SubSeq(t.data, 1, n) = <<x>>
        BY <1>1, <2>1, <2>4
      <3>. QED
        BY <3>1
    <2>. QED
      BY <2>2, <2>3, <2>4
  <1>2. ASSUME UNCHANGED <<config, frozenM, frozenDCO, locked>>
        PROVE  ChipTyped' /\ config' = config
    BY <1>2 DEF ChipTyped
  <1>3. CASE t = Registers(raw)
    <2>1. t.at = "config" /\ t.data = raw /\ Len(raw) = 6
      BY <1>3, RawParts DEF Registers, Write
    <2>2. ChipTakes("config", SubSeq(raw, 1, n)) /\ n \in 0 .. 6
      BY <2>1
    <2>3. config' \in Raw /\ locked' \in BOOLEAN /\ UNCHANGED <<frozenM, frozenDCO>>
      BY <2>2, TakesConfig
    <2>. QED
      BY <1>3, <2>3 DEF ChipTyped
  <1>4. ASSUME NEW x \in Byte, t.at = "dco", t.data = <<x>>
        PROVE  ChipTyped' /\ config' = config
    <2>1. CASE ChipTakes(t.at, <<>>)
      BY <1>2, <2>1, TakesNothing
    <2>2. CASE ChipTakes(t.at, <<x>>)
      <3>1. ChipTakes("dco", <<x>>)
        BY <1>4, <2>2
      <3>2. frozenDCO' = Bit(x, 8) /\ UNCHANGED <<config, frozenM, locked>>
        BY <3>1, TakesDCO
      <3>3. frozenDCO' \in BOOLEAN
        BY <3>2 DEF Bit
      <3>. QED
        BY <3>2, <3>3 DEF ChipTyped
    <2>. QED
      BY <1>1, <1>4, <2>1, <2>2
  <1>5. ASSUME NEW x \in Byte, t.at = "ctl", t.data = <<x>>
        PROVE  ChipTyped' /\ (~ Bit(x, 1) => config' = config)
    <2>1. CASE ChipTakes(t.at, <<>>)
      BY <1>2, <2>1, TakesNothing
    <2>2. CASE ChipTakes(t.at, <<x>>)
      <3>1. ChipTakes("ctl", <<x>>)
        BY <1>5, <2>2
      <3>2. /\ config' = IF Bit(x, 1) THEN part.raw ELSE config
            /\ frozenM' = Bit(x, 16)
            /\ locked' = (Bit(x, 1) \/ Bit(x, 32) \/ (frozenM /\ ~ frozenM') \/ locked)
            /\ UNCHANGED frozenDCO
        BY <3>1, TakesControl
      <3>3. config' \in Raw
        BY <3>2, Constants DEF ChipTyped
      <3>4. frozenM' \in BOOLEAN /\ locked' \in BOOLEAN /\ frozenDCO' \in BOOLEAN
        BY <3>2 DEF ChipTyped, Bit
      <3>. QED
        BY <3>2, <3>3, <3>4 DEF ChipTyped
    <2>. QED
      BY <1>1, <1>5, <2>1, <2>2
  <1>6. 0 \in Byte /\ 1 \in Byte /\ 8 \in Byte /\ 16 \in Byte /\ 32 \in Byte
    BY DEF Byte
  <1>7. CASE t = FreezeDCO
    BY <1>4, <1>6, <1>7 DEF FreezeDCO, Write
  <1>8. CASE t = ReleaseDCO
    BY <1>4, <1>6, <1>8 DEF ReleaseDCO, Write
  <1>9. CASE t = FreezeM
    BY <1>5, <1>6, <1>9, Bits DEF FreezeM, Write
  <1>10. CASE t = ReleaseM
    BY <1>5, <1>6, <1>10, Bits DEF ReleaseM, Write
  <1>11. CASE t = Mark
    BY <1>5, <1>6, <1>11, Bits DEF Mark, Write
  <1>12. CASE t = Recall
    BY <1>5, <1>6, <1>12 DEF Recall, Write
  <1>. QED
    BY <1>3, <1>7, <1>8, <1>9, <1>10, <1>11, <1>12 DEF Controls

(* A write of which every byte arrived.                                    *)
Complete(t) == ChipTakes(t.at, SubSeq(t.data, 1, Len(t.data)))

(* What a transfer that is complete does to the chip.                      *)
LEMMA CompleteWrites ==
  ASSUME ChipTyped
  PROVE  /\ Complete(FreezeDCO) => frozenDCO'
         /\ Complete(FreezeM) => frozenM'
         /\ Complete(ReleaseDCO) => ~ frozenDCO' /\ UNCHANGED config
         /\ Complete(ReleaseM) => /\ ~ frozenM' /\ UNCHANGED config
                                  /\ frozenM => locked'
         /\ Complete(Mark) => /\ ~ frozenM' /\ locked' /\ UNCHANGED <<config, frozenDCO>>
         /\ \A raw \in Raw :
              Complete(Registers(raw)) => config' = raw /\ UNCHANGED <<frozenM, frozenDCO>>
  <1>1. 0 \in Byte /\ 8 \in Byte /\ 16 \in Byte /\ 32 \in Byte
    BY DEF Byte
  <1>2. \A x \in Byte : SubSeq(<<x>>, 1, Len(<<x>>)) = <<x>>
    BY OneByte
  <1>3. Complete(FreezeDCO) => frozenDCO'
    <2>1. Complete(FreezeDCO) => ChipTakes("dco", <<8>>)
      BY <1>1, <1>2 DEF Complete, FreezeDCO, Write
    <2>. QED
      BY <1>1, <2>1, TakesDCO, Bits
  <1>4. Complete(ReleaseDCO) => ~ frozenDCO' /\ UNCHANGED config
    <2>1. Complete(ReleaseDCO) => ChipTakes("dco", <<0>>)
      BY <1>1, <1>2 DEF Complete, ReleaseDCO, Write
    <2>. QED
      BY <1>1, <2>1, TakesDCO, Bits
  <1>5. Complete(FreezeM) => frozenM'
    <2>1. Complete(FreezeM) => ChipTakes("ctl", <<16>>)
      BY <1>1, <1>2 DEF Complete, FreezeM, Write
    <2>. QED
      BY <1>1, <2>1, TakesControl, Bits
  <1>6. Complete(ReleaseM) => ~ frozenM' /\ UNCHANGED config /\ (frozenM => locked')
    <2>1. Complete(ReleaseM) => ChipTakes("ctl", <<0>>)
      BY <1>1, <1>2 DEF Complete, ReleaseM, Write
    <2>. QED
      BY <1>1, <2>1, TakesControl, Bits
  <1>7. Complete(Mark) => ~ frozenM' /\ locked' /\ UNCHANGED <<config, frozenDCO>>
    <2>1. Complete(Mark) => ChipTakes("ctl", <<32>>)
      BY <1>1, <1>2 DEF Complete, Mark, Write
    <2>. QED
      BY <1>1, <2>1, TakesControl, Bits
  <1>8. ASSUME NEW raw \in Raw, Complete(Registers(raw))
        PROVE  config' = raw /\ UNCHANGED <<frozenM, frozenDCO>>
    <2>1. Len(raw) = 6 /\ ChipTakes("config", SubSeq(raw, 1, 6))
      BY <1>8, RawParts DEF Complete, Registers, Write
    <2>. QED
      BY <2>1, TakesConfig
  <1>. QED
    BY <1>3, <1>4, <1>5, <1>6, <1>7, <1>8

---------------------------------------------------------------------------
(* The calls. *)

(* The greatest of some numbers between two others is what Max names.      *)
LEMMA Greatest ==
  ASSUME NEW lo \in Int, NEW hi \in Int, NEW S, S \subseteq lo .. hi, S # {}
  PROVE  Max(S) \in S
  <1>. DEFINE T == {hi - x : x \in S}
  <1>1. T \subseteq Nat /\ T # {}
    OBVIOUS
  <1>2. PICK n \in T : \A m \in T : n <= m
    <2>. HIDE DEF T
    <2>. QED
      BY <1>1, LeastElement
  <1>3. PICK x \in S : n = hi - x
    OBVIOUS
  <1>4. ASSUME NEW y \in S PROVE x >= y
    <2>1. hi - y \in T
      OBVIOUS
    <2>2. hi - x <= hi - y
      BY <1>2, <1>3, <2>1
    <2>3. x \in Int /\ y \in Int
      OBVIOUS
    <2>. QED
      BY <2>2, <2>3
  <1>. QED
    BY <1>4 DEF Max

(* Whatever the search leaves fits into a byte.                            *)
LEMMA CombosAreBytes ==
  ASSUME NEW f \in Nat \ {0}, NEW c \in Combos(f)
  PROVE  c \in Byte \X Byte
  <1>. DEFINE good  == {d \in Divs(f) : \E h \in VALID_HS_DIV : Fits(d, h)}
              whole == {d \in Divs(f) : \E h \in VALID_HS_DIV : d % h = 0}
              lo    == (fdco_min + f - 1) \div f
              hi    == fdco_max \div f
  <1>1. lo \in Nat /\ hi \in Int /\ Divs(f) = lo .. hi
    BY DEF Divs, fdco_min, fdco_max
  <1>2. Divs(f) \subseteq Nat /\ Divs(f) \subseteq lo .. hi
    BY <1>1
  <1>. HIDE DEF lo, hi
  <1>3. ASSUME NEW d \in Nat, NEW h \in VALID_HS_DIV PROVE Quotient(d, h) \in Byte
    BY DEF Quotient, VALID_HS_DIV, Byte
  <1>4. VALID_HS_DIV \subseteq Byte /\ 4 \in Byte /\ VALID_HS_DIV \subseteq Nat
    BY DEF VALID_HS_DIV, Byte
  <1>5. CASE good # {}
    <2>. DEFINE d == Min(good)
                fits == {x \in VALID_HS_DIV : Fits(d, x)}
                h == Max(fits)
    <2>1. c = <<h, Quotient(d, h)>>
      BY <1>5 DEF Combos
    <2>2. d \in good
      <3>1. good \subseteq Nat
        BY <1>2
      <3>. HIDE DEF good
      <3>. QED
        BY <1>5, <3>1, Least
    <2>. HIDE DEF d
    <2>3. fits # {} /\ fits \subseteq VALID_HS_DIV
      BY <2>2
    <2>. HIDE DEF fits
    <2>4. h \in VALID_HS_DIV
      BY <2>3, HighestDivider
    <2>. HIDE DEF h
    <2>5. d \in Nat
      BY <1>2, <2>2
    <2>. QED
      BY <1>3, <1>4, <2>1, <2>4, <2>5
  <1>6. CASE good = {} /\ whole # {}
    <2>. DEFINE d == Max(whole)
                exact == {x \in VALID_HS_DIV : d % x = 0}
                h == Min(exact)
    <2>1. c = <<4, Quotient(d, h)>>
      BY <1>6 DEF Combos
    <2>2. d \in whole
      <3>1. whole \subseteq lo .. hi /\ whole # {}
        BY <1>2, <1>6
      <3>2. lo \in Int /\ hi \in Int
        BY <1>1
      <3>. HIDE DEF whole
      <3>. QED
        BY <3>1, <3>2, Greatest
    <2>. HIDE DEF d
    <2>3. exact # {} /\ exact \subseteq Nat /\ exact \subseteq VALID_HS_DIV
      BY <1>4, <2>2
    <2>. HIDE DEF exact
    <2>4. h \in VALID_HS_DIV
      BY <2>3, Least
    <2>. HIDE DEF h
    <2>5. d \in Nat
      BY <1>2, <2>2
    <2>. QED
      BY <1>3, <1>4, <2>1, <2>4, <2>5
  <1>7. CASE good = {} /\ whole = {}
    <2>1. c \in (IF Divs(f) # {} THEN {4} ELSE Uninit) \X Uninit
      BY <1>7 DEF Combos
    <2>2. Uninit \subseteq Byte
      BY Constants
    <2>. QED
      BY <1>4, <2>1, <2>2
  <1>. QED
    BY <1>5, <1>6, <1>7

(* What a new program starts from.                                         *)
LEMMA UnsetTyped ==
  /\ Zero \in Reg
  /\ \A p \in Parts : [Zero EXCEPT !.fout = p.fout0] \in Reg
                      /\ [Zero EXCEPT !.fout = p.fout0].fout > 0
  <1>1. 0 \in Byte /\ 0 \in Digit
    BY Constants DEF Byte, Digit
  <1>2. [k \in 1 .. 6 |-> 0] \in Raw
    <2>. DEFINE r == [k \in 1 .. 6 |-> 0]
    <2>1. r = [k \in 1 .. 6 |-> r[k]] /\ \A k \in 1 .. 6 : r[k] = 0
      OBVIOUS
    <2>. HIDE DEF r
    <2>. QED
      BY <1>1, <2>1, RawFunction
  <1>3. Zero \in Reg
    BY <1>1, <1>2 DEF Zero, Reg
  <1>4. ASSUME NEW p \in Parts
        PROVE  [Zero EXCEPT !.fout = p.fout0] \in Reg /\ [Zero EXCEPT !.fout = p.fout0].fout > 0
    BY <1>3, Constants DEF Reg
  <1>. QED
    BY <1>3, <1>4

(* Taking over what was read as the start-up settings.                     *)
LEMMA LoadedTyped ==
  ASSUME reg_init \in Reg, reg_init.fout > 0, NEW raw \in Raw, Loaded(raw)
  PROVE  /\ reg_init' \in Reg /\ reg_init'.fout > 0
         /\ reg_current' \in Reg /\ fxtal' \in (Nat \ {0}) \X Nat
  <1>. DEFINE old == [reg_init EXCEPT !.raw = raw]
              reg == regs_to_val(old)
  <1>1. old \in Reg /\ old.fout > 0
    BY DEF Reg
  <1>2. /\ reg_init' = reg /\ reg_current' = reg
        /\ fxtal' = <<reg.fout * reg.hsdiv * reg.n1, reg.rfreq>>
    BY DEF Loaded, Crystal
  <1>. HIDE DEF old
  <1>3. /\ reg \in Reg /\ reg.hsdiv \in Nat \ {0} /\ reg.n1 \in Nat \ {0} /\ reg.fout > 0
    BY <1>1, Decoded
  <1>. HIDE DEF reg
  <1>4. reg.fout \in Nat \ {0} /\ reg.rfreq \in Nat
    BY <1>3 DEF Reg
  <1>5. \A x, y \in Nat \ {0} : x * y \in Nat \ {0}
    OBVIOUS
  <1>6. reg.fout * reg.hsdiv * reg.n1 \in Nat \ {0}
    BY <1>3, <1>4, <1>5
  <1>. QED
    BY <1>2, <1>3, <1>4, <1>6

(* What two lists put together are.                                        *)
LEMMA ConcatIs ==
  ASSUME NEW S, NEW s \in Seq(S), NEW t \in Seq(S), NEW u \in Seq(S),
         Len(u) = Len(s) + Len(t),
         \A k \in 1 .. Len(u) : u[k] = IF k <= Len(s) THEN s[k] ELSE t[k - Len(s)]
  PROVE  s \o t = u
  <1>1. /\ s \o t \in Seq(S) /\ Len(s \o t) = Len(s) + Len(t)
        /\ \A k \in 1 .. Len(s) + Len(t) :
             (s \o t)[k] = IF k <= Len(s) THEN s[k] ELSE t[k - Len(s)]
    BY ConcatProperties
  <1>2. \A k \in 1 .. Len(s \o t) : (s \o t)[k] = u[k]
    BY <1>1
  <1>. QED
    BY <1>1, <1>2, SeqEqual

(* Lists of transfers, put together.                                       *)
LEMMA Concatenated ==
  /\ \A a : <<a>> \o <<>> = <<a>>
  /\ \A a, b : <<a>> \o <<b>> = <<a, b>>
  /\ \A a, b, c : <<a, b>> \o <<c>> = <<a, b, c>>
  /\ \A a, b, c, d : <<a, b>> \o <<c, d>> = <<a, b, c, d>>
  <1>1. ASSUME NEW a PROVE <<a>> \o <<>> = <<a>>
    <2>1. <<a>> \in Seq({a})
      OBVIOUS
    <2>. QED
      BY <2>1, ConcatEmptySeq
  <1>2. ASSUME NEW a, NEW b PROVE <<a>> \o <<b>> = <<a, b>>
    <2>. DEFINE s == <<a>>
                t == <<b>>
                u == <<a, b>>
    <2>1. s \in Seq({a, b}) /\ t \in Seq({a, b}) /\ u \in Seq({a, b})
      OBVIOUS
    <2>2. Len(s) = 1 /\ Len(t) = 1 /\ Len(u) = 2
      OBVIOUS
    <2>3. \A k \in 1 .. 2 : u[k] = IF k <= 1 THEN s[k] ELSE t[k - 1]
      <3>1. u[1] = s[1] /\ u[2] = t[1]
        OBVIOUS
      <3>. HIDE DEF s, t, u
      <3>. QED
        BY <3>1
    <2>. HIDE DEF s, t, u
    <2>4. /\ Len(u) = Len(s) + Len(t)
          /\ \A k \in 1 .. Len(u) : u[k] = IF k <= Len(s) THEN s[k] ELSE t[k - Len(s)]
      BY <2>2, <2>3
    <2>5. s \o t = u
      BY <2>1, <2>4, ConcatIs
    <2>. QED
      BY <2>5 DEF s, t, u
  <1>3. ASSUME NEW a, NEW b, NEW c PROVE <<a, b>> \o <<c>> = <<a, b, c>>
    <2>. DEFINE s == <<a, b>>
                t == <<c>>
                u == <<a, b, c>>
    <2>1. s \in Seq({a, b, c}) /\ t \in Seq({a, b, c}) /\ u \in Seq({a, b, c})
      OBVIOUS
    <2>2. Len(s) = 2 /\ Len(t) = 1 /\ Len(u) = 3
      OBVIOUS
    <2>3. \A k \in 1 .. 3 : u[k] = IF k <= 2 THEN s[k] ELSE t[k - 2]
      <3>1. u[1] = s[1] /\ u[2] = s[2] /\ u[3] = t[1]
        OBVIOUS
      <3>. HIDE DEF s, t, u
      <3>. QED
        BY <3>1
    <2>. HIDE DEF s, t, u
    <2>4. /\ Len(u) = Len(s) + Len(t)
          /\ \A k \in 1 .. Len(u) : u[k] = IF k <= Len(s) THEN s[k] ELSE t[k - Len(s)]
      BY <2>2, <2>3
    <2>5. s \o t = u
      BY <2>1, <2>4, ConcatIs
    <2>. QED
      BY <2>5 DEF s, t, u
  <1>4. ASSUME NEW a, NEW b, NEW c, NEW d PROVE <<a, b>> \o <<c, d>> = <<a, b, c, d>>
    <2>. DEFINE s == <<a, b>>
                t == <<c, d>>
                u == <<a, b, c, d>>
    <2>1. s \in Seq({a, b, c, d}) /\ t \in Seq({a, b, c, d}) /\ u \in Seq({a, b, c, d})
      OBVIOUS
    <2>2. Len(s) = 2 /\ Len(t) = 2 /\ Len(u) = 4
      OBVIOUS
    <2>3. \A k \in 1 .. 4 : u[k] = IF k <= 2 THEN s[k] ELSE t[k - 2]
      <3>1. u[1] = s[1] /\ u[2] = s[2] /\ u[3] = t[1] /\ u[4] = t[2]
        OBVIOUS
      <3>. HIDE DEF s, t, u
      <3>. QED
        BY <3>1
    <2>. HIDE DEF s, t, u
    <2>4. /\ Len(u) = Len(s) + Len(t)
          /\ \A k \in 1 .. Len(u) : u[k] = IF k <= Len(s) THEN s[k] ELSE t[k - Len(s)]
      BY <2>2, <2>3
    <2>5. s \o t = u
      BY <2>1, <2>4, ConcatIs
    <2>. QED
      BY <2>5 DEF s, t, u
  <1>. QED
    BY <1>1, <1>2, <1>3, <1>4

(* Taking up a call: the counters stay in their bounds.                    *)
LEMMA BeginTyped ==
  ASSUME Typed, NEW what \in Calls, NEW transfers, Begin(what, transfers)
  PROVE  /\ call' = what /\ script' = transfers /\ failed' = {}
         /\ calls' \in 0 .. MaxCalls /\ faults' \in 0 .. MaxFaults
         /\ UNCHANGED <<config, frozenM, frozenDCO, locked>> /\ ChipTyped'
  <1>1. /\ calls < MaxCalls /\ calls' = calls + 1 /\ faults' = faults
        /\ call' = what /\ script' = transfers /\ failed' = {}
        /\ UNCHANGED <<config, frozenM, frozenDCO, locked>>
    BY DEF Begin, chip
  <1>2. calls' \in 0 .. MaxCalls /\ faults' \in 0 .. MaxFaults
    BY <1>1, Constants DEF Typed
  <1>3. ChipTyped'
    BY <1>1 DEF Typed, ChipTyped
  <1>. QED
    BY <1>1, <1>2, <1>3

(* A reload asks for a recall, and for most parts for the registers.       *)
LEMMA Reloading ==
  ASSUME IInv, reload_initial
  PROVE  IInv'
  <1>. USE DEF IInv
  <1>. DEFINE transfers == <<Write("recall", "ctl", <<1>>)>>
                             \o (IF part.fixed THEN <<>> ELSE <<Fetch>>)
  <1>1. /\ Begin("reload", transfers) /\ trusted' = TRUE
        /\ UNCHANGED <<fnew, part, reg_new, sound>>
        /\ IF part.fixed THEN Loaded(part.raw)
           ELSE /\ reg_init' = [reg_init EXCEPT !.raw[1] = 7]
                /\ UNCHANGED <<reg_current, fxtal>>
    BY DEF reload_initial
  <1>2. transfers \in {<<Recall>>, <<Recall, Fetch>>}
    BY Concatenated DEF Recall
  <1>. HIDE DEF transfers
  <1>3. /\ call' = "reload" /\ script' = transfers /\ failed' = {}
        /\ calls' \in 0 .. MaxCalls /\ faults' \in 0 .. MaxFaults /\ ChipTyped'
    BY <1>1, BeginTyped DEF Calls
  <1>4. /\ reg_init' \in Reg /\ reg_init'.fout > 0 /\ reg_current' \in Reg
        /\ fxtal' = <<0, 0>> \/ fxtal' \in (Nat \ {0}) \X Nat
    <2>1. CASE part.fixed
      <3>1. Loaded(part.raw) /\ part.raw \in Raw /\ reg_init \in Reg /\ reg_init.fout > 0
        BY <1>1, <2>1, Constants DEF Typed
      <3>. QED
        BY <3>1, LoadedTyped
    <2>2. CASE ~ part.fixed
      <3>1. /\ reg_init' = [reg_init EXCEPT !.raw[1] = 7]
            /\ UNCHANGED <<reg_current, fxtal>>
        BY <1>1, <2>2
      <3>2. [reg_init.raw EXCEPT ![1] = 7] \in Raw
        <4>. DEFINE r == reg_init.raw
                    w == [r EXCEPT ![1] = 7]
        <4>1. r \in Raw
          BY DEF Typed, Reg
        <4>. HIDE DEF r
        <4>2. /\ r = [k \in 1 .. 6 |-> r[k]]
              /\ \A k \in 1 .. 6 : r[k] \in Byte
              /\ \A k \in 3 .. 6 : r[k] \in Digit
          BY <4>1, RawParts
        <4>3. w = [k \in 1 .. 6 |-> IF k = 1 THEN 7 ELSE r[k]]
          BY <4>2
        <4>. HIDE DEF w
        <4>4. w = [k \in 1 .. 6 |-> w[k]] /\ 7 \in Byte
          BY <4>3 DEF Byte
        <4>5. \A k \in 1 .. 6 : w[k] \in Byte
          BY <4>2, <4>3, <4>4
        <4>6. \A k \in 3 .. 6 : w[k] \in Digit
          BY <4>2, <4>3
        <4>7. w \in Raw
          BY <4>4, <4>5, <4>6, RawFunction
        <4>. QED
          BY <4>7 DEF w, r
      <3>. DEFINE raw == [reg_init.raw EXCEPT ![1] = 7]
      <3>3. reg_init' = [reg_init EXCEPT !.raw = raw]
        BY <3>1 DEF Typed, Reg
      <3>. HIDE DEF raw
      <3>4. reg_init' \in Reg /\ reg_init'.fout > 0
        BY <3>2, <3>3 DEF Typed, Reg, raw
      <3>. QED
        BY <3>1, <3>4 DEF Typed
    <2>. QED
      BY <2>1, <2>2
  <1>5. Typed'
    BY <1>1, <1>3, <1>4 DEF Typed, Calls
  <1>6. Found'
    BY <1>1 DEF Found
  <1>7. Scripted'
    BY <1>2, <1>3 DEF Scripted
  <1>. QED
    BY <1>5, <1>6, <1>7

(* What a search computes, in values that fit.                             *)
LEMMA Searched ==
  ASSUME Typed, find_valid_combo
  PROVE  \E combo \in Combos(fnew), reg \in Reg :
           /\ reg_new' = val_to_regs(reg)
           /\ reg.fout = fnew /\ combo = <<reg.hsdiv, reg.n1>>
           /\ reg.rfreq = (fnew * reg.n1 * reg.hsdiv * fxtal[2]) \div fxtal[1]
  <1>1. fxtal # <<0, 0>>
    BY DEF find_valid_combo
  <1>2. PICK combo \in Combos(fnew) :
          reg_new' = val_to_regs(
            [reg_new EXCEPT !.fout = fnew, !.hsdiv = combo[1], !.n1 = combo[2],
                            !.rfreq = (fnew * combo[2] * combo[1] * fxtal[2]) \div fxtal[1]])
    BY DEF find_valid_combo
  <1>. DEFINE rfreq == (fnew * combo[2] * combo[1] * fxtal[2]) \div fxtal[1]
              reg == [reg_new EXCEPT !.fout = fnew, !.hsdiv = combo[1], !.n1 = combo[2],
                                     !.rfreq = rfreq]
  <1>3. fnew \in Nat \ {0} /\ fxtal[1] \in Nat \ {0} /\ fxtal[2] \in Nat
    BY <1>1, Constants DEF Typed
  <1>4. combo[1] \in Byte /\ combo[2] \in Byte /\ combo = <<combo[1], combo[2]>>
    BY <1>3, CombosAreBytes
  <1>5. rfreq \in Nat
    <2>1. \A x, y \in Nat : x * y \in Nat
      OBVIOUS
    <2>2. combo[1] \in Nat /\ combo[2] \in Nat /\ fnew \in Nat
      BY <1>3, <1>4 DEF Byte
    <2>3. fnew * combo[2] * combo[1] * fxtal[2] \in Nat
      BY <1>3, <2>1, <2>2
    <2>4. \A x \in Nat, y \in Nat \ {0} : x \div y \in Nat
      OBVIOUS
    <2>. QED
      BY <1>3, <2>3, <2>4
  <1>. HIDE DEF rfreq
  <1>6. /\ reg \in Reg /\ reg.fout = fnew /\ reg.hsdiv = combo[1] /\ reg.n1 = combo[2]
        /\ reg.rfreq = rfreq
    BY <1>3, <1>4, <1>5 DEF Typed, Reg
  <1>7. reg_new' = val_to_regs(reg)
    BY <1>2 DEF rfreq
  <1>. HIDE DEF reg
  <1>8. /\ combo = <<reg.hsdiv, reg.n1>>
        /\ reg.rfreq = (fnew * reg.n1 * reg.hsdiv * fxtal[2]) \div fxtal[1]
    BY <1>4, <1>6 DEF rfreq
  <1>. QED
    BY <1>6, <1>7, <1>8

(* A search leaves a combination of its frequency.                         *)
LEMMA Searching ==
  ASSUME IInv, find_valid_combo
  PROVE  IInv'
  <1>. USE DEF IInv
  <1>1. /\ Begin("find", <<>>) /\ sound' = trusted
        /\ UNCHANGED <<fnew, part, reg_init, reg_current, fxtal, trusted>>
    BY DEF find_valid_combo
  <1>2. PICK combo \in Combos(fnew), reg \in Reg :
          reg_new' = val_to_regs(reg) /\ reg.fout = fnew /\ combo = <<reg.hsdiv, reg.n1>>
    BY Searched
  <1>3. /\ reg_new' \in Reg /\ reg_new'.fout = fnew
        /\ reg_new'.hsdiv = reg.hsdiv /\ reg_new'.n1 = reg.n1
    BY <1>2, Encoded
  <1>4. /\ call' = "find" /\ script' = <<>> /\ failed' = {}
        /\ calls' \in 0 .. MaxCalls /\ faults' \in 0 .. MaxFaults /\ ChipTyped'
    BY <1>1, BeginTyped DEF Calls
  <1>5. Typed'
    BY <1>1, <1>3, <1>4 DEF Typed, Calls
  <1>6. Found'
    BY <1>2, <1>3 DEF Found
  <1>7. Scripted'
    BY <1>4 DEF Scripted
  <1>. QED
    BY <1>5, <1>6, <1>7

(* A send takes the settings over and plans its transfers.                 *)
LEMMA Sending ==
  ASSUME IInv, NEW hard \in BOOLEAN, send_regs(hard)
  PROVE  IInv'
  <1>. USE DEF IInv
  <1>. DEFINE raw == reg_new.raw
              what == IF hard THEN "send_hard" ELSE "send_smooth"
              transfers == SendTransfers(raw, hard)
  <1>1. /\ Begin(what, transfers) /\ reg_current' = reg_new
        /\ UNCHANGED <<fnew, part, reg_init, reg_new, fxtal, trusted, sound>>
    BY DEF send_regs
  <1>2. reg_current'.raw = raw
    BY <1>1
  <1>3. what \in Calls
    BY DEF Calls
  <1>. HIDE DEF raw
  <1>4. hard => transfers = <<FreezeDCO, Registers(raw), ReleaseDCO, Mark>>
    BY Concatenated DEF SendTransfers, InOrder, FreezeDCO, Registers, ReleaseDCO, Mark
  <1>5. ~ hard => transfers = <<FreezeM, Registers(raw), ReleaseM>>
    BY Concatenated DEF SendTransfers, InOrder, FreezeM, Registers, ReleaseM
  <1>. HIDE DEF transfers
  <1>6. /\ call' = what /\ script' = transfers /\ failed' = {}
        /\ calls' \in 0 .. MaxCalls /\ faults' \in 0 .. MaxFaults /\ ChipTyped'
    <2>. HIDE DEF what
    <2>. QED
      BY <1>1, <1>3, BeginTyped
  <1>7. Typed'
    BY <1>1, <1>3, <1>6 DEF Typed
  <1>8. Found'
    BY <1>1 DEF Found
  <1>9. Scripted'
    <2>1. CASE hard
      <3>1. call' = "send_hard" /\ script' = <<FreezeDCO, Registers(raw), ReleaseDCO, Mark>>
        BY <1>4, <1>6, <2>1
      <3>2. SendingHard'
        BY <1>2, <3>1 DEF SendingHard
      <3>. QED
        BY <3>1, <3>2 DEF Scripted
    <2>2. CASE ~ hard
      <3>1. call' = "send_smooth" /\ script' = <<FreezeM, Registers(raw), ReleaseM>>
        BY <1>5, <1>6, <2>2
      <3>2. SendingSmooth'
        BY <1>2, <3>1 DEF SendingSmooth
      <3>. QED
        BY <3>1, <3>2 DEF Scripted
    <2>. QED
      BY <2>1, <2>2
  <1>. QED
    BY <1>7, <1>8, <1>9

(* A download plans one transfer.                                          *)
LEMMA Downloading ==
  ASSUME IInv, registers_download
  PROVE  IInv'
  <1>. USE DEF IInv
  <1>1. /\ Begin("download", <<Fetch>>) /\ UNCHANGED <<trusted, sound>>
        /\ UNCHANGED <<fnew, part, reg_init, reg_current, reg_new, fxtal>>
    BY DEF registers_download, driver
  <1>2. /\ call' = "download" /\ script' = <<Fetch>> /\ failed' = {}
        /\ calls' \in 0 .. MaxCalls /\ faults' \in 0 .. MaxFaults /\ ChipTyped'
    BY <1>1, BeginTyped DEF Calls
  <1>3. Typed'
    BY <1>1, <1>2 DEF Typed, Calls
  <1>4. Found'
    BY <1>1 DEF Found
  <1>5. Scripted'
    BY <1>2 DEF Scripted
  <1>. QED
    BY <1>3, <1>4, <1>5

---------------------------------------------------------------------------
(* The transfers. *)

(* Transfers are told apart by their names.                                *)
LEMMA Names ==
  /\ FreezeDCO.what = "freeze" /\ FreezeM.what = "freeze"
  /\ ReleaseDCO.what = "unfreeze" /\ ReleaseM.what = "unfreeze"
  /\ Mark.what = "mark" /\ Recall.what = "recall" /\ Fetch.what = "fetch"
  /\ \A raw : Registers(raw).what = "write"
  BY DEF FreezeDCO, FreezeM, ReleaseDCO, ReleaseM, Mark, Recall, Fetch, Registers, Write

(* What a transfer that writes is made of.                                 *)
LEMMA WriteParts ==
  ASSUME NEW raw \in Raw, NEW t \in Controls \cup {Registers(raw)}
  PROVE  t.what \in Failures \ {"fetch"} /\ Len(t.data) \in Nat
  <1>1. t.what \in Failures \ {"fetch"}
    <2>1. t \in {FreezeDCO, FreezeM, ReleaseDCO, ReleaseM, Mark, Recall, Registers(raw)}
      BY DEF Controls
    <2>2. /\ "freeze" \in Failures \ {"fetch"} /\ "unfreeze" \in Failures \ {"fetch"}
          /\ "mark" \in Failures \ {"fetch"} /\ "recall" \in Failures \ {"fetch"}
          /\ "write" \in Failures \ {"fetch"}
      BY DEF Failures
    <2>. QED
      BY <2>1, <2>2, Names
  <1>2. CASE t \in Controls
    <2>1. \E x \in Byte : t.data = <<x>>
      BY <1>2 DEF Controls, FreezeDCO, FreezeM, ReleaseDCO, ReleaseM, Mark, Recall, Write, Byte
    <2>2. PICK x \in Byte : t.data = <<x>>
      BY <2>1
    <2>3. Len(<<x>>) = 1
      BY OneByte
    <2>4. Len(t.data) = 1
      BY <2>2, <2>3
    <2>. QED
      BY <1>1, <2>4
  <1>3. CASE t = Registers(raw)
    <2>1. t.data = raw
      BY <1>3 DEF Registers, Write
    <2>2. Len(raw) = 6
      BY RawParts
    <2>3. Len(t.data) = 6
      BY <2>1, <2>2
    <2>. QED
      BY <1>1, <2>3
  <1>. QED
    BY <1>2, <1>3

(* What a read leaves in its buffer is registers, whatever went wrong.     *)
LEMMA ReceivedRaw ==
  ASSUME Typed, NEW ok \in BOOLEAN, NEW raw \in Received(ok)
  PROVE  raw \in Raw
  <1>1. config \in Raw
    BY DEF Typed, ChipTyped
  <1>2. CASE ok
    BY <1>1, <1>2 DEF Received
  <1>3. Refused \in Raw
    <2>1. 255 \in Byte /\ FracBase - 1 \in Digit
      BY Constants DEF Byte, Digit
    <2>. QED
      BY <2>1, RawTuple DEF Refused
  <1>4. ASSUME NEW s \in [1 .. 5 -> Uninit] PROVE <<7>> \o s \in Raw
    <2>. DEFINE r == <<7>> \o s
    <2>1. Uninit \subseteq Digit /\ Digit \subseteq Byte /\ 7 \in Byte
      BY Constants DEF Byte
    <2>2. <<7>> \in Seq(Byte) /\ Len(<<7>>) = 1 /\ s \in Seq(Byte) /\ Len(s) = 5
      <3>1. s \in [1 .. 5 -> Byte]
        BY <2>1
      <3>2. s \in Seq(Byte) /\ Len(s) = 5
        <4>1. s = [k \in 1 .. 5 |-> s[k]] /\ \A k \in 1 .. 5 : s[k] \in Byte
          BY <3>1
        <4>. QED
          BY <4>1
      <3>3. <<7>> \in Seq(Byte) /\ Len(<<7>>) = 1
        BY <2>1
      <3>. QED
        BY <3>2, <3>3
    <2>3. /\ r \in Seq(Byte) /\ Len(r) = Len(<<7>>) + Len(s)
          /\ \A k \in 1 .. Len(<<7>>) + Len(s) :
               r[k] = IF k <= Len(<<7>>) THEN <<7>>[k] ELSE s[k - Len(<<7>>)]
      BY <2>2, ConcatProperties
    <2>4. Len(r) = 6 /\ \A k \in 3 .. 6 : r[k] = s[k - 1]
      BY <2>2, <2>3
    <2>. HIDE DEF r
    <2>5. \A k \in 3 .. 6 : r[k] \in Digit
      <3>1. \A k \in 3 .. 6 : s[k - 1] \in Digit
        BY <2>1
      <3>. QED
        BY <2>4, <3>1
    <2>. QED
      BY <2>3, <2>4, <2>5 DEF Raw, r
  <1>5. Buffers \subseteq Raw
    <2>1. reg_init.raw \in Raw
      BY DEF Typed, Reg
    <2>. QED
      BY <1>4, <2>1 DEF Buffers
  <1>6. CASE ~ ok
    <2>1. \/ raw = Refused
          \/ \E b \in Buffers, n \in 0 .. 5 : raw = Written(b, SubSeq(config, 1, n))
      BY <1>6 DEF Received
    <2>2. ASSUME NEW b \in Buffers, NEW n \in 0 .. 5
          PROVE  Written(b, SubSeq(config, 1, n)) \in Raw
      <3>1. b \in Raw /\ n \in 0 .. 6
        BY <1>5
      <3>. QED
        BY <1>1, <3>1, WrittenRaw
    <2>. QED
      BY <1>3, <2>1, <2>2
  <1>. QED
    BY <1>2, <1>6

(* A read, complete or not, is taken into the driver's structs.            *)
LEMMA Fetched ==
  ASSUME Typed, NEW ok \in BOOLEAN, Transfer(ok), Head(script) = Fetch
  PROVE  /\ reg_init' \in Reg /\ reg_init'.fout > 0 /\ reg_current' \in Reg
         /\ fxtal' = <<0, 0>> \/ fxtal' \in (Nat \ {0}) \X Nat
         /\ UNCHANGED <<fnew, part, reg_new>>
         /\ UNCHANGED <<config, frozenM, frozenDCO, locked>>
  <1>1. Head(script).what = "fetch"
    BY Names
  <1>2. /\ UNCHANGED <<fnew, part, reg_new>>
        /\ UNCHANGED <<config, frozenM, frozenDCO, locked>>
    BY <1>1 DEF Transfer, chip
  <1>3. PICK raw \in Received(ok) :
          IF call = "reload" THEN Loaded(raw)
          ELSE /\ reg_current' = [reg_current EXCEPT !.raw = raw]
               /\ UNCHANGED <<reg_init, fxtal>>
    BY <1>1 DEF Transfer
  <1>4. raw \in Raw
    BY ReceivedRaw
  <1>5. CASE call = "reload"
    BY <1>2, <1>3, <1>4, <1>5, LoadedTyped DEF Typed
  <1>6. CASE call # "reload"
    <2>1. reg_current' = [reg_current EXCEPT !.raw = raw] /\ UNCHANGED <<reg_init, fxtal>>
      BY <1>3, <1>6
    <2>2. reg_current' \in Reg
      BY <1>4, <2>1 DEF Typed, Reg
    <2>. QED
      BY <1>2, <2>1, <2>2 DEF Typed
  <1>. QED
    BY <1>5, <1>6

(* A write, complete or not, leaves the driver's structs alone.            *)
LEMMA Sent ==
  ASSUME Typed, NEW raw \in Raw, NEW ok \in BOOLEAN, Transfer(ok),
         Head(script) \in Controls \cup {Registers(raw)}
  PROVE  /\ UNCHANGED <<fnew, part, reg_init, reg_current, reg_new, fxtal>>
         /\ ChipTyped'
         /\ config' # config => Head(script) = Registers(raw) \/ Head(script) = Recall
         /\ ok => Complete(Head(script))
  <1>. DEFINE t == Head(script)
  <1>1. t.what # "fetch" /\ Len(t.data) \in Nat
    BY WriteParts
  <1>2. UNCHANGED <<fnew, part, reg_init, reg_current, reg_new, fxtal>>
    BY <1>1 DEF Transfer, driver
  <1>3. PICK n \in (IF ok THEN {Len(t.data)} ELSE 0 .. Len(t.data) - 1) :
          ChipTakes(t.at, SubSeq(t.data, 1, n))
    BY <1>1 DEF Transfer
  <1>4. n \in 0 .. Len(t.data) /\ (ok => n = Len(t.data))
    <2>1. CASE ok
      BY <1>1, <1>3, <2>1
    <2>2. CASE ~ ok
      BY <1>1, <1>3, <2>2
    <2>. QED
      BY <2>1, <2>2
  <1>. HIDE DEF t
  <1>5. t \in Controls \cup {Registers(raw)} /\ ChipTyped /\ part \in Parts
    BY DEF t, Typed
  <1>6. ChipTyped' /\ (config' # config => t = Registers(raw) \/ t = Recall)
    BY <1>3, <1>4, <1>5, WriteKeepsChip
  <1>7. ok => Complete(t)
    BY <1>3, <1>4 DEF Complete
  <1>. QED
    BY <1>2, <1>6, <1>7 DEF t

(* A transfer that fails is marked by its name.                            *)
Marked(ok) == failed' = IF ok THEN failed ELSE failed \cup {Head(script).what}

(* While nothing is marked, no transfer failed; a mark stays.              *)
LEMMA Marks ==
  ASSUME NEW ok \in BOOLEAN, Marked(ok)
  PROVE  /\ Clean' => ok /\ Clean
         /\ "freeze" \in failed => "freeze" \in failed'
         /\ ~ ok /\ Head(script).what = "freeze" => "freeze" \in failed'
  <1>1. CASE ok
    BY <1>1 DEF Marked, Clean
  <1>2. CASE ~ ok
    BY <1>2 DEF Marked, Clean
  <1>. QED
    BY <1>1, <1>2

(* A hard send, transfer by transfer.                                      *)
LEMMA HardStep ==
  ASSUME Typed, SendingHard, NEW ok \in BOOLEAN, Transfer(ok), Marked(ok)
  PROVE  /\ SendingHard' /\ Head(script).what \in Failures
         /\ UNCHANGED <<fnew, part, reg_init, reg_current, reg_new, fxtal>> /\ ChipTyped'
  <1>. DEFINE raw == reg_current.raw
  <1>1. raw \in Raw /\ ChipTyped
    BY DEF Typed, Reg
  <1>. HIDE DEF raw
  <1>2. script # <<>> /\ script' = Tail(script)
    BY DEF Transfer
  <1>3. ASSUME Head(script) \in {FreezeDCO, ReleaseDCO, Mark, Registers(raw)}
        PROVE  /\ UNCHANGED <<fnew, part, reg_init, reg_current, reg_new, fxtal>>
               /\ ChipTyped' /\ raw' = raw
               /\ ok => Complete(Head(script))
               /\ Head(script).what \in Failures
    <2>1. Head(script) \in Controls \cup {Registers(raw)}
      BY <1>3 DEF Controls
    <2>2. UNCHANGED <<fnew, part, reg_init, reg_current, reg_new, fxtal>>
          /\ ChipTyped' /\ (ok => Complete(Head(script)))
      BY <1>1, <2>1, Sent
    <2>3. Head(script).what \in Failures
      BY <1>1, <2>1, WriteParts
    <2>. QED
      BY <2>2, <2>3 DEF raw
  <1>4. CASE script = <<FreezeDCO, Registers(raw), ReleaseDCO, Mark>>
    <2>1. Head(script) = FreezeDCO /\ Tail(script) = <<Registers(raw), ReleaseDCO, Mark>>
      BY <1>4, FirstOfList
    <2>2. ok => frozenDCO'
      BY <1>1, <1>3, <2>1, CompleteWrites
    <2>3. ~ ok => "freeze" \in failed'
      BY <2>1, Names, Marks
    <2>4. frozenDCO' \/ "freeze" \in failed'
      BY <2>2, <2>3
    <2>5. script' = <<Registers(raw'), ReleaseDCO, Mark>>
      BY <1>2, <1>3, <2>1
    <2>6. SendingHard'
      BY <2>4, <2>5 DEF SendingHard, Frozen, raw
    <2>. QED
      BY <1>3, <2>1, <2>6
  <1>5. CASE script = <<Registers(raw), ReleaseDCO, Mark>>
    <2>1. Head(script) = Registers(raw) /\ Tail(script) = <<ReleaseDCO, Mark>>
      BY <1>5, FirstOfList
    <2>2. ok => config' = raw
      BY <1>1, <1>3, <2>1, CompleteWrites
    <2>3. Clean' => Taken'
      BY <1>3, <2>1, <2>2, Marks DEF Taken, raw
    <2>4. SendingHard'
      BY <1>2, <2>1, <2>3 DEF SendingHard
    <2>. QED
      BY <1>3, <2>1, <2>4
  <1>6. CASE script = <<ReleaseDCO, Mark>> /\ (Clean => Taken)
    <2>1. Head(script) = ReleaseDCO /\ Tail(script) = <<Mark>>
      BY <1>6, FirstOfList
    <2>2. ok => ~ frozenDCO' /\ config' = config
      BY <1>1, <1>3, <2>1, CompleteWrites
    <2>3. Clean' => Taken' /\ ~ frozenDCO'
      BY <1>3, <1>6, <2>1, <2>2, Marks DEF Taken
    <2>4. SendingHard'
      BY <1>2, <2>1, <2>3 DEF SendingHard
    <2>. QED
      BY <1>3, <2>1, <2>4
  <1>7. CASE script = <<Mark>> /\ (Clean => Taken /\ ~ frozenDCO)
    <2>1. Head(script) = Mark /\ Tail(script) = <<>>
      BY <1>7, FirstOfList
    <2>2. ok => ~ frozenM' /\ locked' /\ config' = config /\ frozenDCO' = frozenDCO
      BY <1>1, <1>3, <2>1, CompleteWrites
    <2>3. Clean' => Taken' /\ ~ frozenDCO' /\ ~ frozenM' /\ locked'
      BY <1>3, <1>7, <2>1, <2>2, Marks DEF Taken
    <2>4. SendingHard'
      BY <1>2, <2>1, <2>3 DEF SendingHard
    <2>. QED
      BY <1>3, <2>1, <2>4
  <1>. QED
    BY <1>2, <1>4, <1>5, <1>6, <1>7 DEF SendingHard, raw

(* A smooth send, transfer by transfer.                                    *)
LEMMA SmoothStep ==
  ASSUME Typed, SendingSmooth, NEW ok \in BOOLEAN, Transfer(ok), Marked(ok)
  PROVE  /\ SendingSmooth' /\ Head(script).what \in Failures
         /\ UNCHANGED <<fnew, part, reg_init, reg_current, reg_new, fxtal>> /\ ChipTyped'
  <1>. DEFINE raw == reg_current.raw
  <1>1. raw \in Raw /\ ChipTyped
    BY DEF Typed, Reg
  <1>. HIDE DEF raw
  <1>2. script # <<>> /\ script' = Tail(script)
    BY DEF Transfer
  <1>3. ASSUME Head(script) \in {FreezeM, ReleaseM, Registers(raw)}
        PROVE  /\ UNCHANGED <<fnew, part, reg_init, reg_current, reg_new, fxtal>>
               /\ ChipTyped' /\ raw' = raw
               /\ ok => Complete(Head(script))
               /\ Head(script).what \in Failures
    <2>1. Head(script) \in Controls \cup {Registers(raw)}
      BY <1>3 DEF Controls
    <2>2. UNCHANGED <<fnew, part, reg_init, reg_current, reg_new, fxtal>>
          /\ ChipTyped' /\ (ok => Complete(Head(script)))
      BY <1>1, <2>1, Sent
    <2>3. Head(script).what \in Failures
      BY <1>1, <2>1, WriteParts
    <2>. QED
      BY <2>2, <2>3 DEF raw
  <1>4. CASE script = <<FreezeM, Registers(raw), ReleaseM>>
    <2>1. Head(script) = FreezeM /\ Tail(script) = <<Registers(raw), ReleaseM>>
      BY <1>4, FirstOfList
    <2>2. ok => frozenM'
      BY <1>1, <1>3, <2>1, CompleteWrites
    <2>3. ~ ok => "freeze" \in failed'
      BY <2>1, Names, Marks
    <2>4. frozenM' \/ "freeze" \in failed'
      BY <2>2, <2>3
    <2>5. script' = <<Registers(raw'), ReleaseM>>
      BY <1>2, <1>3, <2>1
    <2>6. SendingSmooth'
      BY <2>4, <2>5 DEF SendingSmooth, Frozen, raw
    <2>. QED
      BY <1>3, <2>1, <2>6
  <1>5. CASE script = <<Registers(raw), ReleaseM>> /\ Frozen(frozenM)
    <2>1. Head(script) = Registers(raw) /\ Tail(script) = <<ReleaseM>>
      BY <1>5, FirstOfList
    <2>2. ok => config' = raw /\ frozenM' = frozenM
      BY <1>1, <1>3, <2>1, CompleteWrites
    <2>3. Clean => frozenM
      BY <1>5 DEF Frozen, Clean
    <2>4. Clean' => Taken' /\ frozenM'
      BY <1>3, <2>1, <2>2, <2>3, Marks DEF Taken, raw
    <2>5. SendingSmooth'
      BY <1>2, <2>1, <2>4 DEF SendingSmooth
    <2>. QED
      BY <1>3, <2>1, <2>5
  <1>6. CASE script = <<ReleaseM>> /\ (Clean => Taken /\ frozenM)
    <2>1. Head(script) = ReleaseM /\ Tail(script) = <<>>
      BY <1>6, FirstOfList
    <2>2. ok => ~ frozenM' /\ config' = config /\ (frozenM => locked')
      BY <1>1, <1>3, <2>1, CompleteWrites
    <2>3. Clean' => Taken' /\ ~ frozenM' /\ locked'
      BY <1>3, <1>6, <2>1, <2>2, Marks DEF Taken
    <2>4. SendingSmooth'
      BY <1>2, <2>1, <2>3 DEF SendingSmooth
    <2>. QED
      BY <1>3, <2>1, <2>4
  <1>. QED
    BY <1>2, <1>4, <1>5, <1>6 DEF SendingSmooth, raw

(* The same of a reload and of a download.                                 *)
LEMMA ReadStep ==
  ASSUME Typed, Scripted, call \in {"reload", "download"},
         NEW ok \in BOOLEAN, Transfer(ok)
  PROVE  /\ script' \in {<<Fetch>>, <<>>} /\ (call = "download" => script' = <<>>)
         /\ Head(script).what \in Failures
         /\ reg_init' \in Reg /\ reg_init'.fout > 0 /\ reg_current' \in Reg
         /\ fxtal' = <<0, 0>> \/ fxtal' \in (Nat \ {0}) \X Nat
         /\ UNCHANGED <<fnew, part, reg_new>> /\ ChipTyped'
         /\ call = "download" => UNCHANGED config
  <1>1. script # <<>> /\ script' = Tail(script)
    BY DEF Transfer
  <1>2. \/ script = <<Fetch>>
        \/ call = "reload" /\ script \in {<<Recall>>, <<Recall, Fetch>>}
    <2>1. CASE call = "reload"
      BY <1>1, <2>1 DEF Scripted
    <2>2. CASE call = "download"
      BY <1>1, <2>2 DEF Scripted
    <2>. QED
      BY <2>1, <2>2
  <1>3. CASE script = <<Fetch>>
    <2>1. Head(script) = Fetch /\ script' = <<>>
      BY <1>1, <1>3, FirstOfList
    <2>2. Head(script).what \in Failures
      BY <2>1, Names DEF Failures
    <2>3. /\ reg_init' \in Reg /\ reg_init'.fout > 0 /\ reg_current' \in Reg
          /\ fxtal' = <<0, 0>> \/ fxtal' \in (Nat \ {0}) \X Nat
          /\ UNCHANGED <<fnew, part, reg_new>>
          /\ UNCHANGED <<config, frozenM, frozenDCO, locked>>
      BY <2>1, Fetched
    <2>. QED
      BY <2>1, <2>2, <2>3 DEF Typed, ChipTyped
  <1>4. CASE call = "reload" /\ script \in {<<Recall>>, <<Recall, Fetch>>}
    <2>. DEFINE raw == config
    <2>1. Head(script) = Recall /\ script' \in {<<Fetch>>, <<>>}
      BY <1>1, <1>4, FirstOfList
    <2>2. raw \in Raw /\ Head(script) \in Controls \cup {Registers(raw)}
      BY <2>1 DEF Typed, ChipTyped, Controls
    <2>. HIDE DEF raw
    <2>3. UNCHANGED <<fnew, part, reg_init, reg_current, reg_new, fxtal>> /\ ChipTyped'
      BY <2>2, Sent
    <2>4. Head(script).what \in Failures
      BY <2>2, WriteParts
    <2>. QED
      BY <1>4, <2>1, <2>3, <2>4 DEF Typed
  <1>. QED
    BY <1>2, <1>3, <1>4

(* A transfer of any call, complete or not.                                *)
LEMMA Transferring ==
  ASSUME IInv, NEW ok \in BOOLEAN, Transfer(ok), Marked(ok),
         faults' \in 0 .. MaxFaults, trusted' \in BOOLEAN
  PROVE  IInv'
  <1>. USE DEF IInv
  <1>1. script # <<>> /\ UNCHANGED <<call, calls, sound>>
    BY DEF Transfer
  <1>2. /\ Head(script).what \in Failures /\ Scripted'
        /\ reg_init' \in Reg /\ reg_init'.fout > 0 /\ reg_current' \in Reg
        /\ fxtal' = <<0, 0>> \/ fxtal' \in (Nat \ {0}) \X Nat
        /\ UNCHANGED <<fnew, part, reg_new>> /\ ChipTyped'
    <2>1. CASE call \in {"reload", "download"}
      <3>1. /\ script' \in {<<Fetch>>, <<>>} /\ (call = "download" => script' = <<>>)
            /\ Head(script).what \in Failures
            /\ reg_init' \in Reg /\ reg_init'.fout > 0 /\ reg_current' \in Reg
            /\ fxtal' = <<0, 0>> \/ fxtal' \in (Nat \ {0}) \X Nat
            /\ UNCHANGED <<fnew, part, reg_new>> /\ ChipTyped'
        BY <2>1, ReadStep
      <3>2. Scripted'
        BY <1>1, <2>1, <3>1 DEF Scripted
      <3>. QED
        BY <3>1, <3>2
    <2>2. CASE call = "send_hard"
      <3>1. SendingHard
        BY <2>2 DEF Scripted
      <3>2. /\ SendingHard' /\ Head(script).what \in Failures
            /\ UNCHANGED <<fnew, part, reg_init, reg_current, reg_new, fxtal>> /\ ChipTyped'
        BY <3>1, HardStep
      <3>3. Scripted'
        BY <1>1, <2>2, <3>2 DEF Scripted
      <3>. QED
        BY <3>2, <3>3 DEF Typed
    <2>3. CASE call = "send_smooth"
      <3>1. SendingSmooth
        BY <2>3 DEF Scripted
      <3>2. /\ SendingSmooth' /\ Head(script).what \in Failures
            /\ UNCHANGED <<fnew, part, reg_init, reg_current, reg_new, fxtal>> /\ ChipTyped'
        BY <3>1, SmoothStep
      <3>3. Scripted'
        BY <1>1, <2>3, <3>2 DEF Scripted
      <3>. QED
        BY <3>2, <3>3 DEF Typed
    <2>4. CASE call \notin {"reload", "download", "send_hard", "send_smooth"}
      BY <1>1, <2>4 DEF Scripted
    <2>. QED
      BY <2>1, <2>2, <2>3, <2>4
  <1>3. failed' \subseteq Failures
    <2>1. CASE ok
      BY <2>1 DEF Marked, Typed
    <2>2. CASE ~ ok
      BY <1>2, <2>2 DEF Marked, Typed
    <2>. QED
      BY <2>1, <2>2
  <1>4. Typed'
    BY <1>1, <1>2, <1>3 DEF Typed
  <1>5. Found'
    BY <1>2 DEF Found
  <1>. QED
    BY <1>2, <1>4, <1>5

(* The transfer a program is killed in is one of the call's.               *)
LEMMA HeadOfScript ==
  ASSUME IInv, script # <<>>
  PROVE  \/ Head(script) = Fetch
         \/ Head(script) \in Controls \cup {Registers(reg_current.raw)}
  <1>. USE DEF IInv
  <1>. DEFINE raw == reg_current.raw
  <1>. HIDE DEF raw
  <1>1. CASE call = "reload"
    <2>1. script \in {<<Recall>>, <<Recall, Fetch>>, <<Fetch>>}
      BY <1>1 DEF Scripted
    <2>2. Head(script) \in {Recall, Fetch}
      BY <2>1, FirstOfList
    <2>. QED
      BY <2>2 DEF Controls
  <1>2. CASE call = "download"
    <2>1. script = <<Fetch>>
      BY <1>2 DEF Scripted
    <2>. QED
      BY <2>1, FirstOfList
  <1>3. CASE call = "send_hard"
    <2>1. \/ script = <<FreezeDCO, Registers(raw), ReleaseDCO, Mark>>
          \/ script = <<Registers(raw), ReleaseDCO, Mark>>
          \/ script = <<ReleaseDCO, Mark>>
          \/ script = <<Mark>>
      BY <1>3 DEF Scripted, SendingHard, raw
    <2>2. Head(script) \in {FreezeDCO, Registers(raw), ReleaseDCO, Mark}
      BY <2>1, FirstOfList
    <2>. QED
      BY <2>2 DEF Controls, raw
  <1>4. CASE call = "send_smooth"
    <2>1. \/ script = <<FreezeM, Registers(raw), ReleaseM>>
          \/ script = <<Registers(raw), ReleaseM>>
          \/ script = <<ReleaseM>>
      BY <1>4 DEF Scripted, SendingSmooth, raw
    <2>2. Head(script) \in {FreezeM, Registers(raw), ReleaseM}
      BY <2>1, FirstOfList
    <2>. QED
      BY <2>2 DEF Controls, raw
  <1>. QED
    BY <1>1, <1>2, <1>3, <1>4 DEF Scripted

(* The registers are written at their place in a send: after the freeze.   *)
LEMMA WrittenFrozen ==
  ASSUME IInv, script # <<>>, Head(script) = Registers(reg_current.raw)
  PROVE  frozenM \/ frozenDCO \/ "freeze" \in failed
  <1>. USE DEF IInv
  <1>. DEFINE raw == reg_current.raw
  <1>1. Head(script).what = "write" /\ Head(script) = Registers(raw)
    BY Names
  <1>. HIDE DEF raw
  <1>2. Head(script) \notin Controls \cup {Fetch}
    BY <1>1, Names DEF Controls
  <1>3. call \in {"send_hard", "send_smooth"}
    <2>1. CASE call = "reload"
      <3>1. script \in {<<Recall>>, <<Recall, Fetch>>, <<Fetch>>}
        BY <2>1 DEF Scripted
      <3>2. Head(script) \in {Recall, Fetch}
        BY <3>1, FirstOfList
      <3>. QED
        BY <1>2, <3>2 DEF Controls
    <2>2. CASE call = "download"
      <3>1. script = <<Fetch>>
        BY <2>2 DEF Scripted
      <3>. QED
        BY <1>2, <3>1, FirstOfList
    <2>. QED
      BY <2>1, <2>2 DEF Scripted
  <1>4. CASE call = "send_hard"
    <2>1. \/ script = <<FreezeDCO, Registers(raw), ReleaseDCO, Mark>>
          \/ script = <<Registers(raw), ReleaseDCO, Mark>> /\ (frozenDCO \/ "freeze" \in failed)
          \/ script = <<ReleaseDCO, Mark>>
          \/ script = <<Mark>>
      BY <1>4 DEF Scripted, SendingHard, Frozen, raw
    <2>2. script # <<FreezeDCO, Registers(raw), ReleaseDCO, Mark>>
      BY <1>2, FirstOfList DEF Controls
    <2>3. script # <<ReleaseDCO, Mark>> /\ script # <<Mark>>
      BY <1>2, FirstOfList DEF Controls
    <2>. QED
      BY <2>1, <2>2, <2>3
  <1>5. CASE call = "send_smooth"
    <2>1. \/ script = <<FreezeM, Registers(raw), ReleaseM>>
          \/ script = <<Registers(raw), ReleaseM>> /\ (frozenM \/ "freeze" \in failed)
          \/ script = <<ReleaseM>>
      BY <1>5 DEF Scripted, SendingSmooth, Frozen, raw
    <2>2. script # <<FreezeM, Registers(raw), ReleaseM>>
      BY <1>2, FirstOfList DEF Controls
    <2>3. script # <<ReleaseM>>
      BY <1>2, FirstOfList DEF Controls
    <2>. QED
      BY <2>1, <2>2, <2>3
  <1>. QED
    BY <1>3, <1>4, <1>5

(* What the transfer that a program is killed in does to the chip.         *)
LEMMA KillTouches ==
  ASSUME IInv, Kill
  PROVE  /\ ChipTyped'
         /\ config' # config =>
              script # <<>> /\ Head(script) \in {Recall, Registers(reg_current.raw)}
  <1>. USE DEF IInv
  <1>. DEFINE raw == reg_current.raw
              t == Head(script)
  <1>1. raw \in Raw /\ ChipTyped /\ part \in Parts
    BY DEF Typed, Reg
  <1>2. ASSUME UNCHANGED <<config, frozenM, frozenDCO, locked>>
        PROVE  ChipTyped' /\ config' = config
    BY <1>1, <1>2 DEF ChipTyped
  <1>3. CASE script = <<>> /\ UNCHANGED chip
    BY <1>2, <1>3 DEF chip
  <1>4. CASE script # <<>> /\ \E n \in 0 .. Len(t.data) : ChipTakes(t.at, SubSeq(t.data, 1, n))
    <2>1. PICK n \in 0 .. Len(t.data) : ChipTakes(t.at, SubSeq(t.data, 1, n))
      BY <1>4
    <2>2. CASE t = Fetch
      <3>1. t.data = <<>>
        BY <2>2 DEF Fetch
      <3>2. n = 0
        BY <3>1
      <3>3. SubSeq(t.data, 1, n) = <<>>
        BY <3>1, <3>2, SubSeqEmpty
      <3>4. ChipTakes(t.at, <<>>)
        BY <2>1, <3>3
      <3>. HIDE DEF t
      <3>. QED
        BY <1>2, <3>4, TakesNothing
    <2>3. CASE t \in Controls \cup {Registers(raw)}
      <3>. HIDE DEF t, raw
      <3>1. ChipTyped' /\ (config' # config => t = Registers(raw) \/ t = Recall)
        BY <1>1, <2>1, <2>3, WriteKeepsChip
      <3>. QED
        BY <1>4, <3>1 DEF t, raw
    <2>. QED
      BY <1>4, <2>2, <2>3, HeadOfScript
  <1>. QED
    BY <1>3, <1>4 DEF Kill

(* A new program starts from empty structs, with the chip as it was left.  *)
LEMMA Killing ==
  ASSUME IInv, Kill
  PROVE  IInv'
  <1>. USE DEF IInv
  <1>1. /\ faults < MaxFaults /\ faults' = faults + 1
        /\ script' = <<>> /\ call' = "none" /\ failed' = {} /\ calls' = 0
        /\ trusted' = FALSE /\ sound' = FALSE
        /\ UNCHANGED <<fnew, part>>
    BY DEF Kill, Faulty
  <1>2. /\ reg_init' = [Zero EXCEPT !.fout = part.fout0]
        /\ reg_current' = Zero /\ reg_new' = Zero /\ fxtal' = <<0, 0>>
    <2>1. Unset(reg_init', reg_current', reg_new', fxtal')
      BY DEF Kill
    <2>2. /\ reg_init' = [Zero EXCEPT !.fout = part.fout0]
          /\ reg_current' = Zero /\ reg_new' = Zero
          /\ fxtal' = <<0, 0>>
      BY <2>1 DEF Unset
    <2>. QED
      BY <2>2
  <1>3. ChipTyped'
    BY KillTouches
  <1>4. Typed'
    <2>1. faults' \in 0 .. MaxFaults /\ calls' \in 0 .. MaxCalls
      BY <1>1, Constants DEF Typed
    <2>2. reg_init' \in Reg /\ reg_init'.fout > 0 /\ reg_current' \in Reg /\ reg_new' \in Reg
      BY <1>2, UnsetTyped DEF Typed
    <2>. QED
      BY <1>1, <1>2, <1>3, <2>1, <2>2 DEF Typed, Calls, Failures
  <1>5. Found'
    <2>1. reg_new'.fout = 0
      BY <1>2 DEF Zero
    <2>. QED
      BY <2>1 DEF Found, InRange, freq_min, freq_max
  <1>6. Scripted'
    BY <1>1 DEF Scripted
  <1>. QED
    BY <1>4, <1>5, <1>6

---------------------------------------------------------------------------
(* The specification. *)

(* The first program starts from empty structs.                            *)
LEMMA Starting ==
  ASSUME Init
  PROVE  IInv
  <1>1. /\ reg_init = [Zero EXCEPT !.fout = part.fout0]
        /\ reg_current = Zero /\ reg_new = Zero /\ fxtal = <<0, 0>>
    BY DEF Init, Unset
  <1>2. /\ fnew \in Freqs /\ part \in Parts
        /\ call = "none" /\ script = <<>> /\ failed = {}
        /\ calls = 0 /\ faults = 0 /\ trusted = FALSE /\ sound = FALSE
        /\ config \in Raw
        /\ frozenM = FALSE /\ frozenDCO = FALSE /\ locked = TRUE
    BY Constants DEF Init
  <1>3. Typed
    <2>1. faults \in 0 .. MaxFaults /\ calls \in 0 .. MaxCalls
      BY <1>2, Constants
    <2>2. reg_init \in Reg /\ reg_init.fout > 0 /\ reg_current \in Reg /\ reg_new \in Reg
      BY <1>1, <1>2, UnsetTyped
    <2>3. ChipTyped
      BY <1>2 DEF ChipTyped
    <2>. QED
      BY <1>1, <1>2, <2>1, <2>2, <2>3 DEF Typed, Calls, Failures
  <1>4. Found
    <2>1. reg_new.fout = 0
      BY <1>1 DEF Zero
    <2>. QED
      BY <2>1 DEF Found, InRange, freq_min, freq_max
  <1>5. Scripted
    BY <1>2 DEF Scripted
  <1>. QED
    BY <1>3, <1>4, <1>5 DEF IInv

(* Every step keeps the invariant.                                         *)
LEMMA Stepping ==
  ASSUME IInv, [Next]_vars
  PROVE  IInv'
  <1>1. CASE reload_initial
    BY <1>1, Reloading
  <1>2. CASE find_valid_combo
    BY <1>2, Searching
  <1>3. ASSUME NEW hard \in BOOLEAN, send_regs(hard) PROVE IInv'
    BY <1>3, Sending
  <1>4. CASE registers_download
    BY <1>4, Downloading
  <1>5. CASE Done
    <2>1. /\ Transfer(TRUE) /\ Marked(TRUE)
          /\ faults' \in 0 .. MaxFaults /\ trusted' \in BOOLEAN
      BY <1>5 DEF Done, Marked, IInv, Typed
    <2>. QED
      BY <2>1, Transferring
  <1>6. CASE Fail
    <2>1. Transfer(FALSE) /\ Marked(FALSE)
      BY <1>6 DEF Fail, Marked
    <2>2. faults' \in 0 .. MaxFaults
      BY <1>6, Constants DEF Fail, Faulty, IInv, Typed
    <2>3. trusted' \in BOOLEAN
      BY <1>6 DEF Fail
    <2>. QED
      BY <2>1, <2>2, <2>3, Transferring
  <1>7. CASE Kill
    BY <1>7, Killing
  <1>8. CASE UNCHANGED vars
    <2>1. Typed'
      BY <1>8 DEF IInv, Typed, ChipTyped, vars, driver, chip
    <2>2. Found'
      BY <1>8 DEF IInv, Found, vars, driver, chip
    <2>3. Scripted'
      <3>1. UNCHANGED <<reg_current, call, script, failed, config, frozenM, frozenDCO, locked>>
        BY <1>8 DEF vars, driver, chip
      <3>2. SendingHard => SendingHard'
        BY <3>1 DEF SendingHard, Frozen, Clean, Taken
      <3>3. SendingSmooth => SendingSmooth'
        BY <3>1 DEF SendingSmooth, Frozen, Clean, Taken
      <3>. QED
        BY <3>1, <3>2, <3>3 DEF IInv, Scripted
    <2>. QED
      BY <2>1, <2>2, <2>3 DEF IInv
  <1>. QED
    BY <1>1, <1>2, <1>3, <1>4, <1>5, <1>6, <1>7, <1>8 DEF Next

(* The structs, the scripts and the chip agree, at every transfer and      *)
(* after every failure (81-282).                                           *)
THEOREM Invariance == Spec => []IInv
  <1>1. Init => IInv
    BY Starting
  <1>2. IInv /\ [Next]_vars => IInv'
    BY Stepping
  <1>. QED
    BY <1>1, <1>2, PTL DEF Spec

(* Every field keeps what its C type and the chip's registers can hold.    *)
THEOREM TypeCorrect == Spec => []TypeOK
  <1>1. ASSUME IInv PROVE TypeOK
    <2>1. \A r \in (Nat \ {0}) \X Nat : r \in Nat \X Nat
      OBVIOUS
    <2>2. fxtal \in Nat \X Nat
      BY <1>1, <2>1 DEF IInv, Typed
    <2>3. Len(script) <= 4
      <3>1. /\ Len(<<>>) = 0
            /\ \A a : Len(<<a>>) = 1
            /\ \A a, b : Len(<<a, b>>) = 2
            /\ \A a, b, c : Len(<<a, b, c>>) = 3
            /\ \A a, b, c, d : Len(<<a, b, c, d>>) = 4
        OBVIOUS
      <3>2. /\ \A s : s = <<>> => Len(s) <= 4
            /\ \A s, a : s = <<a>> => Len(s) <= 4
            /\ \A s, a, b : s = <<a, b>> => Len(s) <= 4
            /\ \A s, a, b, c : s = <<a, b, c>> => Len(s) <= 4
            /\ \A s, a, b, c, d : s = <<a, b, c, d>> => Len(s) <= 4
        <4>1. 0 <= 4 /\ 1 <= 4 /\ 2 <= 4 /\ 3 <= 4 /\ 4 <= 4
          OBVIOUS
        <4>. QED
          BY <3>1, <4>1, Zenon
      <3>3. \/ script = <<>> \/ (\E a : script = <<a>>) \/ (\E a, b : script = <<a, b>>)
            \/ (\E a, b, c : script = <<a, b, c>>)
            \/ (\E a, b, c, d : script = <<a, b, c, d>>)
        <4>1. CASE call = "send_hard"
          BY <1>1, <4>1 DEF IInv, Scripted, SendingHard
        <4>2. CASE call = "send_smooth"
          BY <1>1, <4>2 DEF IInv, Scripted, SendingSmooth
        <4>3. CASE call \notin {"send_hard", "send_smooth"}
          BY <1>1, <4>3 DEF IInv, Scripted
        <4>. QED
          BY <4>1, <4>2, <4>3
      <3>. QED
        BY <3>2, <3>3, Zenon
    <2>. QED
      BY <1>1, <2>2, <2>3 DEF IInv, Typed, ChipTyped, TypeOK, Calls, Failures
  <1>. QED
    BY <1>1, Invariance, PTL

(* For every frequency of the part the search ends with a combination in   *)
(* the oscillator's range: the one with the smallest product, and with the *)
(* highest speed divider of those (104-148).                               *)
THEOREM AlwaysSmallestDivider == Spec => []SmallestDivider
  <1>1. ASSUME IInv PROVE SmallestDivider
    <2>. SUFFICES ASSUME InRange(reg_new.fout) PROVE SmallestDivider
      BY DEF SmallestDivider
    <2>. DEFINE f == reg_new.fout
                h == reg_new.hsdiv
                n == reg_new.n1
                good == {g \in VALID_HS_DIV \X ({1} \cup {2 * k : k \in 1 .. 64}) :
                           f * g[1] * g[2] \in fdco_min .. fdco_max}
    <2>1. f \in freq_min .. freq_max /\ <<h, n>> \in Combos(f)
      BY <1>1 DEF IInv, Found, InRange
    <2>2. /\ h \in VALID_HS_DIV /\ n \in OutputDivs /\ InFdco(f, h * n)
          /\ \A x \in VALID_HS_DIV, y \in OutputDivs :
               InFdco(f, x * y) => h * n < x * y \/ (h * n = x * y /\ x <= h)
      <3>. DEFINE c == <<h, n>>
      <3>1. /\ c[1] \in VALID_HS_DIV /\ c[2] \in OutputDivs
            /\ InFdco(f, c[1] * c[2])
            /\ \A x \in VALID_HS_DIV, y \in OutputDivs :
                 InFdco(f, x * y) =>
                   c[1] * c[2] < x * y \/ (c[1] * c[2] = x * y /\ x <= c[1])
        <4>. HIDE DEF c
        <4>. QED
          BY <2>1, CombinationFound DEF c
      <3>2. c[1] = h /\ c[2] = n
        OBVIOUS
      <3>. QED
        BY <3>1, <3>2
    <2>. HIDE DEF f, h, n
    <2>3. f \in Nat
      BY <2>1 DEF freq_min, freq_max
    <2>4. VALID_HS_DIV \subseteq Nat /\ OutputDivs \subseteq Nat
      BY DEF VALID_HS_DIV, OutputDivs
    <2>5. \A x \in VALID_HS_DIV, y \in OutputDivs :
            f * x * y \in fdco_min .. fdco_max <=> InFdco(f, x * y)
      <3>1. ASSUME NEW x \in Nat, NEW y \in Nat
            PROVE  f * x * y = f * (x * y) /\ f * (x * y) \in Nat
        BY <2>3
      <3>2. ASSUME NEW x \in Nat, NEW y \in Nat
            PROVE  f * x * y \in fdco_min .. fdco_max <=> InFdco(f, x * y)
        <4>. DEFINE p == f * (x * y)
        <4>1. f * x * y = p /\ p \in Nat
          BY <3>1
        <4>. HIDE DEF p
        <4>2. p \in fdco_min .. fdco_max <=> fdco_min <= p /\ p <= fdco_max
          BY <4>1 DEF fdco_min, fdco_max
        <4>. QED
          BY <4>1, <4>2 DEF InFdco, p
      <3>. QED
        BY <2>4, <3>2
    <2>6. \A g : g \in good <=> /\ g \in VALID_HS_DIV \X OutputDivs
                                /\ InFdco(f, g[1] * g[2])
      BY <2>5 DEF OutputDivs
    <2>. HIDE DEF good
    <2>7. <<h, n>> \in good
      BY <2>2, <2>6
    <2>8. \A g \in good : h * n < g[1] * g[2] \/ (h * n = g[1] * g[2] /\ g[1] <= h)
      BY <2>2, <2>6
    <2>. QED
      BY <2>7, <2>8 DEF SmallestDivider, f, h, n, good
  <1>. QED
    BY <1>1, Invariance, PTL

(* A send without a failed transfer leaves the chip running on what the    *)
(* driver believes it set, released from its own freeze, whatever failed   *)
(* or was killed before (221-254).                                         *)
THEOREM AlwaysSendSettles == Spec => []SendSettles
  <1>1. ASSUME IInv PROVE SendSettles
    <2>1. ASSUME script = <<>>, call = "send_hard", failed = {}
          PROVE  config = reg_current.raw /\ locked /\ ~ frozenM /\ ~ frozenDCO
      <3>1. SendingHard
        BY <1>1, <2>1 DEF IInv, Scripted
      <3>2. Taken /\ ~ frozenDCO /\ ~ frozenM /\ locked
        BY <2>1, <3>1, ListsDiffer DEF SendingHard, Clean
      <3>. QED
        BY <3>2 DEF Taken
    <2>2. ASSUME script = <<>>, call = "send_smooth", failed = {}
          PROVE  config = reg_current.raw /\ locked /\ ~ frozenM
      <3>1. SendingSmooth
        BY <1>1, <2>2 DEF IInv, Scripted
      <3>2. Taken /\ ~ frozenM /\ locked
        BY <2>2, <3>1, ListsDiffer DEF SendingSmooth, Clean
      <3>. QED
        BY <3>2 DEF Taken
    <2>. QED
      BY <2>1, <2>2 DEF SendSettles, Returned
  <1>. QED
    BY <1>1, Invariance, PTL

(* But for a recall, the chip's settings change only while it is frozen,   *)
(* or when the transfer that freezes it has failed, be the program killed  *)
(* in the midst of the write (221-254).                                    *)
THEOREM AlwaysChangesFrozen == Spec => ChangesFrozen
  <1>. DEFINE A == config' # config /\ call # "reload" =>
                     frozenM \/ frozenDCO \/ "freeze" \in failed
  <1>1. ASSUME IInv, Next PROVE A
    <2>. SUFFICES ASSUME config' # config, call # "reload"
                  PROVE  frozenM \/ frozenDCO \/ "freeze" \in failed
      OBVIOUS
    <2>1. script # <<>> /\ Head(script) \in {Recall, Registers(reg_current.raw)}
      <3>1. CASE reload_initial \/ find_valid_combo \/ registers_download
                 \/ \E hard \in BOOLEAN : send_regs(hard)
        <4>1. UNCHANGED chip
          BY <3>1 DEF reload_initial, find_valid_combo, registers_download, send_regs, Begin
        <4>. QED
          BY <4>1 DEF chip
      <3>2. CASE Done \/ Fail
        <4>1. PICK ok \in BOOLEAN : Transfer(ok)
          BY <3>2 DEF Done, Fail
        <4>2. script # <<>>
          BY <4>1 DEF Transfer
        <4>3. CASE Head(script) = Fetch
          BY <1>1, <4>1, <4>3, Fetched DEF IInv
        <4>4. CASE Head(script) \in Controls \cup {Registers(reg_current.raw)}
          <5>1. reg_current.raw \in Raw
            BY <1>1 DEF IInv, Typed, Reg
          <5>. QED
            BY <1>1, <4>1, <4>2, <4>4, <5>1, Sent DEF IInv
        <4>. QED
          BY <1>1, <4>2, <4>3, <4>4, HeadOfScript
      <3>3. CASE Kill
        BY <1>1, <3>3, KillTouches
      <3>. QED
        BY <1>1, <3>1, <3>2, <3>3 DEF Next
    <2>2. Head(script) # Recall
      <3>1. ASSUME Head(script) = Recall PROVE FALSE
        <4>1. Head(script) \notin {Fetch, FreezeDCO, FreezeM, ReleaseDCO, ReleaseM, Mark,
                                   Registers(reg_current.raw)}
          BY <3>1, Names
        <4>2. CASE call = "send_hard"
          <5>1. Head(script) \in {FreezeDCO, Registers(reg_current.raw), ReleaseDCO, Mark}
            BY <1>1, <2>1, <4>2, FirstOfList DEF IInv, Scripted, SendingHard
          <5>. QED
            BY <4>1, <5>1
        <4>3. CASE call = "send_smooth"
          <5>1. Head(script) \in {FreezeM, Registers(reg_current.raw), ReleaseM}
            BY <1>1, <2>1, <4>3, FirstOfList DEF IInv, Scripted, SendingSmooth
          <5>. QED
            BY <4>1, <5>1
        <4>4. CASE call = "download"
          BY <1>1, <2>1, <4>1, <4>4, FirstOfList DEF IInv, Scripted
        <4>. QED
          BY <1>1, <2>1, <4>2, <4>3, <4>4 DEF IInv, Scripted
      <3>. QED
        BY <3>1
    <2>. QED
      BY <1>1, <2>1, <2>2, WrittenFrozen
  <1>2. IInv /\ [Next]_vars => [A]_vars
    BY <1>1
  <1>. QED
    BY <1>2, Invariance, PTL DEF Spec, ChangesFrozen

---------------------------------------------------------------------------
(* What a reload, a search and a send without a failure leave. *)

(* What was read without a failure is the part's crystal, or will be when  *)
(* the recalled registers have been read.                                  *)
CrystalRead ==
  trusted => IF call = "reload" /\ script = <<Recall, Fetch>> THEN TRUE
             ELSE IF call = "reload" /\ script = <<Fetch>> THEN config = part.raw
             ELSE fxtal = FactoryCrystal(part)

(* What was computed from it is in the registers that a send takes.        *)
Computed ==
  sound => LET r == reg_new
               x == FactoryCrystal(part)
           IN /\ r = val_to_regs(r)
              /\ r.rfreq = (r.fout * r.n1 * r.hsdiv * x[2]) \div x[1]

Tuned ==
  /\ reg_init.fout = part.fout0
  /\ CrystalRead /\ Computed
  /\ call \in {"send_hard", "send_smooth"} => reg_current = reg_new

---------------------------------------------------------------------------
(* Settings that are written are read back. *)

(* A quotient below m.                                                     *)
LEMMA QuotientBelow ==
  ASSUME NEW a \in Nat, NEW d \in Nat \ {0}, NEW m \in Nat, a < d * m
  PROVE  a \div d \in 0 .. m - 1
  <1>. DEFINE q == a \div d
  <1>1. q \in Nat /\ d * q <= a
    OBVIOUS
  <1>. HIDE DEF q
  <1>2. ASSUME m <= q PROVE FALSE
    <2>1. d * m <= d * q
      BY <1>1, <1>2
    <2>. QED
      BY <1>1, <2>1
  <1>. QED
    BY <1>1, <1>2 DEF q

(* The values of a setting depend on its registers only.                   *)
LEMMA SameRegisters ==
  ASSUME NEW a \in Reg, NEW b \in Reg, a.raw = b.raw
  PROVE  /\ regs_to_val(a).hsdiv = regs_to_val(b).hsdiv
         /\ regs_to_val(a).n1 = regs_to_val(b).n1
         /\ regs_to_val(a).rfreq = regs_to_val(b).rfreq
  <1>1. \A r \in Reg :
          /\ regs_to_val(r).hsdiv = (r.raw[1] \div 32) + 4
          /\ regs_to_val(r).n1 = N1(((r.raw[1] % 32) * 4) + (r.raw[2] \div 64))
          /\ regs_to_val(r).rfreq = Rfreq(r.raw)
    BY DEF regs_to_val, Reg
  <1>. QED
    BY <1>1

(* The number of n1 fits its seven bits, and stands for n1.                *)
LEMMA OutputRead ==
  ASSUME NEW n \in OutputDivs
  PROVE  N1Code(n) \in 0 .. 127 /\ N1(N1Code(n)) = n
  <1>1. CASE n = 1
    BY <1>1 DEF N1Code, N1
  <1>2. CASE n # 1
    <2>1. PICK k \in 1 .. 64 : n = 2 * k
      BY <1>2 DEF OutputDivs
    <2>. DEFINE c == 2 * k - 1
    <2>2. N1Code(n) = c /\ c \in 0 .. 127
      BY <1>2, <2>1 DEF N1Code
    <2>3. c # 0 /\ c % 2 = 1
      OBVIOUS
    <2>. HIDE DEF c
    <2>4. N1(c) = c + 1
      BY <2>2, <2>3 DEF N1
    <2>. QED
      BY <2>1, <2>2, <2>4 DEF c
  <1>. QED
    BY <1>1, <1>2

(* Two bits with nothing above them.                                       *)
LEMMA OrWithNone ==
  ASSUME NEW b \in 0 .. 3
  PROVE  Or2(0, b) = b
  <1>1. \A x \in 0 .. 1 : Max({0, x}) = x
    <2>1. ASSUME NEW x \in 0 .. 1 PROVE Max({0, x}) = x
      <3>1. \E y \in {0, x} : \A z \in {0, x} : y >= z
        OBVIOUS
      <3>2. Max({0, x}) \in {0, x} /\ \A z \in {0, x} : Max({0, x}) >= z
        BY <3>1 DEF Max
      <3>. QED
        BY <3>2
    <2>. QED
      BY <2>1
  <1>2. /\ (0 \div 2) % 2 = 0 /\ (0 \div 1) % 2 = 0
        /\ (b \div 2) % 2 \in 0 .. 1 /\ (b \div 1) % 2 \in 0 .. 1
        /\ 2 * ((b \div 2) % 2) + ((b \div 1) % 2) = b
    OBVIOUS
  <1>3. Or2(0, b) = 2 * Max({(0 \div 2) % 2, (b \div 2) % 2})
                      + Max({(0 \div 1) % 2, (b \div 1) % 2})
    BY DEF Or2
  <1>. QED
    BY <1>1, <1>2, <1>3

(* The six registers of a setting whose dividers are the part's and whose  *)
(* reference fits are read as what was written.                            *)
LEMMA ReadBack ==
  ASSUME NEW reg \in Reg, reg.hsdiv \in VALID_HS_DIV, reg.n1 \in OutputDivs,
         reg.rfreq < 64 * FracBase * FracBase * FracBase * FracBase,
         NEW is \in Reg, is.raw = val_to_regs(reg).raw
  PROVE  /\ regs_to_val(is).hsdiv = reg.hsdiv
         /\ regs_to_val(is).n1 = reg.n1
         /\ regs_to_val(is).rfreq = reg.rfreq
  <1>. DEFINE B  == FracBase
              h  == reg.hsdiv
              n  == N1Code(reg.n1)
              q0 == reg.rfreq
              q1 == q0 \div B
              q2 == q1 \div B
              q3 == q2 \div B
              q4 == q3 \div B
              a  == HsdivCode(h) + ((n \div 4) % 32)
              o  == Or2((q4 \div 64) % 4, n % 4)
              b  == (q4 % 64) + (64 * o)
              raw == <<a, b, q3 % B, q2 % B, q1 % B, q0 % B>>
  <1>1. is.raw = raw
    BY DEF val_to_regs, Reg
  <1>2. h \in VALID_HS_DIV /\ n \in 0 .. 127 /\ N1(n) = reg.n1
    BY OutputRead
  <1>3. q0 \in Nat /\ B \in Nat \ {0} /\ q0 < 64 * B * B * B * B
    BY Constants DEF Reg
  <1>. HIDE DEF B, h, n, q0
  <1>4. ASSUME NEW x \in Nat, NEW m \in Nat, x < m * B
        PROVE  x \div B \in Nat /\ x \div B < m /\ (x \div B) * B + (x % B) = x
    <2>1. x < B * m
      BY <1>3, <1>4
    <2>2. x \div B \in 0 .. m - 1
      BY <1>3, <2>1, QuotientBelow
    <2>3. (x \div B) * B + (x % B) = x
      BY <1>3
    <2>. QED
      BY <2>2, <2>3
  <1>. DEFINE m1 == 64 * B
              m2 == m1 * B
              m3 == m2 * B
  <1>5. m1 \in Nat /\ m2 \in Nat /\ m3 \in Nat /\ q0 < m3 * B
    BY <1>3
  <1>. HIDE DEF m3
  <1>6. q1 \in Nat /\ q1 < m3 /\ q1 * B + (q0 % B) = q0
    BY <1>3, <1>4, <1>5
  <1>. HIDE DEF q1, m2
  <1>7. q2 \in Nat /\ q2 < m2 /\ q2 * B + (q1 % B) = q1
    BY <1>4, <1>5, <1>6 DEF m3
  <1>. HIDE DEF q2, m1
  <1>8. q3 \in Nat /\ q3 < m1 /\ q3 * B + (q2 % B) = q2
    BY <1>4, <1>5, <1>7 DEF m2
  <1>. HIDE DEF q3
  <1>9. q4 \in 0 .. 63 /\ q4 * B + (q3 % B) = q3
    <2>1. q4 \in Nat /\ q4 < 64 /\ q4 * B + (q3 % B) = q3
      BY <1>4, <1>8 DEF m1
    <2>. HIDE DEF q4
    <2>. QED
      BY <2>1
  <1>. HIDE DEF q4
  <1>10. o = n % 4
    <2>1. (q4 \div 64) % 4 = 0 /\ n % 4 \in 0 .. 3
      BY <1>2, <1>9
    <2>. QED
      BY <2>1, OrWithNone
  <1>. HIDE DEF o
  <1>11. b % 64 = q4 /\ b \div 64 = n % 4
    BY <1>2, <1>9, <1>10
  <1>12. (a \div 32) + 4 = h /\ ((a % 32) * 4) + (n % 4) = n
    <2>1. HsdivCode(h) = 32 * (h - 4) /\ h - 4 \in 0 .. 7
      BY <1>2 DEF HsdivCode, VALID_HS_DIV
    <2>2. (n \div 4) % 32 = n \div 4 /\ n \div 4 \in 0 .. 31
      BY <1>2
    <2>3. a \div 32 = h - 4 /\ a % 32 = n \div 4
      BY <2>1, <2>2
    <2>. QED
      BY <1>2, <2>1, <2>3 DEF VALID_HS_DIV
  <1>. HIDE DEF a, b
  <1>13. Rfreq(raw) = q0
    <2>1. Rfreq(raw) =
            ((((b % 64) * B + (q3 % B)) * B + (q2 % B)) * B + (q1 % B)) * B + (q0 % B)
      BY DEF Rfreq, B
    <2>. QED
      BY <1>6, <1>7, <1>8, <1>9, <1>11, <2>1
  <1>14. raw[1] = a /\ raw[2] = b
    OBVIOUS
  <1>15. regs_to_val(is).hsdiv = (a \div 32) + 4
         /\ regs_to_val(is).n1 = N1(((a % 32) * 4) + (b \div 64))
         /\ regs_to_val(is).rfreq = Rfreq(raw)
    <2>. HIDE DEF raw
    <2>. QED
      BY <1>1, <1>14 DEF regs_to_val, Reg
  <1>. QED
    BY <1>2, <1>11, <1>12, <1>13, <1>15 DEF h, q0

---------------------------------------------------------------------------
(* What a reload, a search and a send without a failure leave stays true. *)

(* The crystal of a part.                                                  *)
LEMMA CrystalTyped ==
  ASSUME NEW p \in Parts
  PROVE  /\ FactoryCrystal(p)[1] \in Nat \ {0} /\ FactoryCrystal(p)[2] \in Nat
         /\ fdco_max * FactoryCrystal(p)[2]
              < FactoryCrystal(p)[1] * (64 * FracBase * FracBase * FracBase * FracBase)
  <1>. DEFINE reg == [Zero EXCEPT !.raw = p.raw]
              f   == regs_to_val(reg)
  <1>1. reg \in Reg
    BY UnsetTyped, Constants DEF Reg
  <1>. HIDE DEF reg
  <1>2. f.hsdiv \in Nat \ {0} /\ f.n1 \in Nat \ {0} /\ f.rfreq \in Nat
    BY <1>1, Decoded DEF Reg
  <1>. HIDE DEF f
  <1>3. FactoryCrystal(p) = <<p.fout0 * f.hsdiv * f.n1, f.rfreq>>
    BY DEF FactoryCrystal, Factory, f, reg
  <1>4. p.fout0 \in Nat \ {0}
    BY Constants
  <1>5. \A x, y \in Nat \ {0} : x * y \in Nat \ {0}
    OBVIOUS
  <1>6. p.fout0 * f.hsdiv * f.n1 \in Nat \ {0}
    BY <1>2, <1>4, <1>5
  <1>. QED
    BY <1>2, <1>3, <1>6, CrystalAssumption

(* It is what is computed from the part's settings.                        *)
LEMMA CrystalOfPart ==
  ASSUME NEW p \in Parts, NEW reg \in Reg, reg.raw = p.raw, reg.fout = p.fout0
  PROVE  Crystal(regs_to_val(reg)) = FactoryCrystal(p)
  <1>. DEFINE new == [Zero EXCEPT !.raw = p.raw]
  <1>1. new \in Reg /\ new.raw = p.raw
    BY UnsetTyped, Constants DEF Reg
  <1>2. FactoryCrystal(p) =
          <<p.fout0 * regs_to_val(new).hsdiv * regs_to_val(new).n1, regs_to_val(new).rfreq>>
    BY DEF FactoryCrystal, Factory
  <1>. HIDE DEF new
  <1>3. /\ regs_to_val(reg).hsdiv = regs_to_val(new).hsdiv
        /\ regs_to_val(reg).n1 = regs_to_val(new).n1
        /\ regs_to_val(reg).rfreq = regs_to_val(new).rfreq
    BY <1>1, SameRegisters
  <1>4. regs_to_val(reg).fout = p.fout0
    BY Decoded
  <1>. QED
    BY <1>2, <1>3, <1>4 DEF Crystal

(* Encoding keeps the reference, and does not depend on what was encoded.  *)
LEMMA EncodedTwice ==
  ASSUME NEW reg \in Reg
  PROVE  /\ val_to_regs(reg).rfreq = reg.rfreq
         /\ val_to_regs(reg) = val_to_regs(val_to_regs(reg))
  <1>. DEFINE raw(r) == val_to_regs(r).raw
  <1>1. \A r : r \in Reg => val_to_regs(r) = [r EXCEPT !.raw = raw(r)]
    BY DEF val_to_regs, Reg
  <1>2. \A r, s \in Reg : r.hsdiv = s.hsdiv /\ r.n1 = s.n1 /\ r.rfreq = s.rfreq
                            => raw(r) = raw(s)
    BY DEF val_to_regs, Reg
  <1>. HIDE DEF raw
  <1>. DEFINE once == val_to_regs(reg)
  <1>3. once \in Reg /\ once.hsdiv = reg.hsdiv /\ once.n1 = reg.n1
    BY Encoded
  <1>4. once = [reg EXCEPT !.raw = raw(reg)]
    BY <1>1
  <1>. HIDE DEF once
  <1>5. once.rfreq = reg.rfreq
    BY <1>4 DEF Reg
  <1>6. raw(once) = raw(reg)
    BY <1>2, <1>3, <1>5
  <1>7. val_to_regs(once) = [once EXCEPT !.raw = raw(reg)]
    BY <1>1, <1>3, <1>6
  <1>8. [once EXCEPT !.raw = raw(reg)] = once
    BY <1>4 DEF Reg
  <1>. QED
    BY <1>5, <1>7, <1>8 DEF once

(* What has not changed keeps what was computed.                           *)
LEMMA ComputedStays ==
  ASSUME Computed, UNCHANGED <<part, reg_new, sound>>
  PROVE  Computed'
  BY DEF Computed

(* Between calls, what was read is the crystal.                            *)
LEMMA ReadBetween ==
  ASSUME CrystalRead, trusted, script = <<>>
  PROVE  fxtal = FactoryCrystal(part)
  BY ListsDiffer DEF CrystalRead

(* A new program knows the frequency its part starts up with.              *)
LEMMA TunedStart ==
  ASSUME NEW p \in Parts, NEW init, NEW current, NEW new, NEW crystal,
         part = p, Unset(init, current, new, crystal)
  PROVE  init.fout = p.fout0
  BY UnsetTyped DEF Unset, Reg

(* A reload asks for the crystal, or knows it.                             *)
LEMMA TunedReload ==
  ASSUME IInv, Tuned, reload_initial
  PROVE  Tuned'
  <1>. DEFINE old == [reg_init EXCEPT !.raw = part.raw]
  <1>1. /\ Begin("reload", <<Recall>> \o (IF part.fixed THEN <<>> ELSE <<Fetch>>))
        /\ UNCHANGED <<part, reg_new, sound>>
        /\ IF part.fixed THEN Loaded(part.raw)
           ELSE reg_init' = [reg_init EXCEPT !.raw[1] = 7]
    BY DEF reload_initial, Recall
  <1>2. /\ part \in Parts /\ reg_init \in Reg /\ part.raw \in Raw
        /\ reg_init.fout = part.fout0
    BY Constants DEF IInv, Typed, Tuned
  <1>3. /\ call' = "reload"
        /\ script' = IF part.fixed THEN <<Recall>> ELSE <<Recall, Fetch>>
    BY <1>1, Concatenated DEF Begin
  <1>4. CASE part.fixed
    <2>1. old \in Reg /\ old.raw = part.raw /\ old.fout = part.fout0
      BY <1>2 DEF Reg
    <2>2. reg_init' = regs_to_val(old) /\ fxtal' = Crystal(regs_to_val(old))
      BY <1>1, <1>4 DEF Loaded
    <2>. HIDE DEF old
    <2>3. fxtal' = FactoryCrystal(part) /\ reg_init'.fout = part.fout0
      BY <1>2, <2>1, <2>2, CrystalOfPart, Decoded
    <2>4. script' # <<Fetch>> /\ script' # <<Recall, Fetch>>
      <3>1. Head(<<Recall>>) # Head(<<Fetch>>) /\ Tail(<<Recall>>) # Tail(<<Recall, Fetch>>)
        BY FirstOfList, ListsDiffer, Names
      <3>. QED
        BY <1>3, <1>4, <3>1
    <2>. QED
      BY <1>1, <1>3, <2>3, <2>4, ComputedStays DEF Tuned, CrystalRead
  <1>5. CASE ~ part.fixed
    <2>1. reg_init'.fout = part.fout0
      BY <1>1, <1>2, <1>5 DEF Reg
    <2>. QED
      BY <1>1, <1>3, <1>5, <2>1, ComputedStays DEF Tuned, CrystalRead
  <1>. QED
    BY <1>4, <1>5

(* A search computes with it.                                              *)
LEMMA TunedSearch ==
  ASSUME IInv, Tuned, find_valid_combo
  PROVE  Tuned'
  <1>1. /\ Begin("find", <<>>) /\ sound' = trusted
        /\ UNCHANGED <<part, reg_init, reg_current, fxtal, trusted>>
    BY DEF find_valid_combo
  <1>2. PICK reg \in Reg :
          /\ reg_new' = val_to_regs(reg) /\ reg.fout = fnew
          /\ reg.rfreq = (fnew * reg.n1 * reg.hsdiv * fxtal[2]) \div fxtal[1]
    BY Searched DEF IInv
  <1>3. trusted => fxtal = FactoryCrystal(part)
    BY <1>1, ReadBetween DEF Begin, Returned, Tuned
  <1>4. call' = "find"
    BY <1>1 DEF Begin
  <1>5. CrystalRead'
    BY <1>1, <1>3, <1>4 DEF CrystalRead
  <1>6. Computed'
    <2>. DEFINE new == val_to_regs(reg)
    <2>1. /\ new.fout = reg.fout /\ new.n1 = reg.n1 /\ new.hsdiv = reg.hsdiv
          /\ new.rfreq = reg.rfreq /\ new = val_to_regs(new)
      BY Encoded, EncodedTwice
    <2>. HIDE DEF new
    <2>2. reg_new' = new
      BY <1>2 DEF new
    <2>3. reg_new' = val_to_regs(reg_new')
      BY <2>1, <2>2
    <2>4. sound' => fxtal = FactoryCrystal(part)
      BY <1>1, <1>3
    <2>5. reg_new'.rfreq =
            (reg_new'.fout * reg_new'.n1 * reg_new'.hsdiv * fxtal[2]) \div fxtal[1]
      BY <1>2, <2>1, <2>2
    <2>6. part' = part
      BY <1>1
    <2>. QED
      BY <2>3, <2>4, <2>5, <2>6 DEF Computed
  <1>. QED
    BY <1>1, <1>4, <1>5, <1>6 DEF Tuned

(* A send takes it over, and a download takes nothing.                     *)
LEMMA TunedCall ==
  ASSUME IInv, Tuned, registers_download \/ \E hard \in BOOLEAN : send_regs(hard)
  PROVE  Tuned'
  <1>1. /\ script = <<>> /\ UNCHANGED <<part, reg_init, reg_new, fxtal, trusted, sound>>
        /\ call' \in {"download", "send_hard", "send_smooth"}
        /\ call' # "download" => reg_current' = reg_new
    BY DEF registers_download, send_regs, driver, Begin, Returned
  <1>2. CrystalRead'
    BY <1>1, ReadBetween DEF Tuned, CrystalRead
  <1>. QED
    BY <1>1, <1>2, ComputedStays DEF Tuned

(* A recall that is complete gives the chip the part's settings.           *)
LEMMA Recalled ==
  ASSUME Complete(Recall)
  PROVE  config' = part.raw
  <1>1. Recall.at = "ctl" /\ Recall.data = <<1>>
    BY DEF Recall, Write
  <1>2. 1 \in Byte /\ Bit(1, 1)
    BY DEF Byte, Bit
  <1>3. SubSeq(Recall.data, 1, Len(Recall.data)) = <<1>>
    BY <1>1, <1>2, OneByte
  <1>. QED
    BY <1>1, <1>2, <1>3, TakesControl DEF Complete

(* A transfer of a reload.                                                 *)
LEMMA TunedRead ==
  ASSUME IInv, Tuned, call = "reload", NEW ok \in BOOLEAN, Transfer(ok),
         trusted' => ok /\ trusted
  PROVE  Tuned'
  <1>1. /\ script # <<>> /\ script' = Tail(script) /\ UNCHANGED <<call, sound>>
    BY DEF Transfer
  <1>2. UNCHANGED <<part, reg_new>>
    BY ReadStep DEF IInv, Transfer
  <1>3. part \in Parts /\ reg_init \in Reg /\ reg_init.fout = part.fout0
    BY DEF IInv, Typed, Tuned
  <1>4. script \in {<<Recall>>, <<Recall, Fetch>>, <<Fetch>>}
    BY <1>1 DEF IInv, Scripted
  <1>5. CASE script \in {<<Recall>>, <<Recall, Fetch>>}
    <2>1. Head(script) = Recall /\ (script = <<Recall>> => script' = <<>>)
          /\ (script = <<Recall, Fetch>> => script' = <<Fetch>>)
      BY <1>1, <1>5, FirstOfList
    <2>2. config \in Raw /\ Head(script) \in Controls \cup {Registers(config)}
      BY <2>1 DEF IInv, Typed, ChipTyped, Controls
    <2>3. UNCHANGED <<reg_init, fxtal>> /\ (ok => config' = part.raw)
      BY <2>1, <2>2, Sent, Recalled DEF IInv
    <2>4. script = <<Recall>> => script # <<Recall, Fetch>> /\ script # <<Fetch>>
      <3>1. Head(<<Recall>>) # Head(<<Fetch>>) /\ Tail(<<Recall>>) # Tail(<<Recall, Fetch>>)
        BY FirstOfList, ListsDiffer, Names
      <3>. QED
        BY <3>1
    <2>5. CrystalRead'
      <3>1. CASE script = <<Recall>>
        <4>1. trusted' => fxtal' = FactoryCrystal(part')
          BY <1>2, <2>3, <2>4, <3>1 DEF Tuned, CrystalRead
        <4>2. script' # <<Recall, Fetch>> /\ script' # <<Fetch>>
          BY <2>1, <3>1, ListsDiffer
        <4>. QED
          BY <4>1, <4>2 DEF CrystalRead
      <3>2. CASE script = <<Recall, Fetch>>
        <4>1. script' = <<Fetch>> /\ call' = "reload" /\ (trusted' => config' = part'.raw)
          BY <1>1, <1>2, <2>1, <2>3, <3>2
        <4>2. <<Fetch>> # <<Recall, Fetch>>
          <5>1. Head(<<Fetch>>) # Head(<<Recall, Fetch>>)
            BY FirstOfList, Names
          <5>. QED
            BY <5>1
        <4>. QED
          BY <4>1, <4>2 DEF CrystalRead
      <3>. QED
        BY <1>5, <3>1, <3>2
    <2>. QED
      BY <1>1, <1>2, <1>3, <2>3, <2>5, ComputedStays DEF Tuned
  <1>6. CASE script = <<Fetch>>
    <2>1. Head(script).what = "fetch" /\ script' = <<>>
      BY <1>1, <1>6, FirstOfList, Names
    <2>2. PICK raw \in Received(ok) : Loaded(raw)
      BY <2>1 DEF Transfer
    <2>3. raw \in Raw
      BY ReceivedRaw DEF IInv
    <2>. DEFINE old == [reg_init EXCEPT !.raw = raw]
    <2>4. old \in Reg /\ old.raw = raw /\ old.fout = part.fout0
      BY <1>3, <2>3 DEF Reg
    <2>5. reg_init' = regs_to_val(old) /\ fxtal' = Crystal(regs_to_val(old))
      BY <2>2 DEF Loaded
    <2>. HIDE DEF old
    <2>6. reg_init'.fout = part'.fout0
      BY <1>2, <2>4, <2>5, Decoded
    <2>7. trusted' => raw = part.raw
      <3>1. trusted => config = part.raw
        <4>1. <<Fetch>> # <<Recall, Fetch>>
          <5>1. Head(<<Fetch>>) # Head(<<Recall, Fetch>>)
            BY FirstOfList, Names
          <5>. QED
            BY <5>1
        <4>. QED
          BY <1>6, <4>1 DEF Tuned, CrystalRead
      <3>2. ok => raw = config
        BY <2>2 DEF Received
      <3>. QED
        BY <3>1, <3>2
    <2>8. trusted' => fxtal' = FactoryCrystal(part')
      BY <1>2, <1>3, <2>4, <2>5, <2>7, CrystalOfPart
    <2>9. CrystalRead'
      BY <2>1, <2>8, ListsDiffer DEF CrystalRead
    <2>. QED
      BY <1>1, <1>2, <2>6, <2>9, ComputedStays DEF Tuned
  <1>. QED
    BY <1>4, <1>5, <1>6

(* A transfer of another call.                                             *)
LEMMA TunedTransfer ==
  ASSUME IInv, Tuned, NEW ok \in BOOLEAN, Transfer(ok), Marked(ok),
         trusted' = (trusted /\ (ok \/ call # "reload"))
  PROVE  Tuned'
  <1>1. script # <<>> /\ UNCHANGED <<call, sound>>
    BY DEF Transfer
  <1>2. CASE call = "reload"
    BY <1>2, TunedRead
  <1>3. ASSUME call # "reload",
               UNCHANGED <<part, reg_init, reg_new, fxtal>>,
               call \in {"send_hard", "send_smooth"} => reg_current' = reg_current
        PROVE  Tuned'
    <2>1. CrystalRead'
      BY <1>1, <1>3 DEF Tuned, CrystalRead
    <2>. QED
      BY <1>1, <1>3, <2>1, ComputedStays DEF Tuned
  <1>4. CASE call = "send_hard"
    <2>1. Typed /\ SendingHard
      BY <1>4 DEF IInv, Scripted
    <2>. QED
      BY <1>3, <1>4, <2>1, HardStep
  <1>5. CASE call = "send_smooth"
    <2>1. Typed /\ SendingSmooth
      BY <1>5 DEF IInv, Scripted
    <2>. QED
      BY <1>3, <1>5, <2>1, SmoothStep
  <1>6. CASE call = "download"
    <2>1. Head(script).what = "fetch"
      BY <1>1, <1>6, FirstOfList, Names DEF IInv, Scripted
    <2>2. UNCHANGED <<part, reg_init, reg_new, fxtal>>
      BY <1>6, <2>1 DEF Transfer
    <2>. QED
      BY <1>3, <1>6, <2>2
  <1>7. CASE call \notin {"reload", "send_hard", "send_smooth", "download"}
    BY <1>1, <1>7 DEF IInv, Scripted
  <1>. QED
    BY <1>2, <1>4, <1>5, <1>6, <1>7


(* A new program has read nothing.                                         *)
LEMMA TunedKill ==
  ASSUME IInv, Tuned, Kill
  PROVE  Tuned'
  <1>1. /\ Unset(reg_init', reg_current', reg_new', fxtal')
        /\ call' = "none" /\ trusted' = FALSE /\ sound' = FALSE /\ part' = part
    BY DEF Kill
  <1>2. reg_init'.fout = part.fout0
    BY <1>1, TunedStart DEF IInv, Typed
  <1>3. CrystalRead' /\ Computed'
    BY <1>1 DEF CrystalRead, Computed
  <1>. QED
    BY <1>1, <1>2, <1>3 DEF Tuned

(* Nor has the first.                                                      *)
LEMMA TunedInit == Init => Tuned
  <1>. SUFFICES ASSUME Init PROVE Tuned
    OBVIOUS
  <1>1. /\ Unset(reg_init, reg_current, reg_new, fxtal)
        /\ call = "none" /\ trusted = FALSE /\ sound = FALSE /\ part \in Parts
    BY DEF Init
  <1>2. reg_init.fout = part.fout0
    BY <1>1, TunedStart
  <1>3. CrystalRead /\ Computed
    BY <1>1 DEF CrystalRead, Computed
  <1>. QED
    BY <1>1, <1>2, <1>3 DEF Tuned

(* Every step keeps what was read and computed.                            *)
LEMMA NextTuned == IInv /\ Tuned /\ [Next]_vars => Tuned'
  <1>. SUFFICES ASSUME IInv, Tuned, [Next]_vars PROVE Tuned'
    OBVIOUS
  <1>1. CASE reload_initial
    BY <1>1, TunedReload
  <1>2. CASE find_valid_combo
    BY <1>2, TunedSearch
  <1>3. CASE registers_download \/ \E hard \in BOOLEAN : send_regs(hard)
    BY <1>3, TunedCall
  <1>4. CASE Done
    <2>1. Transfer(TRUE) /\ Marked(TRUE) /\ trusted' = trusted
      BY <1>4 DEF Done, Marked
    <2>. QED
      BY <2>1, TunedTransfer DEF IInv, Typed
  <1>5. CASE Fail
    <2>1. Transfer(FALSE) /\ Marked(FALSE) /\ trusted' = (trusted /\ call # "reload")
      BY <1>5 DEF Fail, Marked
    <2>. QED
      BY <2>1, TunedTransfer
  <1>6. CASE Kill
    BY <1>6, TunedKill
  <1>7. CASE UNCHANGED vars
    <2>1. UNCHANGED <<part, reg_init, reg_current, reg_new, fxtal, call, script, trusted,
                      sound, config>>
      BY <1>7 DEF vars, driver, chip
    <2>2. CrystalRead'
      BY <2>1 DEF Tuned, CrystalRead
    <2>. QED
      BY <2>1, <2>2, ComputedStays DEF Tuned
  <1>. QED
    BY <1>1, <1>2, <1>3, <1>4, <1>5, <1>6, <1>7 DEF Next

(* What was read without a failure is the part's crystal, and what was     *)
(* computed from it is what a send takes, whatever failed or was killed    *)
(* before (81-187).                                                        *)
THEOREM AlwaysTuned == Spec => []Tuned
  BY TunedInit, NextTuned, Invariance, PTL DEF Spec

(* What the chip holds after a send is what the search computed.           *)
LEMMA Settled ==
  ASSUME IInv, Tuned, script = <<>>, call \in {"send_hard", "send_smooth"}, failed = {}
  PROVE  config = reg_new.raw
  <1>1. CASE call = "send_hard"
    BY <1>1, ListsDiffer DEF IInv, Scripted, SendingHard, Clean, Taken, Tuned
  <1>2. CASE call = "send_smooth"
    BY <1>2, ListsDiffer DEF IInv, Scripted, SendingSmooth, Clean, Taken, Tuned
  <1>. QED
    BY <1>1, <1>2

(* Frequencies and dividers are numbers.                                   *)
LEMMA SearchNatural ==
  /\ freq_min .. freq_max \subseteq Nat
  /\ VALID_HS_DIV \subseteq Nat /\ OutputDivs \subseteq Nat
  BY DEF freq_min, freq_max, VALID_HS_DIV, OutputDivs

(* Once a frequency of the part was sent without a failed transfer, the    *)
(* chip's own registers give it to the last bit of the reference, whatever *)
(* failed or was killed before (81-187, 221-282).                          *)
THEOREM AlwaysTunedAsAsked == Spec => []TunedAsAsked
  <1>1. ASSUME IInv, Tuned PROVE TunedAsAsked
    <2>. SUFFICES ASSUME script = <<>>, call \in {"send_hard", "send_smooth"}, failed = {},
                         sound, InRange(reg_new.fout)
                  PROVE  TunedAsAsked
      BY DEF TunedAsAsked, Returned
    <2>. DEFINE r  == reg_new
                f  == reg_new.fout
                h  == reg_new.hsdiv
                n  == reg_new.n1
                x  == FactoryCrystal(part)
                is == [Zero EXCEPT !.raw = config]
                now == regs_to_val(is)
                top == 64 * FracBase * FracBase * FracBase * FracBase
    <2>1. r \in Reg /\ part \in Parts /\ config \in Raw /\ config = r.raw
      BY <1>1, Settled DEF IInv, Typed, ChipTyped
    <2>2. f \in freq_min .. freq_max /\ <<h, n>> \in Combos(f)
      BY <1>1 DEF IInv, Found, InRange
    <2>3. h \in VALID_HS_DIV /\ n \in OutputDivs /\ InFdco(f, h * n)
      <3>. DEFINE c == <<h, n>>
      <3>1. c \in Combos(f) /\ c[1] = h /\ c[2] = n
        BY <2>2
      <3>. HIDE DEF c
      <3>2. c[1] \in VALID_HS_DIV /\ c[2] \in OutputDivs /\ InFdco(f, c[1] * c[2])
        BY <2>2, <3>1, CombinationFound
      <3>. QED
        BY <3>1, <3>2
    <2>4. r = val_to_regs(r) /\ r.rfreq = (f * n * h * x[2]) \div x[1]
      BY <1>1 DEF Tuned, Computed
    <2>5. x[1] \in Nat \ {0} /\ x[2] \in Nat /\ fdco_max * x[2] < x[1] * top
      BY <2>1, CrystalTyped
    <2>6. is \in Reg /\ is.raw = r.raw
      BY <2>1, UnsetTyped DEF Reg
    <2>7. f \in Nat /\ h \in Nat /\ n \in Nat
      BY <2>2, <2>3, SearchNatural
    <2>8. top \in Nat
      BY Constants
    <2>. HIDE DEF r, f, h, n, x, is, top
    <2>. DEFINE d == f * h * n
    <2>9. /\ f * n * h = d /\ d \in Nat /\ fdco_min <= d /\ d <= fdco_max
      BY <2>3, <2>7 DEF InFdco
    <2>. HIDE DEF d
    <2>10. r.rfreq = (d * x[2]) \div x[1]
      BY <2>4, <2>9
    <2>11. d * x[2] \in Nat /\ d * x[2] < x[1] * top
      <3>1. d * x[2] <= fdco_max * x[2] /\ d * x[2] \in Nat /\ fdco_max * x[2] \in Nat
        BY <2>5, <2>9 DEF fdco_max
      <3>2. x[1] * top \in Nat
        BY <2>5, <2>8
      <3>. QED
        BY <2>5, <3>1, <3>2
    <2>. DEFINE m == d * x[2]
                q == r.rfreq
    <2>12. q \in Nat /\ q < top /\ m - (x[1] * q) \in 0 .. x[1] - 1
      <3>1. m \in Nat /\ m < x[1] * top /\ q = m \div x[1]
        BY <2>10, <2>11
      <3>. HIDE DEF m, q
      <3>2. q \in 0 .. top - 1
        BY <2>5, <2>8, <3>1, QuotientBelow
      <3>3. m - (x[1] * q) \in 0 .. x[1] - 1
        <4>. DEFINE y == x[1]
        <4>1. y \in Nat \ {0} /\ m \in Nat /\ q = m \div y
          BY <2>5, <3>1
        <4>. HIDE DEF y
        <4>2. y * q <= m /\ m < y * q + y /\ y * q \in Nat
          BY <4>1
        <4>3. m - (y * q) \in 0 .. y - 1
          BY <4>1, <4>2
        <4>. QED
          BY <4>3 DEF y
      <3>. QED
        BY <2>8, <3>2, <3>3
    <2>13. now.hsdiv = h /\ now.n1 = n /\ now.rfreq = q
      <3>1. r \in Reg /\ r.hsdiv \in VALID_HS_DIV /\ r.n1 \in OutputDivs
        BY <2>1, <2>3 DEF r, h, n
      <3>2. is.raw = val_to_regs(r).raw
        BY <2>4, <2>6
      <3>3. r.rfreq < 64 * FracBase * FracBase * FracBase * FracBase
        BY <2>12 DEF top
      <3>4. h = r.hsdiv /\ n = r.n1
        BY DEF r, h, n
      <3>. QED
        BY <2>6, <3>1, <3>2, <3>3, <3>4, ReadBack
    <2>14. d \in fdco_min .. fdco_max
      BY <2>9 DEF fdco_min, fdco_max
    <2>. HIDE DEF now, q
    <2>15. f * now.hsdiv * now.n1 = d
      BY <2>13 DEF d
    <2>16. /\ f * now.hsdiv * now.n1 \in fdco_min .. fdco_max
           /\ ((f * now.hsdiv * now.n1) * x[2]) - (x[1] * now.rfreq) \in 0 .. x[1] - 1
      BY <2>12, <2>13, <2>14, <2>15
    <2>. QED
      BY <2>16 DEF TunedAsAsked, now, is, x, f
  <1>. QED
    BY <1>1, Invariance, AlwaysTuned, PTL

=============================================================================
