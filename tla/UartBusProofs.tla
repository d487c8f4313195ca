--------------------------- MODULE UartBusProofs --------------------------
(***************************************************************************)
(* Proofs about UartBus, for any base and number of digits, any size of    *)
(* the bus, any set of transfer lengths and any number of pauses, lost     *)
(* characters and killed programs.                                         *)
(***************************************************************************)
EXTENDS UartBus, SequenceTheorems, FiniteSetTheorems, TLAPS

---------------------------------------------------------------------------
(* What is written on the line is what is read from it. *)

(* A set of naturals has a least element. *)
LEMMA LeastElement ==
  ASSUME NEW S, S \subseteq Nat, S # {}
  PROVE  \E n \in S : \A m \in S : n <= m
  <1>. DEFINE R == {ss \in Nat \X Nat : ss[1] < ss[2]}
  <1>1. IsWellFoundedOn(R, Nat)
    BY NatLessThanWellFounded DEF OpToRel
  <1>. HIDE DEF R
  <1>2. PICK n \in S : \A y \in S : ~ (<<y, n>> \in R)
    BY <1>1, WFMin
  <1>3. \A x, y \in Nat : <<y, x>> \in R <=> y < x
    BY DEF R
  <1>4. ASSUME NEW m \in S PROVE n <= m
    <2>1. ~ (m < n)
      BY <1>2, <1>3
    <2>. QED
      BY <2>1
  <1>. QED
    BY <1>4

(* Induction, as it is used below: if some numbers fail a property, there  *)
(* is a first one that does, which is 0 or follows one that does not.      *)
LEMMA FirstFailure ==
  ASSUME NEW S, S \subseteq Nat, S # {}
  PROVE  \E n \in S : n \in Nat /\ (n # 0 => n - 1 \in Nat /\ n - 1 \notin S)
  <1>1. PICK n \in S : \A m \in S : n <= m
    BY LeastElement
  <1>. QED
    BY <1>1

(* The recursive definition of Power is met by a function. *)
LEMMA PowerDef ==
  Power = [k \in 0 .. Digits |-> IF k = 0 THEN 1 ELSE Base * Power[k - 1]]
  <1>. DEFINE Rec(f, n) == f = [k \in 0 .. n |-> IF k = 0 THEN 1 ELSE Base * f[k - 1]]
              S == {n \in Nat : ~ \E f : Rec(f, n)}
  <1>1. S = {}
    <2>1. SUFFICES ASSUME S # {} PROVE FALSE
      OBVIOUS
    <2>2. PICK n \in S : n \in Nat /\ (n # 0 => n - 1 \in Nat /\ n - 1 \notin S)
      <3>1. S \subseteq Nat
        OBVIOUS
      <3>. HIDE DEF S
      <3>. QED
        BY <2>1, <3>1, FirstFailure
    <2>3. CASE n = 0
      <3>1. Rec([k \in 0 .. 0 |-> 1], 0)
        OBVIOUS
      <3>. QED
        BY <2>2, <2>3, <3>1
    <2>4. CASE n # 0
      <3>1. n - 1 \in Nat /\ n - 1 \notin S
        BY <2>2, <2>4
      <3>2. PICK g : Rec(g, n - 1)
        BY <3>1
      <3>3. Rec([k \in 0 .. n |-> IF k = n THEN Base * g[n - 1] ELSE g[k]], n)
        BY <2>4, <3>1, <3>2
      <3>. QED
        BY <2>2, <3>3
    <2>. QED
      BY <2>3, <2>4
  <1>2. \E f : Rec(f, Digits)
    BY <1>1, UartAssumption
  <1>. QED
    BY <1>2 DEF Power

(* The powers of the base are positive, and each is Base times the last.   *)
LEMMA PowerProperties ==
  /\ Power[0] = 1
  /\ \A k \in 1 .. Digits : Power[k] = Base * Power[k - 1]
  /\ \A k \in 0 .. Digits : Power[k] \in Nat \ {0}
  <1>1. Digits \in Nat \ {0} /\ Base \in Nat \ {0, 1}
    BY UartAssumption
  <1>2. Power[0] = 1 /\ \A k \in 1 .. Digits : Power[k] = Base * Power[k - 1]
    BY <1>1, PowerDef
  <1>3. \A k \in 0 .. Digits : Power[k] \in Nat \ {0}
    <2>. DEFINE S == {k \in 0 .. Digits : Power[k] \notin Nat \ {0}}
    <2>1. SUFFICES ASSUME S # {} PROVE FALSE
      OBVIOUS
    <2>2. PICK n \in S : n \in Nat /\ (n # 0 => n - 1 \in Nat /\ n - 1 \notin S)
      <3>1. S \subseteq Nat
        BY <1>1
      <3>. HIDE DEF S
      <3>. QED
        BY <2>1, <3>1, FirstFailure
    <2>3. n # 0
      BY <1>2, <2>2
    <2>4. n - 1 \in 0 .. Digits /\ n - 1 \notin S /\ n \in 1 .. Digits
      BY <1>1, <2>2, <2>3
    <2>5. Power[n - 1] \in Nat \ {0} /\ Power[n] = Base * Power[n - 1]
      BY <1>2, <2>4
    <2>6. Power[n] \in Nat \ {0}
      BY <1>1, <2>5
    <2>. QED
      BY <2>2, <2>6
  <1>. QED
    BY <1>2, <1>3

(* So is that of Number. *)
LEMMA NumberDef ==
  ASSUME NEW s, Len(s) \in Nat
  PROVE  \E f : /\ f = [k \in 0 .. Len(s) |-> IF k = 0 THEN 0 ELSE Base * f[k - 1] + s[k]]
                /\ Number(s) = f[Len(s)]
  <1>. DEFINE Rec(f, n) == f = [k \in 0 .. n |-> IF k = 0 THEN 0 ELSE Base * f[k - 1] + s[k]]
              S == {n \in Nat : ~ \E f : Rec(f, n)}
  <1>1. S = {}
    <2>1. SUFFICES ASSUME S # {} PROVE FALSE
      OBVIOUS
    <2>2. PICK n \in S : n \in Nat /\ (n # 0 => n - 1 \in Nat /\ n - 1 \notin S)
      <3>1. S \subseteq Nat
        OBVIOUS
      <3>. HIDE DEF S
      <3>. QED
        BY <2>1, <3>1, FirstFailure
    <2>3. CASE n = 0
      <3>1. Rec([k \in 0 .. 0 |-> 0], 0)
        OBVIOUS
      <3>. QED
        BY <2>2, <2>3, <3>1
    <2>4. CASE n # 0
      <3>1. n - 1 \in Nat /\ n - 1 \notin S
        BY <2>2, <2>4
      <3>2. PICK g : Rec(g, n - 1)
        BY <3>1
      <3>3. Rec([k \in 0 .. n |-> IF k = n THEN Base * g[n - 1] + s[n] ELSE g[k]], n)
        BY <2>4, <3>1, <3>2
      <3>. QED
        BY <2>2, <3>3
    <2>. QED
      BY <2>3, <2>4
  <1>2. \E f : Rec(f, Len(s))
    BY <1>1
  <1>. QED
    BY <1>2 DEF Number

(* Dividing in two steps. *)
LEMMA DivideTwice ==
  ASSUME NEW b \in Nat \ {0}, NEW m \in Nat \ {0}, NEW n \in Nat
  PROVE  /\ n \div (b * m) = (n \div m) \div b
         /\ n \div m \in Nat
         /\ n \div m = b * (n \div (b * m)) + ((n \div m) % b)
  <1>1. n \div m \in Nat
    OBVIOUS
  <1>2. n \div (b * m) = (n \div m) \div b
    OBVIOUS
  <1>3. n \div m = b * ((n \div m) \div b) + ((n \div m) % b)
    <2>. DEFINE x == n \div m
    <2>1. x \in Nat
      BY <1>1
    <2>. HIDE DEF x
    <2>2. x = b * (x \div b) + (x % b)
      BY <2>1
    <2>. QED
      BY <2>2 DEF x
  <1>. QED
    BY <1>1, <1>2, <1>3

(* Reading the digits of a word gives the word. *)
LEMMA NumberOfHex ==
  ASSUME NEW v \in Vals
  PROVE  Number(Hex(v)) = v
  <1>1. Digits \in Nat \ {0} /\ Base \in Nat \ {0, 1} /\ v \in Nat /\ v < Power[Digits]
    BY UartAssumption, PowerProperties
  <1>2. Len(Hex(v)) = Digits
    BY <1>1 DEF Hex
  <1>3. PICK f : /\ f = [k \in 0 .. Digits |->
                          IF k = 0 THEN 0 ELSE Base * f[k - 1] + Hex(v)[k]]
                 /\ Number(Hex(v)) = f[Digits]
    BY <1>1, <1>2, NumberDef
  <1>. DEFINE S == {k \in 0 .. Digits : f[k] # v \div Power[Digits - k]}
  <1>4. S = {}
    <2>1. SUFFICES ASSUME S # {} PROVE FALSE
      OBVIOUS
    <2>2. PICK n \in S : n \in Nat /\ (n # 0 => n - 1 \in Nat /\ n - 1 \notin S)
      <3>1. S \subseteq Nat
        BY <1>1
      <3>. HIDE DEF S
      <3>. QED
        BY <2>1, <3>1, FirstFailure
    <2>3. n # 0
      <3>1. f[0] = 0
        BY <1>1, <1>3
      <3>2. v \div Power[Digits] = 0
        <4>1. \A p \in Nat \ {0} : v < p => v \div p = 0
          BY <1>1
        <4>2. Power[Digits] \in Nat \ {0}
          BY <1>1, PowerProperties
        <4>. QED
          BY <1>1, <4>1, <4>2
      <3>. QED
        BY <1>1, <2>2, <3>1, <3>2
    <2>4. n - 1 \in 0 .. Digits /\ n - 1 \notin S /\ n \in 1 .. Digits
      BY <1>1, <2>2, <2>3
    <2>5. f[n - 1] = v \div Power[Digits - (n - 1)]
      BY <2>4
    <2>6. /\ Power[Digits - (n - 1)] = Base * Power[Digits - n]
          /\ Power[Digits - n] \in Nat \ {0}
      <3>1. Digits - (n - 1) \in 1 .. Digits /\ Digits - n \in 0 .. Digits
            /\ Digits - (n - 1) - 1 = Digits - n
        BY <1>1, <2>4
      <3>. QED
        BY <3>1, PowerProperties
    <2>7. f[n] = Base * f[n - 1] + ((v \div Power[Digits - n]) % Base)
      <3>1. Hex(v)[n] = (v \div Power[Digits - n]) % Base
        BY <2>4 DEF Hex
      <3>. QED
        BY <1>1, <1>3, <2>2, <2>3, <2>4, <3>1
    <2>8. f[n] = v \div Power[Digits - n]
      <3>. DEFINE p == Power[Digits - n]
      <3>1. p \in Nat \ {0} /\ f[n - 1] = v \div (Base * p)
        BY <2>5, <2>6
      <3>. HIDE DEF p
      <3>2. v \div p = Base * (v \div (Base * p)) + ((v \div p) % Base)
        BY <1>1, <3>1, DivideTwice
      <3>. QED
        BY <2>7, <3>1, <3>2 DEF p
    <2>. QED
      BY <2>2, <2>8
  <1>5. f[Digits] = v \div Power[Digits - Digits]
    BY <1>1, <1>4
  <1>6. v \div 1 = v
    BY <1>1
  <1>. QED
    BY <1>1, <1>3, <1>5, <1>6, PowerProperties

Char == 0 .. NUL

(* A word of the bus has Digits digits.                                    *)
LEMMA HexDigits ==
  ASSUME NEW v \in Vals
  PROVE  /\ Hex(v) \in Seq(Char) /\ Len(Hex(v)) = Digits
         /\ \A k \in 1 .. Digits : Hex(v)[k] \in 0 .. Base - 1
  <1>1. Digits \in Nat \ {0} /\ Base \in Nat \ {0, 1} /\ v \in Nat
    BY UartAssumption, PowerProperties
  <1>2. ASSUME NEW k \in 1 .. Digits PROVE Hex(v)[k] \in 0 .. Base - 1
    <2>. DEFINE p == Power[Digits - k]
    <2>1. p \in Nat \ {0}
      BY <1>1, PowerProperties
    <2>. HIDE DEF p
    <2>2. (v \div p) % Base \in 0 .. Base - 1
      BY <1>1, <2>1
    <2>. QED
      BY <2>2 DEF p, Hex
  <1>3. 0 .. Base - 1 \subseteq Char
    BY <1>1 DEF Char, NUL
  <1>4. Hex(v) \in [1 .. Digits -> Char]
    BY <1>2, <1>3 DEF Hex
  <1>5. Hex(v) \in Seq(Char) /\ Len(Hex(v)) = Digits
    BY <1>1, <1>4
  <1>. QED
    BY <1>2, <1>5

(* A reply has ReplyLen characters: the status, the digits, the line's end. *)
LEMMA ReplyShape ==
  ASSUME NEW v \in Vals
  PROVE  /\ ReplyTo(v) \in Seq(Char) /\ Len(ReplyTo(v)) = ReplyLen
         /\ \A k \in 1 .. Digits : ReplyTo(v)[k + 1] = Hex(v)[k]
         /\ \A k \in Digits + 2 .. ReplyLen : ReplyTo(v)[k] = CR
  <1>1. Digits \in Nat \ {0} /\ Base \in Nat \ {0, 1}
    BY UartAssumption
  <1>. DEFINE head == <<Status>>
              eol  == [k \in 1 .. EolLen |-> CR]
  <1>2. head \in Seq(Char) /\ Len(head) = 1
    BY <1>1 DEF Status, Char, NUL
  <1>3. eol \in Seq(Char) /\ Len(eol) = 2 /\ \A k \in 1 .. 2 : eol[k] = CR
    BY <1>1 DEF EolLen, CR, Char, NUL
  <1>4. Hex(v) \in Seq(Char) /\ Len(Hex(v)) = Digits
    BY HexDigits
  <1>. HIDE DEF head, eol
  <1>. DEFINE hd == head \o Hex(v)
  <1>5. hd \in Seq(Char) /\ Len(hd) = Digits + 1 /\ \A k \in 1 .. Digits : hd[k + 1] = Hex(v)[k]
    <2>1. /\ hd \in Seq(Char) /\ Len(hd) = 1 + Digits
          /\ \A k \in 1 .. 1 + Digits : hd[k] = IF k <= 1 THEN head[k] ELSE Hex(v)[k - 1]
      <3>1. /\ hd \in Seq(Char) /\ Len(hd) = Len(head) + Len(Hex(v))
            /\ \A k \in 1 .. Len(head) + Len(Hex(v)) :
                 hd[k] = IF k <= Len(head) THEN head[k] ELSE Hex(v)[k - Len(head)]
        BY <1>2, <1>4, ConcatProperties
      <3>. QED
        BY <1>2, <1>4, <3>1
    <2>. HIDE DEF hd
    <2>2. ASSUME NEW k \in 1 .. Digits PROVE hd[k + 1] = Hex(v)[k]
      <3>1. k + 1 \in 1 .. 1 + Digits /\ ~ (k + 1 <= 1) /\ (k + 1) - 1 = k
        BY <1>1
      <3>. QED
        BY <2>1, <3>1
    <2>. QED
      BY <1>1, <2>1, <2>2
  <1>7. ReplyTo(v) = hd \o eol
    BY DEF ReplyTo, head, eol
  <1>. HIDE DEF hd
  <1>6. /\ hd \o eol \in Seq(Char) /\ Len(hd \o eol) = Digits + 3
        /\ \A k \in 1 .. Digits + 3 :
             (hd \o eol)[k] = IF k <= Digits + 1 THEN hd[k] ELSE eol[k - (Digits + 1)]
    <2>1. /\ hd \o eol \in Seq(Char) /\ Len(hd \o eol) = Digits + 1 + 2
          /\ \A k \in 1 .. Digits + 1 + 2 :
               (hd \o eol)[k] = IF k <= Digits + 1 THEN hd[k] ELSE eol[k - (Digits + 1)]
      <3>1. /\ hd \o eol \in Seq(Char) /\ Len(hd \o eol) = Len(hd) + Len(eol)
            /\ \A k \in 1 .. Len(hd) + Len(eol) :
                 (hd \o eol)[k] = IF k <= Len(hd) THEN hd[k] ELSE eol[k - Len(hd)]
        BY <1>3, <1>5, ConcatProperties
      <3>. QED
        BY <1>3, <1>5, <3>1
    <2>2. Digits + 1 + 2 = Digits + 3
      BY <1>1
    <2>. QED
      BY <2>1, <2>2
  <1>8. ReplyLen = 1 + Digits + 2 /\ ReplyLen = Digits + 3
    BY <1>1 DEF ReplyLen, EolLen
  <1>9. \A k \in 1 .. Digits : ReplyTo(v)[k + 1] = Hex(v)[k]
    BY <1>1, <1>5, <1>6, <1>7, <1>8
  <1>10. \A k \in Digits + 2 .. ReplyLen : ReplyTo(v)[k] = CR
    BY <1>1, <1>3, <1>6, <1>7, <1>8
  <1>. QED
    BY <1>6, <1>7, <1>8, <1>9, <1>10

(* A read(2) of a complete reply leaves nothing of the command behind. *)
LEMMA OverlayOfReply ==
  ASSUME NEW v \in Vals, NEW r
  PROVE  Overlay(ReplyTo(v), r) = ReplyTo(v)
  <1>1. ReplyLen \in Nat
    BY UartAssumption DEF ReplyLen, EolLen
  <1>2. SubSeq(ReadCommand(r), Len(ReplyTo(v)) + 1, ReplyLen) = <<>>
    BY <1>1, ReplyShape, SubSeqEmpty
  <1>. QED
    BY <1>2, ReplyShape, ConcatEmptySeq DEF Overlay

(* Reading a complete reply into the buffer of the command and converting  *)
(* it gives the word the bridge answered with: the status character is     *)
(* skipped, the digits are all taken and the end of the line is not.       *)
THEOREM ScanOfReply ==
  ASSUME NEW v \in Vals, NEW r
  PROVE  Scan(Overlay(ReplyTo(v), r)) = v
  <1>. DEFINE buf   == ReplyTo(v)
              blank == {k \in 2 .. Len(buf) : \A j \in 2 .. k : buf[j] = CR}
              run   == {k \in 2 .. Len(buf) : k < 2 + Digits
                                              /\ \A j \in 2 .. k : IsDigit(buf[j])}
  <1>1. Digits \in Nat \ {0} /\ Base \in Nat \ {0, 1} /\ ReplyLen = Digits + 3
    BY UartAssumption DEF ReplyLen, EolLen
  <1>2. Len(buf) = ReplyLen
    BY ReplyShape
  <1>3. \A j \in 2 .. Digits + 1 : buf[j] = Hex(v)[j - 1] /\ buf[j] \in 0 .. Base - 1
    <2>1. ASSUME NEW j \in 2 .. Digits + 1
          PROVE  buf[j] = Hex(v)[j - 1] /\ Hex(v)[j - 1] \in 0 .. Base - 1
      <3>1. j - 1 \in 1 .. Digits /\ (j - 1) + 1 = j
        BY <1>1
      <3>. QED
        BY <3>1, ReplyShape, HexDigits
    <2>. QED
      BY <2>1
  <1>. HIDE DEF buf
  <1>4. blank = {}
    BY <1>1, <1>3 DEF CR
  <1>5. run = 2 .. Digits + 1
    BY <1>1, <1>2, <1>3, SMTT(30) DEF IsDigit
  <1>6. Cardinality(blank) = 0 /\ Cardinality(run) = Digits
    <2>1. Cardinality(2 .. Digits + 1) = Digits
      BY <1>1, FS_Interval
    <2>. QED
      BY <1>4, <1>5, <2>1, FS_EmptySet
  <1>7. Scan(buf) = Number(SubSeq(buf, 2, 2 + Digits - 1))
    <2>1. 2 + Cardinality(blank) = 2
      BY <1>6
    <2>. QED
      BY <1>6, <2>1 DEF Scan
  <1>8. SubSeq(buf, 2, Digits + 1) = Hex(v)
    <2>. DEFINE sub == SubSeq(buf, 2, Digits + 1)
    <2>1. \A j \in 2 .. Digits + 1 : buf[j] \in Char
      BY <1>1, <1>3 DEF Char, NUL
    <2>2. /\ sub \in Seq(Char) /\ Len(sub) = Digits
          /\ \A k \in 1 .. Digits : sub[k] = buf[k + 1]
      <3>1. /\ sub \in Seq(Char)
            /\ Len(sub) = IF 2 <= Digits + 1 THEN Digits + 1 - 2 + 1 ELSE 0
            /\ \A k \in 1 .. Digits + 1 - 2 + 1 : sub[k] = buf[2 + k - 1]
        BY <1>1, <2>1, SubSeqProperties
      <3>2. Digits + 1 - 2 + 1 = Digits /\ \A k \in 1 .. Digits : 2 + k - 1 = k + 1
        BY <1>1
      <3>. QED
        BY <1>1, <3>1, <3>2
    <2>. HIDE DEF sub
    <2>3. \A k \in 1 .. Digits : buf[k + 1] = Hex(v)[k]
      BY ReplyShape DEF buf
    <2>4. Hex(v) \in Seq(Char) /\ Len(Hex(v)) = Digits
      BY HexDigits
    <2>5. sub = Hex(v)
      BY <2>2, <2>3, <2>4, SeqEqual
    <2>. QED
      BY <2>5 DEF sub
  <1>9. 2 + Digits - 1 = Digits + 1
    BY <1>1
  <1>. QED
    BY <1>7, <1>8, <1>9, OverlayOfReply, NumberOfHex DEF buf

(* Any other buffer is converted to some word: at most Digits digits.      *)
LEMMA NumberInVals ==
  ASSUME NEW s \in Seq(0 .. Base - 1), Len(s) <= Digits
  PROVE  Number(s) \in Vals
  <1>1. /\ Digits \in Nat \ {0} /\ Base \in Nat \ {0, 1} /\ Len(s) \in Nat
        /\ Vals = 0 .. Power[Digits] - 1
    BY UartAssumption
  <1>2. PICK f : /\ f = [k \in 0 .. Len(s) |->
                          IF k = 0 THEN 0 ELSE Base * f[k - 1] + s[k]]
                 /\ Number(s) = f[Len(s)]
    BY <1>1, NumberDef
  <1>. DEFINE S == {k \in 0 .. Len(s) : f[k] \notin 0 .. Power[k] - 1}
  <1>3. S = {}
    <2>1. SUFFICES ASSUME S # {} PROVE FALSE
      OBVIOUS
    <2>2. PICK n \in S : n \in Nat /\ (n # 0 => n - 1 \in Nat /\ n - 1 \notin S)
      <3>1. S \subseteq Nat
        BY <1>1
      <3>. HIDE DEF S
      <3>. QED
        BY <2>1, <3>1, FirstFailure
    <2>3. n # 0
      <3>1. f[0] = 0
        BY <1>1, <1>2
      <3>. QED
        BY <2>2, <3>1, PowerProperties
    <2>4. n - 1 \in 0 .. Len(s) /\ n \in 1 .. Len(s) /\ n \in 1 .. Digits
      BY <1>1, <2>2, <2>3
    <2>5. f[n - 1] \in 0 .. Power[n - 1] - 1
      BY <2>2, <2>3, <2>4
    <2>6. f[n] = Base * f[n - 1] + s[n] /\ s[n] \in 0 .. Base - 1
      <3>1. s[n] \in 0 .. Base - 1
        BY <2>4, ElementOfSeq
      <3>. QED
        BY <1>1, <1>2, <2>2, <2>3, <2>4, <3>1
    <2>7. /\ n - 1 \in 0 .. Digits
          /\ Power[n] = Base * Power[n - 1] /\ Power[n - 1] \in Nat \ {0}
      <3>1. n - 1 \in 0 .. Digits
        BY <1>1, <2>4
      <3>. QED
        BY <2>4, <3>1, PowerProperties
    <2>8. f[n] \in 0 .. Power[n] - 1
      <3>. DEFINE x == f[n - 1]
                  p == Power[n - 1]
                  d == s[n]
      <3>1. x \in Nat /\ p \in Nat /\ x <= p - 1 /\ d \in Nat /\ d <= Base - 1
        BY <1>1, <2>5, <2>6, <2>7
      <3>. HIDE DEF x, p, d
      <3>2. Base * x <= Base * (p - 1) /\ Base * (p - 1) = Base * p - Base /\ Base * x \in Nat
        BY <1>1, <3>1
      <3>3. Base * x + d \in Nat /\ Base * x + d <= Base * p - 1
        BY <1>1, <3>1, <3>2
      <3>4. f[n] = Base * x + d /\ Power[n] = Base * p
        BY <2>6, <2>7 DEF x, p, d
      <3>5. Base * p \in Nat
        BY <1>1, <3>1
      <3>. QED
        BY <3>3, <3>4, <3>5
    <2>. QED
      BY <2>2, <2>8
  <1>4. f[Len(s)] \in 0 .. Power[Len(s)] - 1
    BY <1>1, <1>3
  <1>5. Power[Len(s)] <= Power[Digits]
    <2>. DEFINE T == {k \in 0 .. Digits : k >= Len(s) /\ ~ (Power[Len(s)] <= Power[k])}
    <2>1. SUFFICES ASSUME T # {} PROVE FALSE
      BY <1>1
    <2>2. PICK n \in T : n \in Nat /\ (n # 0 => n - 1 \in Nat /\ n - 1 \notin T)
      <3>1. T \subseteq Nat
        BY <1>1
      <3>. HIDE DEF T
      <3>. QED
        BY <2>1, <3>1, FirstFailure
    <2>3. Len(s) \in 0 .. Digits /\ Power[Len(s)] \in Nat
      BY <1>1, PowerProperties
    <2>4. n # Len(s) /\ n \in 1 .. Digits /\ n - 1 \in 0 .. Digits /\ n - 1 >= Len(s)
      BY <1>1, <2>2, <2>3
    <2>5. Power[n] = Base * Power[n - 1] /\ Power[n - 1] \in Nat \ {0}
      BY <2>4, PowerProperties
    <2>6. Power[Len(s)] <= Power[n - 1]
      BY <1>1, <2>2, <2>4
    <2>7. Power[n - 1] <= Base * Power[n - 1]
      BY <1>1, <2>5
    <2>8. Power[Len(s)] <= Power[n]
      BY <1>1, <2>3, <2>5, <2>6, <2>7
    <2>. QED
      BY <2>2, <2>8
  <1>6. Power[Len(s)] \in Nat /\ Power[Digits] \in Nat
    BY <1>1, PowerProperties
  <1>. QED
    BY <1>1, <1>2, <1>4, <1>5, <1>6

(* The characters from m on that come before the first one for which Q     *)
(* fails make an interval.                                                 *)
LEMMA RunIsInterval ==
  ASSUME NEW m \in Nat, NEW n \in Int, NEW Q, NEW R,
         \A k : k \in R <=> k \in m .. n /\ \A j \in m .. k : j \in Q
  PROVE  R = m .. m + Cardinality(R) - 1 /\ Cardinality(R) \in Nat
  <1>. DEFINE S == {k \in Nat : k >= m /\ k \notin R}
  <1>1. S # {}
    <2>1. CASE n < m
      BY <2>1
    <2>2. CASE n >= m
      <3>1. n + 1 \in Nat /\ n + 1 >= m /\ n + 1 \notin R
        BY <2>2
      <3>. QED
        BY <3>1
    <2>. QED
      BY <2>1, <2>2
  <1>2. PICK e \in S : \A k \in S : e <= k
    <2>1. S \subseteq Nat
      OBVIOUS
    <2>. HIDE DEF S
    <2>. QED
      BY <1>1, <2>1, LeastElement
  <1>3. e \in Nat /\ e >= m
    BY <1>2
  <1>4. R = m .. e - 1
    <2>1. ASSUME NEW k \in m .. e - 1 PROVE k \in R
      <3>1. k \in Nat /\ ~ (e <= k)
        BY <1>3, <2>1
      <3>2. k \notin S
        BY <1>2, <3>1
      <3>. QED
        BY <2>1, <3>1, <3>2
    <2>2. ASSUME NEW k \in R, k >= e PROVE FALSE
      <3>1. k \in m .. n /\ e \in m .. n
        BY <1>3, <2>2
      <3>2. \A j \in m .. e : j \in m .. k
        BY <1>3, <2>2, <3>1
      <3>3. e \in R
        BY <2>2, <3>1, <3>2
      <3>. QED
        BY <1>2, <3>3
    <2>3. ASSUME NEW k \in R PROVE k \in m .. e - 1
      BY <1>3, <2>2, <2>3
    <2>. QED
      BY <2>1, <2>3
  <1>5. Cardinality(m .. e - 1) = e - m
    <2>1. /\ m \in Int /\ e - 1 \in Int
          /\ (IF m > e - 1 THEN 0 ELSE e - 1 - m + 1) = e - m
      BY <1>3
    <2>. QED
      BY <2>1, FS_Interval
  <1>6. Cardinality(R) = e - m /\ m + Cardinality(R) - 1 = e - 1
    <2>1. Cardinality(R) = e - m
      BY <1>4, <1>5
    <2>. QED
      BY <1>3, <2>1
  <1>7. m .. m + Cardinality(R) - 1 = m .. e - 1
    BY <1>6
  <1>8. Cardinality(R) \in Nat
    BY <1>3, <1>6
  <1>. QED
    BY <1>4, <1>7, <1>8

(* Whatever read(2) returned, the driver converts it to some word. *)
LEMMA ScanInVals ==
  ASSUME NEW buf \in Seq(Char)
  PROVE  Scan(buf) \in Vals
  <1>1. /\ Digits \in Nat \ {0} /\ Base \in Nat \ {0, 1} /\ Len(buf) \in Nat
        /\ \A k \in 1 .. Len(buf) : buf[k] \in Nat
    BY UartAssumption DEF Char, NUL
  <1>. DEFINE blank == {k \in 2 .. Len(buf) : \A j \in 2 .. k : buf[j] = CR}
              first == 2 + Cardinality(blank)
              run   == {k \in first .. Len(buf) : k < first + Digits
                                                  /\ \A j \in first .. k : IsDigit(buf[j])}
              last  == first + Cardinality(run) - 1
  <1>2. Cardinality(blank) \in Nat
    <2>. DEFINE Q == {j \in Nat : buf[j] = CR}
    <2>1. \A k : k \in blank <=> k \in 2 .. Len(buf) /\ \A j \in 2 .. k : j \in Q
      BY <1>1
    <2>2. Len(buf) \in Int /\ 2 \in Nat
      BY <1>1
    <2>. HIDE DEF Q, blank
    <2>. QED
      BY <2>1, <2>2, RunIsInterval
  <1>3. first \in Nat /\ first >= 2
    BY <1>2
  <1>. HIDE DEF first, blank
  <1>4. run = first .. last /\ Cardinality(run) \in Nat
    <2>. DEFINE Q == {j \in Nat : IsDigit(buf[j]) /\ j < first + Digits}
    <2>1. \A k : k \in run <=> k \in first .. Len(buf) /\ \A j \in first .. k : j \in Q
      <3>1. ASSUME NEW k \in first .. Len(buf)
            PROVE  (k < first + Digits /\ \A j \in first .. k : IsDigit(buf[j]))
                   <=> \A j \in first .. k : j \in Q
        BY <1>1, <1>3
      <3>. QED
        BY <3>1
    <2>2. Len(buf) \in Int
      BY <1>1
    <2>. HIDE DEF Q, run
    <2>3. run = first .. first + Cardinality(run) - 1 /\ Cardinality(run) \in Nat
      <3>1. first \in Nat
        BY <1>3
      <3>. QED
        BY <2>1, <2>2, <3>1, RunIsInterval
    <2>. QED
      BY <2>3
  <1>5. /\ last \in Int /\ Cardinality(run) \in 0 .. Digits
        /\ \A k \in first .. last : buf[k] \in 0 .. Base - 1
    <2>1. \A k \in first .. last : k \in run
      BY <1>4
    <2>2. \A k \in first .. last : k \in 1 .. Len(buf) /\ k < first + Digits /\ IsDigit(buf[k])
      BY <1>1, <1>3, <2>1
    <2>. HIDE DEF run
    <2>3. last \in Int
      BY <1>3, <1>4
    <2>4. Cardinality(run) <= Digits
      <3>1. CASE Cardinality(run) = 0
        BY <1>1, <3>1
      <3>2. CASE Cardinality(run) # 0
        <4>1. last \in first .. last
          BY <1>3, <1>4, <3>2
        <4>2. last < first + Digits
          BY <2>2, <4>1
        <4>. QED
          BY <1>1, <1>3, <1>4, <4>2
      <3>. QED
        BY <3>1, <3>2
    <2>5. \A k \in first .. last : buf[k] \in 0 .. Base - 1
      BY <1>1, <2>2 DEF IsDigit
    <2>. QED
      BY <1>4, <2>3, <2>4, <2>5
  <1>6. Scan(buf) = Number(SubSeq(buf, first, last))
    BY DEF Scan, first, blank
  <1>. HIDE DEF run
  <1>7. /\ SubSeq(buf, first, last) \in Seq(0 .. Base - 1)
        /\ Len(SubSeq(buf, first, last)) = IF first <= last THEN last - first + 1 ELSE 0
    BY <1>3, <1>5, SubSeqProperties
  <1>8. Len(SubSeq(buf, first, last)) <= Digits
    BY <1>1, <1>3, <1>5, <1>7
  <1>. QED
    BY <1>6, <1>7, <1>8, NumberInVals

---------------------------------------------------------------------------
(* The inductive invariant. *)

Commands == [kind : {"read", "write"}, at : Regs, word : Vals]

(* TypeOK without the lengths of the queues. *)
Typed ==
  /\ mem \in [Regs -> Vals]
  /\ pc \in {"idle", "loop", "reply", "closed"}
  /\ call \in Calls
  /\ ret \in Lens \cup {0}
  /\ cmds \in Seq(Commands)
  /\ line \in Seq(Char) /\ tty \in Seq(Char)
  /\ answer \in Vals
  /\ pauses \in 0 .. MaxPauses /\ drops \in 0 .. MaxDrops
  /\ kills \in 0 .. MaxKills /\ dropped \in BOOLEAN /\ sound \in BOOLEAN

(* What is on its way to the program, in characters, is at most one reply  *)
(* for each pause and each killed program, and the one it waits for.       *)
OnTheWay == ReplyLen * Len(cmds) + Len(line) + Len(tty)
Owed     == pauses + kills + (IF pc = "reply" THEN 1 ELSE 0)
Backlog  == OnTheWay <= ReplyLen * Owed

Quiet == cmds = <<>> /\ line = <<>> /\ tty = <<>>

(* The bridge has yet to see the one command there is ... *)
Unserved == cmds = <<Command(call)>> /\ line = <<>> /\ tty = <<>>

(* ... or the one reply there is is on its way, whole unless characters of *)
(* it were lost, and a word that is written is where it belongs.           *)
Answered ==
  /\ cmds = <<>>
  /\ Len(tty) + Len(line) <= ReplyLen
  /\ ~ dropped => tty \o line = ReplyTo(answer)
  /\ call.kind = "write" => mem[call.at] = call.buf[call.i]

Exchange ==
  /\ pc = "reply" => MoreWords(call)
  /\ pc = "closed" => call.kind = "read"
  /\ sound /\ pc \in {"idle", "loop"} => Quiet
  /\ sound /\ pc = "reply" => Unserved \/ Answered

(* The first n words of a write are in their registers, but where a later  *)
(* one of them wrapped around to the same register.                        *)
Target(j) == (call.at - call.i + j) % NumRegs

Written(n) ==
  \A j \in 0 .. n - 1 :
    mem[Target(j)] = call.buf[j] \/ \E k \in j + 1 .. n - 1 : (k - j) % NumRegs = 0

Landed ==
  sound /\ pc # "closed" /\ call.kind = "write" =>
    Written(IF pc = "reply" /\ cmds = <<>> THEN call.i + 1 ELSE call.i)

(* Until something fails, the program is in step and alive. *)
NoFault == Faultless => sound /\ ~ dropped /\ pc # "closed"

IInv == Typed /\ Backlog /\ Exchange /\ Landed /\ NoFault

(* The loop's counters stay in range: the word a transfer is about to move *)
(* lies in its buffer, and the next register is one of the bus.            *)
LEMMA AdvanceInRange ==
  ASSUME NEW c \in Calls, MoreWords(c)
  PROVE  /\ c.i \in 0 .. MaxWords - 1
         /\ (c.at + 1) % NumRegs \in Regs
         /\ c.i + 1 \in 0 .. MaxWords
  <1>1. /\ c.i \in Nat /\ c.len \in Nat
        /\ WordSize \in Nat \ {0} /\ MaxWords \in Nat \ {0} /\ NumRegs \in Nat \ {0}
        /\ c.len <= WordSize * MaxWords
    BY BusAssumption DEF Calls
  <1>2. c.i < MaxWords
    <2>1. SUFFICES ASSUME c.i >= MaxWords PROVE FALSE
      BY <1>1
    <2>2. WordSize * c.i >= WordSize * MaxWords
      BY <1>1, <2>1
    <2>. QED
      BY <1>1, <2>2 DEF MoreWords
  <1>3. (c.at + 1) % NumRegs \in 0 .. NumRegs - 1
    BY <1>1 DEF Calls, Regs
  <1>. QED
    BY <1>1, <1>2, <1>3 DEF Regs

(* What the next word makes of a call. *)
LEMMA AfterWordEffect ==
  ASSUME NEW c \in Calls, MoreWords(c), NEW v \in Vals
  PROVE  /\ AfterWord(c, v) \in Calls
         /\ AfterWord(c, v).i = c.i + 1
         /\ AfterWord(c, v).at = (c.at + 1) % NumRegs
         /\ AfterWord(c, v).kind = c.kind
         /\ c.kind = "write" => AfterWord(c, v).buf = c.buf
         /\ c.kind = "read" => AfterWord(c, v).buf[c.i] = v
  BY AdvanceInRange DEF AfterWord, Advance, Calls, Buffers

(* What the proofs use of the assumptions on the constants.                *)
LEMMA Constants ==
  /\ ReplyLen \in Nat /\ ReplyLen = Digits + 3
  /\ Digits \in Nat \ {0} /\ Base \in Nat \ {0, 1} /\ NumRegs \in Nat \ {0}
  /\ 0 \in Regs /\ Regs \subseteq Vals
  /\ \A x \in Nat : /\ ReplyLen * (x + 1) = ReplyLen * x + ReplyLen
                     /\ ReplyLen * x \in Nat
  <1>1. /\ ReplyLen \in Nat /\ ReplyLen = Digits + 3
        /\ Digits \in Nat \ {0} /\ Base \in Nat \ {0, 1} /\ NumRegs \in Nat \ {0}
    BY BusAssumption, UartAssumption DEF ReplyLen, EolLen
  <1>2. 0 \in Regs /\ Regs \subseteq Vals
    <2>1. Power[Digits] \in Nat
      BY <1>1, PowerProperties
    <2>. QED
      BY <1>1, <2>1, UartAssumption DEF Regs
  <1>. QED
    BY <1>1, <1>2

(* The command of a word that is to be moved is one the line carries.      *)
LEMMA CommandIsOne ==
  ASSUME NEW c \in Calls, MoreWords(c)
  PROVE  Command(c) \in Commands
  BY AdvanceInRange, Constants DEF Command, Commands, Calls, Buffers

(* The locals of a program that has made no transfer.                      *)
LEMMA NoCallInCalls == NoCall \in Calls /\ NoCall.kind = "read" /\ NoCall.i = 0
  <1>1. (CHOOSE l \in Lens : TRUE) \in Lens
    BY UartAssumption
  <1>2. [j \in 0 .. MaxWords - 1 |-> 0] \in Buffers
    BY Constants DEF Buffers
  <1>. QED
    BY <1>1, <1>2, Constants, BusAssumption DEF NoCall, NewCall, Calls

(* The buffer holds characters, whatever part of it read(2) has filled. *)
LEMMA OverlayInChars ==
  ASSUME NEW s \in Seq(Char), Len(s) <= ReplyLen, NEW r \in Regs
  PROVE  Overlay(s, r) \in Seq(Char)
  <1>1. <<LetterR>> \in Seq(Char) /\ Len(<<LetterR>>) = 1
        /\ <<CR, NUL>> \in Seq(Char) /\ Len(<<CR, NUL>>) = 2
    BY Constants DEF Char, LetterR, CR, NUL
  <1>2. Hex(r) \in Seq(Char) /\ Len(Hex(r)) = Digits
    BY HexDigits, Constants
  <1>3. <<LetterR>> \o Hex(r) \in Seq(Char) /\ Len(<<LetterR>> \o Hex(r)) = 1 + Digits
    BY <1>1, <1>2, ConcatProperties
  <1>4. ReadCommand(r) \in Seq(Char) /\ Len(ReadCommand(r)) = 1 + Digits + 2
    BY <1>1, <1>3, ConcatProperties DEF ReadCommand
  <1>5. Len(ReadCommand(r)) = ReplyLen /\ Len(s) \in Nat
    BY <1>4, Constants
  <1>6. \A k \in Len(s) + 1 .. ReplyLen : ReadCommand(r)[k] \in Char
    <2>1. \A k \in Len(s) + 1 .. ReplyLen : k \in 1 .. Len(ReadCommand(r))
      BY <1>5, Constants
    <2>. QED
      BY <1>4, <2>1, ElementOfSeq
  <1>7. SubSeq(ReadCommand(r), Len(s) + 1, ReplyLen) \in Seq(Char)
    <2>1. Len(s) + 1 \in Int /\ ReplyLen \in Int
      BY <1>5, Constants
    <2>. QED
      BY <1>6, <2>1, SubSeqProperties
  <1>. QED
    BY <1>7, ConcatProperties DEF Overlay

(* Delivering a character leaves what is on its way as it was. *)
LEMMA DeliverKeeps ==
  ASSUME NEW s \in Seq(Char), NEW t \in Seq(Char), t # <<>>
  PROVE  /\ Append(s, Head(t)) \in Seq(Char) /\ Tail(t) \in Seq(Char)
         /\ Len(Append(s, Head(t))) = Len(s) + 1 /\ Len(Tail(t)) = Len(t) - 1
         /\ Append(s, Head(t)) \o Tail(t) = s \o t
  <1>1. /\ Head(t) \in Char /\ Tail(t) \in Seq(Char) /\ Len(Tail(t)) = Len(t) - 1
        /\ Len(t) \in Nat /\ Len(s) \in Nat
    BY HeadTailProperties
  <1>2. Append(s, Head(t)) \in Seq(Char) /\ Len(Append(s, Head(t))) = Len(s) + 1
    BY <1>1, AppendProperties
  <1>3. Append(s, Head(t)) = s \o <<Head(t)>>
    BY <1>1, AppendIsConcat
  <1>4. <<Head(t)>> \in Seq(Char)
    BY <1>1
  <1>5. (s \o <<Head(t)>>) \o Tail(t) = s \o (<<Head(t)>> \o Tail(t))
    BY <1>1, <1>4, ConcatAssociative
  <1>6. <<Head(t)>> \o Tail(t) = t
    BY <1>1
  <1>. QED
    BY <1>1, <1>2, <1>3, <1>5, <1>6

(***************************************************************************)
(* Registers modulo the size of the bus.                                   *)
(***************************************************************************)
LEMMA ModuloShift ==
  ASSUME NEW b \in Nat \ {0}, NEW n \in Int, NEW q \in Int
  PROVE  (n + b * q) % b = n % b
  <1>1. /\ n % b \in 0 .. b - 1 /\ n \div b \in Int
        /\ n = b * (n \div b) + (n % b)
    OBVIOUS
  <1>. DEFINE d == n \div b
              e == n % b
  <1>. HIDE DEF d, e
  <1>2. d \in Int /\ e \in 0 .. b - 1 /\ n = b * d + e
    BY <1>1 DEF d, e
  <1>3. n + b * q = b * (d + q) + e /\ d + q \in Int
    BY <1>2
  <1>4. \A m \in Int, p \in Int : m = b * p + e => m % b = e
    BY <1>2
  <1>5. (n + b * q) % b = e
    BY <1>2, <1>3, <1>4
  <1>. QED
    BY <1>5 DEF e

(* The registers of a write, and the one its next word goes to.            *)
LEMMA TargetFacts ==
  ASSUME NEW a \in Regs, NEW i \in Nat, NEW j \in Nat
  PROVE  /\ (a - i + j) % NumRegs \in Regs
         /\ (a - i + i) % NumRegs = a
         /\ (((a + 1) % NumRegs) - (i + 1) + j) % NumRegs = (a - i + j) % NumRegs
         /\ (a - i + j) % NumRegs = a => (i - j) % NumRegs = 0
  <1>1. NumRegs \in Nat \ {0} /\ a \in 0 .. NumRegs - 1
    BY Constants DEF Regs
  <1>2. (a - i + j) % NumRegs \in Regs
    BY <1>1 DEF Regs
  <1>3. a - i + i = a /\ a % NumRegs = a
    BY <1>1
  <1>4. (((a + 1) % NumRegs) - (i + 1) + j) % NumRegs = (a - i + j) % NumRegs
    <2>1. CASE a + 1 < NumRegs
      <3>1. (a + 1) % NumRegs = a + 1
        BY <1>1, <2>1
      <3>2. ((a + 1) % NumRegs) - (i + 1) + j = a - i + j
        BY <1>1, <3>1
      <3>. QED
        BY <3>2
    <2>2. CASE a + 1 >= NumRegs
      <3>1. a + 1 = NumRegs /\ (a + 1) % NumRegs = 0
        BY <1>1, <2>2
      <3>2. a - i + j = 0 - (i + 1) + j + NumRegs * 1
        BY <1>1, <3>1
      <3>3. (0 - (i + 1) + j + NumRegs * 1) % NumRegs = (0 - (i + 1) + j) % NumRegs
        <4>1. 0 - (i + 1) + j \in Int /\ 1 \in Int
          OBVIOUS
        <4>. QED
          BY <1>1, <4>1, ModuloShift
      <3>4. ((a + 1) % NumRegs) - (i + 1) + j = 0 - (i + 1) + j
        BY <3>1
      <3>. QED
        BY <3>2, <3>3, <3>4
    <2>. QED
      BY <1>1, <2>1, <2>2
  <1>5. ASSUME (a - i + j) % NumRegs = a PROVE (i - j) % NumRegs = 0
    <2>. DEFINE n == a - i + j
                q == n \div NumRegs
    <2>1. n \in Int /\ q \in Int /\ n = NumRegs * q + (n % NumRegs)
      BY <1>1
    <2>2. n % NumRegs = a
      BY <1>5
    <2>. HIDE DEF q
    <2>3. i - j = 0 + NumRegs * (-q) /\ -q \in Int
      <3>1. a - i + j = NumRegs * q + a
        BY <2>1, <2>2
      <3>. HIDE DEF n
      <3>2. j - i = NumRegs * q
        BY <1>1, <2>1, <3>1
      <3>3. i - j = 0 - NumRegs * q
        BY <1>1, <2>1, <3>2
      <3>. QED
        BY <1>1, <2>1, <3>3
    <2>4. (0 + NumRegs * (-q)) % NumRegs = 0 % NumRegs
      <3>1. 0 \in Int
        OBVIOUS
      <3>. QED
        BY <1>1, <2>3, <3>1, ModuloShift
    <2>5. 0 % NumRegs = 0
      BY <1>1
    <2>. QED
      BY <2>3, <2>4, <2>5
  <1>. QED
    BY <1>2, <1>3, <1>4, <1>5

(***************************************************************************)
(* Every step keeps the invariant.                                         *)
(***************************************************************************)

LEMMA InitInv == Init => IInv
  <1>. SUFFICES ASSUME Init PROVE IInv
    OBVIOUS
  <1>1. Typed
    <2>1. 0 \in Vals
      BY Constants
    <2>. QED
      <3>1. ret = 0 /\ mem \in [Regs -> Vals] /\ pc = "idle" /\ call \in Calls /\ answer \in Vals
        BY <2>1, NoCallInCalls DEF Init
      <3>2. cmds \in Seq(Commands) /\ line \in Seq(Char) /\ tty \in Seq(Char)
        BY EmptySeq DEF Init
      <3>3. /\ pauses \in 0 .. MaxPauses /\ drops \in 0 .. MaxDrops
            /\ kills \in 0 .. MaxKills /\ dropped \in BOOLEAN /\ sound \in BOOLEAN
        <4>1. pauses = 0 /\ drops = 0 /\ kills = 0
          BY DEF Init
        <4>2. dropped = FALSE /\ sound = TRUE
          BY DEF Init
        <4>3. MaxPauses \in Nat /\ MaxDrops \in Nat /\ MaxKills \in Nat
          BY UartAssumption
        <4>4. 0 \in 0 .. MaxPauses /\ 0 \in 0 .. MaxDrops /\ 0 \in 0 .. MaxKills
          BY <4>3
        <4>. QED
          BY <4>1, <4>2, <4>4
      <3>. QED
        BY <3>1, <3>2, <3>3 DEF Typed
  <1>2. Backlog
    BY Constants DEF Init, Backlog, OnTheWay, Owed
  <1>3. Exchange /\ Landed /\ NoFault
    BY NoCallInCalls DEF Init, Exchange, Quiet, Landed, NoFault
  <1>. QED
    BY <1>1, <1>2, <1>3 DEF IInv

(* Steps that move no word and leave the registers keep what has landed.   *)
LEMMA WrittenSame ==
  ASSUME NEW n, mem' = mem, call' = call
  PROVE  Written(n)' <=> Written(n)
  BY DEF Written, Target

(* A transfer begins: nothing is on its way, nothing has been written.     *)
LEMMA BeginInv ==
  ASSUME IInv, NEW k \in {"read", "write"}, NEW r \in Regs, NEW l \in Lens,
         NEW b \in Buffers, Begin(k, r, l, b)
  PROVE  IInv'
  <1>. USE DEF IInv
  <1>1. NewCall(k, r, l, b) \in Calls /\ NewCall(k, r, l, b).i = 0
    BY BusAssumption DEF NewCall, Calls
  <1>2. Typed'
    BY <1>1 DEF Begin, faults, Typed
  <1>3. Backlog'
    BY DEF Begin, faults, Backlog, OnTheWay, Owed
  <1>4. Exchange'
    BY DEF Begin, faults, Exchange, Quiet
  <1>5. Landed'
    BY <1>1 DEF Begin, faults, Landed, Written
  <1>6. NoFault'
    BY DEF Begin, faults, NoFault, Faultless
  <1>. QED
    BY <1>2, <1>3, <1>4, <1>5, <1>6

(* A command is sent: it is the only one, in a program in step.            *)
LEMMA SendInv ==
  ASSUME IInv, Send
  PROVE  IInv'
  <1>. USE DEF IInv
  <1>1. Command(call) \in Commands
    BY CommandIsOne DEF Send, Typed
  <1>2. /\ cmds' \in Seq(Commands) /\ Len(cmds') = Len(cmds) + 1 /\ cmds' # <<>>
        /\ Len(cmds) \in Nat
    BY <1>1, AppendProperties DEF Send, Typed
  <1>3. Typed'
    BY <1>2 DEF Send, Typed
  <1>4. Backlog'
    <2>1. Len(line) \in Nat /\ Len(tty) \in Nat /\ Owed \in Nat /\ Owed' = Owed + 1
      BY DEF Send, Typed, Owed
    <2>2. /\ ReplyLen * (Len(cmds) + 1) = ReplyLen * Len(cmds) + ReplyLen
          /\ ReplyLen * (Owed + 1) = ReplyLen * Owed + ReplyLen
          /\ ReplyLen * Len(cmds) \in Nat /\ ReplyLen * Owed \in Nat /\ ReplyLen \in Nat
      BY <1>2, <2>1, Constants
    <2>3. /\ OnTheWay' = ReplyLen * (Len(cmds) + 1) + Len(line) + Len(tty)
          /\ OnTheWay = ReplyLen * Len(cmds) + Len(line) + Len(tty)
      BY <1>2 DEF Send, OnTheWay, ReplyLen, EolLen
    <2>4. Backlog' <=> OnTheWay' <= ReplyLen * Owed'
      BY DEF Backlog, ReplyLen, EolLen
    <2>. HIDE DEF IInv
    <2>5. OnTheWay <= ReplyLen * Owed
      BY DEF Backlog, IInv
    <2>. QED
      BY <1>2, <2>1, <2>2, <2>3, <2>4, <2>5
  <1>5. Exchange'
    <2>1. MoreWords(call)' /\ pc' = "reply"
      BY DEF Send, MoreWords
    <2>2. ASSUME sound' PROVE Unserved'
      <3>1. Quiet
        BY <2>2 DEF Send, Exchange
      <3>. QED
        BY <3>1 DEF Send, Quiet, Unserved, Command
    <2>. QED
      BY <2>1, <2>2 DEF Exchange
  <1>6. Landed'
    <2>1. ASSUME sound', call.kind = "write" PROVE Written(call.i)
      BY <2>1 DEF Send, Landed
    <2>. QED
      BY <1>2, <2>1 DEF Send, Landed, Written, Target
  <1>7. NoFault'
    BY DEF Send, NoFault, Faultless
  <1>. QED
    BY <1>3, <1>4, <1>5, <1>6, <1>7

(* A sound program that has characters to read is reading its one reply.   *)
LEMMA ReplyIsOwn ==
  ASSUME IInv, sound, pc = "reply", tty # <<>>
  PROVE  Answered
  BY DEF IInv, Exchange, Unserved

(* The word loop after a read(2) of the characters s. *)
LEMMA TakeReplyEffect ==
  ASSUME IInv, pc = "reply", NEW s \in Seq(Char), Len(s) <= ReplyLen, TakeReply(s)
  PROVE  /\ Scan(Overlay(s, call.at)) \in Vals
         /\ call' \in Calls
         /\ call'.kind = call.kind
         /\ sound /\ tty # <<>> /\ call.kind = "write" => Written(call.i)'
  <1>. DEFINE v == Scan(Overlay(s, call.at))
  <1>1. call \in Calls /\ call.at \in Regs /\ MoreWords(call)
    BY DEF IInv, Typed, Exchange, Calls
  <1>2. v \in Vals
    BY <1>1, OverlayInChars, ScanInVals
  <1>. HIDE DEF v
  <1>3. call' = AfterWord(call, v) /\ mem' = mem
    BY DEF TakeReply, v
  <1>4. /\ call' \in Calls /\ call'.i = call.i + 1
        /\ call'.at = (call.at + 1) % NumRegs
        /\ call'.kind = call.kind
        /\ call.kind = "write" => call'.buf = call.buf
    BY <1>1, <1>2, <1>3, AfterWordEffect
  <1>5. ASSUME sound, tty # <<>>, call.kind = "write" PROVE Written(call.i)'
    <2>1. Written(call.i + 1)
      BY <1>5, ReplyIsOwn DEF IInv, Landed, Answered
    <2>2. call.i \in Nat
      BY <1>1 DEF Calls
    <2>3. ASSUME NEW j \in Nat PROVE Target(j)' = Target(j)
      BY <1>1, <1>4, <2>2, TargetFacts DEF Target
    <2>4. ASSUME NEW j \in 0 .. call'.i - 1
          PROVE  mem'[Target(j)'] = call'.buf[j]
                 \/ \E k \in j + 1 .. call'.i - 1 : (k - j) % NumRegs = 0
      BY <1>3, <1>4, <1>5, <2>1, <2>2, <2>3 DEF Written
    <2>. QED
      BY <2>4 DEF Written
  <1>. QED
    BY <1>2, <1>4, <1>5 DEF v

(* A whole reply is taken: in a program in step it was all there was.      *)
LEMMA ReadFullInv ==
  ASSUME IInv, ReadFull
  PROVE  IInv'
  <1>. DEFINE s == SubSeq(tty, 1, ReplyLen)
              t == SubSeq(tty, ReplyLen + 1, Len(tty))
  <1>1. tty \in Seq(Char) /\ Len(tty) \in Nat /\ Len(tty) >= ReplyLen /\ pc = "reply"
    BY DEF IInv, Typed, ReadFull
  <1>2. s \in Seq(Char) /\ Len(s) = ReplyLen
    <2>1. \A k \in 1 .. ReplyLen : tty[k] \in Char
      BY <1>1, Constants, ElementOfSeq
    <2>2. /\ SubSeq(tty, 1, ReplyLen) \in Seq(Char)
          /\ Len(SubSeq(tty, 1, ReplyLen)) = IF 1 <= ReplyLen THEN ReplyLen - 1 + 1 ELSE 0
      BY <2>1, Constants, SubSeqProperties
    <2>. QED
      BY <2>2, Constants
  <1>3. t \in Seq(Char) /\ Len(t) = Len(tty) - ReplyLen
    <2>1. \A k \in ReplyLen + 1 .. Len(tty) : tty[k] \in Char
      BY <1>1, Constants, ElementOfSeq
    <2>2. /\ t \in Seq(Char)
          /\ Len(t) = IF ReplyLen + 1 <= Len(tty) THEN Len(tty) - (ReplyLen + 1) + 1 ELSE 0
      BY <1>1, <2>1, Constants, SubSeqProperties
    <2>. HIDE DEF t
    <2>. QED
      BY <1>1, <2>2, Constants
  <1>4. /\ TakeReply(s) /\ tty' = t /\ tty # <<>> /\ UNCHANGED <<pauses, sound>>
    BY <1>1, Constants DEF ReadFull
  <1>. HIDE DEF s, t
  <1>5. /\ call' \in Calls /\ call'.kind = call.kind
        /\ sound /\ call.kind = "write" => Written(call.i)'
    BY <1>1, <1>2, <1>4, Constants, TakeReplyEffect
  <1>6. /\ pc' = "loop"
        /\ UNCHANGED <<mem, ret, cmds, line, answer, drops, kills, dropped, pauses, sound>>
    BY <1>4 DEF TakeReply
  <1>7. Typed'
    BY <1>3, <1>4, <1>5, <1>6 DEF IInv, Typed
  <1>8. Backlog'
    <2>1. /\ Len(line) \in Nat /\ Len(cmds) \in Nat /\ Owed' \in Nat /\ Owed = Owed' + 1
      BY <1>1, <1>6 DEF IInv, Typed, Owed
    <2>2. /\ ReplyLen * (Owed' + 1) = ReplyLen * Owed' + ReplyLen
          /\ ReplyLen * Len(cmds) \in Nat /\ ReplyLen * Owed' \in Nat /\ ReplyLen \in Nat
      BY <2>1, Constants
    <2>3. ReplyLen * Len(cmds) + Len(line) + Len(tty) <= ReplyLen * (Owed' + 1)
      BY <2>1 DEF IInv, Backlog, OnTheWay
    <2>4. ReplyLen * Len(cmds) + Len(line) + (Len(tty) - ReplyLen) <= ReplyLen * Owed'
      BY <1>1, <2>1, <2>2, <2>3
    <2>. QED
      BY <1>3, <1>4, <1>6, <2>4 DEF Backlog, OnTheWay, ReplyLen, EolLen
  <1>9. Exchange'
    <2>1. ASSUME sound PROVE cmds = <<>> /\ line = <<>> /\ t = <<>>
      <3>1. Answered
        BY <1>1, <1>4, <2>1, ReplyIsOwn
      <3>2. Len(line) \in Nat /\ line \in Seq(Char)
        BY DEF IInv, Typed
      <3>3. Len(line) = 0 /\ Len(t) = 0
        BY <1>1, <1>3, <3>1, <3>2, Constants DEF Answered
      <3>. QED
        BY <1>3, <3>1, <3>2, <3>3, EmptySeq DEF Answered
    <2>. QED
      BY <1>4, <1>6, <2>1 DEF Exchange, Quiet
  <1>10. Landed'
    BY <1>5, <1>6 DEF Landed
  <1>11. NoFault'
    BY <1>6 DEF IInv, NoFault, Faultless
  <1>. QED
    BY <1>7, <1>8, <1>9, <1>10, <1>11 DEF IInv

(* Part of a reply is taken: out of step if more is to come.               *)
LEMMA ReadShortInv ==
  ASSUME IInv, ReadShort
  PROVE  IInv'
  <1>1. tty \in Seq(Char) /\ Len(tty) <= ReplyLen /\ pc = "reply" /\ tty # <<>> /\ TakeReply(tty)
    <2>1. tty \in Seq(Char) /\ Len(tty) \in Nat /\ Len(tty) < ReplyLen
      BY DEF IInv, Typed, ReadShort
    <2>. QED
      BY <2>1, Constants DEF ReadShort
  <1>2. /\ call' \in Calls /\ call'.kind = call.kind
        /\ sound /\ call.kind = "write" => Written(call.i)'
    BY <1>1, TakeReplyEffect
  <1>3. pc' = "loop" /\ tty' = <<>> /\ UNCHANGED <<mem, ret, cmds, line, answer, drops, kills, dropped>>
    BY <1>1 DEF TakeReply, ReadShort
  <1>4. \/ cmds = <<>> /\ line = <<>> /\ pauses' = pauses /\ sound' = sound
        \/ pauses' = pauses + 1 /\ pauses' \in 0 .. MaxPauses /\ sound' = FALSE
    BY UartAssumption DEF ReadShort, IInv, Typed
  <1>5. Typed'
    <2>1. pauses' \in 0 .. MaxPauses /\ sound' \in BOOLEAN
      BY <1>4 DEF IInv, Typed
    <2>2. tty' \in Seq(Char)
      BY <1>3, EmptySeq
    <2>. QED
      BY <1>2, <1>3, <2>1, <2>2 DEF IInv, Typed
  <1>6. Backlog'
    <2>1. /\ Len(line) \in Nat /\ Len(cmds) \in Nat /\ Len(tty) \in Nat /\ Owed \in Nat
          /\ Owed' \in Nat
      BY <1>3, <1>4 DEF IInv, Typed, Owed
    <2>2. /\ ReplyLen * Len(cmds) \in Nat /\ ReplyLen * Owed' \in Nat /\ ReplyLen \in Nat
      BY <2>1, Constants
    <2>3. OnTheWay' = ReplyLen * Len(cmds) + Len(line) + 0
      BY <1>3 DEF OnTheWay, ReplyLen, EolLen
    <2>4. CASE cmds = <<>> /\ line = <<>>
      <3>1. Len(cmds) = 0 /\ Len(line) = 0
        BY <2>4
      <3>2. OnTheWay' = 0
        BY <2>2, <2>3, <3>1
      <3>. QED
        BY <2>2, <3>2 DEF Backlog, ReplyLen, EolLen
    <2>5. CASE pauses' = pauses + 1
      <3>1. Owed' = Owed
        BY <1>1, <1>3, <2>5 DEF IInv, Typed, Owed
      <3>2. ReplyLen * Len(cmds) + Len(line) + Len(tty) <= ReplyLen * Owed'
        BY <3>1 DEF IInv, Backlog, OnTheWay
      <3>3. OnTheWay' <= ReplyLen * Owed'
        BY <2>1, <2>2, <2>3, <3>2
      <3>. QED
        BY <3>3 DEF Backlog, ReplyLen, EolLen
    <2>. QED
      BY <1>4, <2>4, <2>5
  <1>7. Exchange'
    BY <1>3, <1>4 DEF Exchange, Quiet
  <1>8. Landed'
    BY <1>1, <1>2, <1>3, <1>4 DEF Landed
  <1>9. NoFault'
    BY <1>3, <1>4 DEF IInv, Typed, NoFault, Faultless
  <1>. QED
    BY <1>5, <1>6, <1>7, <1>8, <1>9 DEF IInv

(* A transfer returns.                                                     *)
LEMMA ReturnInv ==
  ASSUME IInv, Return
  PROVE  IInv'
  <1>. USE DEF IInv
  <1>1. Typed'
    BY DEF Return, faults, Typed, Calls
  <1>2. Backlog'
    BY DEF Return, faults, Backlog, OnTheWay, Owed
  <1>3. Exchange'
    BY DEF Return, faults, Exchange, Quiet
  <1>4. Landed'
    BY WrittenSame DEF Return, faults, Landed
  <1>5. NoFault'
    BY DEF Return, faults, NoFault, Faultless
  <1>. QED
    BY <1>1, <1>2, <1>3, <1>4, <1>5

(* A program ends: the reply it waited for is owed to nobody.              *)
LEMMA KillInv ==
  ASSUME IInv, Kill
  PROVE  IInv'
  <1>. USE DEF IInv
  <1>1. Typed'
    BY NoCallInCalls, UartAssumption DEF Kill, Typed
  <1>2. Backlog'
    <2>1. Owed \in Nat /\ (Owed' = Owed \/ Owed' = Owed + 1) /\ OnTheWay \in Nat
      <3>1. Len(cmds) \in Nat /\ Len(line) \in Nat /\ Len(tty) \in Nat
        BY DEF Typed
      <3>2. ReplyLen * Len(cmds) \in Nat
        BY <3>1, Constants
      <3>. QED
        BY <3>1, <3>2 DEF Kill, Typed, Owed, OnTheWay
    <2>2. ReplyLen * Owed <= ReplyLen * Owed'
      <3>1. ReplyLen * (Owed + 1) = ReplyLen * Owed + ReplyLen /\ ReplyLen * Owed \in Nat
            /\ ReplyLen \in Nat
        BY <2>1, Constants
      <3>. HIDE DEF IInv
      <3>. QED
        BY <2>1, <3>1
    <2>3. OnTheWay' = OnTheWay
      BY DEF Kill, OnTheWay, ReplyLen, EolLen
    <2>4. Owed' \in Nat /\ ReplyLen * Owed \in Nat /\ ReplyLen * Owed' \in Nat
      BY <2>1, Constants
    <2>5. OnTheWay <= ReplyLen * Owed
      BY DEF Backlog
    <2>6. OnTheWay' <= ReplyLen * Owed'
      BY <2>1, <2>2, <2>3, <2>4, <2>5
    <2>. QED
      BY <2>6 DEF Backlog, ReplyLen, EolLen
  <1>3. Exchange'
    BY NoCallInCalls DEF Kill, Exchange
  <1>4. Landed'
    BY DEF Kill, Landed
  <1>5. NoFault'
    BY DEF Kill, Typed, NoFault, Faultless
  <1>. QED
    BY <1>1, <1>2, <1>3, <1>4, <1>5

(* The next program is in step if the line was quiet when it opened it.    *)
(* The next program flushes the terminal: in step if the line is quiet.    *)
LEMMA OpenInv ==
  ASSUME IInv, Open
  PROVE  IInv'
  <1>. USE DEF IInv
  <1>1. Typed'
    BY EmptySeq DEF Open, Typed
  <1>2. Backlog'
    <2>1. Len(cmds) \in Nat /\ Len(line) \in Nat /\ Len(tty) \in Nat /\ Owed' = Owed
      BY DEF Typed, Open, Owed
    <2>2. ReplyLen * Len(cmds) \in Nat
      BY <2>1, Constants
    <2>3. OnTheWay' = ReplyLen * Len(cmds) + Len(line) + 0
      BY DEF Open, OnTheWay, ReplyLen, EolLen
    <2>4. Owed \in Nat /\ ReplyLen * Owed \in Nat
      <3>1. Owed \in Nat
        BY DEF Typed, Owed
      <3>. QED
        BY <3>1, Constants
    <2>5. ReplyLen * Len(cmds) + Len(line) + Len(tty) <= ReplyLen * Owed
      BY DEF Backlog, OnTheWay
    <2>6. OnTheWay' <= ReplyLen * Owed'
      <3>. HIDE DEF IInv
      <3>. QED
        BY <2>1, <2>2, <2>3, <2>4, <2>5
    <2>. QED
      BY <2>6 DEF Backlog, ReplyLen, EolLen
  <1>3. Exchange'
    BY DEF Open, Exchange, Quiet
  <1>4. Landed'
    <2>1. call'.kind = "read"
      BY DEF Open, Exchange
    <2>. QED
      BY <2>1 DEF Landed
  <1>5. NoFault'
    BY DEF Open, NoFault, Faultless
  <1>. QED
    BY <1>1, <1>2, <1>3, <1>4, <1>5

(* The bridge turns a command into its reply, and a written word lands.    *)
LEMMA ServeInv ==
  ASSUME IInv, Serve
  PROVE  IInv'
  <1>. DEFINE c == Head(cmds)
  <1>1. c \in Commands /\ Tail(cmds) \in Seq(Commands) /\ Len(Tail(cmds)) = Len(cmds) - 1
        /\ Len(cmds) \in Nat /\ cmds # <<>>
    BY HeadTailProperties DEF IInv, Typed, Serve
  <1>. HIDE DEF c
  <1>2. /\ cmds' = Tail(cmds)
        /\ mem' = IF c.kind = "write" THEN [mem EXCEPT ![c.at] = c.word] ELSE mem
        /\ answer' = mem'[c.at]
        /\ line' = line \o ReplyTo(answer')
        /\ UNCHANGED <<pc, call, ret, tty, pauses, drops, kills, dropped, sound>>
    BY DEF Serve, c, faults
  <1>3. mem' \in [Regs -> Vals] /\ answer' \in Vals
    BY <1>1, <1>2 DEF IInv, Typed, Commands
  <1>4. /\ ReplyTo(answer') \in Seq(Char) /\ Len(ReplyTo(answer')) = ReplyLen
        /\ line' \in Seq(Char) /\ Len(line') = Len(line) + ReplyLen
    <2>1. ReplyTo(answer') \in Seq(Char) /\ Len(ReplyTo(answer')) = ReplyLen
      BY <1>3, ReplyShape
    <2>2. line \in Seq(Char)
      BY DEF IInv, Typed
    <2>3. line \o ReplyTo(answer') \in Seq(Char)
          /\ Len(line \o ReplyTo(answer')) = Len(line) + Len(ReplyTo(answer'))
      BY <2>1, <2>2, ConcatProperties
    <2>. QED
      BY <1>2, <2>1, <2>3
  <1>5. Typed'
    BY <1>1, <1>2, <1>3, <1>4 DEF IInv, Typed
  <1>6. Backlog'
    <2>1. Len(line) \in Nat /\ Len(tty) \in Nat /\ Len(cmds) - 1 \in Nat
      <3>1. Len(cmds) # 0
        BY <1>1, EmptySeq DEF IInv, Typed
      <3>. QED
        BY <1>1, <3>1 DEF IInv, Typed
    <2>2. /\ ReplyLen * (Len(cmds) - 1) \in Nat /\ ReplyLen \in Nat
          /\ ReplyLen * ((Len(cmds) - 1) + 1) = ReplyLen * (Len(cmds) - 1) + ReplyLen
      BY <2>1, Constants
    <2>3. ReplyLen * Len(cmds) = ReplyLen * (Len(cmds) - 1) + ReplyLen
      <3>1. (Len(cmds) - 1) + 1 = Len(cmds)
        BY <1>1
      <3>. QED
        BY <2>2, <3>1
    <2>4. OnTheWay' = ReplyLen * (Len(cmds) - 1) + (Len(line) + ReplyLen) + Len(tty)
      BY <1>1, <1>2, <1>4 DEF OnTheWay, ReplyLen, EolLen
    <2>5. OnTheWay' = OnTheWay
      BY <2>1, <2>2, <2>3, <2>4 DEF OnTheWay
    <2>6. Owed' = Owed
      BY <1>2 DEF Owed
    <2>. QED
      BY <2>5, <2>6 DEF IInv, Backlog, ReplyLen, EolLen
  <1>7. ASSUME sound, pc # "closed"
        PROVE  /\ pc = "reply" /\ cmds' = <<>> /\ c = Command(call) /\ line = <<>> /\ tty = <<>>
    <2>1. pc = "reply"
      BY <1>1, <1>7 DEF IInv, Typed, Exchange, Quiet
    <2>2. Unserved
      BY <1>1, <1>7, <2>1 DEF IInv, Exchange, Answered
    <2>. QED
      BY <1>2, <2>1, <2>2 DEF Unserved, c
  <1>8. ASSUME sound, pc # "closed"
        PROVE  /\ c.kind = call.kind /\ c.at = call.at
               /\ call.kind = "write" => c.word = call.buf[call.i]
    BY <1>7, <1>8 DEF Command
  <1>9. call \in Calls /\ call.at \in Regs /\ call.i \in Nat
    BY DEF IInv, Typed, Calls
  <1>10. Exchange'
    <2>1. pc' = "reply" => MoreWords(call)'
      BY <1>2 DEF IInv, Exchange, MoreWords
    <2>3. pc' = "closed" => call'.kind = "read"
      BY <1>2 DEF IInv, Exchange
    <2>2. ASSUME sound', pc' # "closed" PROVE Answered' /\ pc' = "reply"
      <3>1. cmds' = <<>> /\ line = <<>> /\ tty = <<>> /\ pc' = "reply"
        BY <1>2, <1>7, <2>2
      <3>2. line' = ReplyTo(answer') /\ tty' \o line' = ReplyTo(answer')
        BY <1>2, <1>4, <3>1, ConcatEmptySeq
      <3>3. Len(tty') + Len(line') = ReplyLen
        BY <1>2, <1>4, <3>1, Constants
      <3>4. call.kind = "write" => mem'[call.at] = call.buf[call.i]
        BY <1>2, <1>8, <1>9, <2>2 DEF IInv, Typed
      <3>5. (Len(tty) + Len(line) <= ReplyLen)'
        BY <3>3, Constants DEF ReplyLen, EolLen
      <3>6. (tty \o line = ReplyTo(answer))'
        BY <3>2
      <3>. QED
        BY <1>2, <3>1, <3>4, <3>5, <3>6 DEF Answered
    <2>. QED
      BY <2>1, <2>2, <2>3 DEF Exchange
  <1>11. Landed'
    <2>1. ASSUME sound', pc' # "closed", call'.kind = "write" PROVE Written(call.i + 1)'
      <3>1. /\ pc = "reply" /\ c.kind = "write" /\ c.at = call.at
            /\ c.word = call.buf[call.i] /\ call' = call
        BY <1>2, <1>7, <1>8, <2>1
      <3>2. mem' = [mem EXCEPT ![call.at] = call.buf[call.i]] /\ mem \in [Regs -> Vals]
        BY <1>2, <3>1 DEF IInv, Typed
      <3>3. Written(call.i)
        BY <1>1, <1>2, <2>1, <3>1 DEF IInv, Landed
      <3>4. ASSUME NEW j \in 0 .. call.i
            PROVE  mem'[Target(j)] = call.buf[j]
                   \/ \E k \in j + 1 .. call.i : (k - j) % NumRegs = 0
        <4>1. /\ Target(j) \in Regs
              /\ Target(call.i) = call.at
              /\ Target(j) = call.at => (call.i - j) % NumRegs = 0
          <5>1. j \in Nat
            BY <1>9
          <5>2. Target(j) \in Regs /\ (Target(j) = call.at => (call.i - j) % NumRegs = 0)
            BY <1>9, <5>1, TargetFacts DEF Target
          <5>3. Target(call.i) = call.at
            BY <1>9, TargetFacts DEF Target
          <5>. QED
            BY <5>2, <5>3
        <4>2. CASE j = call.i
          BY <1>9, <3>2, <4>1, <4>2
        <4>3. CASE j # call.i
          <5>1. j \in 0 .. call.i - 1 /\ call.i \in j + 1 .. call.i
                /\ \A k \in j + 1 .. call.i - 1 : k \in j + 1 .. call.i
            BY <1>9, <4>3
          <5>2. mem[Target(j)] = call.buf[j]
                \/ \E k \in j + 1 .. call.i - 1 : (k - j) % NumRegs = 0
            BY <3>3, <5>1 DEF Written
          <5>3. CASE Target(j) = call.at
            BY <4>1, <5>1, <5>3
          <5>4. CASE Target(j) # call.at
            BY <3>2, <4>1, <5>1, <5>2, <5>4
          <5>. QED
            BY <5>3, <5>4
        <4>. QED
          BY <4>2, <4>3
      <3>5. \A j \in 0 .. (call.i + 1) - 1 :
              mem'[Target(j)] = call.buf[j]
              \/ \E k \in j + 1 .. (call.i + 1) - 1 : (k - j) % NumRegs = 0
        <4>1. (call.i + 1) - 1 = call.i
          BY <1>9
        <4>. QED
          BY <3>4, <4>1
      <3>. QED
        BY <3>1, <3>5 DEF Written, Target
    <2>2. ASSUME sound', pc' # "closed" PROVE pc' = "reply" /\ cmds' = <<>>
      BY <1>2, <1>7, <2>2
    <2>. QED
      BY <1>2, <2>1, <2>2 DEF Landed
  <1>12. NoFault'
    BY <1>2 DEF IInv, NoFault, Faultless
  <1>. QED
    BY <1>5, <1>6, <1>10, <1>11, <1>12 DEF IInv

(* A character moves from the line to the terminal.                        *)
LEMMA DeliverInv ==
  ASSUME IInv, Deliver
  PROVE  IInv'
  <1>1. /\ tty' \in Seq(Char) /\ line' \in Seq(Char)
        /\ Len(tty') = Len(tty) + 1 /\ Len(line') = Len(line) - 1
        /\ tty' \o line' = tty \o line
        /\ line # <<>> /\ Len(tty) \in Nat /\ Len(line) \in Nat
    BY DeliverKeeps, SMTT(30) DEF IInv, Typed, Deliver
  <1>2. UNCHANGED <<mem, pc, call, ret, cmds, answer, pauses, drops, kills, dropped, sound>>
    BY DEF Deliver, faults
  <1>3. Typed'
    BY <1>1, <1>2 DEF IInv, Typed
  <1>4. Backlog'
    <2>1. Len(cmds) \in Nat
      BY DEF IInv, Typed
    <2>2. ReplyLen * Len(cmds) \in Nat
      BY <2>1, Constants
    <2>3. OnTheWay' = OnTheWay
      BY <1>1, <1>2, <2>2 DEF OnTheWay, ReplyLen, EolLen
    <2>. QED
      BY <1>2, <2>3 DEF IInv, Backlog, Owed, ReplyLen, EolLen
  <1>5. Exchange'
    <2>1. ASSUME sound PROVE pc \notin {"idle", "loop"} /\ (pc = "reply" => Answered)
      BY <1>1, <2>1 DEF IInv, Exchange, Quiet, Unserved
    <2>2. ASSUME Answered PROVE Answered'
      <3>1. Len(tty') + Len(line') <= ReplyLen
        BY <1>1, <2>2, Constants DEF Answered
      <3>2. (Len(tty) + Len(line) <= ReplyLen)'
        BY <3>1 DEF ReplyLen, EolLen
      <3>3. ~ dropped' => (tty \o line = ReplyTo(answer))'
        BY <1>1, <1>2, <2>2 DEF Answered, ReplyTo, Hex
      <3>. QED
        BY <1>2, <2>2, <3>2, <3>3 DEF Answered
    <2>. QED
      BY <1>2, <2>1, <2>2 DEF IInv, Exchange, MoreWords
  <1>6. Landed'
    BY <1>2, WrittenSame DEF IInv, Landed, Written, Target
  <1>7. NoFault'
    BY <1>2 DEF IInv, NoFault, Faultless
  <1>. QED
    BY <1>3, <1>4, <1>5, <1>6, <1>7 DEF IInv

(* A character is lost: there is less on its way, and the word is marked.  *)
LEMMA DropInv ==
  ASSUME IInv, Drop
  PROVE  IInv'
  <1>1. /\ line' \in Seq(Char) /\ Len(line') = Len(line) - 1 /\ line # <<>>
        /\ tty \in Seq(Char) /\ Len(tty) \in Nat /\ Len(line) \in Nat
    BY HeadTailProperties DEF IInv, Typed, Drop
  <1>2. /\ drops' = drops + 1 /\ drops' \in 0 .. MaxDrops /\ drops' # 0 /\ dropped' = TRUE
        /\ UNCHANGED <<mem, pc, call, ret, cmds, tty, answer, pauses, kills, sound>>
    BY UartAssumption DEF IInv, Typed, Drop
  <1>3. Typed'
    BY <1>1, <1>2 DEF IInv, Typed
  <1>4. Backlog'
    <2>1. Len(cmds) \in Nat /\ Owed \in Nat
      BY DEF IInv, Typed, Owed
    <2>2. ReplyLen * Len(cmds) \in Nat /\ ReplyLen * Owed \in Nat
      BY <2>1, Constants
    <2>3. OnTheWay' = ReplyLen * Len(cmds) + (Len(line) - 1) + Len(tty)
      BY <1>1, <1>2 DEF OnTheWay, ReplyLen, EolLen
    <2>4. ReplyLen * Len(cmds) + Len(line) + Len(tty) <= ReplyLen * Owed
      BY DEF IInv, Backlog, OnTheWay
    <2>5. OnTheWay' <= ReplyLen * Owed
      BY <1>1, <2>2, <2>3, <2>4
    <2>6. Owed' = Owed
      BY <1>2 DEF Owed
    <2>. QED
      BY <2>5, <2>6 DEF Backlog, ReplyLen, EolLen
  <1>5. Exchange'
    <2>1. ASSUME sound PROVE pc \notin {"idle", "loop"} /\ (pc = "reply" => Answered)
      BY <1>1, <2>1 DEF IInv, Exchange, Quiet, Unserved
    <2>2. ASSUME Answered PROVE Answered'
      <3>1. Len(tty') + Len(line') <= ReplyLen
        BY <1>1, <1>2, <2>2, Constants DEF Answered
      <3>2. (Len(tty) + Len(line) <= ReplyLen)'
        BY <3>1 DEF ReplyLen, EolLen
      <3>. QED
        BY <1>2, <2>2, <3>2 DEF Answered
    <2>. QED
      BY <1>2, <2>1, <2>2 DEF IInv, Exchange, MoreWords
  <1>6. Landed'
    BY <1>2 DEF IInv, Landed, Written, Target
  <1>7. NoFault'
    BY <1>2 DEF IInv, NoFault, Faultless
  <1>. QED
    BY <1>3, <1>4, <1>5, <1>6, <1>7 DEF IInv

(* Every step keeps the invariant.                                         *)
LEMMA NextInv == IInv /\ [Next]_vars => IInv'
  <1>. SUFFICES ASSUME IInv, [Next]_vars PROVE IInv'
    OBVIOUS
  <1>1. CASE UNCHANGED vars
    <2>1. Typed' /\ NoFault'
      BY <1>1 DEF IInv, Typed, NoFault, Faultless, vars, faults
    <2>2. Backlog'
      BY <1>1 DEF IInv, Backlog, OnTheWay, Owed, ReplyLen, EolLen, vars, faults
    <2>3. Exchange'
      BY <1>1 DEF IInv, Exchange, Quiet, Unserved, Answered, MoreWords, Command, ReplyTo, Hex,
                  ReplyLen, EolLen, vars, faults
    <2>4. Landed'
      BY <1>1 DEF IInv, Landed, Written, Target, vars, faults
    <2>. QED
      BY <2>1, <2>2, <2>3, <2>4 DEF IInv
  <1>2. NoCall.buf \in Buffers
    BY NoCallInCalls DEF Calls
  <1>. QED
    BY <1>1, <1>2, BeginInv, SendInv, ReadFullInv, ReadShortInv, ReturnInv, KillInv, OpenInv,
       ServeInv, DeliverInv, DropInv DEF Next, Step

(* Every reachable state satisfies the inductive invariant. *)
THEOREM Invariance == Spec => []IInv
  <1>. QED
    BY InitInv, NextInv, PTL DEF Spec

(* Type correctness of the serial bus: also after pauses and kills, what   *)
(* is left on the line is at most one command and one reply for each of    *)
(* them, so the queues of the model, and of the terminal, stay bounded.    *)
THEOREM TypeCorrect == Spec => []TypeOK
  <1>1. ASSUME IInv PROVE TypeOK
    <2>1. /\ Len(cmds) \in Nat /\ Len(line) \in Nat /\ Len(tty) \in Nat
          /\ Owed \in Nat /\ MaxPauses + MaxKills + 1 \in Nat
          /\ Owed <= MaxPauses + MaxKills + 1
      BY <1>1, UartAssumption DEF IInv, Typed, Owed
    <2>2. ReplyLen * Len(cmds) + Len(line) + Len(tty) <= ReplyLen * Owed
      BY <1>1 DEF IInv, Backlog, OnTheWay
    <2>. DEFINE most == MaxPauses + MaxKills + 1
    <2>. HIDE DEF most
    <2>3. most \in Nat /\ Owed <= most
      BY <2>1 DEF most
    <2>4. \A x, y \in Nat : x <= y => ReplyLen * x <= ReplyLen * y
      BY Constants
    <2>5. \A x, y \in Nat : ReplyLen * x <= ReplyLen * y => x <= y
      <3>1. ReplyLen \in Nat \ {0}
        BY Constants
      <3>2. ASSUME NEW x \in Nat, NEW y \in Nat, x > y, ReplyLen * x <= ReplyLen * y PROVE FALSE
        <4>1. ReplyLen * (y + 1) <= ReplyLen * x
          BY <3>1, <3>2
        <4>2. ReplyLen * (y + 1) = ReplyLen * y + ReplyLen /\ ReplyLen * y \in Nat
              /\ ReplyLen * x \in Nat
          BY Constants, <3>2
        <4>. QED
          BY <3>1, <3>2, <4>1, <4>2
      <3>. QED
        BY <3>2
    <2>6. ReplyLen * Owed <= ReplyLen * most
      BY <2>1, <2>3, <2>4
    <2>7. ReplyLen * Len(cmds) \in Nat /\ ReplyLen * Owed \in Nat /\ ReplyLen * most \in Nat
          /\ ReplyLen * most = most * ReplyLen
      BY <2>1, <2>3, Constants
    <2>8. /\ ReplyLen * Len(cmds) <= ReplyLen * most
          /\ Len(line) + Len(tty) <= most * ReplyLen
      BY <2>1, <2>2, <2>6, <2>7
    <2>9. Len(cmds) <= most
      BY <2>1, <2>3, <2>5, <2>8
    <2>. QED
      BY <1>1, <2>8, <2>9 DEF IInv, Typed, TypeOK, most, Commands, Char
  <1>. QED
    BY <1>1, Invariance, PTL

(* A program that has seen no pause is in step with the bridge whenever it *)
(* is not waiting, however many characters were lost.                      *)
THEOREM AlwaysInStep == Spec => []InStep
  <1>1. IInv => InStep
    BY DEF IInv, Exchange, Quiet, InStep
  <1>. QED
    BY <1>1, Invariance, PTL

(* A write has reached its register when the word loop goes on.            *)
THEOREM AlwaysWritesLand == Spec => []WritesLand
  <1>1. IInv => WritesLand
    BY DEF IInv, Landed, Written, Target, WritesLand
  <1>. QED
    BY <1>1, Invariance, PTL

(* A program in step that takes a whole reply takes the bridge's answer.   *)
LEMMA TakesAnswer ==
  ASSUME IInv, ReadFull \/ ReadShort, sound', ~ dropped
  PROVE  call' = AfterWord(call, answer) /\ cmds = <<>> /\ MoreWords(call) /\ sound
  <1>1. /\ pc = "reply" /\ tty # <<>> /\ sound
        /\ ReadShort => line = <<>> /\ Len(tty) < ReplyLen
    <2>1. CASE ReadFull
      <3>1. pc = "reply" /\ Len(tty) >= ReplyLen /\ sound
        BY <2>1 DEF ReadFull
      <3>2. tty # <<>>
        BY <3>1, Constants
      <3>3. ~ ReadShort
        BY <3>1, Constants DEF ReadShort, IInv, Typed
      <3>. QED
        BY <3>1, <3>2, <3>3
    <2>2. CASE ReadShort
      BY <2>2 DEF ReadShort
    <2>. QED
      BY <2>1, <2>2
  <1>2. Answered /\ tty \o line = ReplyTo(answer) /\ MoreWords(call)
    BY <1>1, ReplyIsOwn DEF Answered, IInv, Exchange
  <1>3. /\ tty \in Seq(Char) /\ line \in Seq(Char) /\ answer \in Vals
        /\ Len(tty) \in Nat /\ Len(line) \in Nat /\ call.at \in Regs
    BY DEF IInv, Typed, Calls
  <1>4. ~ ReadShort
    <2>1. SUFFICES ASSUME ReadShort PROVE FALSE
      OBVIOUS
    <2>2. tty = ReplyTo(answer)
      BY <1>1, <1>2, <1>3, <2>1, ConcatEmptySeq
    <2>. QED
      BY <1>1, <1>3, <2>1, <2>2, ReplyShape, Constants
  <1>5. Len(tty) = ReplyLen /\ line = <<>>
    <2>1. Len(tty) >= ReplyLen /\ Len(tty) + Len(line) <= ReplyLen
      BY <1>2, <1>4 DEF ReadFull, Answered
    <2>2. Len(tty) = ReplyLen /\ Len(line) = 0
      BY <1>3, <2>1, Constants
    <2>. QED
      BY <1>3, <2>2, EmptySeq
  <1>6. SubSeq(tty, 1, ReplyLen) = ReplyTo(answer)
    BY <1>2, <1>3, <1>5, ConcatEmptySeq, SubSeqFull
  <1>7. call' = AfterWord(call, Scan(Overlay(ReplyTo(answer), call.at)))
    BY <1>4, <1>6 DEF ReadFull, TakeReply
  <1>. QED
    BY <1>1, <1>2, <1>3, <1>7, ScanOfReply DEF Answered

(* In such a program, a word that is read is the one the bridge answered   *)
(* with: no digit is dropped, doubled or left over from the command.       *)
THEOREM AlwaysReadsTrue == Spec => ReadsTrue
  <1>1. ASSUME IInv, [Next]_vars
        PROVE  [pc = "reply" /\ pc' = "loop" /\ call.kind = "read" /\ sound' /\ ~ dropped
                  => call'.buf[call.i] = answer]_vars
    <2>1. SUFFICES ASSUME pc = "reply", pc' = "loop", call.kind = "read", sound', ~ dropped
                   PROVE  call'.buf[call.i] = answer
      OBVIOUS
    <2>2. ReadFull \/ ReadShort
      BY <1>1, <2>1 DEF Next, Step, Begin, Send, Return, Kill, Open, Serve, Deliver, Drop, vars
    <2>3. call' = AfterWord(call, answer) /\ MoreWords(call)
      BY <1>1, <2>1, <2>2, TakesAnswer
    <2>4. call \in Calls /\ answer \in Vals
      BY <1>1 DEF IInv, Typed
    <2>. QED
      BY <2>1, <2>3, <2>4, AfterWordEffect
  <1>. QED
    BY <1>1, Invariance, PTL DEF Spec, ReadsTrue

---------------------------------------------------------------------------
(* Up to the first fault, UartBus implements WbBus. *)

LEMMA SameData ==
  /\ WB!Regs = Regs
  /\ WB!Calls = Calls
  /\ \A c : WB!MoreWords(c) <=> MoreWords(c)
  /\ \A c, v : WB!AfterWord(c, v) = AfterWord(c, v)
  /\ \A m, c, r : WB!MemAfterWord(m, c, r) = MemAfterWord(m, c, r)
  BY DEF Regs, WB!Regs, Calls, WB!Calls, Buffers, WB!Buffers, MoreWords, WB!MoreWords,
         AfterWord, WB!AfterWord, Advance, WB!Advance, MemAfterWord, WB!MemAfterWord

(* The initial states are those of WbBus.                                  *)
LEMMA InitRefines == Init => WB!Init
  <1>. SUFFICES ASSUME Init PROVE WB!Init
    OBVIOUS
  <1>1. ~ Served
    BY DEF Init, Served
  <1>2. call \in {c \in Calls : c.i = 0}
    BY NoCallInCalls DEF Init
  <1>. QED
    BY <1>1, <1>2, SameData DEF Init, WB!Init

(* One step of the program or the bridge, seen from the abstract bus. *)
LEMMA NextRefines ==
  ASSUME IInv, [Next]_vars, Faultless'
  PROVE  [WB!Next]_(WB!vars)
  <1>. DEFINE p == "program"
  <1>1. CASE UNCHANGED vars
    BY <1>1 DEF vars, faults, WB!vars, Served, AfterWord, Advance
  <1>2. CASE Next
    <2>1. Faultless /\ sound /\ ~ dropped /\ pc # "closed"
      <3>1. Faultless
        BY <1>2 DEF Next, Step, Begin, Send, ReadFull, ReadShort, TakeReply, Return, Kill, Open,
                    Serve, Deliver, Drop, faults, Faultless, IInv, Typed
      <3>. QED
        BY <3>1 DEF IInv, NoFault
    <2>2. ASSUME NEW k \in {"read", "write"}, NEW r \in Regs, NEW l \in Lens,
                 NEW b \in Buffers, Begin(k, r, l, b)
          PROVE  WB!Begin(p)
      <3>1. NewCall(k, r, l, b) \in {x \in Calls : x.i = 0}
        BY BusAssumption DEF NewCall, Calls
      <3>2. ~ Served /\ ~ Served' /\ pc = "idle" /\ pc' = "loop" /\ mem' = mem /\ ret' = ret
            /\ call' = NewCall(k, r, l, b)
        BY <2>2 DEF Begin, Served
      <3>. QED
        BY <3>1, <3>2, SameData DEF WB!Begin
    <2>3. CASE Send
      <3>1. ~ Served /\ ~ Served' /\ pc = "loop" /\ pc' = "reply" /\ UNCHANGED <<mem, ret, call>>
        <4>1. cmds' # <<>>
          BY <2>3 DEF Send, IInv, Typed
        <4>. QED
          BY <2>3, <4>1 DEF Send, Served
      <3>. QED
        BY <3>1 DEF WB!vars
    <2>4. CASE ReadFull \/ ReadShort
      <3>1. sound'
        <4>1. Faultless' => sound'
          BY NextInv, <1>2 DEF IInv, NoFault
        <4>. QED
          BY <4>1
      <3>2. call' = AfterWord(call, answer) /\ cmds = <<>>
        BY <2>1, <2>4, <3>1, TakesAnswer
      <3>3. pc = "reply" /\ pc' = "loop" /\ UNCHANGED <<mem, ret>>
        BY <2>4 DEF ReadFull, ReadShort, TakeReply
      <3>4. Served /\ ~ Served'
        BY <3>2, <3>3 DEF Served
      <3>. QED
        BY <3>2, <3>3, <3>4 DEF WB!vars
    <2>5. CASE Return
      <3>1. /\ ~ Served /\ ~ Served' /\ pc = "loop" /\ pc' = "idle" /\ UNCHANGED <<mem, call>>
            /\ ~ MoreWords(call) /\ ret' = call.len
        BY <2>5 DEF Return, Served
      <3>2. WB!End(p)
        BY <3>1, SameData DEF WB!End
      <3>. QED
        BY <3>2 DEF WB!Next
    <2>6. ~ Kill /\ ~ Open /\ ~ Drop
      BY <2>1 DEF Kill, Open, Drop, Faultless
    <2>7. CASE Serve
      <3>1. /\ pc = "reply" /\ cmds = <<Command(call)>> /\ MoreWords(call)
        BY <2>1, <2>7 DEF IInv, Typed, Exchange, Quiet, Unserved, Answered, Serve
      <3>2. Head(cmds) = Command(call) /\ cmds' = <<>>
        BY <2>7, <3>1 DEF Serve
      <3>3. /\ mem' = MemAfterWord(mem, call, call.at) /\ answer' = mem'[call.at]
            /\ UNCHANGED <<pc, call, ret>>
        <4>1. /\ Command(call).kind = call.kind /\ Command(call).at = call.at
              /\ call.kind = "write" => Command(call).word = call.buf[call.i]
          BY DEF Command
        <4>2. /\ mem' = IF call.kind = "write" THEN [mem EXCEPT ![call.at] = Command(call).word]
                        ELSE mem
              /\ answer' = mem'[call.at]
          BY <2>7, <3>2, <4>1 DEF Serve
        <4>3. mem' = MemAfterWord(mem, call, call.at)
          BY <4>1, <4>2 DEF MemAfterWord
        <4>4. UNCHANGED <<pc, call, ret>>
          BY <2>7 DEF Serve
        <4>. QED
          BY <4>2, <4>3, <4>4
      <3>4. AfterWord(call, answer') = AfterWord(call, mem[call.at])
        <4>1. CASE call.kind = "write"
          BY <4>1 DEF AfterWord
        <4>2. CASE call.kind # "write"
          BY <3>3, <4>2 DEF MemAfterWord
        <4>. QED
          BY <4>1, <4>2
      <3>5. ~ Served /\ Served' /\ pc' = "reply"
        BY <3>1, <3>2, <3>3 DEF Served
      <3>6. WB!Word(p)
        BY <3>1, <3>3, <3>4, <3>5, SameData DEF WB!Word
      <3>. QED
        BY <3>6 DEF WB!Next
    <2>8. CASE Deliver
      BY <2>8 DEF Deliver, faults, WB!vars, Served
    <2>9. NoCall.buf \in Buffers
      BY NoCallInCalls DEF Calls
    <2>10. ASSUME NEW k \in {"read", "write"}, NEW r \in Regs, NEW l \in Lens,
                  NEW b \in Buffers, Begin(k, r, l, b)
           PROVE  WB!Next
      BY <2>2, <2>10 DEF WB!Next
    <2>. QED
      BY <1>2, <2>3, <2>4, <2>5, <2>6, <2>7, <2>8, <2>9, <2>10 DEF Next, Step
  <1>. QED
    BY <1>1, <1>2

(* As long as nothing has failed, callers see the bus of WbBus: words in   *)
(* order, each once and each atomic, each word converted to text and back. *)
THEOREM Refinement == Spec => Implements
  <1>1. IInv /\ [Next]_vars => [Faultless' => [WB!Next]_(WB!vars)]_vars
    BY NextRefines
  <1>. QED
    BY <1>1, InitRefines, Invariance, PTL DEF Spec, Implements

===========================================================================
