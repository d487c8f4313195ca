----------------------------- MODULE WbI2cProofs --------------------------
(***************************************************************************)
(* Proofs about WbI2c, for any addresses, chips and sweep, any length of   *)
(* the transfers and any number of other masters and killed programs.      *)
(***************************************************************************)
EXTENDS WbI2c, SequenceTheorems, FiniteSetTheorems, TLAPS

---------------------------------------------------------------------------
(* The inductive invariant. *)

(* How many events the call has on the wires before each stage.            *)
WriteStart(q)  == IF Writes(q) THEN 1 ELSE 0
ReadStart(q)   == IF q.rd > 0 THEN 1 ELSE 0
BeforeReads(q) == WriteStart(q) + q.wr + ReadStart(q)
Total(q)       == BeforeReads(q) + q.rd + 1

Before(s, k, q) ==
  CASE s = "addr_w" -> 0
    [] s = "data_w" -> 1 + k
    [] s = "addr_r" -> WriteStart(q) + q.wr
    [] s = "data_r" -> BeforeReads(q) + k
    [] s = "stop"   -> 1 + q.wr

(* Event k of a transfer, as the driver means it.                          *)
AddrW    == Event("addr_w", 0, TRUE)
AddrR    == Event("addr_r", 0, TRUE)
Data(n)  == Event("data", n, TRUE)
Read     == Event("read", 0, TRUE)
LastRead == Event("read", 0, FALSE)
AtEnd    == Event("stop", 0, TRUE)

Meant(q, k) ==
  IF k <= WriteStart(q) THEN AddrW
  ELSE IF k <= WriteStart(q) + q.wr THEN Data(k - WriteStart(q))
  ELSE IF k <= BeforeReads(q) THEN AddrR
  ELSE IF k < BeforeReads(q) + q.rd THEN Read
  ELSE IF k = BeforeReads(q) + q.rd THEN LastRead
  ELSE AtEnd

Commands == [sta : BOOLEAN, sto : BOOLEAN, rd : BOOLEAN, wr : BOOLEAN, nack : BOOLEAN]

Working == pc \in {"issue", "first", "loop", "fetch", "drain"}

(* The driver's variables: the stage fits the arguments, and the bytes     *)
(* stored are those before the one that is read.                           *)
DriverOK ==
  /\ pc \in {"idle", "issue", "first", "loop", "fetch", "drain", "dead"}
  /\ req \in [chip : Addrs, wr : 0 .. MaxBytes, rd : 0 .. MaxBytes]
  /\ \/ stage = "addr_w" /\ i = 0 /\ Writes(req)
     \/ stage = "data_w" /\ i \in 0 .. req.wr - 1
     \/ stage = "addr_r" /\ i = 0 /\ req.rd > 0
     \/ stage = "data_r" /\ i \in 0 .. req.rd - 1
     \/ stage = "stop" /\ i = 0 /\ req.rd = 0
  /\ got \in Seq(Bytes \cup {Junk}) /\ Len(got) <= req.rd
  /\ pc \in {"issue", "first", "loop", "fetch"} => Len(got) = IF stage = "data_r" THEN i ELSE 0
  /\ pc = "drain" => Len(got) = req.rd
  /\ ret \in {0, -1, -2}
  /\ pc \in {"first", "loop"} => stage # "stop"
  /\ pc = "fetch" => stage = "data_r"
  /\ pc = "drain" => stage = "stop" \/ (stage = "data_r" /\ i = req.rd - 1)

CoreOK ==
  /\ cmd \in Commands
  /\ al \in BOOLEAN /\ rxack \in BOOLEAN
  /\ rxr \in Bytes \cup {Junk}
  /\ line \in {"free", "us", "other"}
  /\ target \in {"w", "r", "none"}
  /\ wire \in Seq(Events)
  /\ lost \in BOOLEAN
  /\ losses \in 0 .. MaxLosses /\ kills \in 0 .. MaxKills
  /\ al \/ lost => losses > 0

(* What the core is told of the stage, and when it is done with it.        *)
Pending  == cmd = CommandFor(stage, i, req.rd)
Finished == cmd = NoCommand
Last     == stage = "data_r" /\ i = req.rd - 1

(* While AL is up, the bus is not ours and no start is asked for.  A call  *)
(* that finds AL down between its start and its stop holds the bus.  The   *)
(* command of the stage is the only one there is, until AL is up.          *)
Held == line = "us" \/ al

Handshake ==
  /\ al => line # "us" /\ ~ cmd.sta
  /\ pc \in {"idle", "issue"} => Finished \/ al
  /\ pc = "fetch" => Finished
  /\ pc \in {"first", "loop"} => Pending \/ Finished
  /\ pc = "drain" => (stage = "stop" /\ Pending) \/ Finished
  /\ pc = "issue" /\ stage \in {"data_w", "data_r", "stop"} => Held
  /\ pc \in {"first", "loop"} /\ Pending /\ stage \in {"data_w", "data_r"} => Held
  /\ pc \in {"first", "loop", "fetch"} /\ Finished /\ ~ Last => Held
  /\ pc = "drain" /\ Pending => Held

(* The wires, in a call that lost no arbitration: the events of the stages *)
(* before, and those of this one once the core is done with it.            *)
Events1 == IF Last THEN 2 ELSE 1

Placed ==
  /\ Working => (al => pc = "issue" /\ Len(wire) = 0)
  /\ pc = "issue" => Len(wire) = Before(stage, i, req)
  /\ pc \in {"first", "loop", "drain"} /\ Pending => Len(wire) = Before(stage, i, req)
  /\ pc \in {"first", "loop", "fetch", "drain"} /\ Finished =>
       Len(wire) = Before(stage, i, req) + Events1
  /\ pc = "idle" /\ wire # <<>> => Len(wire) = Total(req) /\ Finished /\ ~ al
  /\ line = "us" /\ wire # <<>> => Len(wire) < Total(req)

(* They are what the driver means, and the chip that was meant answered.   *)
Spelled ==
  \A k \in 1 .. Len(wire) :
    /\ Driven(wire[k]) = Meant(req, k)
    /\ wire[k].ev \in {"addr_w", "addr_r"} => (wire[k].ack <=> req.chip \in Chips)

(* The bytes stored so far are those on the wires, as is the one in RXR.   *)
Stored ==
  /\ \A k \in 1 .. Len(got) : got[k] = wire[BeforeReads(req) + k].n
  /\ pc \in {"first", "loop", "fetch"} /\ Finished /\ stage = "data_r" =>
       rxr = wire[BeforeReads(req) + i + 1].n
  /\ pc = "idle" => Len(got) = req.rd

(* RxACK is the acknowledge of the last byte of a write, and so is the     *)
(* result.                                                                 *)
Reported ==
  req.rd = 0 =>
    /\ Working => rxack = ~ wire[IF Len(wire) <= req.wr THEN Len(wire) ELSE req.wr + 1].ack
    /\ pc = "idle" => (ret = 0 <=> wire[req.wr + 1].ack)

Clean ==
  /\ pc # "dead" /\ ~ lost => Placed /\ Spelled
  /\ pc # "dead" /\ ~ lost /\ wire # <<>> => Stored /\ Reported

(* A sweep that is not interrupted has found the chips among the addresses *)
(* it is done with.                                                        *)
Swept ==
  /\ scan \subseteq Sweep /\ found \subseteq Sweep
  /\ scan # {} =>
       /\ pc # "dead" /\ req.chip \in scan /\ req.wr = 0 /\ req.rd = 0
       /\ losses = 0 => found = (Sweep \ scan) \cap Chips
       /\ losses = 0 /\ pc = "idle" => wire # <<>>

IInv == DriverOK /\ CoreOK /\ Handshake /\ Clean /\ Swept

---------------------------------------------------------------------------
(* A transfer, event by event. *)

Requests == [chip : Addrs, wr : 0 .. MaxBytes, rd : 0 .. MaxBytes]

(* The lengths of the parts of a transfer.                                 *)
LEMMA Lengths ==
  ASSUME NEW q \in Requests
  PROVE  /\ q.wr \in Nat /\ q.rd \in Nat /\ MaxBytes \in Nat
         /\ q.wr <= MaxBytes /\ q.rd <= MaxBytes
         /\ WriteStart(q) = (IF q.wr > 0 \/ q.rd = 0 THEN 1 ELSE 0)
         /\ ReadStart(q) = (IF q.rd > 0 THEN 1 ELSE 0)
         /\ BeforeReads(q) = WriteStart(q) + q.wr + ReadStart(q)
         /\ Total(q) = BeforeReads(q) + q.rd + 1
         /\ WriteStart(q) \in 0 .. 1 /\ ReadStart(q) \in 0 .. 1
         /\ BeforeReads(q) \in Nat /\ Total(q) \in Nat
  <1>1. q.wr \in 0 .. MaxBytes /\ q.rd \in 0 .. MaxBytes /\ MaxBytes \in Nat
    BY I2cAssumption DEF Requests
  <1>2. /\ WriteStart(q) = (IF q.wr > 0 \/ q.rd = 0 THEN 1 ELSE 0)
        /\ ReadStart(q) = (IF q.rd > 0 THEN 1 ELSE 0)
    BY DEF WriteStart, ReadStart, Writes, HasWritePhase
  <1>3. WriteStart(q) \in 0 .. 1 /\ ReadStart(q) \in 0 .. 1
    BY <1>2
  <1>. QED
    BY <1>1, <1>2, <1>3 DEF BeforeReads, Total

(* The transfer of a call is what the driver means, event by event.        *)
LEMMA ExpectedIsMeant ==
  ASSUME NEW q \in Requests
  PROVE  Expected(q) = [k \in 1 .. Total(q) |-> Meant(q, k)]
  <1>. DEFINE read(k) == Event("read", 0, k < q.rd)
              a == IF Writes(q) THEN <<AddrW>> ELSE <<>>
              b == [k \in 1 .. q.wr |-> Data(k)]
              c == IF q.rd > 0 THEN <<AddrR>> ELSE <<>>
              d == [k \in 1 .. q.rd |-> read(k)]
              e == <<AtEnd>>
              A == WriteStart(q)
              B == A + q.wr
              C == BeforeReads(q)
              D == C + q.rd
  <1>1. /\ q.wr \in Nat /\ q.rd \in Nat /\ A \in 0 .. 1 /\ B \in Nat /\ C \in Nat /\ D \in Nat
        /\ C = B + ReadStart(q) /\ ReadStart(q) \in 0 .. 1 /\ Total(q) = D + 1
        /\ q.wr <= MaxBytes /\ q.rd <= MaxBytes /\ MaxBytes \in Nat
    BY Lengths
  <1>2. /\ AddrW \in Events /\ AddrR \in Events /\ AtEnd \in Events
        /\ \A k \in 1 .. q.wr : Data(k) \in Events
        /\ \A k \in 1 .. q.rd : read(k) \in Events
    BY <1>1 DEF Event, Events, AddrW, AddrR, Data, AtEnd
  <1>3. Expected(q) = (((a \o b) \o c) \o d) \o e
    BY DEF Expected, AddrW, AddrR, Data, AtEnd
  <1>4. ASSUME NEW k \in Int
        PROVE  /\ k <= A => Meant(q, k) = AddrW
               /\ A < k /\ k <= B => Meant(q, k) = Data(k - A)
               /\ B < k /\ k <= C => Meant(q, k) = AddrR
               /\ D < k => Meant(q, k) = AtEnd
    BY <1>1 DEF Meant
  <1>5. ASSUME NEW k \in Int, C < k, k <= D
        PROVE  k - C \in 1 .. q.rd /\ Meant(q, k) = read(k - C)
    <2>1. Meant(q, k) = IF k < D THEN Read ELSE LastRead
      BY <1>1, <1>5 DEF Meant
    <2>2. (k - C < q.rd) <=> (k < D)
      BY <1>1, <1>5
    <2>3. Meant(q, k) = read(k - C)
      <3>1. CASE k < D
        BY <2>1, <2>2, <3>1 DEF Read, Event
      <3>2. CASE ~ (k < D)
        <4>1. (k - C < q.rd) = FALSE
          BY <2>2, <3>2
        <4>2. read(k - C) = Event("read", 0, FALSE)
          BY <4>1, Zenon
        <4>. QED
          BY <2>1, <3>2, <4>2 DEF LastRead
      <3>. QED
        BY <3>1, <3>2
    <2>4. k - C \in 1 .. q.rd
      BY <1>1, <1>5
    <2>. QED
      BY <2>3, <2>4
  <1>. HIDE DEF read
  <1>6. a \in Seq(Events) /\ Len(a) = A /\ \A k \in 1 .. A : a[k] = AddrW
    <2>1. CASE Writes(q)
      BY <1>2, <2>1 DEF WriteStart
    <2>2. CASE ~ Writes(q)
      BY <2>2 DEF WriteStart
    <2>. QED
      BY <2>1, <2>2
  <1>7. b \in Seq(Events) /\ Len(b) = q.wr /\ \A k \in 1 .. q.wr : b[k] = Data(k)
    BY <1>1, <1>2
  <1>8. c \in Seq(Events) /\ Len(c) = ReadStart(q) /\ \A k \in 1 .. ReadStart(q) : c[k] = AddrR
    <2>1. CASE q.rd > 0
      BY <1>2, <2>1 DEF ReadStart
    <2>2. CASE ~ (q.rd > 0)
      BY <2>2 DEF ReadStart
    <2>. QED
      BY <2>1, <2>2
  <1>9. d \in Seq(Events) /\ Len(d) = q.rd /\ \A k \in 1 .. q.rd : d[k] = read(k)
    BY <1>1, <1>2
  <1>10. e \in Seq(Events) /\ Len(e) = 1 /\ e[1] = AtEnd
    BY <1>2
  <1>. HIDE DEF a, b, c, d, e
  <1>. DEFINE ab == a \o b
              abc == ab \o c
              abcd == abc \o d
  <1>11. ab \in Seq(Events) /\ Len(ab) = B /\ \A k \in 1 .. B : ab[k] = IF k <= A THEN a[k] ELSE b[k - A]
    <2>1. /\ ab \in Seq(Events) /\ Len(ab) = Len(a) + Len(b)
          /\ \A k \in 1 .. Len(a) + Len(b) : ab[k] = IF k <= Len(a) THEN a[k] ELSE b[k - Len(a)]
      BY <1>6, <1>7, ConcatProperties
    <2>. QED
      BY <1>6, <1>7, <2>1
  <1>. HIDE DEF ab
  <1>12. abc \in Seq(Events) /\ Len(abc) = C /\ \A k \in 1 .. C : abc[k] = IF k <= B THEN ab[k] ELSE c[k - B]
    <2>1. /\ abc \in Seq(Events) /\ Len(abc) = Len(ab) + Len(c)
          /\ \A k \in 1 .. Len(ab) + Len(c) : abc[k] = IF k <= Len(ab) THEN ab[k] ELSE c[k - Len(ab)]
      BY <1>8, <1>11, ConcatProperties
    <2>. QED
      BY <1>1, <1>8, <1>11, <2>1
  <1>. HIDE DEF abc
  <1>13. abcd \in Seq(Events) /\ Len(abcd) = D /\ \A k \in 1 .. D : abcd[k] = IF k <= C THEN abc[k] ELSE d[k - C]
    <2>1. /\ abcd \in Seq(Events) /\ Len(abcd) = Len(abc) + Len(d)
          /\ \A k \in 1 .. Len(abc) + Len(d) : abcd[k] = IF k <= Len(abc) THEN abc[k] ELSE d[k - Len(abc)]
      BY <1>9, <1>12, ConcatProperties
    <2>. QED
      BY <1>1, <1>9, <1>12, <2>1
  <1>. HIDE DEF abcd
  <1>14. /\ abcd \o e \in Seq(Events) /\ Len(abcd \o e) = D + 1
         /\ \A k \in 1 .. D + 1 : (abcd \o e)[k] = IF k <= D THEN abcd[k] ELSE e[k - D]
    <2>1. /\ abcd \o e \in Seq(Events) /\ Len(abcd \o e) = Len(abcd) + Len(e)
          /\ \A k \in 1 .. Len(abcd) + Len(e) :
               (abcd \o e)[k] = IF k <= Len(abcd) THEN abcd[k] ELSE e[k - Len(abcd)]
      BY <1>10, <1>13, ConcatProperties
    <2>. QED
      BY <1>10, <1>13, <2>1
  <1>15. Expected(q) = abcd \o e
    BY <1>3 DEF ab, abc, abcd
  <1>. DEFINE all == abcd \o e
  <1>16. /\ all \in Seq(Events) /\ Len(all) = D + 1
         /\ \A k \in 1 .. D + 1 : all[k] = IF k <= D THEN abcd[k] ELSE e[k - D]
    BY <1>14
  <1>. HIDE DEF all
  <1>17. A \in Nat /\ B \in Nat /\ C \in Nat /\ D \in Nat /\ A <= B /\ B <= C /\ C <= D
    BY <1>1
  <1>18. C = B + ReadStart(q) /\ ReadStart(q) \in Nat /\ q.wr \in Nat /\ B = A + q.wr
    BY <1>1
  <1>. HIDE DEF A, B, C, D
  <1>19. ASSUME NEW k \in 1 .. D + 1 PROVE all[k] = Meant(q, k)
    <2>0. k \in Int /\ k >= 1
      BY <1>17
    <2>1. CASE k <= A
      <3>1. k \in 1 .. A /\ k \in 1 .. B /\ k \in 1 .. C /\ k \in 1 .. D
        BY <1>17, <2>0, <2>1
      <3>2. all[k] = a[k]
        BY <1>11, <1>12, <1>13, <1>16, <1>17, <2>0, <2>1, <3>1
      <3>. QED
        BY <1>4, <1>6, <2>0, <2>1, <3>1, <3>2
    <2>2. CASE A < k /\ k <= B
      <3>1. k - A \in 1 .. q.wr /\ k \in 1 .. B /\ k \in 1 .. C /\ k \in 1 .. D /\ ~ (k <= A)
        BY <1>17, <1>18, <2>0, <2>2
      <3>2. all[k] = b[k - A]
        BY <1>11, <1>12, <1>13, <1>16, <1>17, <2>0, <2>2, <3>1
      <3>. QED
        BY <1>4, <1>7, <2>0, <2>2, <3>1, <3>2
    <2>3. CASE B < k /\ k <= C
      <3>1. k - B \in 1 .. ReadStart(q) /\ k \in 1 .. C /\ k \in 1 .. D /\ ~ (k <= B)
        BY <1>17, <1>18, <2>0, <2>3
      <3>2. all[k] = c[k - B]
        BY <1>12, <1>13, <1>16, <1>17, <2>0, <2>3, <3>1
      <3>. QED
        BY <1>4, <1>8, <2>0, <2>3, <3>1, <3>2
    <2>4. CASE C < k /\ k <= D
      <3>1. k - C \in 1 .. q.rd /\ Meant(q, k) = read(k - C) /\ k \in 1 .. D /\ ~ (k <= C)
        BY <1>5, <1>17, <2>0, <2>4
      <3>2. all[k] = d[k - C]
        BY <1>13, <1>16, <1>17, <2>0, <2>4, <3>1
      <3>. QED
        BY <1>9, <3>1, <3>2
    <2>5. CASE D < k
      <3>1. k = D + 1 /\ k - D = 1 /\ ~ (k <= D)
        BY <1>17, <2>0, <2>5
      <3>2. all[k] = e[1]
        BY <1>16, <3>1
      <3>. QED
        BY <1>4, <1>10, <2>0, <2>5, <3>2
    <2>. QED
      BY <1>17, <2>0, <2>1, <2>2, <2>3, <2>4, <2>5
  <1>20. all = [k \in 1 .. D + 1 |-> all[k]]
    BY <1>16
  <1>. QED
    <2>1. Total(q) = D + 1
      BY <1>1 DEF D, C
    <2>2. Expected(q) = all
      BY <1>15 DEF all
    <2>. QED
      BY <1>19, <1>20, <2>1, <2>2

(* Where the stages stand in a transfer, and what comes next there.        *)
LEMMA StageInTransfer ==
  ASSUME DriverOK
  PROVE  /\ req \in Requests /\ i \in 0 .. MaxBytes
         /\ Before(stage, i, req) \in Nat
         /\ ~ Last /\ stage # "stop" => Before(stage, i, req) + 1 < Total(req)
         /\ Last => Before(stage, i, req) + 2 = Total(req)
         /\ stage = "stop" => Before(stage, i, req) + 1 = Total(req)
         /\ stage = "data_r" => Before(stage, i, req) = BeforeReads(req) + i
         /\ stage = "addr_w" =>
              Before(stage, i, req) = 0 /\ Meant(req, 1) = AddrW
         /\ stage = "data_w" =>
              Meant(req, Before(stage, i, req) + 1) = Data(i + 1)
         /\ stage = "addr_r" =>
              Meant(req, Before(stage, i, req) + 1) = AddrR
         /\ stage = "data_r" /\ ~ Last =>
              Meant(req, Before(stage, i, req) + 1) = Read
         /\ Last => /\ Meant(req, Before(stage, i, req) + 1) = LastRead
                    /\ Meant(req, Before(stage, i, req) + 2) = AtEnd
         /\ stage = "stop" =>
              Meant(req, Before(stage, i, req) + 1) = AtEnd
  <1>. DEFINE b == Before(stage, i, req)
  <1>1. req \in Requests
    BY DEF DriverOK, Requests
  <1>2. /\ req.wr \in Nat /\ req.rd \in Nat /\ MaxBytes \in Nat
        /\ req.wr <= MaxBytes /\ req.rd <= MaxBytes
        /\ WriteStart(req) = (IF req.wr > 0 \/ req.rd = 0 THEN 1 ELSE 0)
        /\ ReadStart(req) = (IF req.rd > 0 THEN 1 ELSE 0)
        /\ BeforeReads(req) = WriteStart(req) + req.wr + ReadStart(req)
        /\ Total(req) = BeforeReads(req) + req.rd + 1
    BY <1>1, Lengths
  <1>3. \/ stage = "addr_w" /\ i = 0 /\ (req.wr > 0 \/ req.rd = 0)
        \/ stage = "data_w" /\ i \in 0 .. req.wr - 1
        \/ stage = "addr_r" /\ i = 0 /\ req.rd > 0
        \/ stage = "data_r" /\ i \in 0 .. req.rd - 1
        \/ stage = "stop" /\ i = 0 /\ req.rd = 0
    BY DEF DriverOK, Writes, HasWritePhase
  <1>4. i \in 0 .. MaxBytes
    BY <1>2, <1>3
  <1>5. ASSUME NEW k \in Int
        PROVE  /\ k <= WriteStart(req) => Meant(req, k) = AddrW
               /\ WriteStart(req) < k /\ k <= WriteStart(req) + req.wr =>
                    Meant(req, k) = Data(k - WriteStart(req))
               /\ WriteStart(req) + req.wr < k /\ k <= BeforeReads(req) =>
                    Meant(req, k) = AddrR
               /\ BeforeReads(req) < k /\ k < BeforeReads(req) + req.rd =>
                    Meant(req, k) = Read
               /\ BeforeReads(req) < k /\ k = BeforeReads(req) + req.rd =>
                    Meant(req, k) = LastRead
               /\ BeforeReads(req) + req.rd < k => Meant(req, k) = AtEnd
    BY <1>2 DEF Meant
  <1>6. CASE stage = "addr_w"
    <2>1. b = 0 /\ WriteStart(req) = 1
      BY <1>2, <1>3, <1>6 DEF Before
    <2>. QED
      BY <1>1, <1>2, <1>3, <1>4, <1>5, <1>6, <2>1 DEF Last
  <1>7. CASE stage = "data_w"
    <2>1. b = 1 + i /\ WriteStart(req) = 1 /\ i \in 0 .. req.wr - 1
      BY <1>2, <1>3, <1>7 DEF Before
    <2>2. Meant(req, b + 1) = Data((b + 1) - WriteStart(req))
      BY <1>2, <1>5, <2>1
    <2>3. (b + 1) - WriteStart(req) = i + 1
      BY <2>1
    <2>. QED
      BY <1>1, <1>2, <1>4, <1>7, <2>1, <2>2, <2>3 DEF Last
  <1>8. CASE stage = "addr_r"
    <2>1. b = WriteStart(req) + req.wr /\ ReadStart(req) = 1 /\ req.rd > 0
      BY <1>2, <1>3, <1>8 DEF Before
    <2>2. Meant(req, b + 1) = AddrR
      BY <1>2, <1>5, <2>1
    <2>. QED
      BY <1>1, <1>2, <1>4, <1>8, <2>1, <2>2 DEF Last
  <1>9. CASE stage = "data_r"
    <2>1. b = BeforeReads(req) + i /\ i \in 0 .. req.rd - 1
      BY <1>2, <1>3, <1>9 DEF Before
    <2>2. ~ Last => Meant(req, b + 1) = Read
      BY <1>2, <1>5, <1>9, <2>1 DEF Last
    <2>3. Last => Meant(req, b + 1) = LastRead
      BY <1>2, <1>5, <1>9, <2>1 DEF Last
    <2>4. Last => Meant(req, b + 2) = AtEnd
      BY <1>2, <1>5, <1>9, <2>1 DEF Last
    <2>5. /\ b \in Nat /\ (~ Last => b + 1 < Total(req)) /\ (Last => b + 2 = Total(req))
      BY <1>2, <1>9, <2>1 DEF Last
    <2>. QED
      BY <1>1, <1>4, <1>9, <2>1, <2>2, <2>3, <2>4, <2>5
  <1>10. CASE stage = "stop"
    <2>1. b = 1 + req.wr /\ req.rd = 0
      BY <1>2, <1>3, <1>10 DEF Before
    <2>2. Meant(req, b + 1) = AtEnd
      BY <1>2, <1>5, <2>1
    <2>. QED
      BY <1>1, <1>2, <1>4, <1>10, <2>1, <2>2 DEF Last
  <1>. QED
    BY <1>3, <1>6, <1>7, <1>8, <1>9, <1>10

(* A command asks for something, and is not taken for another stage's.     *)
LEMMA CommandOfStage ==
  ASSUME DriverOK
  PROVE  /\ CommandFor(stage, i, req.rd) \in Commands
         /\ CommandFor(stage, i, req.rd) # NoCommand
         /\ LET c == CommandFor(stage, i, req.rd) IN
              /\ c.sta <=> stage \in {"addr_w", "addr_r"}
              /\ c.wr  <=> stage \in {"addr_w", "addr_r", "data_w"}
              /\ c.rd  <=> stage = "data_r"
              /\ c.sto <=> stage = "stop" \/ Last
              /\ c.nack <=> Last
  <1>1. stage \in {"addr_w", "addr_r", "data_w", "data_r", "stop"}
    BY DEF DriverOK
  <1>. QED
    BY <1>1 DEF CommandFor, Command, NoCommand, Commands, Last

(* What the driver means, of what is on the wires.                         *)
LEMMA DrivenEvents ==
  ASSUME NEW ack \in BOOLEAN, NEW n \in 0 .. MaxBytes + 2
  PROVE  /\ Driven(Event("addr_w", 0, ack)) = AddrW
         /\ Driven(Event("addr_r", 0, ack)) = AddrR
         /\ Driven(Event("data", n, ack)) = Data(n)
         /\ Driven(Event("read", n, ack)) = IF ack THEN Read ELSE LastRead
         /\ Driven(Event("stop", 0, TRUE)) = AtEnd
  <1>1. /\ Driven(Event("addr_w", 0, ack)) = AddrW
        /\ Driven(Event("addr_r", 0, ack)) = AddrR
        /\ Driven(Event("data", n, ack)) = Data(n)
        /\ Driven(Event("stop", 0, TRUE)) = AtEnd
    BY DEF Driven, Event, AddrW, AddrR, Data, AtEnd
  <1>2. Driven(Event("read", n, ack)) = Event("read", 0, ack)
    BY DEF Driven, Event
  <1>3. Event("read", 0, ack) = IF ack THEN Read ELSE LastRead
    <2>1. CASE ack
      BY <2>1 DEF Event, Read
    <2>2. CASE ~ ack
      BY <2>2 DEF Event, LastRead
    <2>. QED
      BY <2>1, <2>2
  <1>. QED
    BY <1>1, <1>2, <1>3

---------------------------------------------------------------------------
(* Every step keeps the invariant. *)

(* What the proofs use of the assumptions on the constants.                *)
LEMMA Constants ==
  /\ MaxBytes \in Nat /\ MaxLosses \in Nat /\ MaxKills \in Nat
  /\ Sweep \subseteq Addrs /\ Chips \subseteq Addrs /\ Addrs \subseteq Nat
  BY I2cAssumption

(* No call has been made.                                                  *)
LEMMA InitInv == Init => IInv
  <1>. SUFFICES ASSUME Init PROVE IInv
    OBVIOUS
  <1>1. /\ pc = "idle" /\ stage = "stop" /\ i = 0 /\ got = <<>> /\ ret = 0
        /\ req \in [chip : Addrs, wr : {0}, rd : {0}]
        /\ scan = {} /\ found = {}
        /\ cmd = NoCommand /\ al = FALSE /\ rxack = FALSE /\ rxr = Junk
        /\ line = "free" /\ target = "none" /\ wire = <<>> /\ lost = FALSE /\ losses = 0
        /\ kills = 0
    BY DEF Init
  <1>2. DriverOK
    <2>1. req \in [chip : Addrs, wr : 0 .. MaxBytes, rd : 0 .. MaxBytes] /\ req.rd = 0
      BY <1>1, Constants
    <2>2. got \in Seq(Bytes \cup {Junk}) /\ Len(got) = 0
      BY <1>1
    <2>. QED
      BY <1>1, <2>1, <2>2 DEF DriverOK
  <1>3. CoreOK
    <2>1. NoCommand \in Commands
      BY DEF NoCommand, Command, Commands
    <2>2. wire \in Seq(Events)
      BY <1>1
    <2>3. losses \in 0 .. MaxLosses /\ kills \in 0 .. MaxKills
      BY <1>1, Constants
    <2>. QED
      BY <1>1, <2>1, <2>2, <2>3 DEF CoreOK
  <1>4. Handshake
    BY <1>1 DEF Handshake, Finished
  <1>5. Clean
    BY <1>1 DEF Clean, Placed, Spelled, Working
  <1>6. Swept
    BY <1>1 DEF Swept
  <1>. QED
    BY <1>2, <1>3, <1>4, <1>5, <1>6 DEF IInv

(* A command that can have an effect on the wires is the one of the stage. *)
LEMMA CommandIsPending ==
  ASSUME IInv, cmd # NoCommand, cmd.sta \/ line = "us"
  PROVE  /\ ~ al
         /\ \/ pc = "dead"
            \/ pc \in {"first", "loop"} /\ Pending
            \/ pc = "drain" /\ stage = "stop" /\ Pending
  BY DEF IInv, Handshake, Finished, CoreOK, DriverOK

(* An event is put on the wires behind the others.                         *)
LEMMA WireGrows ==
  ASSUME NEW e \in Events, wire \in Seq(Events), wire' = Append(wire, e)
  PROVE  /\ wire' \in Seq(Events) /\ Len(wire) \in Nat /\ Len(wire') = Len(wire) + 1
         /\ \A k \in 1 .. Len(wire) : wire'[k] = wire[k]
         /\ wire'[Len(wire) + 1] = e
  <1>1. /\ Append(wire, e) \in Seq(Events) /\ Len(Append(wire, e)) = Len(wire) + 1
        /\ \A k \in 1 .. Len(wire) : Append(wire, e)[k] = wire[k]
        /\ Append(wire, e)[Len(wire) + 1] = e
    BY AppendProperties
  <1>. QED
    BY <1>1

(* With nobody to look at it, the core only has to stay one.               *)
LEMMA UnseenStep ==
  ASSUME IInv, pc = "dead", UNCHANGED <<driver, sweep>>, CoreOK',
         al' => line' # "us" /\ ~ cmd'.sta
  PROVE  IInv'
  <1>1. UNCHANGED <<pc, stage, i, req, got, ret, scan, found>>
    BY DEF driver, sweep
  <1>2. DriverOK'
    BY <1>1 DEF IInv, DriverOK, Writes, HasWritePhase
  <1>3. Handshake' /\ Clean' /\ Swept'
    BY <1>1 DEF IInv, Handshake, Clean, Swept
  <1>. QED
    BY <1>2, <1>3 DEF IInv

(* The bytes stored are of this call's reads.                              *)
LEMMA GotIsBefore ==
  ASSUME DriverOK, pc \in {"issue", "first", "loop", "fetch"} \/ (pc = "drain" /\ stage = "stop"),
         NEW k \in 1 .. Len(got)
  PROVE  BeforeReads(req) + k <= Before(stage, i, req)
  <1>1. Len(got) = (IF stage = "data_r" THEN i ELSE 0) \/ (Len(got) = 0 /\ stage = "stop")
    BY DEF DriverOK
  <1>2. stage = "data_r" /\ Len(got) = i
    BY <1>1
  <1>. QED
    BY <1>2, StageInTransfer, Lengths

(* The core does what the stage asks for, with one event on the wires.     *)
LEMMA OneEvent ==
  ASSUME IInv, UNCHANGED <<driver, sweep, kills, lost, losses, al>>, ~ al,
         Pending, ~ Last, pc \in {"first", "loop"} \/ (pc = "drain" /\ stage = "stop"),
         cmd' = NoCommand,
         NEW e \in Events, wire' = Append(wire, e),
         ~ lost => Driven(e) = Meant(req, Before(stage, i, req) + 1),
         e.ev \in {"addr_w", "addr_r"} => (e.ack <=> req.chip \in Chips),
         line' = IF stage = "stop" THEN "free" ELSE "us",
         target' \in {"w", "r", "none"},
         rxack' \in BOOLEAN,
         stage = "stop" => rxack' = rxack,
         stage # "stop" /\ req.rd = 0 => rxack' = ~ e.ack,
         rxr' \in Bytes \cup {Junk},
         stage = "data_r" => rxr' = e.n
  PROVE  IInv'
  <1>1. UNCHANGED <<pc, stage, i, req, got, ret, scan, found>>
    BY DEF driver, sweep
  <1>2. /\ wire' \in Seq(Events) /\ Len(wire) \in Nat /\ Len(wire') = Len(wire) + 1
        /\ \A k \in 1 .. Len(wire) : wire'[k] = wire[k]
        /\ wire'[Len(wire) + 1] = e
    BY WireGrows DEF IInv, CoreOK
  <1>3. DriverOK'
    BY <1>1 DEF IInv, DriverOK, Writes, HasWritePhase
  <1>4. CoreOK'
    <2>1. NoCommand \in Commands
      BY DEF NoCommand, Command, Commands
    <2>. QED
      BY <1>2, <2>1 DEF IInv, CoreOK
  <1>5. Finished' /\ ~ Pending' /\ (Last' <=> Last)
    BY <1>1, CommandOfStage DEF Finished, Pending, Last, IInv
  <1>6. Handshake'
    <2>1. ~ al' /\ pc' \in {"first", "loop", "drain"}
      BY <1>1
    <2>2. pc' = "drain" \/ Held'
      BY <1>1 DEF IInv, DriverOK, Held
    <2>. QED
      BY <1>5, <2>1, <2>2 DEF Handshake
  <1>7. ASSUME ~ lost PROVE Clean'
    <2>1. Placed /\ Spelled /\ (wire # <<>> => Stored /\ Reported) /\ Len(wire) = Before(stage, i, req)
      BY <1>7 DEF IInv, Clean, Placed
    <2>2. Placed'
      <3>1. Before(stage, i, req)' = Before(stage, i, req) /\ Total(req)' = Total(req)
        BY <1>1 DEF Before, Total, BeforeReads, WriteStart, ReadStart, Writes, HasWritePhase
      <3>2. ~ Last' /\ Events1' = 1
        BY <1>5 DEF Events1
      <3>3. line' = "us" => Len(wire') < Total(req)
        BY <1>2, <2>1, StageInTransfer DEF IInv
      <3>. QED
        BY <1>1, <1>2, <1>5, <2>1, <3>1, <3>2, <3>3 DEF Placed
    <2>3. Spelled'
      <3>1. Driven(e) = Meant(req, Len(wire) + 1)
        BY <1>7, <2>1
      <3>2. ASSUME NEW k \in 1 .. Len(wire')
            PROVE  /\ Driven(wire'[k]) = Meant(req, k)
                   /\ wire'[k].ev \in {"addr_w", "addr_r"} => (wire'[k].ack <=> req.chip \in Chips)
        <4>1. CASE k \in 1 .. Len(wire)
          BY <1>2, <2>1, <4>1 DEF Spelled
        <4>2. CASE k = Len(wire) + 1
          BY <1>2, <3>1, <4>2
        <4>. QED
          BY <1>2, <4>1, <4>2
      <3>. QED
        BY <1>1, <3>2 DEF Spelled
    <2>4. Stored'
      <3>1. BeforeReads(req)' = BeforeReads(req)
        BY <1>1 DEF BeforeReads, WriteStart, ReadStart, Writes, HasWritePhase
      <3>2. /\ BeforeReads(req) \in Nat /\ Len(got) \in Nat
            /\ stage = "data_r" => Before(stage, i, req) = BeforeReads(req) + i
        BY StageInTransfer, Lengths DEF IInv, DriverOK
      <3>3. ASSUME NEW k \in 1 .. Len(got)
            PROVE  got[k] = wire'[BeforeReads(req) + k].n
        <4>1. wire # <<>> /\ BeforeReads(req) + k <= Len(wire)
          BY <1>1, <2>1, <3>2, GotIsBefore DEF IInv
        <4>2. got[k] = wire[BeforeReads(req) + k].n
          BY <2>1, <4>1 DEF Stored
        <4>. QED
          BY <1>2, <3>2, <4>1, <4>2
      <3>4. stage = "data_r" => rxr' = wire'[BeforeReads(req) + i + 1].n
        BY <1>2, <2>1, <3>2
      <3>5. pc # "idle"
        OBVIOUS
      <3>. QED
        BY <1>1, <3>1, <3>3, <3>4, <3>5 DEF Stored
    <2>5. Reported'
      <3>1. ASSUME req.rd = 0
            PROVE  rxack' = ~ wire'[IF Len(wire') <= req.wr THEN Len(wire') ELSE req.wr + 1].ack
        <4>1. req.wr \in Nat
          BY Lengths, StageInTransfer DEF IInv
        <4>2. CASE stage = "stop"
          <5>1. Len(wire) = req.wr + 1 /\ wire # <<>>
            BY <1>2, <2>1, <4>1, <4>2 DEF Before
          <5>2. rxack = ~ wire[req.wr + 1].ack
            BY <2>1, <3>1, <4>1, <5>1 DEF Reported, Working
          <5>. QED
            BY <1>2, <4>1, <4>2, <5>1, <5>2
        <4>3. CASE stage # "stop"
          <5>1. Len(wire) <= req.wr
            BY <1>2, <2>1, <3>1, <4>1, <4>3 DEF Before, IInv, DriverOK
          <5>2. rxack' = ~ wire'[Len(wire) + 1].ack
            BY <1>2, <3>1, <4>3
          <5>. QED
            BY <1>2, <4>1, <5>1, <5>2
        <4>. QED
          BY <4>2, <4>3
      <3>. QED
        BY <1>1, <3>1 DEF Reported
    <2>. QED
      BY <2>2, <2>3, <2>4, <2>5 DEF Clean
  <1>8. Clean'
    BY <1>1, <1>7 DEF Clean
  <1>9. Swept'
    BY <1>1, <1>2 DEF IInv, Swept
  <1>. QED
    BY <1>3, <1>4, <1>6, <1>8, <1>9 DEF IInv

(* The wires and the request of a call that go on as they were.            *)
LEMMA SpelledSame ==
  ASSUME Spelled, UNCHANGED <<wire, req>>
  PROVE  Spelled'
  <1>1. \A k : Meant(req, k)' = Meant(req, k)
    BY DEF Meant, BeforeReads, WriteStart, ReadStart, Writes, HasWritePhase
  <1>. QED
    BY <1>1 DEF Spelled

(* Two elements behind a sequence.                                         *)
LEMMA TwoMore ==
  ASSUME NEW S, NEW w \in Seq(S), NEW e \in S, NEW f \in S,
         NEW t, t = w \o <<e>> \o <<f>>
  PROVE  /\ t \in Seq(S) /\ Len(t) = Len(w) + 2
         /\ \A k \in 1 .. Len(w) : t[k] = w[k]
         /\ t[Len(w) + 1] = e /\ t[Len(w) + 2] = f
  <1>. DEFINE v == Append(w, e)
  <1>1. w \o <<e>> = v /\ Len(w) \in Nat
    BY AppendIsConcat
  <1>2. /\ v \in Seq(S) /\ Len(v) = Len(w) + 1
        /\ \A k \in 1 .. Len(w) : v[k] = w[k]
        /\ v[Len(w) + 1] = e
    BY AppendProperties
  <1>. HIDE DEF v
  <1>3. v \o <<f>> = Append(v, f)
    BY <1>2, AppendIsConcat
  <1>4. /\ Append(v, f) \in Seq(S) /\ Len(Append(v, f)) = Len(v) + 1
        /\ \A k \in 1 .. Len(v) : Append(v, f)[k] = v[k]
        /\ Append(v, f)[Len(v) + 1] = f
    BY <1>2, AppendProperties
  <1>. DEFINE u == Append(v, f)
  <1>5. t = u
    BY <1>1, <1>3
  <1>. HIDE DEF u
  <1>6. u \in Seq(S) /\ Len(u) = Len(w) + 2 /\ \A k \in 1 .. Len(w) + 1 : u[k] = v[k]
    BY <1>1, <1>2, <1>4 DEF u
  <1>7. u[Len(w) + 2] = f
    <2>1. Len(v) + 1 = Len(w) + 2
      BY <1>1, <1>2
    <2>. QED
      BY <1>4, <2>1 DEF u
  <1>. QED
    BY <1>1, <1>2, <1>5, <1>6, <1>7

(* The last byte of a read and the stop behind it are two events.          *)
LEMMA LastByte ==
  ASSUME IInv, UNCHANGED <<driver, sweep, kills, lost, losses, al>>, ~ al,
         Pending, Last, pc \in {"first", "loop"},
         cmd' = NoCommand,
         NEW b \in Bytes \cup {Junk},
         wire' = wire \o <<Event("read", b, FALSE)>> \o <<Event("stop", 0, TRUE)>>,
         line' = "free", target' = "none", rxack' \in BOOLEAN, rxr' = b
  PROVE  IInv'
  <1>1. UNCHANGED <<pc, stage, i, req, got, ret, scan, found>>
    BY DEF driver, sweep
  <1>. DEFINE e == Event("read", b, FALSE)
              f == Event("stop", 0, TRUE)
  <1>2. /\ e \in Events /\ f \in Events /\ e.ev = "read" /\ e.n = b /\ f.ev = "stop"
        /\ Driven(e) = LastRead /\ Driven(f) = AtEnd
    <2>1. b \in 0 .. MaxBytes + 2
      BY Constants DEF Bytes, Junk
    <2>2. 0 \in 0 .. MaxBytes + 2
      BY Constants
    <2>3. e \in Events /\ f \in Events /\ e.ev = "read" /\ e.n = b /\ f.ev = "stop"
      BY <2>1, <2>2 DEF Event, Events
    <2>4. Driven(f) = AtEnd
      BY <2>2, DrivenEvents
    <2>5. Driven(e) = LastRead
      BY DEF Driven, Event, LastRead
    <2>. QED
      BY <2>3, <2>4, <2>5
  <1>3. wire' = wire \o <<e>> \o <<f>> /\ wire \in Seq(Events) /\ Len(wire) \in Nat
    BY DEF IInv, CoreOK
  <1>. HIDE DEF e, f
  <1>4. /\ wire' \in Seq(Events) /\ Len(wire') = Len(wire) + 2
        /\ \A k \in 1 .. Len(wire) : wire'[k] = wire[k]
        /\ wire'[Len(wire) + 1] = e /\ wire'[Len(wire) + 2] = f
    <2>1. e \in Events /\ f \in Events /\ wire \in Seq(Events) /\ wire' = wire \o <<e>> \o <<f>>
      BY <1>2, <1>3
    <2>. QED
      BY ONLY <2>1, TwoMore
  <1>5. DriverOK'
    BY <1>1 DEF IInv, DriverOK, Writes, HasWritePhase
  <1>6. CoreOK'
    <2>1. NoCommand \in Commands
      BY DEF NoCommand, Command, Commands
    <2>. QED
      BY <1>4, <2>1 DEF IInv, CoreOK
  <1>7. Finished' /\ ~ Pending' /\ Last'
    BY <1>1, CommandOfStage DEF Finished, Pending, Last, IInv
  <1>8. Handshake'
    BY <1>1, <1>7 DEF Handshake
  <1>9. ASSUME ~ lost PROVE Clean'
    <2>1. Placed /\ Spelled /\ (wire # <<>> => Stored /\ Reported) /\ Len(wire) = Before(stage, i, req)
      BY <1>9 DEF IInv, Clean, Placed
    <2>2. /\ Before(stage, i, req) + 2 = Total(req)
          /\ Meant(req, Before(stage, i, req) + 1) = LastRead
          /\ Meant(req, Before(stage, i, req) + 2) = AtEnd
          /\ stage = "data_r" /\ Before(stage, i, req) = BeforeReads(req) + i
      BY StageInTransfer DEF IInv, Last
    <2>3. Placed'
      <3>1. Before(stage, i, req)' = Before(stage, i, req) /\ Total(req)' = Total(req)
        BY <1>1 DEF Before, Total, BeforeReads, WriteStart, ReadStart, Writes, HasWritePhase
      <3>2. Events1' = 2
        BY <1>7 DEF Events1
      <3>. QED
        BY <1>1, <1>4, <1>7, <2>1, <3>1, <3>2 DEF Placed
    <2>4. Spelled'
      <3>1. ASSUME NEW k \in 1 .. Len(wire')
            PROVE  /\ Driven(wire'[k]) = Meant(req, k)
                   /\ wire'[k].ev \in {"addr_w", "addr_r"} => (wire'[k].ack <=> req.chip \in Chips)
        <4>1. CASE k \in 1 .. Len(wire)
          BY <1>4, <2>1, <4>1 DEF Spelled
        <4>2. CASE k = Len(wire) + 1
          BY <1>2, <1>4, <2>1, <2>2, <4>2
        <4>3. CASE k = Len(wire) + 2
          BY <1>2, <1>4, <2>1, <2>2, <4>3
        <4>. QED
          BY <1>3, <1>4, <4>1, <4>2, <4>3
      <3>. QED
        BY <1>1, <3>1 DEF Spelled
    <2>5. Stored'
      <3>1. BeforeReads(req)' = BeforeReads(req)
        BY <1>1 DEF BeforeReads, WriteStart, ReadStart, Writes, HasWritePhase
      <3>2. BeforeReads(req) \in Nat /\ Len(got) \in Nat /\ i \in Nat
        BY StageInTransfer, Lengths DEF IInv, DriverOK
      <3>3. ASSUME NEW k \in 1 .. Len(got)
            PROVE  got[k] = wire'[BeforeReads(req) + k].n
        <4>1. wire # <<>> /\ BeforeReads(req) + k <= Len(wire)
          BY <1>3, <2>1, <3>2, GotIsBefore DEF IInv
        <4>2. got[k] = wire[BeforeReads(req) + k].n
          BY <2>1, <4>1 DEF Stored
        <4>. QED
          BY <1>4, <3>2, <4>1, <4>2
      <3>4. rxr' = wire'[BeforeReads(req) + i + 1].n
        BY <1>2, <1>4, <2>1, <2>2, <3>2
      <3>. QED
        BY <1>1, <3>1, <3>3, <3>4 DEF Stored
    <2>6. Reported'
      BY <1>1, <2>2 DEF Reported, IInv, DriverOK
    <2>. QED
      BY <2>3, <2>4, <2>5, <2>6 DEF Clean
  <1>10. Clean'
    BY <1>1, <1>9 DEF Clean
  <1>11. Swept'
    BY <1>1 DEF IInv, Swept
  <1>. QED
    BY <1>5, <1>6, <1>8, <1>10, <1>11 DEF IInv

(* Start and address.                                                      *)
LEMMA SendAddressInv ==
  ASSUME IInv, SendAddress, UNCHANGED <<driver, sweep, kills>>
  PROVE  IInv'
  <1>. DEFINE dir == IF stage = "addr_r" THEN "r" ELSE "w"
              ack == req.chip \in Chips
              e   == Event(IF dir = "r" THEN "addr_r" ELSE "addr_w", 0, ack)
  <1>1. /\ cmd.sta /\ line # "other" /\ cmd' = NoCommand /\ line' = "us"
        /\ target' = (IF ack THEN dir ELSE "none") /\ rxack' = ~ ack
        /\ wire' = Append(wire, e)
        /\ UNCHANGED <<al, rxr, lost, losses>>
    BY DEF SendAddress, CommandDone
  <1>2. cmd # NoCommand
    BY <1>1 DEF NoCommand, Command
  <1>3. /\ ~ al
        /\ \/ pc = "dead"
           \/ pc \in {"first", "loop"} /\ Pending
           \/ pc = "drain" /\ stage = "stop" /\ Pending
    BY <1>1, <1>2, CommandIsPending
  <1>4. e \in Events /\ e.ack = ack /\ e.ev = IF stage = "addr_r" THEN "addr_r" ELSE "addr_w"
    <2>1. 0 \in 0 .. MaxBytes + 2
      BY Constants
    <2>. QED
      BY <2>1 DEF Event, Events
  <1>5. target' \in {"w", "r", "none"} /\ rxack' \in BOOLEAN
    BY <1>1
  <1>6. CASE pc = "dead"
    <2>1. CoreOK'
      <3>1. NoCommand \in Commands
        BY DEF NoCommand, Command, Commands
      <3>2. wire' \in Seq(Events)
        BY <1>1, <1>4, WireGrows DEF IInv, CoreOK
      <3>. QED
        BY <1>1, <1>5, <3>1, <3>2 DEF IInv, CoreOK
    <2>. QED
      BY <1>1, <1>3, <1>6, <2>1, UnseenStep
  <1>7. CASE pc # "dead"
    <2>1. Pending /\ stage \in {"addr_w", "addr_r"} /\ ~ Last /\ pc \in {"first", "loop"}
      BY <1>1, <1>3, <1>7, CommandOfStage DEF Pending, Last, IInv
    <2>2. Driven(e) = Meant(req, Before(stage, i, req) + 1)
      <3>1. /\ stage = "addr_w" => Meant(req, Before(stage, i, req) + 1) = AddrW
            /\ stage = "addr_r" => Meant(req, Before(stage, i, req) + 1) = AddrR
        BY StageInTransfer DEF IInv
      <3>2. \A x \in BOOLEAN : /\ Driven(Event("addr_w", 0, x)) = AddrW
                               /\ Driven(Event("addr_r", 0, x)) = AddrR
        <4>1. 0 \in 0 .. MaxBytes + 2
          BY Constants
        <4>. QED
          BY <4>1, DrivenEvents
      <3>3. ack \in BOOLEAN
        OBVIOUS
      <3>4. stage = "addr_w" => e = Event("addr_w", 0, ack)
        OBVIOUS
      <3>5. stage = "addr_r" => e = Event("addr_r", 0, ack)
        OBVIOUS
      <3>. HIDE DEF e, ack
      <3>. QED
        BY <2>1, <3>1, <3>2, <3>3, <3>4, <3>5
    <2>3. rxr' \in Bytes \cup {Junk}
      BY <1>1 DEF IInv, CoreOK
    <2>. HIDE DEF e
    <2>. QED
      BY <1>1, <1>3, <1>4, <1>5, <2>1, <2>2, <2>3, OneEvent
  <1>. QED
    BY <1>6, <1>7

(* A data byte.                                                            *)
LEMMA SendDataInv ==
  ASSUME IInv, SendData, UNCHANGED <<driver, sweep, kills>>
  PROVE  IInv'
  <1>1. /\ cmd.wr /\ ~ cmd.sta /\ line = "us" /\ cmd' = NoCommand
        /\ UNCHANGED <<al, rxr, line, lost, losses>>
    BY DEF SendData, CommandDone
  <1>2. PICK ack \in BOOLEAN :
          /\ target' = IF ack THEN "w" ELSE "none"
          /\ rxack' = ~ ack
          /\ wire' = Append(wire, Event("data", i + 1, ack))
    BY DEF SendData
  <1>. DEFINE e == Event("data", i + 1, ack)
  <1>3. /\ ~ al
        /\ \/ pc = "dead"
           \/ pc \in {"first", "loop"} /\ Pending
           \/ pc = "drain" /\ stage = "stop" /\ Pending
    <2>1. cmd # NoCommand
      BY <1>1 DEF NoCommand, Command
    <2>. QED
      BY <1>1, <2>1, CommandIsPending
  <1>4. e \in Events /\ e.ack = ack /\ e.ev = "data" /\ i + 1 \in 0 .. MaxBytes + 2
    <2>1. i + 1 \in 0 .. MaxBytes + 2
      BY Constants, StageInTransfer DEF IInv
    <2>. QED
      BY <2>1 DEF Event, Events
  <1>5. target' \in {"w", "r", "none"} /\ rxack' \in BOOLEAN /\ wire' = Append(wire, e)
    BY <1>2
  <1>6. CASE pc = "dead"
    <2>1. CoreOK'
      <3>1. NoCommand \in Commands
        BY DEF NoCommand, Command, Commands
      <3>2. wire' \in Seq(Events)
        BY <1>4, <1>5, WireGrows DEF IInv, CoreOK
      <3>. QED
        BY <1>1, <1>5, <3>1, <3>2 DEF IInv, CoreOK
    <2>. QED
      BY <1>1, <1>3, <1>6, <2>1, UnseenStep
  <1>7. CASE pc # "dead"
    <2>1. Pending /\ stage = "data_w" /\ ~ Last /\ pc \in {"first", "loop"}
      BY <1>1, <1>3, <1>7, CommandOfStage DEF Pending, Last, IInv
    <2>2. Driven(e) = Meant(req, Before(stage, i, req) + 1)
      BY <1>4, <2>1, StageInTransfer, DrivenEvents DEF IInv
    <2>3. rxr' \in Bytes \cup {Junk}
      BY <1>1 DEF IInv, CoreOK
    <2>4. rxack' = ~ e.ack
      BY <1>2, <1>4
    <2>. HIDE DEF e
    <2>. QED
      BY <1>1, <1>3, <1>4, <1>5, <2>1, <2>2, <2>3, <2>4, OneEvent
  <1>. QED
    BY <1>6, <1>7

(* A stop.                                                                 *)
LEMMA StopInv ==
  ASSUME IInv, Stop, UNCHANGED <<driver, sweep, kills>>
  PROVE  IInv'
  <1>. DEFINE e == Event("stop", 0, TRUE)
  <1>1. /\ cmd.sto /\ ~ TIP /\ line = "us" /\ cmd' = NoCommand
        /\ line' = "free" /\ target' = "none" /\ wire' = Append(wire, e)
        /\ UNCHANGED <<al, rxack, rxr, lost, losses>>
    BY DEF Stop, CommandDone
  <1>2. /\ ~ al
        /\ \/ pc = "dead"
           \/ pc \in {"first", "loop"} /\ Pending
           \/ pc = "drain" /\ stage = "stop" /\ Pending
    <2>1. cmd # NoCommand
      BY <1>1 DEF NoCommand, Command
    <2>. QED
      BY <1>1, <2>1, CommandIsPending
  <1>3. e \in Events /\ e.ev = "stop"
    <2>1. 0 \in 0 .. MaxBytes + 2
      BY Constants
    <2>. QED
      BY <2>1 DEF Event, Events
  <1>4. CASE pc = "dead"
    <2>1. CoreOK'
      <3>1. NoCommand \in Commands
        BY DEF NoCommand, Command, Commands
      <3>2. wire' \in Seq(Events)
        BY <1>1, <1>3, WireGrows DEF IInv, CoreOK
      <3>. QED
        BY <1>1, <3>1, <3>2 DEF IInv, CoreOK
    <2>. QED
      BY <1>1, <1>2, <1>4, <2>1, UnseenStep
  <1>5. CASE pc # "dead"
    <2>1. Pending /\ stage = "stop" /\ ~ Last /\ pc = "drain"
      BY <1>1, <1>2, <1>5, CommandOfStage DEF Pending, Last, IInv, TIP, DriverOK
    <2>2. Driven(e) = Meant(req, Before(stage, i, req) + 1)
      <3>1. Driven(Event("stop", 0, TRUE)) = AtEnd
        BY DEF Driven, Event, AtEnd
      <3>2. Meant(req, Before(stage, i, req) + 1) = AtEnd
        BY <2>1, StageInTransfer DEF IInv
      <3>. QED
        BY <3>1, <3>2
    <2>3. rxr' \in Bytes \cup {Junk} /\ rxack' \in BOOLEAN /\ rxack' = rxack
      BY <1>1 DEF IInv, CoreOK
    <2>. HIDE DEF e
    <2>. QED
      BY <1>1, <1>2, <1>3, <2>1, <2>2, <2>3, OneEvent
  <1>. QED
    BY <1>4, <1>5

(* A byte that is read, and the stop behind the last one.                  *)
LEMMA ReceiveInv ==
  ASSUME IInv, Receive, UNCHANGED <<driver, sweep, kills>>
  PROVE  IInv'
  <1>. DEFINE stops == IF cmd.sto THEN <<Event("stop", 0, TRUE)>> ELSE <<>>
  <1>1. /\ cmd.rd /\ line = "us" /\ cmd' = NoCommand
        /\ line' = (IF cmd.sto THEN "free" ELSE "us")
        /\ target' = (IF cmd.sto THEN "none" ELSE target)
        /\ UNCHANGED <<al, lost, losses>>
    BY DEF Receive, CommandDone
  <1>2. PICK b \in Bytes \cup {Junk}, n \in BOOLEAN :
          /\ rxr' = b /\ rxack' = n
          /\ wire' = wire \o <<Event("read", b, ~ cmd.nack)>> \o stops
    BY DEF Receive
  <1>3. /\ ~ al
        /\ \/ pc = "dead"
           \/ pc \in {"first", "loop"} /\ Pending
           \/ pc = "drain" /\ stage = "stop" /\ Pending
    <2>1. cmd # NoCommand
      BY <1>1 DEF NoCommand, Command
    <2>. QED
      BY <1>1, <2>1, CommandIsPending
  <1>4. b \in 0 .. MaxBytes + 2 /\ 0 \in 0 .. MaxBytes + 2 /\ cmd.nack \in BOOLEAN
    BY Constants DEF Bytes, Junk, IInv, CoreOK, Commands
  <1>. DEFINE e == Event("read", b, ~ cmd.nack)
              f == Event("stop", 0, TRUE)
  <1>5. e \in Events /\ e.ev = "read" /\ e.n = b /\ f \in Events
    BY <1>4 DEF Event, Events
  <1>6. wire \in Seq(Events) /\ target \in {"w", "r", "none"} /\ rxack' \in BOOLEAN
        /\ losses \in 0 .. MaxLosses /\ kills \in 0 .. MaxKills
    BY <1>2 DEF IInv, CoreOK
  <1>7. /\ ~ cmd.sto => wire' = Append(wire, e)
        /\ cmd.sto => wire' = wire \o <<e>> \o <<f>>
    <2>1. Append(wire, e) = wire \o <<e>> /\ Append(wire, e) \in Seq(Events)
      BY <1>5, <1>6, AppendIsConcat, AppendProperties
    <2>. HIDE DEF e, f
    <2>2. Append(wire, e) \o <<>> = Append(wire, e)
      BY <2>1, ConcatEmptySeq
    <2>3. ~ cmd.sto => wire' = wire \o <<e>> \o <<>>
      BY <1>2 DEF e
    <2>4. cmd.sto => wire' = wire \o <<e>> \o <<f>>
      BY <1>2 DEF e, f
    <2>. QED
      BY <2>1, <2>2, <2>3, <2>4
  <1>8. CASE pc = "dead"
    <2>1. CoreOK'
      <3>1. NoCommand \in Commands
        BY DEF NoCommand, Command, Commands
      <3>2. wire' \in Seq(Events)
        <4>. HIDE DEF e, f
        <4>1. ~ cmd.sto => wire' \in Seq(Events)
          BY <1>5, <1>6, <1>7, WireGrows
        <4>2. cmd.sto => wire' \in Seq(Events)
          BY <1>5, <1>6, <1>7, TwoMore
        <4>. QED
          BY <4>1, <4>2
      <3>. QED
        BY <1>1, <1>2, <1>6, <3>1, <3>2 DEF IInv, CoreOK
    <2>. QED
      BY <1>1, <1>3, <1>8, <2>1, UnseenStep
  <1>9. CASE pc # "dead"
    <2>1. /\ Pending /\ stage = "data_r" /\ pc \in {"first", "loop"}
          /\ (cmd.sto <=> Last) /\ (cmd.nack <=> Last)
      BY <1>1, <1>3, <1>9, CommandOfStage DEF Pending, Last, IInv, DriverOK
    <2>2. CASE Last
      <3>1. e = Event("read", b, FALSE)
        <4>1. (~ cmd.nack) = FALSE
          BY <2>1, <2>2
        <4>. QED
          BY <4>1, Zenon
      <3>2. wire' = wire \o <<Event("read", b, FALSE)>> \o <<Event("stop", 0, TRUE)>>
        BY <1>7, <2>1, <2>2, <3>1, Zenon
      <3>3. line' = "free" /\ target' = "none" /\ rxr' = b
        BY <1>1, <1>2, <2>1, <2>2
      <3>. HIDE DEF e, f
      <3>. QED
        BY <1>1, <1>3, <1>6, <2>1, <2>2, <3>2, <3>3, LastByte
    <2>3. CASE ~ Last
      <3>1. wire' = Append(wire, e) /\ line' = "us" /\ target' \in {"w", "r", "none"}
            /\ rxr' = e.n /\ rxr' \in Bytes \cup {Junk}
        BY <1>1, <1>2, <1>5, <1>6, <1>7, <2>1, <2>3
      <3>2. Driven(e) = Meant(req, Before(stage, i, req) + 1)
        <4>1. e = Event("read", b, TRUE)
          <5>1. (~ cmd.nack) = TRUE
            BY <2>1, <2>3
          <5>. QED
            BY <5>1, Zenon
        <4>2. Driven(Event("read", b, TRUE)) = Read
          BY DEF Driven, Event, Read
        <4>3. Meant(req, Before(stage, i, req) + 1) = Read
          BY <2>1, <2>3, StageInTransfer DEF IInv
        <4>. QED
          BY <4>1, <4>2, <4>3
      <3>3. req.rd # 0
        BY <2>1 DEF IInv, DriverOK
      <3>. HIDE DEF e
      <3>. QED
        BY <1>1, <1>3, <1>5, <1>6, <2>1, <2>3, <3>1, <3>2, <3>3, OneEvent
    <2>. QED
      BY <2>2, <2>3
  <1>. QED
    BY <1>8, <1>9

(* A command on a bus that is not ours: in a call that lost nothing it is  *)
(* one that an earlier call has left behind.                               *)
LEMMA StrayCommandInv ==
  ASSUME IInv, StrayCommand, UNCHANGED <<driver, sweep, kills>>
  PROVE  IInv'
  <1>1. /\ cmd # NoCommand /\ ~ cmd.sta /\ line # "us" /\ cmd' = NoCommand
        /\ rxack' \in BOOLEAN /\ rxr' \in Bytes \cup {Junk}
        /\ UNCHANGED <<al, line, target, wire, lost, losses>>
    <2>1. rxack' \in BOOLEAN
      BY DEF StrayCommand, IInv, CoreOK
    <2>2. rxr' \in Bytes \cup {Junk}
      BY DEF StrayCommand, IInv, CoreOK
    <2>. QED
      BY <2>1, <2>2 DEF StrayCommand, CommandDone, bus
  <1>2. UNCHANGED <<pc, stage, i, req, got, ret, scan, found, kills>>
    BY DEF driver, sweep
  <1>3. ~ cmd'.sta /\ NoCommand \in Commands
    BY <1>1 DEF NoCommand, Command, Commands
  <1>4. CoreOK'
    BY <1>1, <1>2, <1>3 DEF IInv, CoreOK
  <1>5. CASE pc = "dead"
    BY <1>1, <1>3, <1>4, <1>5, UnseenStep DEF IInv, Handshake
  <1>6. CASE pc # "dead"
    <2>1. al
      <3>1. ~ (Pending /\ stage \in {"addr_w", "addr_r"})
        BY <1>1, CommandOfStage DEF Pending, IInv
      <3>2. pc \in {"idle", "issue", "fetch", "first", "loop", "drain"}
        BY <1>6 DEF IInv, DriverOK
      <3>3. /\ stage \in {"addr_w", "data_w", "addr_r", "data_r", "stop"}
            /\ pc \in {"first", "loop"} => stage # "stop"
        BY DEF IInv, DriverOK
      <3>. QED
        BY <1>1, <3>1, <3>2, <3>3 DEF IInv, Handshake, Held, Finished
    <2>2. DriverOK'
      BY <1>2 DEF IInv, DriverOK, Writes, HasWritePhase
    <2>3. Handshake'
      BY <1>1, <1>2, <1>3, <2>1 DEF IInv, Handshake, Finished, Held
    <2>4. ASSUME ~ lost PROVE Clean'
      <3>1. Placed /\ Spelled
        BY <1>6, <2>4 DEF IInv, Clean
      <3>2. wire = <<>> /\ pc \in {"idle", "issue"}
        <4>1. Len(wire) = 0 => wire = <<>>
          BY EmptySeq DEF IInv, CoreOK
        <4>. QED
          BY <1>6, <2>1, <3>1, <4>1 DEF Placed, Working, IInv, DriverOK
      <3>3. Placed'
        <4>1. Before(stage, i, req)' = Before(stage, i, req)
          BY <1>2 DEF Before, BeforeReads, WriteStart, ReadStart, Writes, HasWritePhase
        <4>. QED
          BY <1>1, <1>2, <3>1, <3>2, <4>1 DEF Placed, Working
      <3>4. Spelled'
        BY <1>1, <3>2 DEF Spelled
      <3>. QED
        BY <1>1, <3>2, <3>3, <3>4 DEF Clean
    <2>5. Clean'
      BY <1>1, <2>4 DEF Clean
    <2>6. Swept'
      BY <1>1, <1>2 DEF IInv, Swept
    <2>. QED
      BY <1>4, <2>2, <2>3, <2>5, <2>6 DEF IInv
  <1>. QED
    BY <1>5, <1>6

(* Another master takes the bus: the call has lost arbitration, and AL     *)
(* shows it.                                                               *)
LEMMA LoseInv ==
  ASSUME IInv, Lose, UNCHANGED <<driver, sweep, kills>>
  PROVE  IInv'
  <1>1. /\ losses < MaxLosses /\ al' = TRUE /\ lost' = TRUE /\ losses' = losses + 1
        /\ line' = "other" /\ target' = "none" /\ cmd' = NoCommand
        /\ UNCHANGED <<rxack, rxr, wire>>
    BY DEF Lose, CommandDone
  <1>2. UNCHANGED <<pc, stage, i, req, got, ret, scan, found, kills>>
    BY DEF driver, sweep
  <1>3. ~ cmd'.sta /\ NoCommand \in Commands
    BY <1>1 DEF NoCommand, Command, Commands
  <1>4. CoreOK'
    <2>1. losses' \in 0 .. MaxLosses /\ losses' > 0
      BY <1>1, Constants DEF IInv, CoreOK
    <2>. QED
      BY <1>1, <1>2, <1>3, <2>1 DEF IInv, CoreOK
  <1>5. DriverOK'
    BY <1>2 DEF IInv, DriverOK, Writes, HasWritePhase
  <1>6. Handshake'
    BY <1>1, <1>3 DEF Handshake, Finished, Held
  <1>7. Clean'
    BY <1>1 DEF Clean
  <1>8. Swept'
    <2>1. losses' # 0
      BY <1>1 DEF IInv, CoreOK
    <2>. QED
      BY <1>1, <1>2, <2>1 DEF IInv, Swept
  <1>. QED
    BY <1>4, <1>5, <1>6, <1>7, <1>8 DEF IInv

(* The other master releases the bus.                                      *)
LEMMA OtherStopsInv ==
  ASSUME IInv, OtherStops, UNCHANGED <<driver, sweep, kills>>
  PROVE  IInv'
  <1>1. /\ line = "other" /\ line' = "free"
        /\ UNCHANGED <<target, wire, lost, losses, cmd, al, rxack, rxr>>
    BY DEF OtherStops, core
  <1>2. UNCHANGED <<pc, stage, i, req, got, ret, scan, found, kills>>
    BY DEF driver, sweep
  <1>3. CoreOK'
    BY <1>1, <1>2 DEF IInv, CoreOK
  <1>4. DriverOK'
    BY <1>2 DEF IInv, DriverOK, Writes, HasWritePhase
  <1>5. (Pending' <=> Pending) /\ (Finished' <=> Finished) /\ (Last' <=> Last) /\ (Held => Held')
    BY <1>1, <1>2 DEF Pending, CommandFor, Command, Finished, NoCommand, Last, Held
  <1>6. Handshake'
    BY <1>1, <1>2, <1>5 DEF IInv, Handshake
  <1>7. ASSUME pc # "dead", ~ lost PROVE Placed' /\ Spelled' /\ (wire # <<>> => Stored' /\ Reported')
    <2>1. Before(stage, i, req)' = Before(stage, i, req) /\ Total(req)' = Total(req)
          /\ BeforeReads(req)' = BeforeReads(req)
      BY <1>2 DEF Before, Total, BeforeReads, WriteStart, ReadStart, Writes, HasWritePhase
    <2>2. Events1' = Events1
      BY <1>5 DEF Events1
    <2>3. Placed'
      BY <1>1, <1>2, <1>5, <1>7, <2>1, <2>2 DEF IInv, Clean, Placed, Working
    <2>4. Spelled'
      BY <1>1, <1>2, <1>7, SpelledSame DEF IInv, Clean
    <2>5. wire # <<>> => Stored' /\ Reported'
      BY <1>1, <1>2, <1>5, <1>7, <2>1 DEF IInv, Clean, Stored, Reported, Working
    <2>. QED
      BY <2>3, <2>4, <2>5
  <1>8. Clean'
    BY <1>1, <1>2, <1>7 DEF Clean
  <1>9. Swept'
    BY <1>1, <1>2 DEF IInv, Swept
  <1>. QED
    BY <1>3, <1>4, <1>6, <1>8, <1>9 DEF IInv

(* What neither the driver nor the core has changed stays as it was.       *)
LEMMA StillInv ==
  ASSUME IInv, Swept',
         UNCHANGED <<pc, stage, i, req, got, ret, cmd, al, rxack, rxr, line, target, wire, lost,
                     losses, kills>>
  PROVE  IInv'
  <1>1. DriverOK' /\ CoreOK'
    BY DEF IInv, DriverOK, CoreOK, Writes, HasWritePhase
  <1>2. (Pending' <=> Pending) /\ (Finished' <=> Finished) /\ (Last' <=> Last) /\ (Held' <=> Held)
    BY DEF Pending, CommandFor, Command, Finished, NoCommand, Last, Held
  <1>3. Handshake'
    BY <1>2 DEF IInv, Handshake
  <1>4. ASSUME pc # "dead", ~ lost PROVE Placed' /\ Spelled' /\ (wire # <<>> => Stored' /\ Reported')
    <2>1. Before(stage, i, req)' = Before(stage, i, req) /\ Total(req)' = Total(req)
          /\ BeforeReads(req)' = BeforeReads(req) /\ Events1' = Events1
      BY <1>2 DEF Before, Total, BeforeReads, WriteStart, ReadStart, Writes, HasWritePhase, Events1
    <2>2. Placed'
      BY <1>2, <1>4, <2>1 DEF IInv, Clean, Placed, Working
    <2>3. Spelled'
      BY <1>4, SpelledSame DEF IInv, Clean
    <2>4. wire # <<>> => Stored' /\ Reported'
      BY <1>2, <1>4, <2>1 DEF IInv, Clean, Stored, Reported, Working
    <2>. QED
      BY <2>2, <2>3, <2>4
  <1>5. Clean'
    BY <1>4 DEF Clean
  <1>. QED
    BY <1>1, <1>3, <1>5 DEF IInv

(* A call begins, with nothing of it on the wires.                         *)
LEMMA EnterInv ==
  ASSUME IInv, pc = "idle", NEW a \in Addrs, NEW w \in 0 .. MaxBytes, NEW r \in 0 .. MaxBytes,
         Enter(a, w, r), Swept'
  PROVE  IInv'
  <1>1. /\ req' = [chip |-> a, wr |-> w, rd |-> r] /\ pc' = "issue"
        /\ stage' = (IF w > 0 \/ r = 0 THEN "addr_w" ELSE "addr_r")
        /\ i' = 0 /\ got' = <<>> /\ wire' = <<>> /\ lost' = FALSE
        /\ UNCHANGED <<ret, cmd, al, rxack, rxr, line, target, losses, kills>>
    BY DEF Enter, HasWritePhase, core
  <1>2. w \in Nat /\ r \in Nat /\ MaxBytes \in Nat
    BY Constants
  <1>3. got' \in Seq(Bytes \cup {Junk}) /\ Len(got') = 0 /\ wire' \in Seq(Events) /\ Len(wire') = 0
    BY <1>1
  <1>4. DriverOK'
    BY <1>1, <1>2, <1>3 DEF IInv, DriverOK, Writes, HasWritePhase
  <1>5. CoreOK'
    BY <1>1, <1>3 DEF IInv, CoreOK
  <1>6. Handshake'
    BY <1>1 DEF IInv, Handshake, Finished
  <1>7. Clean'
    <2>1. Before(stage, i, req)' = 0
      <3>1. CASE w > 0 \/ r = 0
        BY <1>1, <3>1 DEF Before
      <3>2. CASE ~ (w > 0 \/ r = 0)
        <4>1. stage' = "addr_r" /\ w = 0 /\ ~ (w > 0 \/ r = 0)
          BY <1>1, <1>2, <3>2
        <4>. QED
          BY <1>1, <4>1 DEF Before, WriteStart, Writes, HasWritePhase
      <3>. QED
        BY <3>1, <3>2
    <2>2. Placed'
      BY <1>1, <1>3, <2>1 DEF Placed
    <2>3. Spelled'
      BY <1>3 DEF Spelled
    <2>. QED
      BY <1>1, <2>2, <2>3 DEF Clean
  <1>. QED
    BY <1>4, <1>5, <1>6, <1>7 DEF IInv

(* CR is written: the command is the one of the stage.                     *)
LEMMA IssueInv ==
  ASSUME IInv, Issue
  PROVE  IInv'
  <1>1. /\ pc = "issue" /\ cmd' = CommandFor(stage, i, req.rd)
        /\ al' = (IF cmd'.sta THEN FALSE ELSE al)
        /\ pc' = IF stage = "stop" THEN "drain" ELSE "first"
        /\ UNCHANGED <<stage, i, req, got, ret, scan, found, rxack, rxr, line, target, wire, lost,
                       losses, kills>>
    BY DEF Issue, AfterCommand, sweep, bus
  <1>2. /\ cmd' \in Commands /\ cmd' # NoCommand
        /\ cmd'.sta <=> stage \in {"addr_w", "addr_r"}
        /\ stage \in {"addr_w", "data_w", "addr_r", "data_r", "stop"}
    BY <1>1, CommandOfStage DEF IInv, DriverOK
  <1>3. DriverOK'
    BY <1>1, <1>2 DEF IInv, DriverOK, Writes, HasWritePhase
  <1>4. CoreOK'
    BY <1>1, <1>2 DEF IInv, CoreOK
  <1>5. Pending' /\ ~ Finished' /\ (Last' <=> Last)
    BY <1>1, <1>2 DEF Pending, Finished, Last, CommandFor, Command, NoCommand
  <1>6. Handshake'
    <2>1. al' => line' # "us" /\ ~ cmd'.sta
      BY <1>1 DEF IInv, Handshake
    <2>2. stage \in {"data_w", "data_r", "stop"} => Held'
      BY <1>1, <1>2 DEF IInv, Handshake, Held
    <2>. QED
      BY <1>1, <1>5, <2>1, <2>2 DEF Handshake
  <1>7. ASSUME ~ lost PROVE Clean'
    <2>1. Placed /\ Spelled /\ (wire # <<>> => Stored /\ Reported) /\ Len(wire) = Before(stage, i, req)
      BY <1>1, <1>7 DEF IInv, Clean, Placed
    <2>2. /\ Before(stage, i, req)' = Before(stage, i, req) /\ Total(req)' = Total(req)
          /\ BeforeReads(req)' = BeforeReads(req)
      BY <1>1 DEF Before, Total, BeforeReads, WriteStart, ReadStart, Writes, HasWritePhase
    <2>3. ~ al'
      <3>1. CASE stage \in {"addr_w", "addr_r"}
        BY <1>1, <1>2, <3>1
      <3>2. CASE stage \notin {"addr_w", "addr_r"}
        <4>1. Before(stage, i, req) # 0
          <5>1. req \in Requests /\ DriverOK
            BY StageInTransfer DEF IInv
          <5>2. /\ req.wr \in Nat /\ WriteStart(req) \in Nat /\ i \in Nat
                /\ BeforeReads(req) \in Nat /\ (stage = "data_r" => BeforeReads(req) >= 1)
            BY <5>1, StageInTransfer, Lengths, SMTT(30) DEF DriverOK
          <5>3. CASE stage = "data_w"
            BY <5>2, <5>3 DEF Before
          <5>4. CASE stage = "data_r"
            <6>1. Before(stage, i, req) = BeforeReads(req) + i
              BY <5>1, <5>4, StageInTransfer
            <6>. QED
              BY <5>2, <5>4, <6>1
          <5>5. CASE stage = "stop"
            BY <5>2, <5>5 DEF Before
          <5>. QED
            BY <1>2, <3>2, <5>3, <5>4, <5>5
        <4>. QED
          BY <1>1, <1>2, <2>1, <3>2, <4>1 DEF Placed, Working, IInv, CoreOK
      <3>. QED
        BY <3>1, <3>2
    <2>4. Placed'
      BY <1>1, <1>5, <2>1, <2>2, <2>3 DEF Placed, Working
    <2>5. Spelled'
      BY <1>1, <2>1, SpelledSame
    <2>6. wire # <<>> => Stored' /\ Reported'
      BY <1>1, <1>5, <2>1, <2>2 DEF Stored, Reported, Working
    <2>. QED
      BY <1>1, <2>4, <2>5, <2>6 DEF Clean
  <1>8. Clean'
    BY <1>1, <1>7 DEF Clean
  <1>9. Swept'
    BY <1>1 DEF IInv, Swept
  <1>. QED
    BY <1>3, <1>4, <1>6, <1>8, <1>9 DEF IInv

(* A call from the program's own code.                                     *)
LEMMA CallInv ==
  ASSUME IInv, NEW a \in Addrs, NEW w \in 0 .. MaxBytes, NEW r \in 0 .. MaxBytes,
         Call(a, w, r)
  PROVE  IInv'
  <1>1. pc = "idle" /\ scan = {} /\ Enter(a, w, r) /\ UNCHANGED <<scan, found>>
    BY DEF Call, sweep
  <1>2. Swept'
    BY <1>1 DEF IInv, Swept
  <1>. QED
    BY <1>1, <1>2, EnterInv

(* A sweep begins with its first probe.                                    *)
LEMMA StartSweepInv ==
  ASSUME IInv, StartSweep
  PROVE  IInv'
  <1>1. /\ pc = "idle" /\ scan' = Sweep /\ found' = {}
        /\ \E a \in Sweep : (\A b \in Sweep : a <= b) /\ Enter(a, 0, 0)
    BY DEF StartSweep
  <1>2. PICK a \in Sweep : Enter(a, 0, 0)
    BY <1>1
  <1>3. /\ req'.chip = a /\ req'.wr = 0 /\ req'.rd = 0 /\ pc' = "issue"
    BY <1>2 DEF Enter
  <1>4. Swept'
    BY <1>1, <1>3 DEF Swept
  <1>5. a \in Addrs /\ 0 \in 0 .. MaxBytes
    BY Constants
  <1>. QED
    BY <1>1, <1>2, <1>4, <1>5, EnterInv

(* The byte of a stage is done: the core is at rest, what it did is on the *)
(* wires, and the driver fetches it or goes on to the stage that is next.  *)
LEMMA ByteDoneInv ==
  ASSUME IInv, pc \in {"first", "loop"}, Finished, ByteDone,
         UNCHANGED <<req, got, ret, sweep, core, bus, kills>>
  PROVE  IInv'
  <1>1. UNCHANGED <<req, got, ret, scan, found, cmd, al, rxack, rxr, line, target, wire, lost,
                    losses, kills>>
    BY DEF sweep, core, bus
  <1>2. DriverOK /\ CoreOK /\ Handshake /\ Clean /\ Swept /\ req \in Requests
    BY StageInTransfer DEF IInv
  <1>3. CoreOK'
    BY <1>1, <1>2 DEF CoreOK
  <1>4. Finished' /\ (Held' <=> Held)
    BY <1>1 DEF Finished, Held
  <1>5. BeforeReads(req)' = BeforeReads(req) /\ Total(req)' = Total(req)
    BY <1>1 DEF Total, BeforeReads, WriteStart, ReadStart, Writes, HasWritePhase
  <1>6. /\ req.wr \in Nat /\ req.rd \in Nat /\ MaxBytes \in Nat
        /\ WriteStart(req) = (IF req.wr > 0 \/ req.rd = 0 THEN 1 ELSE 0)
        /\ ReadStart(req) = (IF req.rd > 0 THEN 1 ELSE 0)
        /\ BeforeReads(req) = WriteStart(req) + req.wr + ReadStart(req)
        /\ Total(req) = BeforeReads(req) + req.rd + 1
    BY <1>2, Lengths
  <1>7. \/ stage = "addr_w" /\ i = 0 /\ (req.wr > 0 \/ req.rd = 0)
        \/ stage = "data_w" /\ i \in 0 .. req.wr - 1
        \/ stage = "addr_r" /\ i = 0 /\ req.rd > 0
        \/ stage = "data_r" /\ i \in 0 .. req.rd - 1
    BY <1>2 DEF DriverOK, Writes, HasWritePhase
  <1>8. CASE stage = "data_r"
    <2>1. pc' = "fetch" /\ UNCHANGED <<stage, i>>
      BY <1>8 DEF ByteDone
    <2>2. DriverOK'
      BY <1>1, <1>2, <1>8, <2>1 DEF DriverOK, Writes, HasWritePhase
    <2>3. Last' <=> Last
      BY <1>1, <2>1 DEF Last
    <2>4. Handshake'
      BY <1>1, <1>2, <1>4, <2>1, <2>3 DEF Handshake
    <2>5. ASSUME ~ lost PROVE Placed' /\ Spelled' /\ (wire # <<>> => Stored' /\ Reported')
      <3>1. Placed /\ Spelled /\ (wire # <<>> => Stored /\ Reported)
        BY <1>2, <2>5 DEF Clean
      <3>2. Before(stage, i, req)' = Before(stage, i, req) /\ Events1' = Events1
        BY <1>1, <2>1, <2>3 DEF Before, BeforeReads, WriteStart, ReadStart, Writes, HasWritePhase,
                                Events1
      <3>3. Placed'
        BY <1>1, <1>4, <1>5, <2>1, <3>1, <3>2 DEF Placed, Working
      <3>4. Spelled'
        BY <1>1, <3>1, SpelledSame
      <3>5. wire # <<>> => Stored' /\ Reported'
        BY <1>1, <1>4, <1>5, <2>1, <3>1 DEF Stored, Reported, Working
      <3>. QED
        BY <3>3, <3>4, <3>5
    <2>6. Clean'
      BY <1>1, <2>5 DEF Clean
    <2>7. Swept'
      BY <1>1, <1>2, <2>1 DEF Swept
    <2>. QED
      BY <1>3, <2>2, <2>4, <2>6, <2>7 DEF IInv
  <1>9. CASE stage # "data_r"
    <2>1. /\ pc' = "issue"
          /\ stage' = After(stage, i, req.wr, req.rd)[1]
          /\ i' = After(stage, i, req.wr, req.rd)[2]
      BY <1>9 DEF ByteDone
    <2>2. \/ stage = "addr_w" /\ req.wr > 0 /\ stage' = "data_w" /\ i' = 0
          \/ stage = "data_w" /\ i + 1 < req.wr /\ stage' = "data_w" /\ i' = i + 1
          \/ stage = "addr_r" /\ stage' = "data_r" /\ i' = 0
          \/ /\ (stage = "addr_w" /\ req.wr = 0) \/ (stage = "data_w" /\ i + 1 = req.wr)
             /\ i' = 0
             /\ stage' = IF req.rd > 0 THEN "addr_r" ELSE "stop"
      <3>1. CASE stage = "addr_w" /\ req.wr > 0
        BY <2>1, <3>1 DEF After
      <3>2. CASE stage = "data_w" /\ i + 1 < req.wr
        BY <2>1, <3>2 DEF After
      <3>3. CASE stage = "addr_r"
        BY <2>1, <3>3 DEF After
      <3>4. CASE (stage = "addr_w" /\ ~ (req.wr > 0)) \/ (stage = "data_w" /\ ~ (i + 1 < req.wr))
        <4>1. After(stage, i, req.wr, req.rd) = <<IF req.rd > 0 THEN "addr_r" ELSE "stop", 0>>
          BY <3>4 DEF After
        <4>2. i' = 0 /\ stage' = IF req.rd > 0 THEN "addr_r" ELSE "stop"
          BY <2>1, <4>1
        <4>3. (stage = "addr_w" /\ req.wr = 0) \/ (stage = "data_w" /\ i + 1 = req.wr)
          BY <1>6, <1>7, <3>4
        <4>. QED
          BY <4>2, <4>3
      <3>. QED
        BY <1>7, <1>9, <3>1, <3>2, <3>3, <3>4
    <2>3. Before(stage', i', req) = Before(stage, i, req) + 1
      <3>1. CASE stage = "addr_w" /\ req.wr > 0
        BY <1>6, <1>7, <2>2, <3>1 DEF Before
      <3>2. CASE stage = "data_w" /\ i + 1 < req.wr
        BY <1>6, <1>7, <2>2, <3>2 DEF Before
      <3>3. CASE stage = "addr_r"
        BY <1>6, <1>7, <2>2, <3>3 DEF Before
      <3>4. CASE stage = "addr_w" /\ req.wr = 0
        BY <1>6, <1>7, <2>2, <3>4 DEF Before
      <3>5. CASE stage = "data_w" /\ i + 1 = req.wr
        BY <1>6, <1>7, <2>2, <3>5 DEF Before
      <3>. QED
        BY <2>2, <3>1, <3>2, <3>3, <3>4, <3>5
    <2>4. /\ \/ stage' = "addr_w" /\ i' = 0 /\ Writes(req)
             \/ stage' = "data_w" /\ i' \in 0 .. req.wr - 1
             \/ stage' = "addr_r" /\ i' = 0 /\ req.rd > 0
             \/ stage' = "data_r" /\ i' \in 0 .. req.rd - 1
             \/ stage' = "stop" /\ i' = 0 /\ req.rd = 0
          /\ stage' = "data_r" => i' = 0
      BY <1>6, <1>7, <2>2
    <2>5. DriverOK'
      <3>1. Writes(req)' = Writes(req)
        BY <1>1 DEF Writes, HasWritePhase
      <3>2. Len(got) = 0
        BY <1>2, <1>9 DEF DriverOK
      <3>. QED
        BY <1>1, <1>2, <2>1, <2>4, <3>1, <3>2 DEF DriverOK
    <2>6. Held /\ ~ Last
      BY <1>2, <1>9 DEF Handshake, Last
    <2>7. Handshake'
      BY <1>1, <1>2, <1>4, <2>1, <2>6 DEF Handshake
    <2>8. ASSUME ~ lost PROVE Placed' /\ Spelled' /\ (wire # <<>> => Stored' /\ Reported')
      <3>1. /\ Placed /\ Spelled /\ (wire # <<>> => Stored /\ Reported)
            /\ Len(wire) = Before(stage, i, req) + 1 /\ ~ al
        BY <1>2, <2>6, <2>8 DEF Clean, Placed, Events1, Working
      <3>2. Before(stage, i, req)' = Before(stage', i', req)
        BY <1>1 DEF Before, BeforeReads, WriteStart, ReadStart, Writes, HasWritePhase
      <3>3. Placed'
        BY <1>1, <1>5, <2>1, <2>3, <3>1, <3>2 DEF Placed, Working
      <3>4. Spelled'
        BY <1>1, <3>1, SpelledSame
      <3>5. wire # <<>> => Stored'
        BY <1>1, <1>5, <2>1, <3>1 DEF Stored
      <3>6. wire # <<>> => Reported'
        BY <1>1, <2>1, <3>1 DEF Reported, Working
      <3>. QED
        BY <3>3, <3>4, <3>5, <3>6
    <2>9. Clean'
      BY <1>1, <2>8 DEF Clean
    <2>10. Swept'
      BY <1>1, <1>2, <2>1 DEF Swept
    <2>. QED
      BY <1>3, <2>5, <2>7, <2>9, <2>10 DEF IInv
  <1>. QED
    BY <1>8, <1>9

(* When TIP is down, the command of a stage that moves a byte is done.     *)
LEMMA DoneWithoutTIP ==
  ASSUME IInv, pc \in {"first", "loop"}, ~ TIP
  PROVE  Finished
  <1>1. Pending \/ Finished
    BY DEF IInv, Handshake
  <1>2. ~ Pending
    BY CommandOfStage DEF IInv, DriverOK, Pending, TIP
  <1>. QED
    BY <1>1, <1>2

(* A poll finds the byte done, or goes on polling.                         *)
LEMMA PollFirstInv ==
  ASSUME IInv, PollFirst
  PROVE  IInv'
  <1>1. pc = "first" /\ UNCHANGED <<req, got, ret, sweep, core, bus, kills>>
    BY DEF PollFirst
  <1>2. CASE TIP
    <2>1. pc' = "loop" /\ UNCHANGED <<stage, i>>
      BY <1>2 DEF PollFirst
    <2>2. UNCHANGED <<req, got, ret, scan, found, cmd, al, rxack, rxr, line, target, wire, lost,
                      losses, kills>>
      BY <1>1 DEF sweep, core, bus
    <2>3. DriverOK' /\ CoreOK'
      BY <1>1, <2>1, <2>2 DEF IInv, DriverOK, CoreOK, Writes, HasWritePhase
    <2>4. (Pending' <=> Pending) /\ (Finished' <=> Finished) /\ (Last' <=> Last) /\ (Held' <=> Held)
      BY <2>1, <2>2 DEF Pending, CommandFor, Command, Finished, NoCommand, Last, Held
    <2>5. Handshake'
      BY <1>1, <2>1, <2>2, <2>4 DEF IInv, Handshake
    <2>6. ASSUME ~ lost PROVE Placed' /\ Spelled' /\ (wire # <<>> => Stored' /\ Reported')
      <3>1. Placed /\ Spelled /\ (wire # <<>> => Stored /\ Reported)
        BY <1>1, <2>6 DEF IInv, Clean
      <3>2. Before(stage, i, req)' = Before(stage, i, req) /\ Total(req)' = Total(req)
            /\ BeforeReads(req)' = BeforeReads(req) /\ Events1' = Events1
        BY <2>1, <2>2, <2>4 DEF Before, Total, BeforeReads, WriteStart, ReadStart, Writes,
                                HasWritePhase, Events1
      <3>3. Placed'
        BY <1>1, <2>1, <2>2, <2>4, <3>1, <3>2 DEF Placed, Working
      <3>4. Spelled'
        BY <2>2, <3>1, SpelledSame
      <3>5. wire # <<>> => Stored' /\ Reported'
        BY <1>1, <2>1, <2>2, <2>4, <3>1, <3>2 DEF Stored, Reported, Working
      <3>. QED
        BY <3>3, <3>4, <3>5
    <2>7. Clean'
      BY <2>2, <2>6 DEF Clean
    <2>8. Swept'
      BY <1>1, <2>1, <2>2 DEF IInv, Swept
    <2>. QED
      BY <2>3, <2>5, <2>7, <2>8 DEF IInv
  <1>3. CASE ~ TIP
    <2>1. ByteDone
      BY <1>3 DEF PollFirst
    <2>. QED
      BY <1>1, <1>3, <2>1, DoneWithoutTIP, ByteDoneInv
  <1>. QED
    BY <1>2, <1>3

(* So does a poll inside the loop.                                         *)
LEMMA PollDoneInv ==
  ASSUME IInv, PollDone
  PROVE  IInv'
  BY DoneWithoutTIP, ByteDoneInv DEF PollDone

(* AL in a poll: the call has lost arbitration, and returns.               *)
LEMMA PollLostInv ==
  ASSUME IInv, PollLost
  PROVE  IInv'
  <1>1. /\ pc = "loop" /\ al /\ pc' = "idle" /\ ret' = -1
        /\ UNCHANGED <<stage, i, req, got, scan, found, cmd, al, rxack, rxr, line, target, wire,
                       lost, losses, kills>>
    BY DEF PollLost, sweep, core, bus
  <1>2. DriverOK' /\ CoreOK'
    BY <1>1 DEF IInv, DriverOK, CoreOK, Writes, HasWritePhase
  <1>3. Handshake'
    BY <1>1 DEF IInv, Handshake
  <1>4. lost /\ losses # 0
    BY <1>1 DEF IInv, CoreOK, Clean, Placed, Working
  <1>5. Clean' /\ Swept'
    BY <1>1, <1>4 DEF IInv, Clean, Swept
  <1>. QED
    BY <1>2, <1>3, <1>5 DEF IInv

(* The byte in RXR is stored behind the others.                            *)
LEMMA FetchInv ==
  ASSUME IInv, Fetch
  PROVE  IInv'
  <1>1. /\ pc = "fetch" /\ got' = Append(got, rxr)
        /\ UNCHANGED <<stage, req, ret, scan, found, cmd, al, rxack, rxr, line, target, wire, lost,
                       losses, kills>>
    BY DEF Fetch, sweep, core, bus
  <1>2. DriverOK /\ CoreOK /\ Handshake /\ Clean /\ Swept
    BY DEF IInv
  <1>3. stage = "data_r" /\ i \in 0 .. req.rd - 1 /\ Len(got) = i /\ got \in Seq(Bytes \cup {Junk})
    BY <1>1, <1>2 DEF DriverOK
  <1>4. req \in Requests /\ req.rd \in Nat /\ BeforeReads(req) \in Nat /\ i \in Nat
    BY <1>2, <1>3, StageInTransfer, Lengths
  <1>5. /\ got' \in Seq(Bytes \cup {Junk}) /\ Len(got') = i + 1
        /\ \A k \in 1 .. i : got'[k] = got[k]
        /\ got'[i + 1] = rxr
    <2>1. rxr \in Bytes \cup {Junk}
      BY <1>2 DEF CoreOK
    <2>2. /\ Append(got, rxr) \in Seq(Bytes \cup {Junk})
          /\ Len(Append(got, rxr)) = Len(got) + 1
          /\ \A k \in 1 .. Len(got) : Append(got, rxr)[k] = got[k]
          /\ Append(got, rxr)[Len(got) + 1] = rxr
      BY <1>3, <2>1, AppendProperties
    <2>. QED
      BY <1>1, <1>3, <2>2
  <1>6. \/ ~ Last /\ pc' = "issue" /\ i' = i + 1 /\ i + 1 < req.rd
        \/ Last /\ pc' = "drain" /\ i' = i /\ i + 1 = req.rd
    BY <1>3, <1>4 DEF Fetch, Last
  <1>7. i' \in 0 .. req.rd - 1
    BY <1>3, <1>4, <1>6
  <1>8. DriverOK'
    BY <1>1, <1>2, <1>3, <1>4, <1>5, <1>6, <1>7 DEF DriverOK
  <1>9. CoreOK'
    BY <1>1, <1>2 DEF CoreOK
  <1>10. Finished /\ Finished' /\ (Held' <=> Held) /\ (Last => Last')
    BY <1>1, <1>2, <1>6 DEF Handshake, Finished, Held, Last
  <1>11. Handshake'
    <2>1. pc' \in {"issue", "drain"} /\ (pc' = "issue" => ~ Last)
      BY <1>6
    <2>2. pc' = "issue" => Held'
      BY <1>1, <1>2, <1>10, <2>1 DEF Handshake
    <2>3. al' => line' # "us" /\ ~ cmd'.sta
      BY <1>1, <1>2 DEF Handshake
    <2>4. pc' = "drain" => ~ Pending'
      BY <1>1, <1>2, <1>6, <1>10, CommandOfStage DEF Pending, CommandFor, Command, Finished
    <2>. QED
      BY <1>10, <2>1, <2>2, <2>3, <2>4 DEF Handshake
  <1>12. ASSUME ~ lost PROVE Placed' /\ Spelled' /\ (wire # <<>> => Stored' /\ Reported')
    <2>1. /\ Placed /\ Spelled /\ (wire # <<>> => Stored /\ Reported)
          /\ Len(wire) = Before(stage, i, req) + Events1 /\ ~ al
      BY <1>1, <1>2, <1>10, <1>12 DEF Clean, Placed, Working
    <2>2. /\ Total(req)' = Total(req) /\ BeforeReads(req)' = BeforeReads(req)
          /\ Before(stage, i, req) = BeforeReads(req) + i
          /\ Before(stage, i, req)' = BeforeReads(req) + i'
      BY <1>1, <1>3 DEF Before, Total, BeforeReads, WriteStart, ReadStart, Writes, HasWritePhase
    <2>3. CASE ~ Last
      <3>1. pc' = "issue" /\ i' = i + 1 /\ Events1 = 1
        BY <1>6, <2>3 DEF Events1
      <3>2. Len(wire) = Before(stage, i, req)'
        BY <1>4, <2>1, <2>2, <3>1
      <3>. QED
        <4>1. Placed'
          BY <1>1, <2>1, <2>2, <3>1, <3>2 DEF Placed, Working
        <4>. QED
          BY <1>1, <1>3, <1>4, <1>5, <1>10, <2>1, <2>2, <3>1, <4>1, SpelledSame DEF Stored, Reported
    <2>4. CASE Last
      <3>1. pc' = "drain" /\ i' = i /\ Events1 = 2 /\ Events1' = 2
        BY <1>6, <1>10, <2>4 DEF Events1
      <3>2. Len(wire) = Before(stage, i, req)' + Events1'
        BY <2>1, <2>2, <3>1
      <3>3. ~ Pending'
        <4>1. ~ Pending
          BY <1>2, <1>10, CommandOfStage DEF Pending, Finished
        <4>. QED
          BY <1>1, <3>1, <4>1 DEF Pending, CommandFor, Command
      <3>. QED
        <4>1. Placed'
          BY <1>1, <2>1, <2>2, <3>1, <3>2, <3>3 DEF Placed, Working
        <4>. QED
          BY <1>1, <1>3, <1>4, <1>5, <1>10, <2>1, <2>2, <3>1, <4>1, SpelledSame DEF Stored, Reported
    <2>. QED
      BY <2>3, <2>4
  <1>13. Clean'
    BY <1>1, <1>12 DEF Clean
  <1>14. Swept'
    BY <1>1, <1>2, <1>6 DEF Swept
  <1>. QED
    BY <1>8, <1>9, <1>11, <1>13, <1>14 DEF IInv

(* The bus is free: the call returns, and says what RxACK shows.           *)
LEMMA DrainInv ==
  ASSUME IInv, Drain
  PROVE  IInv'
  <1>1. /\ pc = "drain" /\ line = "free" /\ pc' = "idle" /\ ret' = (IF rxack THEN -2 ELSE 0)
        /\ UNCHANGED <<stage, i, req, got, scan, found, cmd, al, rxack, rxr, line, target, wire,
                       lost, losses, kills>>
    BY DEF Drain, Busy, sweep, core, bus
  <1>2. DriverOK /\ CoreOK /\ Handshake /\ Clean /\ Swept /\ req \in Requests
    BY StageInTransfer DEF IInv
  <1>3. DriverOK' /\ CoreOK'
    BY <1>1, <1>2 DEF DriverOK, CoreOK, Writes, HasWritePhase
  <1>4. (Finished' <=> Finished) /\ (Finished \/ (Pending /\ al))
    BY <1>1, <1>2 DEF Handshake, Finished, Held
  <1>5. Handshake'
    BY <1>1, <1>2, <1>4 DEF Handshake
  <1>6. /\ req.wr \in Nat /\ req.rd \in Nat /\ Total(req) = BeforeReads(req) + req.rd + 1
        /\ (req.rd = 0 => BeforeReads(req) = req.wr + 1) /\ BeforeReads(req) \in Nat
    BY <1>2, Lengths
  <1>7. ASSUME ~ lost
        PROVE  /\ Len(wire) = Total(req) /\ wire # <<>> /\ ~ al /\ Finished
               /\ Placed /\ Spelled /\ Stored /\ Reported
    <2>1. Placed /\ Spelled /\ ~ al /\ Finished /\ Len(wire) = Before(stage, i, req) + Events1
      BY <1>1, <1>2, <1>4, <1>7 DEF Clean, Placed, Working
    <2>2. Before(stage, i, req) + Events1 = Total(req)
      BY <1>1, <1>2, StageInTransfer DEF DriverOK, Events1, Last
    <2>3. wire # <<>>
      BY <1>6, <2>1, <2>2
    <2>. QED
      BY <1>1, <1>2, <1>7, <2>1, <2>2, <2>3 DEF Clean
  <1>8. ASSUME ~ lost PROVE Placed' /\ Spelled' /\ Stored' /\ Reported'
    <2>1. Total(req)' = Total(req) /\ BeforeReads(req)' = BeforeReads(req)
      BY <1>1 DEF Total, BeforeReads, WriteStart, ReadStart, Writes, HasWritePhase
    <2>2. Placed'
      BY <1>1, <1>4, <1>7, <1>8, <2>1 DEF Placed, Working
    <2>3. Spelled'
      BY <1>1, <1>7, <1>8, SpelledSame
    <2>4. Stored'
      BY <1>1, <1>2, <1>7, <1>8, <2>1 DEF Stored, DriverOK
    <2>5. Reported'
      <3>1. ASSUME req.rd = 0 PROVE ret' = 0 <=> wire[req.wr + 1].ack
        <4>1. rxack = ~ wire[req.wr + 1].ack
          BY <1>1, <1>6, <1>7, <1>8, <3>1 DEF Reported, Working
        <4>. QED
          <5>1. CASE rxack
            <6>1. ret' = -2
              BY <1>1, <5>1, Zenon
            <6>2. ~ wire[req.wr + 1].ack
              BY <4>1, <5>1, Zenon
            <6>. QED
              BY <6>1, <6>2
          <5>2. CASE ~ rxack
            <6>1. ret' = 0
              BY <1>1, <5>2, Zenon
            <6>2. wire[req.wr + 1].ack
              BY <4>1, <5>2, Zenon
            <6>. QED
              BY <6>1, <6>2
          <5>. QED
            BY <5>1, <5>2
      <3>. QED
        BY <1>1, <3>1 DEF Reported, Working
    <2>. QED
      BY <2>2, <2>3, <2>4, <2>5
  <1>9. Clean'
    BY <1>1, <1>8 DEF Clean
  <1>10. Swept'
    <2>1. losses = 0 => ~ lost
      BY <1>2 DEF CoreOK
    <2>. QED
      BY <1>1, <1>2, <1>7, <2>1 DEF Swept
  <1>. QED
    BY <1>3, <1>5, <1>9, <1>10 DEF IInv

(* In a call that lost no arbitration and has returned, every event on the *)
(* wires is the one the driver means.                                      *)
LEMMA ReturnedWires ==
  ASSUME IInv, Returned, ~ lost
  PROVE  /\ req \in Requests /\ wire \in Seq(Events) /\ Len(wire) = Total(req)
         /\ \A k \in 1 .. Len(wire) : Driven(wire[k]) = Meant(req, k)
         /\ Placed /\ Spelled /\ Stored /\ Reported
  <1>1. Placed /\ Spelled /\ Stored /\ Reported
    BY DEF IInv, Clean, Returned
  <1>. QED
    BY <1>1 DEF IInv, DriverOK, CoreOK, Requests, Returned, Placed, Spelled

(* What an event is does not depend on what the chip decided.              *)
LEMMA DrivenKeepsKind ==
  ASSUME NEW e \in Events
  PROVE  Driven(e).ev = e.ev
  BY DEF Driven, Events

(* The probe is back: what it returned tells whether its chip is there.    *)
LEMMA NextProbeFound ==
  ASSUME IInv, NextProbe, losses = 0
  PROVE  found' = (Sweep \ scan') \cap Chips
  <1>1. /\ pc = "idle" /\ scan # {} /\ scan' = scan \ {req.chip}
        /\ found' = IF ret = 0 THEN found \cup {req.chip} ELSE found
    BY DEF NextProbe
  <1>2. /\ req.chip \in scan /\ scan \subseteq Sweep /\ req.wr = 0 /\ req.rd = 0
        /\ found = (Sweep \ scan) \cap Chips /\ wire # <<>> /\ ~ lost
    BY <1>1 DEF IInv, Swept, CoreOK
  <1>3. /\ req \in Requests /\ wire \in Seq(Events) /\ Len(wire) = Total(req)
        /\ \A k \in 1 .. Len(wire) : Driven(wire[k]) = Meant(req, k)
        /\ Spelled /\ Reported
    BY <1>1, <1>2, ReturnedWires DEF Returned
  <1>4. Total(req) = 2 /\ WriteStart(req) = 1
    BY <1>2, <1>3, Lengths
  <1>5. Meant(req, 1).ev = "addr_w"
    BY <1>4 DEF Meant, AddrW, Event
  <1>6. 1 \in 1 .. Len(wire) /\ wire[1] \in Events
    BY <1>3, <1>4
  <1>7. wire[1].ev = "addr_w"
    BY <1>3, <1>5, <1>6, DrivenKeepsKind
  <1>8. wire[1].ack <=> req.chip \in Chips
    BY <1>3, <1>6, <1>7 DEF Spelled
  <1>9. ret = 0 <=> wire[1].ack
    BY <1>1, <1>2, <1>3 DEF Reported
  <1>. QED
    BY <1>1, <1>2, <1>8, <1>9

(* The next probe begins, or the sweep is over.                            *)
LEMMA NextProbeInv ==
  ASSUME IInv, NextProbe
  PROVE  IInv'
  <1>1. /\ pc = "idle" /\ scan # {} /\ scan' = scan \ {req.chip}
        /\ found' = (IF ret = 0 THEN found \cup {req.chip} ELSE found)
        /\ IF scan' = {}
           THEN UNCHANGED <<driver, core, bus, kills>>
           ELSE \E a \in scan' : (\A b \in scan' : a <= b) /\ Enter(a, 0, 0)
    BY DEF NextProbe
  <1>2. scan' \subseteq Sweep /\ found' \subseteq Sweep
    BY <1>1 DEF IInv, Swept
  <1>3. CASE scan' = {}
    <2>1. UNCHANGED <<pc, stage, i, req, got, ret, cmd, al, rxack, rxr, line, target, wire, lost,
                      losses, kills>>
      BY <1>1, <1>3 DEF driver, core, bus
    <2>2. Swept'
      BY <1>2, <1>3 DEF Swept
    <2>. QED
      BY <2>1, <2>2, StillInv
  <1>4. CASE scan' # {}
    <2>1. PICK a \in scan' : Enter(a, 0, 0)
      BY <1>1, <1>4
    <2>2. /\ req'.chip = a /\ req'.wr = 0 /\ req'.rd = 0 /\ pc' = "issue" /\ losses' = losses
      BY <2>1 DEF Enter
    <2>3. Swept'
      BY <1>2, <2>1, <2>2, NextProbeFound DEF Swept
    <2>4. a \in Addrs /\ 0 \in 0 .. MaxBytes
      BY <1>2, <2>1, Constants
    <2>. QED
      BY <1>1, <2>1, <2>3, <2>4, EnterInv
  <1>. QED
    BY <1>3, <1>4

(* The program is gone; the core keeps what it was told.                   *)
LEMMA KillInv ==
  ASSUME IInv, Kill
  PROVE  IInv'
  <1>1. /\ kills < MaxKills /\ pc' = "dead" /\ kills' = kills + 1
        /\ scan' = {} /\ found' = {} /\ got' = <<>> /\ ret' = 0
        /\ UNCHANGED <<stage, i, req, cmd, al, rxack, rxr, line, target, wire, lost, losses>>
    BY DEF Kill, core, bus
  <1>2. kills' \in 0 .. MaxKills
    BY <1>1, Constants DEF IInv, CoreOK
  <1>3. CoreOK'
    BY <1>1, <1>2 DEF IInv, CoreOK
  <1>4. DriverOK'
    <2>1. got' \in Seq(Bytes \cup {Junk}) /\ Len(got') = 0
      BY <1>1
    <2>2. req.rd \in Nat
      BY StageInTransfer, Lengths DEF IInv
    <2>. QED
      BY <1>1, <2>1, <2>2 DEF IInv, DriverOK, Writes, HasWritePhase
  <1>5. Handshake'
    BY <1>1 DEF IInv, Handshake
  <1>6. Clean' /\ Swept'
    BY <1>1 DEF Clean, Swept
  <1>. QED
    BY <1>3, <1>4, <1>5, <1>6 DEF IInv

(* The next program finds the core at rest, and nothing of its own on the  *)
(* wires.                                                                  *)
LEMMA RestartInv ==
  ASSUME IInv, Restart
  PROVE  IInv'
  <1>1. /\ pc = "dead" /\ cmd = NoCommand /\ pc' = "idle" /\ wire' = <<>> /\ lost' = FALSE
        /\ UNCHANGED <<stage, i, req, got, ret, scan, found, cmd, al, rxack, rxr, line, target,
                       losses, kills>>
    BY DEF Restart, sweep, core
  <1>2. wire' \in Seq(Events) /\ Len(wire') = 0
    BY <1>1
  <1>3. CoreOK'
    BY <1>1, <1>2 DEF IInv, CoreOK
  <1>4. DriverOK'
    BY <1>1 DEF IInv, DriverOK, Writes, HasWritePhase
  <1>5. Handshake'
    BY <1>1 DEF IInv, Handshake, Finished
  <1>6. Placed' /\ Spelled'
    BY <1>1, <1>2 DEF Placed, Spelled, Working
  <1>7. Clean'
    BY <1>1, <1>6 DEF Clean
  <1>8. Swept'
    BY <1>1 DEF IInv, Swept
  <1>. QED
    BY <1>3, <1>4, <1>5, <1>7, <1>8 DEF IInv

(* Every step keeps the invariant.                                         *)
LEMMA NextInv ==
  ASSUME IInv, [Next]_vars
  PROVE  IInv'
  <1>1. ASSUME NEW a \in Addrs, NEW w \in 0 .. MaxBytes, NEW r \in 0 .. MaxBytes, Call(a, w, r)
        PROVE  IInv'
    BY <1>1, CallInv
  <1>2. CASE StartSweep
    BY <1>2, StartSweepInv
  <1>3. CASE DriverStep
    BY <1>3, IssueInv, PollFirstInv, PollLostInv, PollDoneInv, FetchInv, DrainInv, NextProbeInv
    DEF DriverStep
  <1>4. CASE Kill \/ Restart
    BY <1>4, KillInv, RestartInv
  <1>5. CASE CoreStep
    BY <1>5, SendAddressInv, SendDataInv, ReceiveInv, StopInv, StrayCommandInv DEF CoreStep
  <1>6. CASE OtherMaster
    BY <1>6, LoseInv, OtherStopsInv DEF OtherMaster
  <1>7. CASE UNCHANGED vars
    <2>1. UNCHANGED <<pc, stage, i, req, got, ret, cmd, al, rxack, rxr, line, target, wire, lost,
                      losses, kills, scan, found>>
      BY <1>7 DEF vars, driver, sweep, core, bus
    <2>2. Swept'
      BY <2>1 DEF IInv, Swept
    <2>. QED
      BY <2>1, <2>2, StillInv
  <1>. QED
    BY <1>1, <1>2, <1>3, <1>4, <1>5, <1>6, <1>7 DEF Next

---------------------------------------------------------------------------
(* What the invariant implies. *)

(* The kinds of the events of a transfer.                                  *)
LEMMA KindsMeant ==
  ASSUME NEW q \in Requests, NEW k \in 1 .. Total(q)
  PROVE  /\ Meant(q, k).ev = "read" <=> k \in BeforeReads(q) + 1 .. BeforeReads(q) + q.rd
         /\ Meant(q, k).ev \notin {"read", "stop"} <=> k <= BeforeReads(q)
  <1>1. /\ AddrW.ev = "addr_w" /\ AddrR.ev = "addr_r" /\ Read.ev = "read" /\ LastRead.ev = "read"
        /\ AtEnd.ev = "stop" /\ \A n : Data(n).ev = "data"
    BY DEF AddrW, AddrR, Read, LastRead, AtEnd, Data, Event
  <1>2. /\ q.wr \in Nat /\ q.rd \in Nat /\ WriteStart(q) \in Nat /\ BeforeReads(q) \in Nat
        /\ BeforeReads(q) >= WriteStart(q) + q.wr /\ Total(q) = BeforeReads(q) + q.rd + 1
    BY Lengths
  <1>3. CASE k <= WriteStart(q)
    BY <1>1, <1>2, <1>3 DEF Meant
  <1>4. CASE WriteStart(q) < k /\ k <= WriteStart(q) + q.wr
    BY <1>1, <1>2, <1>4 DEF Meant
  <1>5. CASE WriteStart(q) + q.wr < k /\ k <= BeforeReads(q)
    BY <1>1, <1>2, <1>5 DEF Meant
  <1>6. CASE BeforeReads(q) < k /\ k <= BeforeReads(q) + q.rd
    BY <1>1, <1>2, <1>6 DEF Meant
  <1>7. CASE BeforeReads(q) + q.rd < k
    BY <1>1, <1>2, <1>7 DEF Meant
  <1>. QED
    BY <1>2, <1>3, <1>4, <1>5, <1>6, <1>7

(* A call that lost no arbitration has put its transfer on the wires.      *)
LEMMA InvClean == IInv => CleanTransfer
  <1>. SUFFICES ASSUME IInv, Returned, ~ lost
                PROVE  /\ [k \in DOMAIN wire |-> Driven(wire[k])] = Expected(req)
                       /\ line # "us" /\ cmd = NoCommand
    BY DEF CleanTransfer
  <1>1. /\ req \in Requests /\ wire \in Seq(Events) /\ Len(wire) = Total(req)
        /\ \A k \in 1 .. Len(wire) : Driven(wire[k]) = Meant(req, k)
        /\ Placed
    BY ReturnedWires
  <1>2. [k \in DOMAIN wire |-> Driven(wire[k])] = [k \in 1 .. Total(req) |-> Meant(req, k)]
    BY <1>1
  <1>3. line # "us" /\ cmd = NoCommand
    <2>1. Len(wire) \in Nat
      BY <1>1
    <2>. QED
      BY <1>1, <2>1 DEF Placed, Returned, Finished
  <1>. QED
    BY <1>1, <1>2, <1>3, ExpectedIsMeant

(* It has stored the bytes that were read there.                           *)
LEMMA InvFetched == IInv => FetchedAsRead
  <1>. SUFFICES ASSUME IInv, Returned, ~ lost
                PROVE  /\ Len(got) = Cardinality(Reads)
                       /\ \A k \in Reads : got[Cardinality({j \in Reads : j <= k})] = wire[k].n
    BY DEF FetchedAsRead
  <1>. DEFINE b == BeforeReads(req)
  <1>1. /\ req \in Requests /\ wire \in Seq(Events) /\ Len(wire) = Total(req)
        /\ \A k \in 1 .. Len(wire) : Driven(wire[k]) = Meant(req, k)
        /\ Stored
    BY ReturnedWires
  <1>2. /\ b \in Nat /\ req.rd \in Nat /\ Total(req) = b + req.rd + 1
    BY <1>1, Lengths
  <1>3. Reads = b + 1 .. b + req.rd
    <2>1. \A k \in 1 .. Len(wire) : wire[k].ev = "read" <=> k \in b + 1 .. b + req.rd
      BY <1>1, DrivenKeepsKind, KindsMeant
    <2>2. DOMAIN wire = 1 .. Len(wire)
      BY <1>1
    <2>. QED
      BY <1>1, <1>2, <2>1, <2>2 DEF Reads
  <1>4. Len(got) = req.rd /\ \A k \in 1 .. Len(got) : got[k] = wire[b + k].n
    BY <1>1 DEF Stored, Returned
  <1>. HIDE DEF b
  <1>5. \A n \in Nat : Cardinality(b + 1 .. b + n) = n
    <2>. TAKE n \in Nat
    <2>1. b + 1 \in Int /\ b + n \in Int
      BY <1>2
    <2>2. Cardinality(b + 1 .. b + n) = IF b + 1 > b + n THEN 0 ELSE (b + n) - (b + 1) + 1
      BY <2>1, FS_Interval
    <2>. QED
      BY <1>2, <2>2
  <1>6. ASSUME NEW k \in Reads
        PROVE  got[Cardinality({j \in Reads : j <= k})] = wire[k].n
    <2>1. k - b \in 1 .. req.rd /\ k = b + (k - b) /\ k - b \in Nat
      BY <1>2, <1>3
    <2>2. {j \in Reads : j <= k} = b + 1 .. b + (k - b)
      BY <1>2, <1>3, <2>1
    <2>3. Cardinality({j \in Reads : j <= k}) = k - b
      BY <1>5, <2>1, <2>2
    <2>. QED
      BY <1>4, <2>1, <2>3
  <1>. QED
    BY <1>2, <1>3, <1>4, <1>5, <1>6

(* A write has returned whether its last byte was acknowledged.            *)
LEMMA InvReported == IInv => LastAckReported
  <1>. SUFFICES ASSUME IInv, Returned, ~ lost, req.rd = 0
                PROVE  \E k \in Sent : (\A j \in Sent : j <= k) /\ (ret = 0 <=> wire[k].ack)
    BY DEF LastAckReported
  <1>1. /\ req \in Requests /\ wire \in Seq(Events) /\ Len(wire) = Total(req)
        /\ \A k \in 1 .. Len(wire) : Driven(wire[k]) = Meant(req, k)
        /\ Reported
    BY ReturnedWires
  <1>2. BeforeReads(req) = req.wr + 1 /\ Total(req) = req.wr + 2 /\ req.wr \in Nat
    BY <1>1, Lengths
  <1>3. \A k : k \in Sent <=> k \in 1 .. req.wr + 1
    <2>1. \A k \in 1 .. Len(wire) : wire[k].ev \notin {"read", "stop"} <=> k <= BeforeReads(req)
      BY <1>1, DrivenKeepsKind, KindsMeant
    <2>2. DOMAIN wire = 1 .. Len(wire)
      BY <1>1
    <2>. QED
      BY <1>1, <1>2, <2>1, <2>2 DEF Sent
  <1>4. ret = 0 <=> wire[req.wr + 1].ack
    BY <1>1 DEF Reported, Returned
  <1>. QED
    <2>1. req.wr + 1 \in Sent /\ \A j \in Sent : j <= req.wr + 1
      BY <1>2, <1>3
    <2>. QED
      BY <1>4, <2>1

(* The command register is free when the driver writes it.                 *)
LEMMA InvNoOverrun == IInv => NoOverrun
  BY DEF IInv, CoreOK, Handshake, NoOverrun, Finished

---------------------------------------------------------------------------
(* The theorems. *)

(* The invariant holds in every state of the specification.                *)
THEOREM Invariance == Spec => []IInv
  BY InitInv, NextInv, PTL DEF Spec

(* Every variable has its type: the transfer that the registers have been  *)
(* told of fits its arguments, and no byte is stored past rd_size.         *)
THEOREM TypeCorrect == Spec => []TypeOK
  <1>1. IInv => TypeOK
    <2>. SUFFICES ASSUME IInv PROVE TypeOK
      OBVIOUS
    <2>1. req \in Requests /\ i \in 0 .. MaxBytes /\ req.rd \in Nat /\ req.rd <= MaxBytes
      BY StageInTransfer, Lengths DEF IInv
    <2>2. Len(got) <= MaxBytes
      BY <2>1, Constants DEF IInv, DriverOK
    <2>3. stage \in {"addr_w", "data_w", "addr_r", "data_r", "stop"}
      BY DEF IInv, DriverOK
    <2>. QED
      BY <2>1, <2>2, <2>3 DEF IInv, DriverOK, CoreOK, Swept, TypeOK, Requests, Commands
  <1>. QED
    BY <1>1, Invariance, PTL

(* A call that lost no arbitration has put exactly the transfer of its     *)
(* arguments on the wires, whatever a killed program left there before.    *)
THEOREM AlwaysCleanTransfer == Spec => []CleanTransfer
  BY InvClean, Invariance, PTL

(* It has stored the bytes that were on the wires, in order.               *)
THEOREM AlwaysFetchedAsRead == Spec => []FetchedAsRead
  BY InvFetched, Invariance, PTL

(* CR is never written while the core still works on a command.            *)
THEOREM AlwaysNoOverrun == Spec => []NoOverrun
  BY InvNoOverrun, Invariance, PTL

(* A write or a probe returns 0 exactly if its last byte was acknowledged. *)
THEOREM AlwaysLastAckReported == Spec => []LastAckReported
  BY InvReported, Invariance, PTL

(* A sweep of a bus without other masters ends with the chips that are     *)
(* there, and no others.                                                   *)
THEOREM AlwaysSweepExact == Spec => SweepExact
  <1>1. IInv /\ [Next]_vars =>
          [scan # {} /\ scan' = {} /\ losses = 0 /\ pc' # "dead" => found' = Sweep \cap Chips]_vars
    <2>. SUFFICES ASSUME IInv, Next, scan # {}, scan' = {}, losses = 0, pc' # "dead"
                  PROVE  found' = Sweep \cap Chips
      BY DEF vars, sweep
    <2>1. CASE NextProbe
      BY <2>1, NextProbeFound
    <2>2. CASE ~ NextProbe
      <3>1. UNCHANGED scan
        BY <2>2 DEF Next, Call, StartSweep, DriverStep, Issue, PollFirst, PollLost, PollDone, Fetch,
                    Drain, Kill, Restart, CoreStep, OtherMaster, sweep
      <3>. QED
        BY <3>1
    <2>. QED
      BY <2>1, <2>2
  <1>. QED
    BY <1>1, Invariance, PTL DEF Spec, SweepExact

=============================================================================
