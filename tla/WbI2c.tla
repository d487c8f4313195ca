------------------------------- MODULE WbI2c ------------------------------
(***************************************************************************)
(* wb_i2c.c and pghal_i2c.c: one program drives an OpenCores style I2C     *)
(* master through its command and status registers, and sweeps the bus for *)
(* chips.  The driver and the core run concurrently: a command that shifts *)
(* a byte shows as TIP until the core is done with it.  Every step of the  *)
(* driver here is one command (transmit and command register) or one       *)
(* status poll; the status reads whose value the code drops are left out.  *)
(* A program can be killed at any of them: the core goes on, and the next  *)
(* program finds the bus as it is left.                                    *)
(* The core, the chips and other masters on the two wires are not part of  *)
(* the repository: they are modelled as the driver uses them.              *)
(***************************************************************************)
EXTENDS Integers, Sequences, FiniteSets

CONSTANTS
  Addrs,       \* the 7-bit addresses, 0 .. 127 in the code
  Sweep,       \* the addresses pghal_i2c_detect probes, 0x08 .. 0x78
  Chips,       \* the addresses at which a chip answers
  MaxBytes,    \* longest write and longest read (bound)
  MaxLosses,   \* how often another master takes the bus (bound)
  MaxKills     \* how many programs end or are killed (bound)

ASSUME I2cAssumption ==
  /\ Addrs \subseteq Nat
  /\ Sweep \subseteq Addrs
  /\ Chips \subseteq Addrs
  /\ MaxBytes \in Nat /\ MaxLosses \in Nat /\ MaxKills \in Nat

VARIABLES
  \* wb_i2c_write_read
  pc,          \* "idle", "issue", "first", "loop", "fetch", "drain" or "dead"
  stage,       \* what is on the bus: "addr_w", "data_w", "addr_r", "data_r", "stop"
  i,           \* the loop variable
  req,         \* the arguments: chip address, wr_size, rd_size
  got,         \* the bytes stored through rd_ptr
  ret,         \* the result of the last call
  \* pghal_i2c_detect
  scan,        \* the addresses still to probe
  found,       \* the addresses printed as present
  \* the core
  cmd,         \* the command register
  al, rxack,   \* status bits: arbitration lost, no acknowledge received
  rxr,         \* receive register
  \* the wires
  line,        \* whose transaction is on the bus: "free", "us", "other"
  target,      \* "w" or "r" once a chip has acknowledged its address, else "none"
  wire,        \* what our master did on the bus since the call began
  lost,        \* arbitration was lost during the call
  losses,      \* how often other masters have taken the bus
  kills        \* how many programs have ended or been killed

driver  == <<pc, stage, i, req, got, ret>>
sweep   == <<scan, found>>
core    == <<cmd, al, rxack, rxr>>
bus     == <<line, target, wire, lost, losses>>
vars    == <<driver, sweep, core, bus, kills>>

Bytes == {0, 1}
Junk  == 2      \* what a read returns when no chip drives the wire

Command(sta, sto, rd, wr, nack) ==
  [sta |-> sta, sto |-> sto, rd |-> rd, wr |-> wr, nack |-> nack]
NoCommand == Command(FALSE, FALSE, FALSE, FALSE, FALSE)

TIP  == cmd.rd \/ cmd.wr
Busy == line # "free"

Event(ev, n, ack) == [ev |-> ev, n |-> n, ack |-> ack]

Events == [ev : {"addr_w", "addr_r", "data", "read", "stop"}, n : 0 .. MaxBytes + 2,
           ack : BOOLEAN]

TypeOK ==
  /\ pc \in {"idle", "issue", "first", "loop", "fetch", "drain", "dead"}
  /\ stage \in {"addr_w", "data_w", "addr_r", "data_r", "stop"}
  /\ i \in 0 .. MaxBytes
  /\ req \in [chip : Addrs, wr : 0 .. MaxBytes, rd : 0 .. MaxBytes]
  /\ got \in Seq(Bytes \cup {Junk}) /\ Len(got) <= MaxBytes
  /\ ret \in {0, -1, -2}
  /\ scan \subseteq Sweep /\ found \subseteq Sweep
  /\ cmd \in [sta : BOOLEAN, sto : BOOLEAN, rd : BOOLEAN, wr : BOOLEAN, nack : BOOLEAN]
  /\ al \in BOOLEAN /\ rxack \in BOOLEAN
  /\ rxr \in Bytes \cup {Junk}
  /\ line \in {"free", "us", "other"}
  /\ target \in {"w", "r", "none"}
  /\ wire \in Seq(Events)
  /\ lost \in BOOLEAN
  /\ losses \in 0 .. MaxLosses /\ kills \in 0 .. MaxKills

(* wb_i2c_init has enabled the core; nothing has been transferred. *)
Init ==
  /\ pc = "idle" /\ stage = "stop" /\ i = 0
  /\ req \in [chip : Addrs, wr : {0}, rd : {0}]
  /\ got = <<>> /\ ret = 0
  /\ scan = {} /\ found = {}
  /\ cmd = NoCommand /\ al = FALSE /\ rxack = FALSE /\ rxr = Junk
  /\ line = "free" /\ target = "none" /\ wire = <<>> /\ lost = FALSE /\ losses = 0
  /\ kills = 0

---------------------------------------------------------------------------
(* wb_i2c_write_read *)

(* A write phase runs for a write, and for a probe that moves no byte. *)
HasWritePhase(w, r) == w > 0 \/ r = 0

Enter(a, w, r) ==
  /\ req' = [chip |-> a, wr |-> w, rd |-> r]
  /\ pc' = "issue"
  /\ stage' = IF HasWritePhase(w, r) THEN "addr_w" ELSE "addr_r"
  /\ i' = 0
  /\ got' = <<>>
  /\ wire' = <<>> /\ lost' = FALSE
  /\ UNCHANGED <<ret, core, line, target, losses, kills>>

Call(a, w, r) ==
  /\ pc = "idle" /\ scan = {}
  /\ Enter(a, w, r)
  /\ UNCHANGED sweep

(* Mutant: the last byte of a read is acknowledged like the others. *)
CommandAckAll(s, k, rd) ==
  CASE s \in {"addr_w", "addr_r"} -> Command(TRUE, FALSE, FALSE, TRUE, FALSE)
    [] s = "data_w" -> Command(FALSE, FALSE, FALSE, TRUE, FALSE)
    [] s = "data_r" -> Command(FALSE, k = rd - 1, TRUE, FALSE, FALSE)
    [] s = "stop"   -> Command(FALSE, TRUE, FALSE, FALSE, FALSE)

(* Mutant: the end of a read is recognised one byte too late. *)
CommandNoStop(s, k, rd) ==
  CASE s \in {"addr_w", "addr_r"} -> Command(TRUE, FALSE, FALSE, TRUE, FALSE)
    [] s = "data_w" -> Command(FALSE, FALSE, FALSE, TRUE, FALSE)
    [] s = "data_r" -> Command(FALSE, k = rd, TRUE, FALSE, k = rd)
    [] s = "stop"   -> Command(FALSE, TRUE, FALSE, FALSE, FALSE)

(* The command for byte k of the stage s; the last byte of a read is       *)
(* refused and followed by a stop.                                         *)
CommandFor(s, k, rd) ==
  CASE s \in {"addr_w", "addr_r"} -> Command(TRUE, FALSE, FALSE, TRUE, FALSE)
    [] s = "data_w" -> Command(FALSE, FALSE, FALSE, TRUE, FALSE)
    [] s = "data_r" -> IF k = rd - 1 THEN Command(FALSE, TRUE, TRUE, FALSE, TRUE)
                                     ELSE Command(FALSE, FALSE, TRUE, FALSE, FALSE)
    [] s = "stop"   -> Command(FALSE, TRUE, FALSE, FALSE, FALSE)

(* The core drops AL as soon as a start is asked for. *)
AfterCommand(c) == IF c.sta THEN FALSE ELSE al

(* TXR, where the stage has a byte to send, and CR. *)
Issue ==
  /\ pc = "issue"
  /\ cmd' = CommandFor(stage, i, req.rd)
  /\ al' = AfterCommand(cmd')
  /\ pc' = IF stage = "stop" THEN "drain" ELSE "first"
  /\ UNCHANGED <<stage, i, req, got, ret, sweep, rxack, rxr, bus, kills>>

(* What comes after byte k of stage s: the next stage and loop variable. *)
After(s, k, w, r) ==
  CASE s = "addr_w" /\ w > 0     -> <<"data_w", 0>>
    [] s = "data_w" /\ k + 1 < w -> <<"data_w", k + 1>>
    [] s = "addr_r"              -> <<"data_r", 0>>
    [] OTHER                     -> <<IF r > 0 THEN "addr_r" ELSE "stop", 0>>

(* The byte is out: fetch what was read, or go on to the next command. *)
ByteDone ==
  IF stage = "data_r"
  THEN pc' = "fetch" /\ UNCHANGED <<stage, i>>
  ELSE /\ pc' = "issue"
       /\ stage' = After(stage, i, req.wr, req.rd)[1]
       /\ i' = After(stage, i, req.wr, req.rd)[2]

(* Mutant: one poll after a command is taken for enough. *)
PollOnce ==
  /\ pc = "first"
  /\ ByteDone
  /\ UNCHANGED <<req, got, ret, sweep, core, bus, kills>>

(* The first poll after a command looks at TIP only. *)
PollFirst ==
  /\ pc = "first"
  /\ IF TIP THEN pc' = "loop" /\ UNCHANGED <<stage, i>> ELSE ByteDone
  /\ UNCHANGED <<req, got, ret, sweep, core, bus, kills>>

(* A poll inside the loop: return -1 on AL, and go on once TIP is clear    *)
(* (PollTwice is a mutant that goes on whatever TIP is).                   *)
PollLost ==
  /\ pc = "loop" /\ al
  /\ pc' = "idle" /\ ret' = -1
  /\ UNCHANGED <<stage, i, req, got, sweep, core, bus, kills>>

PollTwice ==
  /\ pc = "loop" /\ ~ al
  /\ ByteDone
  /\ UNCHANGED <<req, got, ret, sweep, core, bus, kills>>

PollDone ==
  /\ pc = "loop" /\ ~ al /\ ~ TIP
  /\ ByteDone
  /\ UNCHANGED <<req, got, ret, sweep, core, bus, kills>>

(* rd_ptr[i] = RXR *)
Fetch ==
  /\ pc = "fetch"
  /\ got' = Append(got, rxr)
  /\ IF i + 1 < req.rd THEN pc' = "issue" /\ i' = i + 1
                       ELSE pc' = "drain" /\ i' = i
  /\ UNCHANGED <<stage, req, ret, sweep, core, bus, kills>>

(* Mutant: the result says nothing of the acknowledge. *)
DrainOnly ==
  /\ pc = "drain" /\ ~ Busy
  /\ pc' = "idle"
  /\ ret' = 0
  /\ UNCHANGED <<stage, i, req, got, sweep, core, bus, kills>>

(* Wait until the bus is not busy, then report the last acknowledge. *)
Drain ==
  /\ pc = "drain" /\ ~ Busy
  /\ pc' = "idle"
  /\ ret' = IF rxack THEN -2 ELSE 0
  /\ UNCHANGED <<stage, i, req, got, sweep, core, bus, kills>>

---------------------------------------------------------------------------
(* pghal_i2c_detect: one probe per address, in ascending order. *)

StartSweep ==
  /\ pc = "idle" /\ scan = {} /\ Sweep # {}
  /\ scan' = Sweep /\ found' = {}
  /\ \E a \in Sweep : (\A b \in Sweep : a <= b) /\ Enter(a, 0, 0)

(* Mutant: any probe that did not lose the bus counts as a chip. *)
NextProbeLoose ==
  /\ pc = "idle" /\ scan # {}
  /\ found' = IF ret # -1 THEN found \cup {req.chip} ELSE found
  /\ scan' = scan \ {req.chip}
  /\ IF scan' = {}
     THEN UNCHANGED <<driver, core, bus, kills>>
     ELSE \E a \in scan' : (\A b \in scan' : a <= b) /\ Enter(a, 0, 0)

(* The probe of req.chip is back: note the result, probe the next one. *)
NextProbe ==
  /\ pc = "idle" /\ scan # {}
  /\ found' = IF ret = 0 THEN found \cup {req.chip} ELSE found
  /\ scan' = scan \ {req.chip}
  /\ IF scan' = {}
     THEN UNCHANGED <<driver, core, bus, kills>>
     ELSE \E a \in scan' : (\A b \in scan' : a <= b) /\ Enter(a, 0, 0)

---------------------------------------------------------------------------
(* The core, the chips and the other masters. *)

CommandDone == cmd' = NoCommand

(* (Repeated) start and address byte: a chip acknowledges its address. *)
SendAddress ==
  /\ cmd.sta /\ line # "other"
  /\ LET dir == IF stage = "addr_r" THEN "r" ELSE "w"
         ack == req.chip \in Chips
     IN /\ target' = IF ack THEN dir ELSE "none"
        /\ rxack' = ~ ack
        /\ wire' = Append(wire, Event(IF dir = "r" THEN "addr_r" ELSE "addr_w", 0, ack))
  /\ line' = "us"
  /\ CommandDone
  /\ UNCHANGED <<al, rxr, lost, losses>>

(* A data byte: the chip takes it or refuses it, and then listens no more. *)
SendData ==
  /\ cmd.wr /\ ~ cmd.sta /\ line = "us"
  /\ \E ack \in BOOLEAN :
       /\ ack => target = "w"
       /\ target' = IF ack THEN "w" ELSE "none"
       /\ rxack' = ~ ack
       /\ wire' = Append(wire, Event("data", i + 1, ack))
  /\ CommandDone
  /\ UNCHANGED <<al, rxr, line, lost, losses>>

(* A byte from the chip.  What RxACK shows after a byte that the master    *)
(* itself refused is left open.                                            *)
Receive ==
  /\ cmd.rd /\ line = "us"
  /\ \E b \in IF target = "r" THEN Bytes ELSE {Junk}, n \in BOOLEAN :
       /\ rxr' = b
       /\ n => cmd.nack
       /\ rxack' = n
       /\ wire' = wire \o <<Event("read", b, ~ cmd.nack)>>
                       \o (IF cmd.sto THEN <<Event("stop", 0, TRUE)>> ELSE <<>>)
  /\ line' = IF cmd.sto THEN "free" ELSE "us"
  /\ target' = IF cmd.sto THEN "none" ELSE target
  /\ CommandDone
  /\ UNCHANGED <<al, lost, losses>>

Stop ==
  /\ cmd.sto /\ ~ TIP /\ line = "us"
  /\ line' = "free" /\ target' = "none"
  /\ wire' = Append(wire, Event("stop", 0, TRUE))
  /\ CommandDone
  /\ UNCHANGED <<al, rxack, rxr, lost, losses>>

(* A command without a start, on a bus that is not ours: it ends with      *)
(* nothing meaningful on the wires.                                        *)
StrayCommand ==
  /\ cmd # NoCommand /\ ~ cmd.sta /\ line # "us"
  /\ CommandDone
  /\ rxack' \in IF TIP THEN BOOLEAN ELSE {rxack}
  /\ rxr' = IF cmd.rd THEN Junk ELSE rxr
  /\ UNCHANGED <<al, bus>>

(* Another master wins the bus while we shift a byte, or a chip that a     *)
(* killed program left in the middle of a byte holds its wire.             *)
Lose ==
  /\ TIP /\ (line = "us" \/ cmd.sta)
  /\ losses < MaxLosses
  /\ al' = TRUE /\ lost' = TRUE /\ losses' = losses + 1
  /\ line' = "other" /\ target' = "none"
  /\ CommandDone
  /\ UNCHANGED <<rxack, rxr, wire>>

OtherStops ==
  /\ line = "other"
  /\ line' = "free"
  /\ UNCHANGED <<target, wire, lost, losses, core>>

CoreStep ==
  /\ SendAddress \/ SendData \/ Receive \/ Stop \/ StrayCommand
  /\ UNCHANGED <<driver, sweep, kills>>

OtherMaster ==
  /\ Lose \/ OtherStops
  /\ UNCHANGED <<driver, sweep, kills>>

(* The program ends, or is killed at any step.  What it has told the core  *)
(* (stage, i and req: the registers it has written) stays there.           *)
Kill ==
  /\ pc # "dead" /\ kills < MaxKills
  /\ pc' = "dead" /\ kills' = kills + 1
  /\ scan' = {} /\ found' = {} /\ got' = <<>> /\ ret' = 0
  /\ UNCHANGED <<stage, i, req, core, bus>>

(* wb_i2c_init in the next program: the prescaler and the enable bit it    *)
(* writes are there already, and it sends no stop, so a transfer that was  *)
(* cut short still holds the bus.  A program takes longer to start than    *)
(* the core needs for a byte.                                              *)
Restart ==
  /\ pc = "dead" /\ cmd = NoCommand
  /\ pc' = "idle"
  /\ wire' = <<>> /\ lost' = FALSE
  /\ UNCHANGED <<stage, i, req, got, ret, sweep, core, line, target, losses, kills>>

DriverStep ==
  Issue \/ PollFirst \/ PollLost \/ PollDone \/ Fetch \/ Drain \/ NextProbe

Next ==
  \/ \E a \in Addrs, w \in 0 .. MaxBytes, r \in 0 .. MaxBytes : Call(a, w, r)
  \/ StartSweep
  \/ DriverStep
  \/ Kill \/ Restart
  \/ CoreStep
  \/ OtherMaster

Spec == Init /\ [][Next]_vars

(* The program runs, the core executes its commands, and another master    *)
(* does not keep the bus for ever.                                         *)
Fairness ==
  /\ WF_vars(DriverStep)
  /\ WF_vars(CoreStep)
  /\ WF_vars(OtherStops /\ UNCHANGED <<driver, sweep, kills>>)

FairSpec == Spec /\ Fairness

---------------------------------------------------------------------------
(* What a call should put on the wires. *)

Writes(q) == HasWritePhase(q.wr, q.rd)

Expected(q) ==
     (IF Writes(q) THEN <<Event("addr_w", 0, TRUE)>> ELSE <<>>)
  \o [k \in 1 .. q.wr |-> Event("data", k, TRUE)]
  \o (IF q.rd > 0 THEN <<Event("addr_r", 0, TRUE)>> ELSE <<>>)
  \o [k \in 1 .. q.rd |-> Event("read", 0, k < q.rd)]
  \o <<Event("stop", 0, TRUE)>>

(* An event without what the chip decides: its acknowledge, its data. *)
Driven(e) ==
  CASE e.ev = "read" -> [e EXCEPT !.n = 0]
    [] e.ev = "stop" -> e
    [] OTHER         -> [e EXCEPT !.ack = TRUE]

(* Where on the wires bytes were read, and bytes sent. *)
Reads == {k \in DOMAIN wire : wire[k].ev = "read"}
Sent  == {k \in DOMAIN wire : wire[k].ev \notin {"read", "stop"}}

Returned == pc = "idle" /\ wire # <<>>

(* Safety.  A call that lost no arbitration, also one that found the bus   *)
(* in the middle of a killed program's, has put exactly the transfer       *)
(* of its arguments on the wires: start and address, the bytes in order, a *)
(* repeated start for the read, every byte read acknowledged but the last, *)
(* and one stop, after which the bus is free and the core is at rest.      *)
CleanTransfer ==
  Returned /\ ~ lost =>
    /\ [k \in DOMAIN wire |-> Driven(wire[k])] = Expected(req)
    /\ line # "us" /\ cmd = NoCommand

(* Safety.  The bytes stored are the ones that were on the wires, in       *)
(* order: RXR is never fetched before its byte is complete.                *)
FetchedAsRead ==
  Returned /\ ~ lost =>
    /\ Len(got) = Cardinality(Reads)
    /\ \A k \in Reads : got[Cardinality({j \in Reads : j <= k})] = wire[k].n

(* Safety.  CR is never written while the core still works on a command,   *)
(* as long as no arbitration was lost.                                     *)
NoOverrun == pc = "issue" /\ losses = 0 => cmd = NoCommand

(* Safety.  A write or a probe returns 0 exactly if its last byte was      *)
(* acknowledged, when no arbitration was lost.                             *)
LastAckReported ==
  Returned /\ ~ lost /\ req.rd = 0 =>
    \E k \in Sent : (\A j \in Sent : j <= k) /\ (ret = 0 <=> wire[k].ack)

(* Action property.  A sweep on a bus without other masters finds the      *)
(* chips that are there and no others.                                     *)
SweepExact ==
  [][scan # {} /\ scan' = {} /\ losses = 0 /\ pc' # "dead" => found' = Sweep \cap Chips]_vars

(* Liveness.  Every call returns, or its program ends. *)
CallReturns == pc \notin {"idle", "dead"} ~> pc \in {"idle", "dead"}

(* The comment above wb_i2c_write_read says that it returns -2 when there  *)
(* was no acknowledge ...                                                  *)
NackReported ==
  Returned /\ ~ lost => (ret = -2 <=> \E k \in Sent : ~ wire[k].ack)

(* ... and -1 when arbitration was lost.                                   *)
LossReported == Returned /\ lost => ret = -1

=============================================================================
