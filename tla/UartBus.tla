------------------------------ MODULE UartBus -----------------------------
(***************************************************************************)
(* sdb_uart.c: a Wishbone bus behind a serial line.  Every word is one     *)
(* command, "rAAAAAAAA\r" or "dVVVVVVVV\rwAAAAAAAA\r", and one reply of    *)
(* ReplyLen characters that the driver takes with a single read(2).  The   *)
(* terminal is set to VMIN = 11 and VTIME = 1: read(2) returns 11          *)
(* characters, or those that came before a pause of a tenth of a second.   *)
(* What comes later stays in the terminal's input queue.                   *)
(* The bridge at the other end is not part of the repository: it executes  *)
(* a command and answers with a status character, the hexadecimal digits   *)
(* of the data and the end of the line.  It knows nothing of programs: the *)
(* command of a killed one is executed, and answered to the next.          *)
(***************************************************************************)
EXTENDS PghalBus, Sequences, FiniteSets

CONSTANTS
  Base,        \* base of the digits on the line, 16 in the code
  Digits,      \* digits of a word on the line, 8 in the code
  MaxPauses,   \* how often the line pauses inside a reply (bound)
  MaxDrops,    \* how many characters get lost (bound)
  MaxKills,    \* how many programs end or are killed (bound)
  MaxFaults    \* how many of these there are in all (bound)

(* Base ^ k, as a recursive function. *)
Power[k \in 0 .. Digits] == IF k = 0 THEN 1 ELSE Base * Power[k - 1]

ASSUME UartAssumption ==
  /\ Base \in Nat \ {0, 1} /\ Digits \in Nat \ {0}
  /\ NumRegs <= Power[Digits]
  /\ Vals = 0 .. Power[Digits] - 1
  /\ Lens # {}
  /\ MaxPauses \in Nat /\ MaxDrops \in Nat /\ MaxKills \in Nat /\ MaxFaults \in Nat

(* Characters: a digit is its value; the others are numbers above. *)
IsDigit(c) == c < Base
CR     == Base           \* white space, as are the line ends of a reply
Status == Base + 1       \* the first character of a reply
LetterR == Base + 2
NUL    == Base + 3

EolLen == 2

(* The 11 of VMIN and of the read(2) calls. *)
ReplyLen == 1 + Digits + EolLen

VARIABLES
  mem,         \* the Wishbone registers
  pc,          \* "idle", "loop", "reply" (waiting in read(2)) or "closed"
  call,        \* arguments and locals of uart_op_read / uart_op_write
  ret,         \* what the last transfer returned
  cmds,        \* commands on their way to the bridge
  line,        \* characters on their way to the program
  tty,         \* the terminal's input queue
  answer,      \* the word in the reply to the current command
  pauses, drops, kills, \* how often each has happened
  dropped,     \* a character of the current reply was lost
  sound        \* the program started, and stayed, in step with the bridge

faults == <<pauses, drops, kills, dropped, sound>>
vars == <<mem, pc, call, ret, cmds, line, tty, answer, faults>>

MoreFaults == pauses + drops + kills < MaxFaults

(* %08X *)
Hex(n) == [k \in 1 .. Digits |-> (n \div Power[Digits - k]) % Base]

ReplyTo(v) == <<Status>> \o Hex(v) \o [k \in 1 .. EolLen |-> CR]

(* The buffer of uart_read_direct before the reply is read into it. *)
ReadCommand(r) == <<LetterR>> \o Hex(r) \o <<CR, NUL>>

(* The same buffer after a read(2) that returned the characters of s. *)
Overlay(s, r) == s \o SubSeq(ReadCommand(r), Len(s) + 1, ReplyLen)

(* The number whose digits are s. *)
Number(s) ==
  LET leading[k \in 0 .. Len(s)] == IF k = 0 THEN 0 ELSE Base * leading[k - 1] + s[k]
  IN leading[Len(s)]

(* Mutant: the conversion stops one digit early. *)
ScanNarrow(buf) == Number(SubSeq(buf, 2, Digits))

(* sscanf(buffer, "%c%08X"): any character, white space, then the longest  *)
(* run of at most Digits digits; read_result keeps its 0 if there is none. *)
Scan(buf) ==
  LET blank == {k \in 2 .. Len(buf) : \A j \in 2 .. k : buf[j] = CR}
      first == 2 + Cardinality(blank)
      run   == {k \in first .. Len(buf) : k < first + Digits
                                          /\ \A j \in first .. k : IsDigit(buf[j])}
  IN Number(SubSeq(buf, first, first + Cardinality(run) - 1))

(* What the locals are before the first transfer of a program. *)
NoCall == NewCall("read", 0, CHOOSE l \in Lens : TRUE, [j \in 0 .. MaxWords - 1 |-> 0])

TypeOK ==
  /\ mem \in [Regs -> Vals]
  /\ pc \in {"idle", "loop", "reply", "closed"}
  /\ call \in Calls
  /\ ret \in Lens \cup {0}
  /\ cmds \in Seq([kind : {"read", "write"}, at : Regs, word : Vals])
  /\ Len(cmds) <= MaxPauses + MaxKills + 1
  /\ line \in Seq(0 .. NUL) /\ tty \in Seq(0 .. NUL)
  /\ Len(line) + Len(tty) <= (MaxPauses + MaxKills + 1) * ReplyLen
  /\ answer \in Vals
  /\ pauses \in 0 .. MaxPauses /\ drops \in 0 .. MaxDrops
  /\ kills \in 0 .. MaxKills /\ dropped \in BOOLEAN /\ sound \in BOOLEAN

(* A program has opened the terminal of a quiet line. *)
Init ==
  /\ mem \in [Regs -> Vals]
  /\ pc = "idle"
  /\ call = NoCall
  /\ ret = 0
  /\ cmds = <<>> /\ line = <<>> /\ tty = <<>> /\ answer = 0
  /\ pauses = 0 /\ drops = 0 /\ kills = 0 /\ dropped = FALSE /\ sound = TRUE

Begin(k, r, l, b) ==
  /\ pc = "idle"
  /\ call' = NewCall(k, r, l, b)
  /\ pc' = "loop"
  /\ UNCHANGED <<mem, ret, cmds, line, tty, answer, faults>>

(* A command on the line, for the next word of c. *)
Command(c) ==
  [kind |-> c.kind, at |-> c.at, word |-> IF c.kind = "write" THEN c.buf[c.i] ELSE 0]

(* Mutant: a write does not wait for its reply. *)
SendAndGoOn ==
  /\ pc = "loop" /\ MoreWords(call)
  /\ cmds' = Append(cmds, Command(call))
  /\ dropped' = FALSE
  /\ IF call.kind = "write"
     THEN pc' = "loop" /\ call' = Advance(call)
     ELSE pc' = "reply" /\ call' = call
  /\ UNCHANGED <<mem, ret, line, tty, answer, pauses, drops, kills, sound>>

(* write(2) of the command, at the head of uart_read_direct / _write_direct *)
Send ==
  /\ pc = "loop" /\ MoreWords(call)
  /\ cmds' = Append(cmds, Command(call))
  /\ dropped' = FALSE
  /\ pc' = "reply"
  /\ UNCHANGED <<mem, call, ret, line, tty, answer, pauses, drops, kills, sound>>

(* The word loop after read(2) returned s: a write ignores it. *)
TakeReply(s) ==
  /\ call' = AfterWord(call, Scan(Overlay(s, call.at)))
  /\ pc' = "loop"
  /\ UNCHANGED <<mem, ret, cmds, line, answer, drops, kills, dropped>>

(* read(2) finds VMIN characters. *)
ReadFull ==
  /\ pc = "reply" /\ Len(tty) >= ReplyLen
  /\ TakeReply(SubSeq(tty, 1, ReplyLen))
  /\ tty' = SubSeq(tty, ReplyLen + 1, Len(tty))
  /\ UNCHANGED <<pauses, sound>>

(* Mutant: VTIME = 0, read(2) waits for VMIN characters. *)
ReadNeverShort == FALSE /\ UNCHANGED vars

(* read(2) gives up after a pause of VTIME behind the last character.  It  *)
(* is a pause of the line only if something was still to come.             *)
ReadShort ==
  /\ pc = "reply" /\ tty # <<>> /\ Len(tty) < ReplyLen
  /\ IF cmds # <<>> \/ line # <<>>
     THEN MoreFaults /\ pauses < MaxPauses /\ pauses' = pauses + 1 /\ sound' = FALSE
     ELSE UNCHANGED <<pauses, sound>>
  /\ TakeReply(tty)
  /\ tty' = <<>>

Return ==
  /\ pc = "loop" /\ ~ MoreWords(call)
  /\ ret' = call.len
  /\ pc' = "idle"
  /\ UNCHANGED <<mem, call, cmds, line, tty, answer, faults>>

Step == Send \/ ReadFull \/ ReadShort \/ Return

(* The program ends, or is killed wherever it is.  A command it has sent   *)
(* is executed all the same.                                               *)
Kill ==
  /\ pc # "closed" /\ MoreFaults /\ kills < MaxKills
  /\ pc' = "closed" /\ kills' = kills + 1
  /\ call' = NoCall /\ ret' = 0
  /\ UNCHANGED <<mem, cmds, line, tty, answer, pauses, drops, dropped, sound>>

(* Mutant: the next program does not flush the terminal. *)
OpenUnflushed ==
  /\ pc = "closed"
  /\ pc' = "idle"
  /\ sound' = (cmds = <<>> /\ line = <<>>)
  /\ UNCHANGED <<mem, call, ret, cmds, line, tty, answer, pauses, drops, kills, dropped>>

(* uart_creat_open in the next program: tcflush empties the input queue of *)
(* the terminal.  What is still on the line arrives after it.              *)
Open ==
  /\ pc = "closed"
  /\ pc' = "idle"
  /\ tty' = <<>>
  /\ sound' = (cmds = <<>> /\ line = <<>>)
  /\ UNCHANGED <<mem, call, ret, cmds, line, answer, pauses, drops, kills, dropped>>

---------------------------------------------------------------------------
(* The bridge and the line. *)

Serve ==
  /\ cmds # <<>>
  /\ cmds' = Tail(cmds)
  /\ LET c == Head(cmds) IN
       /\ mem' = IF c.kind = "write" THEN [mem EXCEPT ![c.at] = c.word] ELSE mem
       /\ answer' = mem'[c.at]
  /\ line' = line \o ReplyTo(answer')
  /\ UNCHANGED <<pc, call, ret, tty, faults>>

Deliver ==
  /\ line # <<>>
  /\ tty' = Append(tty, Head(line)) /\ line' = Tail(line)
  /\ UNCHANGED <<mem, pc, call, ret, cmds, answer, faults>>

Drop ==
  /\ line # <<>> /\ MoreFaults /\ drops < MaxDrops
  /\ line' = Tail(line)
  /\ drops' = drops + 1 /\ dropped' = TRUE
  /\ UNCHANGED <<mem, pc, call, ret, cmds, tty, answer, pauses, kills, sound>>

Next ==
  \/ \E r \in Regs, l \in Lens : Begin("read", r, l, NoCall.buf)
  \/ \E r \in Regs, l \in Lens, b \in Buffers : Begin("write", r, l, b)
  \/ Step \/ Kill \/ Open
  \/ Serve \/ Deliver \/ Drop

Spec == Init /\ [][Next]_vars

(* The program runs, the bridge serves, and the line delivers. *)
Fairness == WF_vars(Step) /\ WF_vars(Serve) /\ WF_vars(Deliver)

FairSpec == Spec /\ Fairness

---------------------------------------------------------------------------
(* Safety.  A program that started with no reply on its way, and has seen  *)
(* no pause inside a reply, is in step with the bridge whenever it is not  *)
(* waiting: no command, no reply and no character of one is left over to   *)
(* be taken for the next reply.  A lost character costs one word and not   *)
(* the step, and what earlier programs left in the terminal is flushed.    *)
InStep ==
  sound /\ pc \in {"idle", "loop"} => cmds = <<>> /\ line = <<>> /\ tty = <<>>

(* Safety.  In such a program, a register is written by the time the word  *)
(* loop goes on to the next word, whatever was lost of the reply.          *)
WritesLand ==
  sound /\ pc \in {"idle", "loop"} /\ call.kind = "write" =>
    \A j \in 0 .. call.i - 1 :
      LET r == (call.at - call.i + j) % NumRegs IN
        mem[r] = call.buf[j] \/ \E k \in j + 1 .. call.i - 1 : (k - j) % NumRegs = 0

(* Action property.  In such a program, a word that is read is the word    *)
(* the bridge answered with, unless a character of the reply was lost.     *)
ReadsTrue ==
  [][pc = "reply" /\ pc' = "loop" /\ call.kind = "read" /\ sound' /\ ~ dropped
       => call'.buf[call.i] = answer]_vars

(* Liveness.  A transfer ends, or its program does: every reply has at     *)
(* least one character, also after a program that was killed.              *)
TransferEnds == pc \in {"loop", "reply"} ~> pc \in {"idle", "closed"}

(* Refinement.  As long as nothing failed, callers see the bus of module   *)
(* WbBus.  A word is transferred when the bridge serves the command,       *)
(* before the program takes the reply.                                     *)
Served == pc = "reply" /\ cmds = <<>>

WB == INSTANCE WbBus WITH
  Procs <- {"program"},
  st    <- [p \in {"program"} |-> IF pc = "idle" THEN "idle" ELSE "busy"],
  call  <- [p \in {"program"} |-> IF Served THEN AfterWord(call, answer) ELSE call],
  ret   <- [p \in {"program"} |-> ret]

Faultless == pauses = 0 /\ drops = 0 /\ kills = 0

Implements == WB!Init /\ [][Faultless' => [WB!Next]_(WB!vars)]_vars

(* The comments beside VTIME and VMIN in uart_creat_open call the timer    *)
(* between characters unused, and VMIN the number of characters received:  *)
(* read(2) would return whole replies only.                                *)
WholeReplies ==
  [][pc = "reply" /\ pc' = "loop" => Len(tty) >= ReplyLen]_vars

=============================================================================
