------------------------------ MODULE WbBus -------------------------------
(***************************************************************************)
(* What a pghal bus promises its callers, whatever carries it: a transfer  *)
(* of len bytes moves the words at the given register and the ones after   *)
(* it, in ascending order, each exactly once and each atomically, and only *)
(* then returns len.  Transfers of different programs interleave word by   *)
(* word: no driver has a lock operation.  A program may also be killed in  *)
(* the middle of a transfer, or may hold no bus, and then gets 0.          *)
(***************************************************************************)
EXTENDS PghalBus

CONSTANT Procs     \* the programs that use the bus

VARIABLES
  mem,     \* the Wishbone registers
  st,      \* what a program is doing: "idle", "busy" or "dead"
  call,    \* the transfer it makes, or made last
  ret      \* what its last transfer returned

vars == <<mem, st, call, ret>>

Init ==
  /\ mem \in [Regs -> Vals]
  /\ st = [p \in Procs |-> "idle"]
  /\ call \in [Procs -> {c \in Calls : c.i = 0}]
  /\ ret = [p \in Procs |-> 0]

Begin(p) ==
  /\ st[p] = "idle"
  /\ st' = [st EXCEPT ![p] = "busy"]
  /\ \E c \in {x \in Calls : x.i = 0} : call' = [call EXCEPT ![p] = c]
  /\ UNCHANGED <<mem, ret>>

Word(p) ==
  /\ st[p] = "busy"
  /\ MoreWords(call[p])
  /\ mem' = MemAfterWord(mem, call[p], call[p].at)
  /\ call' = [call EXCEPT ![p] = AfterWord(@, mem[@.at])]
  /\ UNCHANGED <<st, ret>>

End(p) ==
  /\ st[p] = "busy"
  /\ ~ MoreWords(call[p])
  /\ st' = [st EXCEPT ![p] = "idle"]
  /\ ret' = [ret EXCEPT ![p] = call[p].len]
  /\ UNCHANGED <<mem, call>>

Refuse(p) ==
  /\ st[p] = "idle"
  /\ ret' = [ret EXCEPT ![p] = 0]
  /\ UNCHANGED <<mem, st, call>>

Die(p) ==
  /\ st[p] = "busy"
  /\ st' = [st EXCEPT ![p] = "dead"]
  /\ UNCHANGED <<mem, call, ret>>

Next == \E p \in Procs : Begin(p) \/ Word(p) \/ End(p) \/ Refuse(p) \/ Die(p)

Spec == Init /\ [][Next]_vars

=============================================================================
