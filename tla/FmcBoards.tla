----------------------------- MODULE FmcBoards ----------------------------
(***************************************************************************)
(* fmc_adc250m.c and fmc_dio32ttla.c: the start of a mezzanine board.  The *)
(* board's table is discovered (SdbRom), then its cores are looked up one  *)
(* by one by fixed entry numbers; a core that is found gets a handle, and  *)
(* some are initialised by writes to their registers.  Nothing checks that *)
(* the core found is of the kind that is expected.                         *)
(***************************************************************************)
EXTENDS SdbRom

C_CSR == 1

Lookup(entry, field, kind) == [entry |-> entry, field |-> field, kind |-> kind]

(* The lookups in their order: the entry number, the handle it is for, and *)
(* which core's initialisation is made there; "none" keeps the address.    *)
Adc250m == <<
  Lookup(C_CSR, "csr", "csr"),
  Lookup(2, "none", "none"),                   \* C_SYS_I2C
  Lookup(3, "i2c_si57x", "i2c"),               \* C_I2C_VCXO
  Lookup(4, "spi_ad9510", "spi"),              \* C_SPI_PLL
  Lookup(5, "spi_isla216p", "spi"),            \* C_SPI_ADC
  Lookup(6, "none", "none"),                   \* C_SPI_MON
  Lookup(7, "gpio", "none"),                   \* C_GPIO
  Lookup(8, "none", "none") >>                 \* C_IDELAY

(* Mutant: the two SPI cores change places. *)
Adc250mSwapped == [Adc250m EXCEPT ![4].field = "spi_isla216p", ![5].field = "spi_ad9510"]

(* The information port has a handle of its own in the struct, but is put  *)
(* in the place of the GPIO port's.                                        *)
Dio32ttla == <<
  Lookup(2, "csr", "csr"),                     \* C_CSR
  Lookup(1, "none", "none"),                   \* C_SYS_I2C
  Lookup(3, "gpio", "none"),                   \* C_GPIO
  Lookup(4, "gpio", "none") >>                 \* C_GPIO_INFO

(* Mutant: those of the board with its SPI cores in each other's place. *)
LayoutSwapped(b) == IF b = "adc250m" THEN Adc250mSwapped ELSE Dio32ttla

Layout(b) == IF b = "adc250m" THEN Adc250m ELSE Dio32ttla

Fields  == {"csr", "i2c_si57x", "spi_ad9510", "spi_isla216p", "gpio"}
Entries == 1 .. 8

(* A lookup's 16 bits hold the entry numbers of the boards. *)
ASSUME BoardAssumption == \A e \in Entries : e < IdMod

VARIABLES
  board,       \* the board the program starts
  made,        \* lookups made
  fmc_id_shift,
  address,     \* the addresses the lookups gave, 0 before
  handle,      \* the cores behind the handles, {} for NULL
  inits        \* the initialisations made: where, and for which kind of core

board_vars == <<board, made, fmc_id_shift, address, handle, inits>>

BoardTypeOK ==
  /\ TypeOK
  /\ board \in {"adc250m", "dio32ttla"} /\ made \in 0 .. Len(Layout(board))
  /\ fmc_id_shift \in {0, 1}
  /\ address \in [Entries -> 0 .. AddrMod - 1]
  /\ \A f \in Fields : handle[f] \subseteq 0 .. AddrMod - 1
  /\ inits \subseteq (0 .. AddrMod - 1) \X {"csr", "i2c", "spi"}

BoardInit ==
  /\ Init
  /\ board \in {"adc250m", "dio32ttla"} /\ made = 0 /\ fmc_id_shift = 0
  /\ address = [e \in Entries |-> 0]
  /\ handle = [f \in Fields |-> {}]
  /\ inits = {}

Discovery == Next /\ UNCHANGED board_vars

(* Mutant: entry numbers are not shifted when there is no entry 1. *)
ShiftNever(entry, found) == fmc_id_shift

(* The ADC board takes a table without entry 1 for one whose entries all   *)
(* come one earlier.                                                       *)
ShiftAfter(entry, found) ==
  IF board = "adc250m" /\ entry = C_CSR /\ found.ret < 0 THEN 1 ELSE fmc_id_shift

LookUp ==
  /\ Done /\ made < Len(Layout(board))
  /\ made' = made + 1
  /\ LET l     == Layout(board)[made + 1]
         found == get_addr_by_ids(1, <<l.entry - fmc_id_shift>>)
         here  == found.ret >= 0
     IN /\ fmc_id_shift' = ShiftAfter(l.entry, found)
        /\ address' = IF here THEN [address EXCEPT ![l.entry] = found.addr] ELSE address
        /\ handle' = IF here /\ l.field # "none"
                       THEN [handle EXCEPT ![l.field] = {found.addr}] ELSE handle
        /\ inits' = IF here /\ l.kind # "none" THEN inits \cup {<<found.addr, l.kind>>} ELSE inits
  /\ UNCHANGED <<vars, board>>

BoardNext == Discovery \/ LookUp

all_vars == <<vars, board_vars>>

BoardSpec == BoardInit /\ [][BoardNext]_all_vars

(* One thread runs the discovery and the lookups to their end. *)
BoardFairSpec == BoardSpec /\ WF_all_vars(BoardNext)

(***************************************************************************)
(* Properties.                                                             *)
(***************************************************************************)
Started == Done /\ made = Len(Layout(board))

(* What the card's memory says of entry e of the board's table. *)
Tabled(e) ==
  IF e \in Listed(Root.slot) THEN {(RecordAt(Root.slot + e).addr + Root.bus) % AddrMod} ELSE {}

(* A board whose table is complete starts with each handle on the core of  *)
(* its own entry, and only those cores are initialised, each as what it    *)
(* is; but the GPIO handle of a DIO board is its information port, if it   *)
(* has one (fmc_adc250m.c:42-80, fmc_dio32ttla.c:31-48).                   *)
OwnCores ==
  Started /\ Tabled(C_CSR) # {} =>
    IF board = "adc250m"
    THEN /\ handle = [csr |-> Tabled(1), i2c_si57x |-> Tabled(3), spi_ad9510 |-> Tabled(4),
                      spi_isla216p |-> Tabled(5), gpio |-> Tabled(7)]
         /\ inits = (Tabled(1) \X {"csr"}) \cup (Tabled(3) \X {"i2c"})
                      \cup ((Tabled(4) \cup Tabled(5)) \X {"spi"})
    ELSE /\ handle = [f \in Fields |->
                        IF f = "csr" THEN Tabled(2)
                        ELSE IF f = "gpio" THEN (IF Tabled(4) # {} THEN Tabled(4) ELSE Tabled(3))
                        ELSE {}]
         /\ inits = Tabled(2) \X {"csr"}

(* An ADC board without a usable entry 1 is taken for an older one: every  *)
(* handle is on the core one entry before its own, although a record that  *)
(* is skipped keeps its number, and that core is initialised as what it is *)
(* not.  An older table, whose entries really come one earlier, has an     *)
(* entry 1 and is not recognised (fmc_adc250m.c:48-80).                    *)
GapMovesAll ==
  Started /\ board = "adc250m" /\ Tabled(C_CSR) = {} =>
    /\ handle = [csr |-> {}, i2c_si57x |-> Tabled(2), spi_ad9510 |-> Tabled(3),
                 spi_isla216p |-> Tabled(4), gpio |-> Tabled(6)]
    /\ inits = (Tabled(2) \X {"i2c"}) \cup ((Tabled(3) \cup Tabled(4)) \X {"spi"})

=============================================================================
