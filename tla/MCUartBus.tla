----------------------------- MODULE MCUartBus ----------------------------
(* Small instances of UartBus for TLC: words of two binary digits. *)
EXTENDS UartBus

FourVals == 0 .. 3
TwoWords == {8}
FiveBytes == {5}
OneWord == {4}

=============================================================================
