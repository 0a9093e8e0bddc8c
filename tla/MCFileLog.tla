------------------------------ MODULE MCFileLog -----------------------------
(* FileLog for TLC: a buffer on the stack holds zeroes or something else.   *)
EXTENDS FileLog

AnyGarbage == {Zeroes, <<[mark |-> 7, total |-> 9, qualified |-> 8], <<1, 1>>>>}
TwoDays == {13, 31}
ServerDates == {<<202208, 2>>}
=============================================================================
