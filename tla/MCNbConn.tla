------------------------------ MODULE MCNbConn ------------------------------
(* NbConn for TLC.                                                         *)
EXTENDS NbConn

\* Samples with identifiers 1, 2, ... and voltages that tell them apart.
SampleNo(n) == <<48, 49, 50, 48 + n, 49, 48, 48, 48 + n, 48, 48, 53, 48>>
Samples == [n \in 1..6 |-> SampleNo(n)]

TwoDigits == {<<50, 55>>}
ServerDate == <<50, 48, 50, 50, 48, 55, 49, 51>>
StackNoise == {<<1, 2>>}
=============================================================================
