------------------------------ MODULE MCNsUart ------------------------------
(* NsUart for TLC; all constants are given values in the configurations.    *)
EXTENDS NsUart
=============================================================================
