------------------------------ MODULE MCWalFile ------------------------------
(* Instances of WalFile for TLC.                                           *)
EXTENDS WalFile
=============================================================================
