------------------------------- MODULE MCTftp -------------------------------
(* Small instances of Tftp; the constants are in the configurations.         *)
EXTENDS Tftp
=============================================================================
