----------------------------- MODULE MCEcmNetif -----------------------------
(* EcmNetif for TLC; the constants are given in the .cfg files.            *)
EXTENDS EcmNetif
=============================================================================
