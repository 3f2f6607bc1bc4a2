---------------------------- MODULE MCForeground ----------------------------
(* Instances of Foreground for TLC.                                        *)
EXTENDS Foreground
=============================================================================
