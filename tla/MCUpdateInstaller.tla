-------------------------- MODULE MCUpdateInstaller --------------------------
(* A small instance of UpdateInstaller for TLC: see UpdateInstaller.cfg.   *)
EXTENDS UpdateInstaller
=============================================================================
