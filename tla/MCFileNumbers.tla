---------------------------- MODULE MCFileNumbers ----------------------------
(***************************************************************************)
(* FileNumbers for TLC.                                                    *)
(***************************************************************************)
EXTENDS FileNumbers
=============================================================================
