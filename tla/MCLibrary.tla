------------------------------ MODULE MCLibrary ------------------------------
(***************************************************************************)
(* Constants for TLC.                                                      *)
(***************************************************************************)
EXTENDS Library, MCCodec

CONSTANTS b1, b2

TwoBlocks == {b1, b2}

\* Every file of up to five blocks.
SmallFiles == SeqOf(TwoBlocks, 5)
=============================================================================
