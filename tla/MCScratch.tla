----------------------------- MODULE MCScratch ------------------------------
(***************************************************************************)
(* Instances of Scratch.tla for TLC: one buffer with every byte pattern of *)
(* two blocks, and two buffers that compete for a budget of two blocks.    *)
(* The spill file may fail in both.                                        *)
(***************************************************************************)
EXTENDS Scratch
=============================================================================
