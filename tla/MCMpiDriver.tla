---------------------------- MODULE MCMpiDriver ----------------------------
(***************************************************************************)
(* Command lines and inputs for TLC.  A point has two bytes here: an input *)
(* of 11 bytes is five points and a stray byte, three blocks of four bytes *)
(* with the last one short; with 4 bytes, one block, a rank has nothing to *)
(* do; 1 byte is too small, and a missing file is -1.                      *)
(***************************************************************************)
EXTENDS MpiDriver

Cmd(bs, mode, shared) ==
  [block_size |-> bs, mode |-> mode, quantizer |-> "to", shared_codebook |-> shared]

\* Accepted and rejected command lines.
MCArgs == {Cmd(4, "-normal", FALSE), Cmd(4, "-normal", TRUE),
           Cmd(4, "-rle", FALSE), Cmd(4, "mapreduce", FALSE),
           Cmd(0, "-normal", FALSE), Cmd(3, "-normal", FALSE),
           Cmd(4, "mapreduce", TRUE), Cmd(4, "-zip", FALSE),
           [Cmd(4, "mapreduce", FALSE) EXCEPT !.quantizer = "adaptive"]}
MCInputs == {-1, 1, 4, 11}

MCPlainArgs == {Cmd(4, "-normal", FALSE)}
MCPlainInputs == {11}
=============================================================================
