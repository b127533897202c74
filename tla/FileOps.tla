------------------------------ MODULE FileOps -------------------------------
(***************************************************************************)
(* The operations of a write buffer and the arithmetic of the blocks they  *)
(* touch: what ByteFile.tla (the promise) and Scratch.tla (the code) share.*)
(***************************************************************************)
EXTENDS Integers

CONSTANTS
  Scratches,   \* the write buffers
  NBlocks,     \* bound: a file has at most this many blocks
  BlockSize,   \* bytes of a block
  Values,      \* the values a byte can have
  Zero,        \* what a byte that was never written reads as
  MaxGen,      \* bound on the change counter of a buffer
  Faults       \* TRUE when an operation may fail half way

ASSUME FileAssumption ==
  /\ NBlocks \in Nat \ {0}
  /\ BlockSize \in Nat \ {0}
  /\ Zero \in Values
  /\ MaxGen \in Nat
  /\ Faults \in BOOLEAN

Blocks == 0 .. NBlocks - 1
Cells  == 0 .. BlockSize - 1
Pos    == 0 .. NBlocks * BlockSize      \* a file offset or a length
Block  == [Cells -> Values]             \* the bytes of one block
Blank  == [c \in Cells |-> Zero]

(***************************************************************************)
(* A write of val on [at, end) that has reached at; a set_len to end,      *)
(* which drops whole blocks ("drop"), then clears the rest of the last     *)
(* block that stays ("tail"), then sets the length ("cut").                *)
(***************************************************************************)
Op == [kind : {"idle", "write", "drop", "tail", "cut"},
       at : Pos, end : Pos, val : Values]

Idle            == [kind |-> "idle",  at |-> 0, end |-> 0, val |-> Zero]
WriteOp(a, e, v) == [kind |-> "write", at |-> a, end |-> e, val |-> v]
CutOp(k, n)     == [kind |-> k, at |-> n, end |-> n, val |-> Zero]

Max2(i, j) == IF i >= j THEN i ELSE j
Min2(i, j) == IF i <= j THEN i ELSE j

BlockOf(p)  == p \div BlockSize
Keep(n)     == (n + BlockSize - 1) \div BlockSize   \* blocks a length needs
AtBlock(p)  == p % BlockSize = 0

\* The operation still has a block to change, and which part of it.
Touching(o) == (o.kind = "write" /\ o.at < o.end) \/ o.kind = "tail"
Target(o)   == BlockOf(o.at)
PartEnd(o)  == LET blockEnd == (Target(o) + 1) * BlockSize
               IN  IF o.kind = "write" THEN Min2(o.end, blockEnd) ELSE blockEnd
\* It replaces the block as a whole.
Full(o)     == o.kind = "write" /\ AtBlock(o.at) /\ PartEnd(o) = o.at + BlockSize

\* The block after the operation wrote its part of it.
Overwrite(data, o) ==
  [c \in Cells |-> LET p == Target(o) * BlockSize + c
                   IN  IF o.at <= p /\ p < PartEnd(o) THEN o.val ELSE data[c]]

\* The operation after it is done with its target block.
Advance(o) == IF o.kind = "write" THEN [o EXCEPT !.at = PartEnd(o)]
                                  ELSE [o EXCEPT !.kind = "cut"]
=============================================================================
