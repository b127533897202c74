------------------------------ MODULE ByteFile ------------------------------
(***************************************************************************)
(* What a write buffer promises the filesystem that uses it: every file    *)
(* is an array of bytes held in one place, written and resized by one      *)
(* operation at a time.  There is no cache, no memory budget, no file on   *)
(* disk.  Scratch.tla describes the buffer the program really has, and is  *)
(* checked, and proved, to implement this module.                          *)
(*                                                                         *)
(* An operation runs a block at a time and may fail between two blocks     *)
(* when Faults is TRUE: the blocks done so far stay as they are, and       *)
(* neither the length nor the change counter moves.                        *)
(***************************************************************************)
EXTENDS FileOps

VARIABLES
  bytes,   \* bytes[s][b][c]: cell c of block b, past the end of the file too
  len,     \* the length of the file
  gen,     \* counts the acknowledged changes (Scratch::generation)
  op       \* the operation that runs under the buffer's mutex

vars == <<bytes, len, gen, op>>

Init ==
  /\ bytes = [s \in Scratches |-> [b \in Blocks |-> Blank]]
  /\ len   = [s \in Scratches |-> 0]
  /\ gen   = [s \in Scratches |-> 0]
  /\ op    = [s \in Scratches |-> Idle]

BeginWrite(s, off, end, v) ==
  /\ op[s] = Idle /\ off < end /\ gen[s] < MaxGen
  /\ op' = [op EXCEPT ![s] = WriteOp(off, end, v)]
  /\ UNCHANGED <<bytes, len, gen>>

\* Shrinking: the blocks wholly past the new end read as zeros at once.
BeginShrink(s, n) ==
  /\ op[s] = Idle /\ n < len[s] /\ gen[s] < MaxGen
  /\ op' = [op EXCEPT ![s] = CutOp("drop", n)]
  /\ bytes' = [bytes EXCEPT ![s] =
                 [b \in Blocks |-> IF b >= Keep(n) THEN Blank ELSE bytes[s][b]]]
  /\ UNCHANGED <<len, gen>>

\* The last block that stays may hold bytes past the new end, or be untouched.
Dropped(s) ==
  /\ op[s].kind = "drop"
  /\ \/ /\ ~AtBlock(op[s].end)
        /\ op' = [op EXCEPT ![s].kind = "tail"]
     \/ /\ AtBlock(op[s].end) \/ bytes[s][BlockOf(op[s].end)] = Blank
        /\ op' = [op EXCEPT ![s].kind = "cut"]
  /\ UNCHANGED <<bytes, len, gen>>

\* One block of a write, or the tail of a set_len.
Change(s) ==
  /\ Touching(op[s])
  /\ bytes' = [bytes EXCEPT ![s][Target(op[s])] = Overwrite(@, op[s])]
  /\ op' = [op EXCEPT ![s] = Advance(op[s])]
  /\ UNCHANGED <<len, gen>>

Finish(s) ==
  /\ \/ /\ op[s].kind = "write" /\ op[s].at = op[s].end
        /\ len' = [len EXCEPT ![s] = Max2(@, op[s].end)]
     \/ /\ op[s].kind = "cut"
        /\ len' = [len EXCEPT ![s] = op[s].end]
  /\ gen' = [gen EXCEPT ![s] = @ + 1]
  /\ op' = [op EXCEPT ![s] = Idle]
  /\ UNCHANGED bytes

\* set_len to the same length or a longer one only moves the end.
Extend(s, n) ==
  /\ op[s] = Idle /\ n >= len[s] /\ gen[s] < MaxGen
  /\ len' = [len EXCEPT ![s] = n]
  /\ gen' = [gen EXCEPT ![s] = @ + 1]
  /\ UNCHANGED <<bytes, op>>

Fail(s) ==
  /\ Faults /\ Touching(op[s])
  /\ op' = [op EXCEPT ![s] = Idle]
  /\ UNCHANGED <<bytes, len, gen>>

\* The buffer is dropped; another one may be opened in its place.
Discard(s) ==
  /\ op[s] = Idle
  /\ bytes' = [bytes EXCEPT ![s] = [b \in Blocks |-> Blank]]
  /\ len' = [len EXCEPT ![s] = 0]
  /\ gen' = [gen EXCEPT ![s] = 0]
  /\ UNCHANGED op

Next == \E s \in Scratches :
  \/ \E off, end \in Pos, v \in Values : BeginWrite(s, off, end, v)
  \/ \E n \in Pos : BeginShrink(s, n) \/ Extend(s, n)
  \/ Dropped(s) \/ Change(s) \/ Finish(s) \/ Fail(s) \/ Discard(s)

Spec == Init /\ [][Next]_vars
=============================================================================
