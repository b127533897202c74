--------------------------- MODULE ScratchProofs ---------------------------
(***************************************************************************)
(* Proofs about the write buffer, for every number of buffers and blocks,  *)
(* every block size, budget and set of byte values.                        *)
(***************************************************************************)
EXTENDS Scratch, FoldLemmas, FiniteSetTheorems, SequenceTheorems, TLAPS

-----------------------------------------------------------------------------
(* Block arithmetic. *)

\* An offset lies in the block that its quotient names.
LEMMA DivBounds ==
  ASSUME NEW B \in Nat \ {0}, NEW p \in Nat
  PROVE  /\ p \div B \in Nat
         /\ (p \div B) * B <= p
         /\ p < (p \div B + 1) * B
OBVIOUS

\* An offset below the largest length lies in one of the blocks.
LEMMA DivLess ==
  ASSUME NEW B \in Nat \ {0}, NEW N \in Nat, NEW p \in Nat, p < N * B
  PROVE  p \div B < N
OBVIOUS

LEMMA BlockEndBound ==
  ASSUME NEW B \in Nat \ {0}, NEW N \in Nat, NEW b \in Nat, b < N
  PROVE  /\ b * B \in Nat
         /\ (b + 1) * B \in Nat
         /\ (b + 1) * B <= N * B
OBVIOUS

\* What an operation touches next: a block of the file, up to a position in it.
LEMMA TargetType ==
  ASSUME NEW o \in Op, Touching(o), o.at < NBlocks * BlockSize,
         o.kind = "write" => o.at <= o.end
  PROVE  /\ Target(o) \in Blocks
         /\ PartEnd(o) \in Pos
         /\ o.at < PartEnd(o)
         /\ o.kind = "write" => PartEnd(o) <= o.end
         /\ Advance(o) \in Op
<1> DEFINE b == o.at \div BlockSize
<1>0. /\ o.at \in Nat /\ o.end \in Nat /\ o.end <= NBlocks * BlockSize
      /\ BlockSize \in Nat \ {0} /\ NBlocks \in Nat \ {0}
  BY FileAssumption DEF Op, Pos
<1>1. b \in Nat /\ b * BlockSize <= o.at /\ o.at < (b + 1) * BlockSize
  BY <1>0, DivBounds
<1>2. b < NBlocks
  BY <1>0, DivLess
<1>3. Target(o) = b /\ Target(o) \in Blocks
  BY <1>0, <1>1, <1>2 DEF Target, BlockOf, Blocks
<1>4. (b + 1) * BlockSize \in Nat /\ (b + 1) * BlockSize <= NBlocks * BlockSize
  BY <1>0, <1>1, <1>2, BlockEndBound
<1> HIDE DEF b
<1> DEFINE e == (b + 1) * BlockSize
<1>5. e \in Nat /\ e <= NBlocks * BlockSize /\ o.at < e
  BY <1>1, <1>4
<1>6. PartEnd(o) = IF o.kind = "write" THEN Min2(o.end, e) ELSE e
  BY <1>3 DEF PartEnd
<1> HIDE DEF e
<1>7. NBlocks * BlockSize \in Nat
  BY <1>0
<1>8. /\ PartEnd(o) \in 0 .. NBlocks * BlockSize
      /\ o.at < PartEnd(o)
      /\ o.kind = "write" => PartEnd(o) <= o.end
  BY <1>0, <1>5, <1>6, <1>7 DEF Min2, Touching
<1>9. Advance(o) \in Op
  BY <1>8 DEF Advance, Op, Pos
<1> QED
  BY <1>3, <1>8, <1>9 DEF Pos
\* The block after the operation's change is a block of bytes again.
LEMMA OverwriteType ==
  ASSUME NEW o \in Op, NEW data \in Block
  PROVE  Overwrite(data, o) \in Block
<1>1. o.val \in Values
  BY DEF Op
<1>2. \A c \in Cells : data[c] \in Values
  BY DEF Block
<1> QED
  BY <1>1, <1>2 DEF Overwrite, Block

LEMMA BlankType == Blank \in Block /\ 0 \in Pos
<1>1. NBlocks * BlockSize \in Nat
  BY FileAssumption
<1> QED
  BY <1>1, FileAssumption DEF Blank, Block, Cells, Pos

LEMMA OpTypes ==
  /\ Idle \in Op
  /\ \A a, e \in Pos, v \in Values : WriteOp(a, e, v) \in Op
  /\ \A n \in Pos : CutOp("drop", n) \in Op
BY BlankType, FileAssumption DEF Idle, WriteOp, CutOp, Op
-----------------------------------------------------------------------------
(* Type correctness, with what the fields of an operation say of each other. *)

\* A write has not run past its end; a set_len that runs shortens the file, and
\* clears a tail only when the new end is inside a block.
OpShape ==
  \A s \in Scratches :
    /\ op[s].kind = "write" => op[s].at <= op[s].end
    /\ op[s].kind \in {"drop", "tail", "cut"} => /\ op[s].at = op[s].end
                                               /\ op[s].end < len[s]
    /\ op[s].kind = "tail" => ~AtBlock(op[s].end)

TypeInv == TypeOK /\ OpShape

\* An operation that touches a block touches one of the file.
LEMMA TouchingType ==
  ASSUME TypeInv, NEW s \in Scratches, Touching(op[s])
  PROVE  /\ op[s] \in Op
         /\ Target(op[s]) \in Blocks
         /\ PartEnd(op[s]) \in Pos
         /\ op[s].at < PartEnd(op[s])
         /\ op[s].kind = "write" => PartEnd(op[s]) <= op[s].end
         /\ Advance(op[s]) \in Op
<1>1. op[s] \in Op /\ len[s] \in Pos
  BY DEF TypeInv, TypeOK
<1>2. /\ op[s].at \in Nat /\ op[s].end \in Nat
      /\ op[s].end <= NBlocks * BlockSize /\ len[s] <= NBlocks * BlockSize
      /\ NBlocks * BlockSize \in Nat /\ len[s] \in Nat
  BY <1>1, FileAssumption DEF Op, Pos
<1>3. op[s].at < NBlocks * BlockSize
  BY <1>2 DEF Touching, TypeInv, OpShape
<1>4. op[s].kind = "write" => op[s].at <= op[s].end
  BY DEF TypeInv, OpShape
<1> QED
  BY <1>1, <1>3, <1>4, TargetType

\* The shape survives the change of one block.
LEMMA AdvanceShape ==
  ASSUME TypeInv, NEW s \in Scratches, Touching(op[s]),
         op' = [op EXCEPT ![s] = Advance(op[s])], len' = len
  PROVE  OpShape'
<1>1. PartEnd(op[s]) \in Pos /\ (op[s].kind = "write" => PartEnd(op[s]) <= op[s].end)
  BY TouchingType
<1>2. op[s] \in Op /\ op \in [Scratches -> Op]
  BY DEF TypeInv, TypeOK
<1>3. ASSUME NEW t \in Scratches
      PROVE  /\ op'[t].kind = "write" => op'[t].at <= op'[t].end
             /\ op'[t].kind \in {"drop", "tail", "cut"} => /\ op'[t].at = op'[t].end
                                                         /\ op'[t].end < len[t]
             /\ op'[t].kind = "tail" => ~AtBlock(op'[t].end)
  <2>1. CASE t = s /\ op[s].kind = "write"
    <3>1. op'[t] = [op[s] EXCEPT !.at = PartEnd(op[s])]
      BY <1>2, <2>1 DEF Advance
    <3>2. op'[t].kind = "write" /\ op'[t].at = PartEnd(op[s]) /\ op'[t].end = op[s].end
      BY <1>2, <2>1, <3>1 DEF Op
    <3> QED BY <1>1, <2>1, <3>2
  <2>2. CASE t = s /\ op[s].kind # "write"
    <3>1. op[s].kind = "tail"
      BY <2>2 DEF Touching
    <3>2. op'[t] = [op[s] EXCEPT !.kind = "cut"]
      BY <1>2, <2>2 DEF Advance
    <3>3. op'[t].kind = "cut" /\ op'[t].at = op[s].at /\ op'[t].end = op[s].end
      BY <1>2, <3>2 DEF Op
    <3> QED BY <2>2, <3>1, <3>3 DEF TypeInv, OpShape
  <2>3. CASE t # s
    <3>1. op'[t] = op[t]
      BY <1>2, <2>3
    <3> QED BY <3>1 DEF TypeInv, OpShape
  <2> QED BY <2>1, <2>2, <2>3
<1> QED
  BY <1>3 DEF OpShape, AtBlock
\* Another operation in place of the one that ran, or the same lengths with none.
LEMMA NewOpShape ==
  ASSUME TypeInv, NEW s \in Scratches, NEW o \in Op, op' = [op EXCEPT ![s] = o],
         \A t \in Scratches \ {s} : len'[t] = len[t],
         o.kind = "write" => o.at <= o.end,
         o.kind \in {"drop", "tail", "cut"} => o.at = o.end /\ o.end < len'[s],
         o.kind = "tail" => ~AtBlock(o.end)
  PROVE  OpShape'
<1>1. \A t \in Scratches : op'[t] = IF t = s THEN o ELSE op[t]
  BY DEF TypeInv, TypeOK
<1> QED
  BY <1>1 DEF TypeInv, OpShape, AtBlock

\* The length of the cache is a number: it holds blocks of one file.
LEMMA CacheLenType ==
  ASSUME NEW s \in Scratches, cache[s] \in SUBSET Blocks
  PROVE  IsFiniteSet(cache[s]) /\ CacheLen(s) \in Nat
<1>1. IsFiniteSet(Blocks)
  BY FS_Interval, FileAssumption DEF Blocks
<1>2. IsFiniteSet(cache[s])
  BY <1>1, FS_Subset
<1> QED
  BY <1>2, FS_CardinalityType DEF CacheLen

\* No block twice in the LRU list.
Distinct(q) == \A i, j \in 1 .. Len(q) : q[i] = q[j] => i = j

\* The elements of a list of blocks, by position.
LEMMA ListDomain ==
  ASSUME NEW q \in Seq(Blocks)
  PROVE  /\ Len(q) \in Nat
         /\ DOMAIN q = 1 .. Len(q)
         /\ ToSet(q) = {q[i] : i \in 1 .. Len(q)}
         /\ \A i \in 1 .. Len(q) : q[i] \in Blocks
BY LenProperties, ElementOfSeq DEF ToSet

\* Removing a block from the list removes it and nothing else.
LEMMA ForgetProps ==
  ASSUME NEW q \in Seq(Blocks), NEW b \in ToSet(q), Distinct(q)
  PROVE  /\ Forget(q, b) \in Seq(Blocks)
         /\ ToSet(Forget(q, b)) = ToSet(q) \ {b}
         /\ Distinct(Forget(q, b))
<1> DEFINE p == PositionOf(q, b)
           r == Forget(q, b)
           front == SubSeq(q, 1, p - 1)
           back  == SubSeq(q, p + 1, Len(q))
<1>0. Len(q) \in Nat /\ \A i \in 1 .. Len(q) : q[i] \in Blocks
  BY ListDomain
<1>1. p \in 1 .. Len(q) /\ q[p] = b
  BY ListDomain DEF PositionOf
<1>2. r = front \o back
  BY DEF Forget, RemoveAt
<1> HIDE DEF p
<1>3. /\ front \in Seq(Blocks) /\ Len(front) = p - 1
      /\ \A i \in 1 .. p - 1 : front[i] = q[i]
  <2>1. 1 \in Int /\ p - 1 \in Int /\ \A i \in 1 .. p - 1 : q[i] \in Blocks
    BY <1>0, <1>1
  <2>2. /\ front \in Seq(Blocks)
        /\ Len(front) = IF 1 <= p - 1 THEN p - 1 - 1 + 1 ELSE 0
        /\ \A i \in 1 .. p - 1 - 1 + 1 : front[i] = q[1 + i - 1]
    BY <2>1, SubSeqProperties
  <2> HIDE DEF front
  <2>3. \A i \in 1 .. p - 1 : 1 + i - 1 = i /\ i \in 1 .. p - 1 - 1 + 1
    BY <1>1
  <2> QED BY <1>0, <1>1, <2>2, <2>3
<1>4. /\ back \in Seq(Blocks) /\ Len(back) = Len(q) - p
      /\ \A i \in 1 .. Len(q) - p : back[i] = q[p + i]
  <2>1. p + 1 \in Int /\ Len(q) \in Int /\ \A i \in p + 1 .. Len(q) : q[i] \in Blocks
    BY <1>0, <1>1
  <2>2. /\ back \in Seq(Blocks)
        /\ Len(back) = IF p + 1 <= Len(q) THEN Len(q) - (p + 1) + 1 ELSE 0
        /\ \A i \in 1 .. Len(q) - (p + 1) + 1 : back[i] = q[p + 1 + i - 1]
    BY <2>1, SubSeqProperties
  <2> HIDE DEF back
  <2>3. \A i \in 1 .. Len(q) - p : p + 1 + i - 1 = p + i /\ i \in 1 .. Len(q) - (p + 1) + 1
    BY <1>0, <1>1
  <2> QED BY <1>0, <1>1, <2>2, <2>3
<1> HIDE DEF front, back
<1>5. /\ r \in Seq(Blocks)
      /\ Len(r) = Len(q) - 1
      /\ \A i \in 1 .. Len(q) - 1 : r[i] = IF i < p THEN q[i] ELSE q[i + 1]
  <2>1. /\ r \in Seq(Blocks)
        /\ Len(r) = Len(front) + Len(back)
        /\ \A i \in 1 .. Len(front) + Len(back) :
              r[i] = IF i <= Len(front) THEN front[i] ELSE back[i - Len(front)]
    <3>1. front \in Seq(Blocks) /\ back \in Seq(Blocks)
      BY <1>3, <1>4
    <3>2. /\ front \o back \in Seq(Blocks)
          /\ Len(front \o back) = Len(front) + Len(back)
          /\ \A i \in 1 .. Len(front) + Len(back) :
               (front \o back)[i] = IF i <= Len(front) THEN front[i] ELSE back[i - Len(front)]
      BY <3>1, ConcatProperties, Zenon
    <3> QED BY <1>2, <3>2, Zenon
  <2> HIDE DEF r
  <2>2. ASSUME NEW i \in 1 .. Len(q) - 1
        PROVE  r[i] = IF i < p THEN q[i] ELSE q[i + 1]
    <3>1. CASE i < p
      <4>1. i \in 1 .. Len(front) + Len(back) /\ i <= Len(front) /\ i \in 1 .. p - 1
        BY <1>0, <1>1, <1>3, <1>4, <3>1
      <4> QED BY <1>3, <2>1, <3>1, <4>1
    <3>2. CASE ~(i < p)
      <4>1. i - (p - 1) \in 1 .. Len(q) - p /\ p + (i - (p - 1)) = i + 1
        BY <1>0, <1>1, <3>2
      <4>2. r[i] = back[i - (p - 1)]
        <5>1. i \in 1 .. Len(front) + Len(back) /\ ~(i <= Len(front))
          BY <1>0, <1>1, <1>3, <1>4, <3>2
        <5> QED BY <1>3, <2>1, <5>1
      <4> QED BY <1>4, <3>2, <4>1, <4>2
    <3> QED BY <3>1, <3>2
  <2> QED BY <1>0, <1>1, <1>3, <1>4, <2>1, <2>2
<1> HIDE DEF r
<1>6. ToSet(r) = {r[i] : i \in 1 .. Len(r)} /\ ToSet(q) = {q[i] : i \in 1 .. Len(q)}
  BY <1>5, ListDomain
<1>7. ASSUME NEW i \in 1 .. Len(r)
      PROVE  r[i] \in ToSet(q) /\ r[i] # b
  <2>1. CASE i < p
    BY <1>0, <1>1, <1>5, <1>6, <2>1 DEF Distinct
  <2>2. CASE ~(i < p)
    <3>1. i + 1 \in 1 .. Len(q) /\ i + 1 # p /\ r[i] = q[i + 1]
      BY <1>0, <1>1, <1>5, <2>2
    <3> QED BY <1>1, <1>6, <3>1 DEF Distinct
  <2> QED BY <2>1, <2>2
<1>8. ASSUME NEW i \in 1 .. Len(q), q[i] # b
      PROVE  \E j \in 1 .. Len(r) : r[j] = q[i]
  <2>1. CASE i < p
    BY <1>0, <1>1, <1>5, <2>1
  <2>2. CASE i > p
    <3>1. i - 1 \in 1 .. Len(r) /\ r[i - 1] = q[i]
      BY <1>0, <1>1, <1>5, <2>2
    <3> QED BY <3>1
  <2> QED BY <1>0, <1>1, <1>8, <2>1, <2>2
<1>9. ToSet(r) = ToSet(q) \ {b}
  <2>1. \A x \in ToSet(r) : x \in ToSet(q) /\ x # b
    BY <1>6, <1>7
  <2>2. \A x \in ToSet(q) : x # b => x \in ToSet(r)
    BY <1>6, <1>8
  <2> QED BY <2>1, <2>2
<1>10. Distinct(r)
  <2> SUFFICES ASSUME NEW i \in 1 .. Len(r), NEW j \in 1 .. Len(r), r[i] = r[j]
               PROVE  i = j
    BY DEF Distinct
  <2> DEFINE f(k) == IF k < p THEN k ELSE k + 1
  <2>1. f(i) \in 1 .. Len(q) /\ f(j) \in 1 .. Len(q)
    BY <1>0, <1>1, <1>5
  <2>2. r[i] = q[f(i)] /\ r[j] = q[f(j)]
    BY <1>0, <1>1, <1>5
  <2>3. f(i) = f(j)
    <3> HIDE DEF f
    <3> QED BY <2>1, <2>2 DEF Distinct
  <2> QED BY <1>0, <1>1, <1>5, <2>3
<1> QED
  BY <1>5, <1>9, <1>10 DEF r

\* Appending a block that is not in the list.
LEMMA AppendProps ==
  ASSUME NEW q \in Seq(Blocks), NEW b \in Blocks, b \notin ToSet(q), Distinct(q)
  PROVE  /\ Append(q, b) \in Seq(Blocks)
         /\ ToSet(Append(q, b)) = ToSet(q) \cup {b}
         /\ Distinct(Append(q, b))
<1> DEFINE r == Append(q, b)
<1>0. Len(q) \in Nat /\ ToSet(q) = {q[i] : i \in 1 .. Len(q)}
  BY ListDomain
<1>1. /\ r \in Seq(Blocks) /\ Len(r) = Len(q) + 1
      /\ r[Len(q) + 1] = b /\ \A i \in 1 .. Len(q) : r[i] = q[i]
  OBVIOUS
<1> HIDE DEF r
<1>2. ToSet(r) = {r[i] : i \in 1 .. Len(r)}
  BY <1>1, ListDomain
<1>3. \A i \in 1 .. Len(r) : i \in 1 .. Len(q) \/ i = Len(q) + 1
  BY <1>0, <1>1
<1>4. \A i \in 1 .. Len(q) : i \in 1 .. Len(r)
  BY <1>0, <1>1
<1>5. Len(q) + 1 \in 1 .. Len(r)
  BY <1>0, <1>1
<1>6. ToSet(r) = ToSet(q) \cup {b}
  <2>1. \A x \in ToSet(r) : x \in ToSet(q) \/ x = b
    BY <1>0, <1>1, <1>2, <1>3
  <2>2. \A x \in ToSet(q) : x \in ToSet(r)
    BY <1>0, <1>1, <1>2, <1>4
  <2>3. b \in ToSet(r)
    BY <1>1, <1>2, <1>5
  <2> QED BY <2>1, <2>2, <2>3
<1>7. Distinct(r)
  <2>1. \A i \in 1 .. Len(q) : q[i] # b
    BY <1>0
  <2> QED BY <1>1, <1>3, <2>1 DEF Distinct
<1> QED
  BY <1>1, <1>6, <1>7 DEF r

LEMMA TouchProps ==
  ASSUME NEW q \in Seq(Blocks), NEW b \in ToSet(q), Distinct(q)
  PROVE  /\ Touch(q, b) \in Seq(Blocks)
         /\ ToSet(Touch(q, b)) = ToSet(q)
         /\ Distinct(Touch(q, b))
<1>1. b \in Blocks
  BY ListDomain
<1>2. /\ Forget(q, b) \in Seq(Blocks)
      /\ ToSet(Forget(q, b)) = ToSet(q) \ {b}
      /\ Distinct(Forget(q, b))
  BY ForgetProps
<1>3. b \notin ToSet(Forget(q, b))
  BY <1>2
<1>4. /\ Append(Forget(q, b), b) \in Seq(Blocks)
      /\ ToSet(Append(Forget(q, b), b)) = ToSet(Forget(q, b)) \cup {b}
      /\ Distinct(Append(Forget(q, b), b))
  BY <1>1, <1>2, <1>3, AppendProps
<1> QED
  BY <1>2, <1>4 DEF Touch

\* Popping the head of the list.
LEMMA TailProps ==
  ASSUME NEW q \in Seq(Blocks), q # <<>>, Distinct(q)
  PROVE  /\ Head(q) \in ToSet(q)
         /\ Tail(q) \in Seq(Blocks)
         /\ ToSet(Tail(q)) = ToSet(q) \ {Head(q)}
         /\ Distinct(Tail(q))
<1> DEFINE r == Tail(q)
           h == Head(q)
<1>0. Len(q) \in Nat /\ ToSet(q) = {q[i] : i \in 1 .. Len(q)}
  BY ListDomain
<1>1. /\ Len(q) >= 1 /\ h = q[1] /\ r \in Seq(Blocks) /\ Len(r) = Len(q) - 1
      /\ \A i \in 1 .. Len(r) : r[i] = q[i + 1]
  BY <1>0, HeadTailProperties, EmptySeq
<1> HIDE DEF r, h
<1>2. ToSet(r) = {r[i] : i \in 1 .. Len(r)}
  BY <1>1, ListDomain
<1>3. ASSUME NEW i \in 1 .. Len(r)
      PROVE  r[i] \in ToSet(q) /\ r[i] # h
  <2>1. i + 1 \in 1 .. Len(q) /\ i + 1 # 1 /\ 1 \in 1 .. Len(q)
    BY <1>0, <1>1
  <2> QED BY <1>0, <1>1, <2>1 DEF Distinct
<1>4. ASSUME NEW i \in 1 .. Len(q), q[i] # h
      PROVE  \E j \in 1 .. Len(r) : r[j] = q[i]
  <2>1. i - 1 \in 1 .. Len(r) /\ (i - 1) + 1 = i
    BY <1>0, <1>1, <1>4
  <2> QED BY <1>1, <2>1
<1>5. ToSet(r) = ToSet(q) \ {h}
  <2>1. \A x \in ToSet(r) : x \in ToSet(q) /\ x # h
    BY <1>2, <1>3
  <2>2. \A x \in ToSet(q) : x # h => x \in ToSet(r)
    BY <1>0, <1>2, <1>4
  <2> QED BY <2>1, <2>2
<1>6. Distinct(r)
  <2> SUFFICES ASSUME NEW i \in 1 .. Len(r), NEW j \in 1 .. Len(r), r[i] = r[j]
               PROVE  i = j
    BY DEF Distinct
  <2>1. i + 1 \in 1 .. Len(q) /\ j + 1 \in 1 .. Len(q) /\ q[i + 1] = q[j + 1]
    BY <1>0, <1>1
  <2>2. i + 1 = j + 1
    BY <2>1 DEF Distinct
  <2> QED BY <1>1, <2>2
<1>7. h \in ToSet(q)
  BY <1>0, <1>1
<1> QED
  BY <1>1, <1>5, <1>6, <1>7 DEF r, h

\* OrderIsCache in the terms of the lemmas above.
LEMMA OrderDistinct ==
  ASSUME TypeOK
  PROVE  OrderIsCache <=> \A s \in Scratches : cache[s] = ToSet(order[s]) /\ Distinct(order[s])
<1>1. \A s \in Scratches : DOMAIN order[s] = 1 .. Len(order[s])
  BY ListDomain DEF TypeOK
<1> QED
  BY <1>1 DEF OrderIsCache, Distinct
-----------------------------------------------------------------------------
LEMMA TypeInit == Init => TypeInv
<1> SUFFICES ASSUME Init PROVE TypeInv
  OBVIOUS
<1>1. TypeOK
  BY BlankType, OpTypes DEF Init, TypeOK, Matrix, NoUpload
<1>2. \A s \in Scratches : op[s] = Idle
  BY DEF Init
<1>3. OpShape
  <2>1. \A s \in Scratches : op[s].kind = "idle"
    <3>1. Idle.kind = "idle"
      BY DEF Idle
    <3> QED BY <1>2, <3>1
  <2> QED BY <2>1 DEF OpShape, AtBlock
<1> QED
  BY <1>1, <1>3 DEF TypeInv

LEMMA TypeNext == TypeInv /\ OrderIsCache /\ [Next]_vars => TypeInv'
<1> SUFFICES ASSUME TypeInv, OrderIsCache, [Next]_vars PROVE TypeInv'
  OBVIOUS
<1> USE BlankType, OpTypes
<1>0. TypeOK /\ \A s \in Scratches : cache[s] = ToSet(order[s]) /\ Distinct(order[s])
  BY OrderDistinct DEF TypeInv
<1>1. ASSUME NEW s \in Scratches, NEW off \in Pos, NEW end \in Pos, NEW v \in Values,
             BeginWrite(s, off, end, v)
      PROVE  TypeInv'
  <2>1. TypeOK'
    BY <1>0, <1>1 DEF TypeOK, BeginWrite, pool, ram, spill, sync
  <2>2. op' = [op EXCEPT ![s] = WriteOp(off, end, v)] /\ len' = len /\ off < end
    BY <1>1 DEF BeginWrite
  <2>3. off \in Int /\ end \in Int
    BY FileAssumption DEF Pos
  <2>4. OpShape'
    <3>1. /\ WriteOp(off, end, v) \in Op /\ WriteOp(off, end, v).kind = "write"
          /\ WriteOp(off, end, v).at = off /\ WriteOp(off, end, v).end = end
      BY DEF WriteOp
    <3> DEFINE o == WriteOp(off, end, v)
    <3>2. /\ o \in Op /\ o.at <= o.end /\ op' = [op EXCEPT ![s] = o]
          /\ ~(o.kind \in {"drop", "tail", "cut"}) /\ o.kind # "tail"
          /\ \A t \in Scratches \ {s} : len'[t] = len[t]
      BY <2>2, <2>3, <3>1
    <3> HIDE DEF o
    <3> QED BY <3>2, NewOpShape
  <2> QED BY <2>1, <2>4 DEF TypeInv
<1>2. ASSUME NEW s \in Scratches, NEW n \in Pos, BeginShrink(s, n)
      PROVE  TypeInv'
  <2>1. TypeOK'
    BY <1>0, <1>2 DEF TypeOK, BeginShrink, pool, ram, spill, sync
  <2>2. op' = [op EXCEPT ![s] = CutOp("drop", n)] /\ len' = len /\ n < len[s]
    BY <1>2 DEF BeginShrink
  <2>3. OpShape'
    BY <2>2, NewOpShape DEF CutOp
  <2> QED BY <2>1, <2>3 DEF TypeInv
<1>3. ASSUME NEW s \in Scratches, NEW n \in Pos, Extend(s, n)
      PROVE  TypeInv'
  <2>1. TypeOK'
    BY <1>0, <1>3 DEF TypeOK, Extend, pool, ram, spill, sync
  <2>2. op' = op /\ op[s] = Idle /\ \A t \in Scratches \ {s} : len'[t] = len[t]
    BY <1>0, <1>3 DEF Extend, TypeOK
  <2>3. op' = [op EXCEPT ![s] = Idle]
    BY <1>0, <2>2 DEF TypeOK
  <2>4. OpShape'
    BY <2>2, <2>3, NewOpShape DEF Idle
  <2> QED BY <2>1, <2>4 DEF TypeInv
<1>4. ASSUME NEW s \in Scratches, WriteThrough(s)
      PROVE  TypeInv'
  <2>1. Touching(op[s])
    BY <1>4 DEF WriteThrough
  <2>2. Target(op[s]) \in Blocks /\ Advance(op[s]) \in Op /\ op[s] \in Op
    BY <2>1, TouchingType
  <2>3. disk[s][Target(op[s])] \in Block
    BY <1>0, <2>2 DEF TypeOK, Matrix
  <2>4. Overwrite(disk[s][Target(op[s])], op[s]) \in Block
    BY <2>2, <2>3, OverwriteType
  <2>5. disk' \in [Scratches -> Matrix]
    BY <1>0, <1>4, <2>2, <2>4 DEF TypeOK, Matrix, WriteThrough
  <2>6. TypeOK'
    BY <1>0, <1>4, <2>2, <2>5 DEF TypeOK, WriteThrough, pool, ram, sync
  <2>7. OpShape'
    BY <1>4, <2>1, AdvanceShape DEF WriteThrough
  <2> QED BY <2>6, <2>7 DEF TypeInv
<1>5. ASSUME NEW s \in Scratches, ChangeCached(s)
      PROVE  TypeInv'
  <2>1. Touching(op[s])
    BY <1>5 DEF ChangeCached
  <2>2. Target(op[s]) \in Blocks /\ Advance(op[s]) \in Op /\ op[s] \in Op
    BY <2>1, TouchingType
  <2>3. mem[s][Target(op[s])] \in Block
    BY <1>0, <2>2 DEF TypeOK, Matrix
  <2>4. Overwrite(mem[s][Target(op[s])], op[s]) \in Block
    BY <2>2, <2>3, OverwriteType
  <2>5. mem' \in [Scratches -> Matrix]
    BY <1>0, <1>5, <2>2, <2>4 DEF TypeOK, Matrix, ChangeCached
  <2>6. Touch(order[s], Target(op[s])) \in Seq(Blocks)
    <3>1. /\ order[s] \in Seq(Blocks) /\ Distinct(order[s])
          /\ Target(op[s]) \in ToSet(order[s])
      BY <1>0, <1>5 DEF TypeOK, ChangeCached
    <3> QED BY <3>1, TouchProps
  <2>7. TypeOK'
    BY <1>0, <1>5, <2>2, <2>5, <2>6 DEF TypeOK, ChangeCached, pool, spill, sync
  <2>8. OpShape'
    BY <1>5, <2>1, AdvanceShape DEF ChangeCached
  <2> QED BY <2>7, <2>8 DEF TypeInv
<1>6. ASSUME NEW s \in Scratches, ChangeLoaded(s)
      PROVE  TypeInv'
  <2>1. Touching(op[s])
    BY <1>6 DEF ChangeLoaded, NeedsBlock
  <2>2. Target(op[s]) \in Blocks /\ Advance(op[s]) \in Op /\ op[s] \in Op
    BY <2>1, TouchingType
  <2> DEFINE data == IF Full(op[s]) THEN Blank ELSE Backing(s, Target(op[s]))
  <2>3. data \in Block
    BY <1>0, <2>2 DEF TypeOK, Matrix, Backing
  <2>4. Overwrite(data, op[s]) \in Block
    BY <2>2, <2>3, OverwriteType
  <2>5. mem' = [mem EXCEPT ![s][Target(op[s])] = Overwrite(data, op[s])]
    BY <1>6 DEF ChangeLoaded
  <2> HIDE DEF data
  <2>6. mem' \in [Scratches -> Matrix]
    BY <1>0, <2>2, <2>4, <2>5 DEF TypeOK, Matrix
  <2>7. used' \in Int /\ reserved' \in [Scratches -> Int]
    BY <1>0, <1>6 DEF TypeOK, ChangeLoaded, Reserve, pool
  <2>8. TypeOK'
    BY <1>0, <1>6, <2>2, <2>6, <2>7 DEF TypeOK, ChangeLoaded, spill, sync
  <2>9. OpShape'
    BY <1>6, <2>1, AdvanceShape DEF ChangeLoaded
  <2> QED BY <2>8, <2>9 DEF TypeInv
<1>7. ASSUME NEW s \in Scratches, LoadFails(s)
      PROVE  TypeInv'
  <2>1. used' \in Int /\ reserved' \in [Scratches -> Int]
    BY <1>0, <1>7 DEF TypeOK, LoadFails, Reserve, pool
  <2>2. /\ op' = [op EXCEPT ![s] = Idle] /\ failed' = [failed EXCEPT ![s] = @ + 1]
        /\ UNCHANGED <<ram, onDisk, disk, len, gen, sync>>
    BY <1>7 DEF LoadFails, Fails
  <2>3. TypeOK'
    BY <1>0, <2>1, <2>2 DEF TypeOK, ram, sync
  <2>4. OpShape'
    BY <2>2, NewOpShape DEF Idle
  <2> QED BY <2>3, <2>4 DEF TypeInv
<1>8. ASSUME NEW s \in Scratches, EvictLru(s)
      PROVE  TypeInv'
  <2>1. mem' \in [Scratches -> Matrix] /\ disk' \in [Scratches -> Matrix]
    <3>1. mem' = [mem EXCEPT ![s][Head(order[s])] = Blank] /\ mem \in [Scratches -> [Blocks -> Block]]
      BY <1>0, <1>8 DEF TypeOK, Matrix, EvictLru
    <3>2. mem' \in [Scratches -> [Blocks -> Block]]
      BY <3>1
    <3>3. CASE Head(order[s]) \in dirty[s]
      <4>1. /\ disk' = [disk EXCEPT ![s][Head(order[s])] = mem[s][Head(order[s])]]
            /\ Head(order[s]) \in Blocks
            /\ disk \in [Scratches -> [Blocks -> Block]] /\ mem[s] \in [Blocks -> Block]
        BY <1>0, <1>8, <3>3 DEF TypeOK, Matrix, EvictLru
      <4>2. mem[s][Head(order[s])] \in Block
        BY <4>1
      <4> QED BY <3>2, <4>1, <4>2 DEF Matrix
    <3>4. CASE Head(order[s]) \notin dirty[s]
      BY <1>0, <1>8, <3>2, <3>4 DEF TypeOK, Matrix, EvictLru, spill
    <3> QED BY <3>3, <3>4
  <2>2. Head(order[s]) \in Blocks /\ Tail(order[s]) \in Seq(Blocks)
    <3>1. cache[s] # {} /\ cache[s] = ToSet(order[s]) /\ order[s] \in Seq(Blocks)
      BY <1>0, <1>8 DEF EvictLru, MustEvict, TypeOK
    <3>2. order[s] # <<>>
      BY <3>1 DEF ToSet
    <3> QED BY <3>1, <3>2
  <2>3. used' \in Int /\ reserved' \in [Scratches -> Int]
    BY <1>0, <1>8 DEF TypeOK, EvictLru, pool
  <2>4. cache' \in [Scratches -> SUBSET Blocks] /\ dirty' \in [Scratches -> SUBSET Blocks]
    BY <1>0, <1>8 DEF TypeOK, EvictLru
  <2>5. onDisk' \in [Scratches -> SUBSET Blocks] /\ order' \in [Scratches -> Seq(Blocks)]
    <3>1. CASE Head(order[s]) \in dirty[s]
      <4>1. onDisk' = [onDisk EXCEPT ![s] = @ \cup {Head(order[s])}]
        BY <1>8, <3>1 DEF EvictLru
      <4>2. order' = [order EXCEPT ![s] = Tail(@)]
        BY <1>8 DEF EvictLru
      <4> QED BY <1>0, <2>2, <4>1, <4>2 DEF TypeOK
    <3>2. CASE Head(order[s]) \notin dirty[s]
      BY <1>0, <1>8, <2>2, <3>2 DEF TypeOK, EvictLru, spill
    <3> QED BY <3>1, <3>2
  <2>6. UNCHANGED <<failed, len, gen, op, committed, upload, remote>>
    BY <1>8 DEF EvictLru, sync
  <2>7. TypeOK'
    BY <1>0, <2>1, <2>3, <2>4, <2>5, <2>6 DEF TypeOK
  <2>8. OpShape'
    BY <2>6 DEF TypeInv, OpShape, AtBlock
  <2> QED BY <2>7, <2>8 DEF TypeInv
<1>9. ASSUME NEW s \in Scratches, SpillFails(s)
      PROVE  TypeInv'
  <2>1. TypeOK'
    BY <1>0, <1>9 DEF TypeOK, SpillFails, Fails, pool, ram, sync
  <2>2. OpShape'
    BY <1>9, NewOpShape DEF SpillFails, Fails, Idle
  <2> QED BY <2>1, <2>2 DEF TypeInv
<1>10. ASSUME NEW s \in Scratches, Finish(s)
       PROVE  TypeInv'
  <2>1. op[s] \in Op /\ op[s].end \in Pos /\ len[s] \in Pos
    BY <1>0 DEF TypeOK, Op
  <2>2. Max2(len[s], op[s].end) \in Pos
    BY <2>1 DEF Max2
  <2>3. len' \in [Scratches -> Pos] /\ gen' \in [Scratches -> Nat] /\ op' \in [Scratches -> Op]
    <3>1. len' = [len EXCEPT ![s] = Max2(@, op[s].end)] \/ len' = [len EXCEPT ![s] = op[s].end]
      BY <1>10 DEF Finish
    <3>2. gen' = [gen EXCEPT ![s] = @ + 1] /\ op' = [op EXCEPT ![s] = Idle]
      BY <1>10 DEF Finish
    <3>3. len' \in [Scratches -> Pos]
      BY <1>0, <2>1, <2>2, <3>1 DEF TypeOK
    <3>4. gen' \in [Scratches -> Nat]
      <4>1. gen \in [Scratches -> Nat]
        BY <1>0 DEF TypeOK
      <4> QED BY <3>2, <4>1
    <3>5. op' \in [Scratches -> Op]
      <4>1. op \in [Scratches -> Op]
        BY <1>0 DEF TypeOK
      <4> QED BY <3>2, <4>1
    <3> QED BY <3>3, <3>4, <3>5
  <2>6. TypeOK'
    BY <1>0, <1>10, <2>3 DEF TypeOK, Finish, pool, ram, spill, sync
  <2>4. \A t \in Scratches \ {s} : len'[t] = len[t]
    BY <1>0, <1>10 DEF TypeOK, Finish
  <2>5. OpShape'
    BY <1>10, <2>4, NewOpShape DEF Finish, Idle
  <2> QED BY <2>5, <2>6 DEF TypeInv
<1>11. ASSUME NEW s \in Scratches, Truncate(s)
       PROVE  TypeInv'
  <2> DEFINE n == op[s].end
             k == IF ~AtBlock(n) /\ BlockOf(n) \in cache[s] \cup onDisk[s] THEN "tail" ELSE "cut"
  <2>1. op[s] \in Op /\ op[s].kind = "drop"
    BY <1>0, <1>11 DEF TypeOK, Truncate
  <2>2. op' = [op EXCEPT ![s] = [op[s] EXCEPT !.kind = k]]
    BY <1>0, <1>11 DEF Truncate, HasTail, TypeOK
  <2>3. /\ [op[s] EXCEPT !.kind = k] \in Op
        /\ [op[s] EXCEPT !.kind = k].kind = k
        /\ [op[s] EXCEPT !.kind = k].at = op[s].at
        /\ [op[s] EXCEPT !.kind = k].end = op[s].end
    BY <2>1 DEF Op
  <2>4. k \in {"tail", "cut"} /\ (k = "tail" => ~AtBlock(op[s].end))
    OBVIOUS
  <2>5. op[s].at = op[s].end /\ op[s].end < len[s] /\ len' = len
    BY <1>11, <2>1 DEF TypeInv, OpShape, Truncate
  <2>6. op' \in [Scratches -> Op]
    BY <1>0, <2>2, <2>3 DEF TypeOK
  <2>7. CacheLen(s) \in Nat
    BY <1>0, CacheLenType DEF TypeOK
  <2>8. used' \in Int /\ reserved' \in [Scratches -> Int]
    BY <1>0, <1>11, <2>7 DEF TypeOK, Truncate, Surplus, Max2
  <2>9. disk' \in [Scratches -> Matrix] /\ onDisk' \in [Scratches -> SUBSET Blocks]
    BY <1>0, <1>11 DEF TypeOK, Truncate, Matrix
  <2>10. TypeOK'
    BY <1>0, <1>11, <2>6, <2>8, <2>9 DEF TypeOK, Truncate, ram, sync
  <2> HIDE DEF k
  <2>11. OpShape'
    BY <2>2, <2>3, <2>4, <2>5, NewOpShape
  <2> QED BY <2>10, <2>11 DEF TypeInv
<1>12. ASSUME NEW s \in Scratches, NEW b \in Blocks, DropBlock(s, b)
       PROVE  TypeInv'
  <2>1. Forget(order[s], b) \in Seq(Blocks)
    <3>1. order[s] \in Seq(Blocks) /\ Distinct(order[s]) /\ b \in ToSet(order[s])
      BY <1>0, <1>12 DEF TypeOK, DropBlock, Doomed
    <3> QED BY <3>1, ForgetProps
  <2>2. mem' \in [Scratches -> Matrix]
    BY <1>0, <1>12 DEF TypeOK, Matrix, DropBlock
  <2>3. TypeOK'
    BY <1>0, <1>12, <2>1, <2>2 DEF TypeOK, DropBlock, pool, spill, sync
  <2>4. OpShape'
    BY <1>12 DEF DropBlock, TypeInv, OpShape, AtBlock
  <2> QED BY <2>3, <2>4 DEF TypeInv
<1>13. ASSUME NEW s \in Scratches, BeginUpload(s)
       PROVE  TypeInv'
  <2>1. [NoUpload EXCEPT !.on = TRUE, !.gen = gen[s], !.end = len[s]] \in
          [on : BOOLEAN, gen : Nat, pos : Pos, end : Pos, data : Matrix]
    BY <1>0 DEF TypeOK, NoUpload, Matrix
  <2>2. TypeOK'
    BY <1>0, <1>13, <2>1 DEF TypeOK, BeginUpload, pool, ram, spill
  <2>3. OpShape'
    BY <1>13 DEF BeginUpload, TypeInv, OpShape, AtBlock
  <2> QED BY <2>2, <2>3 DEF TypeInv
<1>14. ASSUME NEW s \in Scratches, ReadChunk(s)
       PROVE  TypeInv'
  <2> DEFINE u == upload[s]
             b == BlockOf(u.pos)
             chunk == [c \in Cells |->
                         IF u.pos <= b * BlockSize + c /\ b * BlockSize + c < ReadEnd(s)
                         THEN Held(s, b)[c] ELSE u.data[b][c]]
  <2>1. /\ u.on \in BOOLEAN /\ u.gen \in Nat /\ u.pos \in Pos /\ u.end \in Pos
        /\ u.data \in Matrix /\ len[s] \in Pos
        /\ upload \in [Scratches -> [on : BOOLEAN, gen : Nat, pos : Pos, end : Pos,
                                      data : Matrix]]
    BY <1>0 DEF TypeOK
  <2>2. /\ u.pos \in Nat /\ u.end \in Nat /\ u.end <= NBlocks * BlockSize
        /\ u.pos < u.end /\ BlockSize \in Nat \ {0} /\ NBlocks \in Nat \ {0}
        /\ NBlocks * BlockSize \in Nat
    BY <1>14, <2>1, FileAssumption DEF ReadChunk, Pos
  <2>3. b \in Blocks
    <3>1. u.pos < NBlocks * BlockSize
      BY <2>2
    <3>2. u.pos \div BlockSize \in Nat /\ u.pos \div BlockSize < NBlocks
      BY <2>2, <3>1, DivBounds, DivLess
    <3> QED BY <2>2, <3>2 DEF BlockOf, Blocks
  <2>4. ReadEnd(s) \in Pos
    <3>1. (BlockOf(u.pos) + 1) * BlockSize \in Nat
      BY <2>2, <2>3, BlockEndBound DEF Blocks
    <3> QED BY <2>1, <2>2, <3>1 DEF ReadEnd, Min2, Pos
  <2>5. Held(s, b) \in Block /\ u.data[b] \in Block
    BY <1>0, <2>1, <2>3 DEF TypeOK, Held, Backing, Matrix
  <2>6. chunk \in Block
    BY <2>5 DEF Block
  <2>7. upload' = [upload EXCEPT ![s].pos = ReadEnd(s), ![s].data[b] = chunk]
    BY <1>14 DEF ReadChunk
  <2> HIDE DEF chunk, b, u
  <2>8. upload' \in [Scratches -> [on : BOOLEAN, gen : Nat, pos : Pos, end : Pos,
                                   data : Matrix]]
    BY <2>1, <2>3, <2>4, <2>6, <2>7 DEF Matrix, u
  <2>9. TypeOK'
    BY <1>0, <1>14, <2>8 DEF TypeOK, ReadChunk, pool, ram, spill
  <2>10. OpShape'
    BY <1>14 DEF ReadChunk, TypeInv, OpShape, AtBlock
  <2> QED BY <2>9, <2>10 DEF TypeInv
<1>15. ASSUME NEW s \in Scratches, UploadFails(s)
       PROVE  TypeInv'
  <2>1. TypeOK'
    BY <1>0, <1>15 DEF TypeOK, UploadFails, NoUpload, Matrix, pool, ram, spill
  <2>2. OpShape'
    BY <1>15 DEF UploadFails, TypeInv, OpShape, AtBlock
  <2> QED BY <2>1, <2>2 DEF TypeInv
<1>16. ASSUME NEW s \in Scratches, MarkCommitted(s)
       PROVE  TypeInv'
  <2>1. TypeOK'
    BY <1>0, <1>16 DEF TypeOK, MarkCommitted, NoUpload, Matrix, pool, ram, spill
  <2>2. OpShape'
    BY <1>16 DEF MarkCommitted, TypeInv, OpShape, AtBlock
  <2> QED BY <2>1, <2>2 DEF TypeInv
<1>17. ASSUME NEW s \in Scratches, Discard(s)
       PROVE  TypeInv'
  <2>1. TypeOK'
    BY <1>0, <1>17 DEF TypeOK, Discard, Matrix
  <2>2. op' = op /\ op[s] = Idle /\ \A t \in Scratches \ {s} : len'[t] = len[t]
    BY <1>0, <1>17 DEF Discard, TypeOK
  <2>3. op' = [op EXCEPT ![s] = Idle]
    BY <1>0, <2>2 DEF TypeOK
  <2>4. OpShape'
    BY <2>2, <2>3, NewOpShape DEF Idle
  <2> QED BY <2>1, <2>4 DEF TypeInv
<1>18. CASE UNCHANGED vars
  <2>1. TypeOK'
    BY <1>0, <1>18 DEF TypeOK, vars, pool, ram, spill, sync
  <2>2. OpShape'
    BY <1>18 DEF vars, TypeInv, OpShape, AtBlock
  <2> QED BY <2>1, <2>2 DEF TypeInv
<1> QED
  BY <1>1, <1>2, <1>3, <1>4, <1>5, <1>6, <1>7, <1>8, <1>9, <1>10, <1>11, <1>12,
     <1>13, <1>14, <1>15, <1>16, <1>17, <1>18 DEF Next, OpStep, UploadStep
-----------------------------------------------------------------------------
(* The LRU list and the cache. *)

\* Only five actions change the cache or its list, each one for one buffer.
LEMMA OrderNext == TypeInv /\ OrderIsCache /\ [Next]_vars => OrderIsCache'
<1> SUFFICES ASSUME TypeInv, OrderIsCache, [Next]_vars PROVE OrderIsCache'
  OBVIOUS
<1>0. /\ TypeOK /\ TypeOK'
      /\ \A s \in Scratches : cache[s] = ToSet(order[s]) /\ Distinct(order[s])
  BY TypeNext, OrderDistinct DEF TypeInv
<1>1. SUFFICES \A t \in Scratches : cache'[t] = ToSet(order'[t]) /\ Distinct(order'[t])
  <2>1. \A s \in Scratches : DOMAIN order'[s] = 1 .. Len(order'[s])
    BY <1>0, ListDomain DEF TypeOK
  <2> QED BY <2>1 DEF OrderIsCache, Distinct
<1>2. ASSUME NEW s \in Scratches, NEW c, NEW q,
             cache' = [cache EXCEPT ![s] = c], order' = [order EXCEPT ![s] = q],
             c = ToSet(q), Distinct(q)
      PROVE  \A t \in Scratches : cache'[t] = ToSet(order'[t]) /\ Distinct(order'[t])
  <2> SUFFICES ASSUME NEW t \in Scratches
               PROVE  cache'[t] = ToSet(order'[t]) /\ Distinct(order'[t])
    OBVIOUS
  <2>1. CASE t = s
    <3>1. cache'[t] = c /\ order'[t] = q
      BY <1>0, <1>2, <2>1 DEF TypeOK
    <3> QED BY <1>2, <3>1
  <2>2. CASE t # s
    <3>1. cache'[t] = cache[t] /\ order'[t] = order[t]
      BY <1>0, <1>2, <2>2 DEF TypeOK
    <3> QED BY <1>0, <3>1
  <2> QED BY <2>1, <2>2
<1>3. ASSUME NEW s \in Scratches
      PROVE  order[s] \in Seq(Blocks) /\ cache[s] \subseteq Blocks
  BY <1>0 DEF TypeOK
<1>4. ASSUME NEW s \in Scratches, ChangeCached(s)
      PROVE  \A t \in Scratches : cache'[t] = ToSet(order'[t]) /\ Distinct(order'[t])
  <2> DEFINE b == Target(op[s])
  <2>1. /\ cache' = cache /\ b \in cache[s]
        /\ order' = [order EXCEPT ![s] = Touch(order[s], b)]
    BY <1>4 DEF ChangeCached
  <2> HIDE DEF b
  <2>2. cache' = [cache EXCEPT ![s] = cache[s]]
    BY <1>0, <2>1 DEF TypeOK
  <2>3. cache[s] = ToSet(Touch(order[s], b)) /\ Distinct(Touch(order[s], b))
    BY <1>0, <1>3, <2>1, TouchProps
  <2> QED BY <1>2, <2>1, <2>2, <2>3
<1>5. ASSUME NEW s \in Scratches, ChangeLoaded(s)
      PROVE  \A t \in Scratches : cache'[t] = ToSet(order'[t]) /\ Distinct(order'[t])
  <2> DEFINE b == Target(op[s])
  <2>1. Touching(op[s]) /\ b \notin cache[s]
    BY <1>5 DEF ChangeLoaded, NeedsBlock
  <2>2. b \in Blocks
    BY <2>1, TouchingType
  <2>3. /\ cache' = [cache EXCEPT ![s] = cache[s] \cup {b}]
        /\ order' = [order EXCEPT ![s] = Append(order[s], b)]
    BY <1>5 DEF ChangeLoaded
  <2> HIDE DEF b
  <2>4. b \notin ToSet(order[s])
    BY <1>0, <2>1
  <2>5. cache[s] \cup {b} = ToSet(Append(order[s], b)) /\ Distinct(Append(order[s], b))
    BY <1>0, <1>3, <2>2, <2>4, AppendProps
  <2> QED BY <1>2, <2>3, <2>5
<1>6. ASSUME NEW s \in Scratches, EvictLru(s)
      PROVE  \A t \in Scratches : cache'[t] = ToSet(order'[t]) /\ Distinct(order'[t])
  <2>1. /\ cache[s] # {}
        /\ cache' = [cache EXCEPT ![s] = cache[s] \ {Head(order[s])}]
        /\ order' = [order EXCEPT ![s] = Tail(order[s])]
    BY <1>6 DEF EvictLru, MustEvict
  <2>2. order[s] # <<>>
    BY <1>0, <2>1 DEF ToSet
  <2>3. cache[s] \ {Head(order[s])} = ToSet(Tail(order[s])) /\ Distinct(Tail(order[s]))
    BY <1>0, <1>3, <2>2, TailProps
  <2> QED BY <1>2, <2>1, <2>3
<1>7. ASSUME NEW s \in Scratches, NEW b \in Blocks, DropBlock(s, b)
      PROVE  \A t \in Scratches : cache'[t] = ToSet(order'[t]) /\ Distinct(order'[t])
  <2>1. /\ b \in cache[s]
        /\ cache' = [cache EXCEPT ![s] = cache[s] \ {b}]
        /\ order' = [order EXCEPT ![s] = Forget(order[s], b)]
    BY <1>7 DEF DropBlock, Doomed
  <2>2. cache[s] \ {b} = ToSet(Forget(order[s], b)) /\ Distinct(Forget(order[s], b))
    BY <1>0, <1>3, <2>1, ForgetProps
  <2> QED BY <1>2, <2>1, <2>2
<1>8. ASSUME NEW s \in Scratches, Discard(s)
      PROVE  \A t \in Scratches : cache'[t] = ToSet(order'[t]) /\ Distinct(order'[t])
  <2>1. cache' = [cache EXCEPT ![s] = {}] /\ order' = [order EXCEPT ![s] = <<>>]
    BY <1>8 DEF Discard
  <2>2. {} = ToSet(<<>>) /\ Distinct(<<>>)
    BY DEF ToSet, Distinct
  <2> QED BY <1>2, <2>1, <2>2
<1>9. CASE UNCHANGED <<cache, order>>
  BY <1>0, <1>9
<1>10. ASSUME NEW s \in Scratches,
              \/ \E off, end \in Pos, v \in Values : BeginWrite(s, off, end, v)
              \/ \E n \in Pos : Extend(s, n) \/ BeginShrink(s, n)
              \/ WriteThrough(s) \/ LoadFails(s) \/ SpillFails(s) \/ Finish(s)
              \/ Truncate(s) \/ UploadStep(s)
       PROVE  UNCHANGED <<cache, order>>
  BY <1>10 DEF BeginWrite, Extend, BeginShrink, WriteThrough, LoadFails, SpillFails,
     Finish, Truncate, UploadStep, BeginUpload, ReadChunk, UploadFails, MarkCommitted, ram
<1> QED
  BY <1>4, <1>5, <1>6, <1>7, <1>8, <1>9, <1>10 DEF Next, OpStep, vars, ram

\* The buffer keeps its types, and its LRU list is exactly its cache: eviction
\* always finds a block to evict, so make_room cannot spin.
THEOREM TypeCorrect == Spec => []TypeOK
<1>1. TypeInv /\ OrderIsCache /\ [Next]_vars => (TypeInv /\ OrderIsCache)'
  BY TypeNext, OrderNext
<1>2. Init => TypeInv /\ OrderIsCache
  BY TypeInit, ListDomain DEF Init, OrderIsCache, ToSet
<1>3. TypeInv => TypeOK
  BY DEF TypeInv
<1> QED
  BY <1>1, <1>2, <1>3, PTL DEF Spec

THEOREM OrderCorrect == Spec => []OrderIsCache
<1>1. TypeInv /\ OrderIsCache /\ [Next]_vars => (TypeInv /\ OrderIsCache)'
  BY TypeNext, OrderNext
<1>2. Init => TypeInv /\ OrderIsCache
  BY TypeInit DEF Init, OrderIsCache, ToSet
<1> QED
  BY <1>1, <1>2, PTL DEF Spec
-----------------------------------------------------------------------------
(* The cache holds changed blocks only, so that every eviction writes: read_at  *)
(* loads none, and cached_block_mut is called for a change.                    *)

CachedIsDirty == \A s \in Scratches : dirty[s] = cache[s]

LEMMA DirtyNext == TypeInv /\ CachedIsDirty /\ [Next]_vars => CachedIsDirty'
<1> SUFFICES ASSUME TypeInv, CachedIsDirty, [Next]_vars
             PROVE  CachedIsDirty'
  OBVIOUS
<1>0. TypeOK /\ \A t \in Scratches : dirty[t] = cache[t]
  BY DEF TypeInv, CachedIsDirty
<1>1. ASSUME UNCHANGED <<cache, dirty>>
      PROVE  CachedIsDirty'
  BY <1>0, <1>1 DEF CachedIsDirty
<1>2. ASSUME NEW s \in Scratches, ChangeCached(s) \/ ChangeLoaded(s)
      PROVE  CachedIsDirty'
  <2> DEFINE b == Target(op[s])
  <2>1. CASE ChangeCached(s)
    <3>1. cache' = cache /\ b \in cache[s] /\ dirty' = [dirty EXCEPT ![s] = @ \cup {b}]
      BY <2>1 DEF ChangeCached
    <3> HIDE DEF b
    <3> QED
      BY <1>0, <3>1 DEF CachedIsDirty, TypeOK
  <2>2. CASE ChangeLoaded(s)
    <3>1. /\ cache' = [cache EXCEPT ![s] = @ \cup {b}]
          /\ dirty' = [dirty EXCEPT ![s] = @ \cup {b}]
      BY <2>2 DEF ChangeLoaded
    <3> HIDE DEF b
    <3> QED
      BY <1>0, <3>1 DEF CachedIsDirty, TypeOK
  <2> QED
    BY <1>2, <2>1, <2>2
<1>3. ASSUME NEW s \in Scratches, EvictLru(s)
      PROVE  CachedIsDirty'
  BY <1>0, <1>3 DEF CachedIsDirty, TypeOK, EvictLru
<1>4. ASSUME NEW s \in Scratches, NEW b \in Blocks, DropBlock(s, b)
      PROVE  CachedIsDirty'
  BY <1>0, <1>4 DEF CachedIsDirty, TypeOK, DropBlock
<1>5. ASSUME NEW s \in Scratches, Discard(s)
      PROVE  CachedIsDirty'
  BY <1>0, <1>5 DEF CachedIsDirty, TypeOK, Discard
<1>6. ASSUME NEW s \in Scratches,
             \/ \E off, end \in Pos, v \in Values : BeginWrite(s, off, end, v)
             \/ \E n \in Pos : Extend(s, n) \/ BeginShrink(s, n)
             \/ WriteThrough(s) \/ LoadFails(s) \/ SpillFails(s) \/ Finish(s)
             \/ Truncate(s) \/ UploadStep(s)
      PROVE  UNCHANGED <<cache, dirty>>
  BY <1>6 DEF BeginWrite, Extend, BeginShrink, WriteThrough, LoadFails, SpillFails, Finish,
     Truncate, UploadStep, BeginUpload, ReadChunk, UploadFails, MarkCommitted, ram
<1>7. CASE UNCHANGED vars
  BY <1>1, <1>7 DEF vars, ram
<1> QED
  BY <1>1, <1>2, <1>3, <1>4, <1>5, <1>6, <1>7 DEF Next, OpStep
-----------------------------------------------------------------------------
(* The budget of the pool. *)

\* The size of a set of blocks follows what is added and taken away.
LEMMA CardStep ==
  ASSUME NEW S \in SUBSET Blocks, NEW b
  PROVE  /\ IsFiniteSet(S) /\ Cardinality(S) \in Nat
         /\ b \notin S => Cardinality(S \cup {b}) = Cardinality(S) + 1
         /\ b \in S => Cardinality(S \ {b}) = Cardinality(S) - 1
         /\ S = {} <=> Cardinality(S) = 0
<1>1. IsFiniteSet(S)
  <2>1. IsFiniteSet(Blocks)
    BY FS_Interval, FileAssumption DEF Blocks
  <2> QED BY <2>1, FS_Subset
<1>2. Cardinality(S) \in Nat
  BY <1>1, FS_CardinalityType
<1>3. b \notin S => Cardinality(S \cup {b}) = Cardinality(S) + 1
  BY <1>1, FS_AddElement
<1>4. b \in S => Cardinality(S \ {b}) = Cardinality(S) - 1
  BY <1>1, FS_RemoveElement
<1>5. S = {} <=> Cardinality(S) = 0
  BY <1>1, FS_EmptySet
<1> QED
  BY <1>1, <1>2, <1>3, <1>4, <1>5

LEMMA PoolNext ==
  TypeInv /\ OrderIsCache /\ PoolBounds /\ [Next]_vars => PoolBounds'
<1> SUFFICES ASSUME TypeInv, OrderIsCache, PoolBounds, [Next]_vars
             PROVE  PoolBounds'
  OBVIOUS
<1>0. /\ TypeOK /\ PoolBlocks \in Nat /\ MaxCached \in Nat \ {0}
      /\ \A t \in Scratches : /\ cache[t] \in SUBSET Blocks
                               /\ CacheLen(t) \in Nat /\ reserved[t] \in Int
      /\ used \in Int /\ used <= PoolBlocks
      /\ \A t \in Scratches : /\ 0 <= reserved[t] /\ CacheLen(t) <= reserved[t] + 1
                               /\ CacheLen(t) <= MaxCached
  BY PoolAssumption, CardStep DEF TypeInv, TypeOK, PoolBounds, CacheLen
\* A step changes the reservation and the cache of one buffer at most.
<1>1. ASSUME NEW s \in Scratches, NEW c, NEW r \in Int,
             cache' = [cache EXCEPT ![s] = c], reserved' = [reserved EXCEPT ![s] = r],
             used' <= PoolBlocks, 0 <= r,
             Cardinality(c) <= r + 1, Cardinality(c) <= MaxCached
      PROVE  PoolBounds'
  <2>1. \A t \in Scratches : /\ cache'[t] = IF t = s THEN c ELSE cache[t]
                             /\ reserved'[t] = IF t = s THEN r ELSE reserved[t]
    BY <1>0, <1>1 DEF TypeOK
  <2> QED BY <1>0, <1>1, <2>1 DEF PoolBounds, CacheLen
<1>2. ASSUME UNCHANGED <<used, reserved, cache>>
      PROVE  PoolBounds'
  BY <1>0, <1>2 DEF PoolBounds, CacheLen
<1>3. ASSUME NEW s \in Scratches, ChangeLoaded(s)
      PROVE  PoolBounds'
  <2> DEFINE b == Target(op[s])
  <2>1. /\ b \notin cache[s] /\ cache' = [cache EXCEPT ![s] = cache[s] \cup {b}]
        /\ HasRoom(s) /\ Reserve(s)
    BY <1>3 DEF ChangeLoaded, NeedsBlock
  <2> HIDE DEF b
  <2>2. Cardinality(cache[s] \cup {b}) = CacheLen(s) + 1
    BY <1>0, <2>1, CardStep DEF CacheLen
  <2>3. CASE CanReserve(s)
    <3>1. /\ used' = used + 1 /\ reserved' = [reserved EXCEPT ![s] = reserved[s] + 1]
          /\ CacheLen(s) < MaxCached /\ used < PoolBlocks
      BY <2>1, <2>3 DEF Reserve, CanReserve
    <3>2. /\ used' <= PoolBlocks /\ reserved[s] + 1 \in Int /\ 0 <= reserved[s] + 1
          /\ Cardinality(cache[s] \cup {b}) <= (reserved[s] + 1) + 1
          /\ Cardinality(cache[s] \cup {b}) <= MaxCached
      BY <1>0, <2>2, <3>1
    <3> QED BY <1>1, <2>1, <3>1, <3>2
  <2>4. CASE ~CanReserve(s)
    <3>1. used' = used /\ reserved' = reserved /\ cache[s] = {}
      BY <2>1, <2>4 DEF Reserve, HasRoom, pool
    <3>2. reserved' = [reserved EXCEPT ![s] = reserved[s]]
      BY <1>0, <3>1 DEF TypeOK
    <3>3. CacheLen(s) = 0
      BY <1>0, <3>1, CardStep DEF CacheLen
    <3>4. /\ used' <= PoolBlocks
          /\ Cardinality(cache[s] \cup {b}) <= reserved[s] + 1
          /\ Cardinality(cache[s] \cup {b}) <= MaxCached
      BY <1>0, <2>2, <3>1, <3>3
    <3> QED BY <1>0, <1>1, <2>1, <3>2, <3>4
  <2> QED BY <2>3, <2>4
<1>4. ASSUME NEW s \in Scratches, LoadFails(s)
      PROVE  PoolBounds'
  <2>1. cache' = cache /\ Reserve(s)
    BY <1>4 DEF LoadFails, ram
  <2>2. cache' = [cache EXCEPT ![s] = cache[s]]
    BY <1>0, <2>1 DEF TypeOK
  <2>3. CASE CanReserve(s)
    <3>1. /\ used' = used + 1 /\ reserved' = [reserved EXCEPT ![s] = reserved[s] + 1]
          /\ used < PoolBlocks
      BY <2>1, <2>3 DEF Reserve, CanReserve
    <3>2. /\ used' <= PoolBlocks /\ reserved[s] + 1 \in Int /\ 0 <= reserved[s] + 1
          /\ Cardinality(cache[s]) <= (reserved[s] + 1) + 1
          /\ Cardinality(cache[s]) <= MaxCached
      BY <1>0, <3>1 DEF CacheLen
    <3> QED BY <1>1, <2>2, <3>1, <3>2
  <2>4. CASE ~CanReserve(s)
    BY <1>2, <2>1, <2>4 DEF Reserve, pool
  <2> QED BY <2>3, <2>4
<1>5. ASSUME NEW s \in Scratches, EvictLru(s)
      PROVE  PoolBounds'
  <2> DEFINE b == Head(order[s])
             r == IF reserved[s] > CacheLen(s) - 1 THEN reserved[s] - 1 ELSE reserved[s]
  <2>1. b \in cache[s]
    <3>1. cache[s] # {} /\ cache[s] = ToSet(order[s]) /\ order[s] \in Seq(Blocks)
      BY <1>0, <1>5 DEF EvictLru, MustEvict, OrderIsCache, TypeOK
    <3>2. order[s] # <<>> /\ Distinct(order[s])
      BY <1>0, <3>1, OrderDistinct DEF ToSet
    <3> QED BY <3>1, <3>2, TailProps
  <2>2. cache' = [cache EXCEPT ![s] = cache[s] \ {b}]
    BY <1>5 DEF EvictLru
  <2>3. Cardinality(cache[s] \ {b}) = CacheLen(s) - 1 /\ CacheLen(s) # 0
    BY <1>0, <2>1, CardStep DEF CacheLen
  <2>4. reserved' = [reserved EXCEPT ![s] = r] /\ (used' = used \/ used' = used - 1)
    <3>1. CASE reserved[s] > CacheLen(s) - 1
      BY <1>5, <3>1 DEF EvictLru
    <3>2. CASE ~(reserved[s] > CacheLen(s) - 1)
      <4>1. reserved' = reserved /\ used' = used
        BY <1>5, <3>2 DEF EvictLru, pool
      <4> QED BY <1>0, <3>2, <4>1 DEF TypeOK
    <3> QED BY <3>1, <3>2
  <2>5. /\ r \in Int /\ 0 <= r /\ CacheLen(s) - 1 <= r + 1 /\ CacheLen(s) - 1 <= MaxCached
        /\ used' <= PoolBlocks
    BY <1>0, <2>3, <2>4
  <2> HIDE DEF b, r
  <2> QED BY <1>1, <2>2, <2>3, <2>4, <2>5
<1>6. ASSUME NEW s \in Scratches, NEW b \in Blocks, DropBlock(s, b)
      PROVE  PoolBounds'
  <2>1. /\ b \in cache[s] /\ cache' = [cache EXCEPT ![s] = cache[s] \ {b}]
        /\ used' = used /\ reserved' = reserved
    BY <1>6 DEF DropBlock, Doomed, pool
  <2>2. reserved' = [reserved EXCEPT ![s] = reserved[s]]
    BY <1>0, <2>1 DEF TypeOK
  <2>3. Cardinality(cache[s] \ {b}) = CacheLen(s) - 1
    BY <1>0, <2>1, CardStep DEF CacheLen
  <2>4. /\ Cardinality(cache[s] \ {b}) <= reserved[s] + 1
        /\ Cardinality(cache[s] \ {b}) <= MaxCached /\ used' <= PoolBlocks
    BY <1>0, <2>1, <2>3
  <2> QED BY <1>0, <1>1, <2>1, <2>2, <2>4
<1>7. ASSUME NEW s \in Scratches, Truncate(s)
      PROVE  PoolBounds'
  <2> DEFINE surplus == Max2(0, reserved[s] - CacheLen(s))
  <2>1. /\ used' = used - surplus /\ reserved' = [reserved EXCEPT ![s] = reserved[s] - surplus]
        /\ cache' = cache
    BY <1>7 DEF Truncate, Surplus, ram
  <2>2. cache' = [cache EXCEPT ![s] = cache[s]]
    BY <1>0, <2>1 DEF TypeOK
  <2>3. /\ surplus \in Nat /\ reserved[s] - surplus \in Int /\ 0 <= reserved[s] - surplus
        /\ CacheLen(s) <= (reserved[s] - surplus) + 1 /\ used - surplus <= PoolBlocks
    BY <1>0 DEF Max2
  <2> HIDE DEF surplus
  <2>4. Cardinality(cache[s]) <= (reserved[s] - surplus) + 1 /\ Cardinality(cache[s]) <= MaxCached
    BY <1>0, <2>3 DEF CacheLen
  <2> QED BY <1>1, <2>1, <2>2, <2>3, <2>4
<1>8. ASSUME NEW s \in Scratches, Discard(s)
      PROVE  PoolBounds'
  <2>1. /\ used' = used - reserved[s] /\ reserved' = [reserved EXCEPT ![s] = 0]
        /\ cache' = [cache EXCEPT ![s] = {}]
    BY <1>8 DEF Discard
  <2>2. Cardinality({}) = 0
    BY FS_EmptySet
  <2>3. /\ used' <= PoolBlocks /\ 0 \in Int /\ 0 <= 0
        /\ Cardinality({}) <= 0 + 1 /\ Cardinality({}) <= MaxCached
    BY <1>0, <2>1, <2>2
  <2> QED BY <1>1, <2>1, <2>2, <2>3
<1>9. ASSUME NEW s \in Scratches,
             \/ \E off, end \in Pos, v \in Values : BeginWrite(s, off, end, v)
             \/ \E n \in Pos : Extend(s, n) \/ BeginShrink(s, n)
             \/ WriteThrough(s) \/ ChangeCached(s) \/ SpillFails(s) \/ Finish(s)
             \/ UploadStep(s)
      PROVE  UNCHANGED <<used, reserved, cache>>
  BY <1>9 DEF BeginWrite, Extend, BeginShrink, WriteThrough, ChangeCached, SpillFails,
     Finish, UploadStep, BeginUpload, ReadChunk, UploadFails, MarkCommitted, ram, pool
<1>10. CASE UNCHANGED vars
  BY <1>2, <1>10 DEF vars, ram, pool
<1> QED
  BY <1>2, <1>3, <1>4, <1>5, <1>6, <1>7, <1>8, <1>9, <1>10 DEF Next, OpStep

\* The buffers never pass the budget, and none keeps more than one block in RAM that
\* it has no reservation for (scratch.rs make_room, evict_lru, set_len, Drop).
THEOREM PoolCorrect == Spec => []PoolBounds
<1> DEFINE I == TypeInv /\ OrderIsCache /\ PoolBounds
<1>1. Init => I
  <2> SUFFICES ASSUME Init PROVE I
    OBVIOUS
  <2>1. TypeInv /\ OrderIsCache
    BY TypeInit DEF Init, OrderIsCache, ToSet
  <2>2. \A s \in Scratches : CacheLen(s) = 0 /\ reserved[s] = 0
    BY FS_EmptySet DEF Init, CacheLen
  <2>3. PoolBounds
    BY <2>2, PoolAssumption DEF Init, PoolBounds
  <2> QED BY <2>1, <2>3
<1>2. I /\ [Next]_vars => I'
  BY TypeNext, OrderNext, PoolNext
<1> QED
  BY <1>1, <1>2, PTL DEF Spec
-----------------------------------------------------------------------------
(* What a buffer has reserved. *)

\* Every step that reserves brings a block into RAM or fails, and every block that
\* leaves RAM gives a reservation back, at once or at the end of set_len.
LEMMA IdleNext ==
  TypeInv /\ OrderIsCache /\ NoIdleReservation /\ [Next]_vars => NoIdleReservation'
<1> SUFFICES ASSUME TypeInv, OrderIsCache, NoIdleReservation, [Next]_vars
             PROVE  NoIdleReservation'
  OBVIOUS
<1> DEFINE Fits(t) == failed[t] = 0 /\ op[t].kind # "drop" => reserved[t] <= CacheLen(t)
<1>0. /\ TypeOK
      /\ \A t \in Scratches : /\ cache[t] \in SUBSET Blocks
                               /\ CacheLen(t) \in Nat /\ reserved[t] \in Int
                               /\ failed[t] \in Nat
                               /\ Fits(t)
  BY CardStep DEF TypeInv, TypeOK, NoIdleReservation, Sound, CacheLen
\* A step is about one buffer; of the others nothing changes that is spoken of.
<1>1. ASSUME NEW s \in Scratches, Fits(s)',
             \A t \in Scratches \ {s} :
               /\ op'[t] = op[t] /\ failed'[t] = failed[t]
               /\ reserved'[t] = reserved[t] /\ cache'[t] = cache[t]
      PROVE  NoIdleReservation'
  <2>1. ASSUME NEW t \in Scratches
        PROVE  Fits(t)'
    BY <1>0, <1>1 DEF CacheLen
  <2> QED BY <2>1 DEF NoIdleReservation, Sound
<1>2. ASSUME NEW s \in Scratches, UNCHANGED <<reserved, cache, failed>>,
             \A t \in Scratches \ {s} : op'[t] = op[t],
             op[s].kind = "drop" => op'[s].kind = "drop"
      PROVE  NoIdleReservation'
  BY <1>0, <1>1, <1>2 DEF CacheLen
<1>3. ASSUME NEW s \in Scratches,
             \/ \E off, end \in Pos, v \in Values : BeginWrite(s, off, end, v)
             \/ \E n \in Pos : Extend(s, n) \/ BeginShrink(s, n)
             \/ WriteThrough(s) \/ ChangeCached(s) \/ Finish(s) \/ UploadStep(s)
      PROVE  NoIdleReservation'
  <2>1. UNCHANGED <<reserved, cache, failed>>
    BY <1>3 DEF BeginWrite, Extend, BeginShrink, WriteThrough, ChangeCached, Finish,
       UploadStep, BeginUpload, ReadChunk, UploadFails, MarkCommitted, ram, pool, spill
  <2>2. \/ op' = op
        \/ \E x : op' = [op EXCEPT ![s] = x] /\ op[s].kind # "drop"
    BY <1>3 DEF BeginWrite, Extend, BeginShrink, WriteThrough, ChangeCached, Finish,
       UploadStep, BeginUpload, ReadChunk, UploadFails, MarkCommitted, Touching, Idle
  <2>3. /\ \A t \in Scratches \ {s} : op'[t] = op[t]
        /\ op[s].kind = "drop" => op'[s].kind = "drop"
    BY <1>0, <2>2 DEF TypeOK
  <2> QED BY <1>2, <2>1, <2>3
<1>4. ASSUME NEW s \in Scratches, ChangeLoaded(s)
      PROVE  NoIdleReservation'
  <2> DEFINE b == Target(op[s])
  <2>1. /\ b \notin cache[s] /\ cache' = [cache EXCEPT ![s] = cache[s] \cup {b}]
        /\ Reserve(s) /\ failed' = failed /\ op[s].kind # "drop"
        /\ op' = [op EXCEPT ![s] = Advance(op[s])]
    BY <1>4 DEF ChangeLoaded, NeedsBlock, Touching, spill
  <2> HIDE DEF b
  <2>2. Cardinality(cache[s] \cup {b}) = CacheLen(s) + 1
    BY <1>0, <2>1, CardStep DEF CacheLen
  <2>3. \E r \in {reserved[s], reserved[s] + 1} : reserved' = [reserved EXCEPT ![s] = r]
    <3>1. CASE CanReserve(s)
      BY <2>1, <3>1 DEF Reserve
    <3>2. CASE ~CanReserve(s)
      BY <1>0, <2>1, <3>2 DEF Reserve, pool, TypeOK
    <3> QED BY <3>1, <3>2
  <2>4. /\ cache'[s] = cache[s] \cup {b} /\ reserved'[s] <= reserved[s] + 1
        /\ \A t \in Scratches \ {s} :
             op'[t] = op[t] /\ reserved'[t] = reserved[t] /\ cache'[t] = cache[t]
    BY <1>0, <2>1, <2>3 DEF TypeOK
  <2>5. reserved'[s] \in Int
    BY <1>0, <2>3 DEF TypeOK
  <2>6. CacheLen(s)' = CacheLen(s) + 1
    BY <2>2, <2>4 DEF CacheLen
  <2>7. Fits(s)'
    BY <1>0, <2>1, <2>4, <2>5, <2>6
  <2> QED BY <1>1, <2>1, <2>4, <2>7
<1>5. ASSUME NEW s \in Scratches, LoadFails(s) \/ SpillFails(s)
      PROVE  NoIdleReservation'
  <2>1. /\ failed' = [failed EXCEPT ![s] = @ + 1] /\ op' = [op EXCEPT ![s] = Idle]
        /\ cache' = cache
        /\ reserved' = reserved \/ reserved' = [reserved EXCEPT ![s] = @ + 1]
    BY <1>5 DEF LoadFails, SpillFails, Fails, Reserve, ram, pool
  <2>2. failed'[s] # 0
    BY <1>0, <2>1 DEF TypeOK
  <2>3. \A t \in Scratches \ {s} : /\ op'[t] = op[t] /\ failed'[t] = failed[t]
                                  /\ reserved'[t] = reserved[t] /\ cache'[t] = cache[t]
    BY <1>0, <2>1 DEF TypeOK
  <2> QED BY <1>1, <2>2, <2>3
<1>6. ASSUME NEW s \in Scratches, EvictLru(s)
      PROVE  NoIdleReservation'
  <2> DEFINE b == Head(order[s])
  <2>1. b \in cache[s]
    <3>1. cache[s] # {} /\ cache[s] = ToSet(order[s]) /\ order[s] \in Seq(Blocks)
      BY <1>0, <1>6 DEF EvictLru, MustEvict, OrderIsCache, TypeOK
    <3>2. order[s] # <<>> /\ Distinct(order[s])
      BY <1>0, <3>1, OrderDistinct DEF ToSet
    <3> QED BY <3>1, <3>2, TailProps
  <2>2. /\ cache' = [cache EXCEPT ![s] = cache[s] \ {b}] /\ op' = op /\ failed' = failed
        /\ op[s].kind # "drop"
    BY <1>6 DEF EvictLru, NeedsBlock, Touching
  <2>3. IF reserved[s] > CacheLen(s) - 1 THEN reserved' = [reserved EXCEPT ![s] = @ - 1]
        ELSE reserved' = reserved
    BY <1>6 DEF EvictLru, pool
  <2> HIDE DEF b
  <2>4. CacheLen(s)' = CacheLen(s) - 1
    <3>1. Cardinality(cache[s] \ {b}) = CacheLen(s) - 1
      BY <1>0, <2>1, CardStep DEF CacheLen
    <3>2. cache'[s] = cache[s] \ {b}
      BY <1>0, <2>2 DEF TypeOK
    <3> QED BY <3>1, <3>2 DEF CacheLen
  <2>5. /\ reserved'[s] = IF reserved[s] > CacheLen(s) - 1 THEN reserved[s] - 1 ELSE reserved[s]
        /\ \A t \in Scratches \ {s} : reserved'[t] = reserved[t] /\ cache'[t] = cache[t]
    BY <1>0, <2>2, <2>3 DEF TypeOK
  <2>6. Fits(s)'
    BY <1>0, <2>2, <2>4, <2>5
  <2> QED BY <1>1, <2>2, <2>5, <2>6
<1>7. ASSUME NEW s \in Scratches, NEW b \in Blocks, DropBlock(s, b)
      PROVE  NoIdleReservation'
  <2>1. /\ op'[s].kind = "drop" /\ op' = op /\ failed' = failed /\ reserved' = reserved
        /\ cache' = [cache EXCEPT ![s] = @ \ {b}]
    BY <1>7 DEF DropBlock, pool, spill
  <2>2. \A t \in Scratches \ {s} : cache'[t] = cache[t]
    BY <1>0, <2>1 DEF TypeOK
  <2> QED BY <1>1, <2>1, <2>2
<1>8. ASSUME NEW s \in Scratches, Truncate(s)
      PROVE  NoIdleReservation'
  <2>1. /\ reserved' = [reserved EXCEPT ![s] = @ - Surplus(s)] /\ cache' = cache
        /\ failed' = failed
        /\ \A t \in Scratches \ {s} : op'[t] = op[t]
    BY <1>0, <1>8 DEF Truncate, ram, TypeOK
  <2>2. /\ reserved'[s] = reserved[s] - Surplus(s)
        /\ \A t \in Scratches \ {s} : reserved'[t] = reserved[t]
    BY <1>0, <2>1 DEF TypeOK
  <2>3. reserved'[s] <= CacheLen(s)
    BY <1>0, <2>2 DEF Surplus, Max2
  <2>4. Fits(s)'
    BY <2>1, <2>3 DEF CacheLen
  <2> QED BY <1>1, <2>1, <2>2, <2>4
<1>9. ASSUME NEW s \in Scratches, Discard(s)
      PROVE  NoIdleReservation'
  <2>1. /\ reserved' = [reserved EXCEPT ![s] = 0] /\ cache' = [cache EXCEPT ![s] = {}]
        /\ op' = op /\ failed' = [failed EXCEPT ![s] = 0]
    BY <1>9 DEF Discard
  <2>2. /\ reserved'[s] = 0 /\ cache'[s] = {}
        /\ \A t \in Scratches \ {s} : /\ reserved'[t] = reserved[t] /\ cache'[t] = cache[t]
                                      /\ failed'[t] = failed[t]
    BY <1>0, <2>1 DEF TypeOK
  <2>3. Fits(s)'
    BY <2>2, FS_EmptySet DEF CacheLen
  <2> QED BY <1>1, <2>1, <2>2, <2>3
<1>10. CASE UNCHANGED vars
  <2>1. UNCHANGED <<reserved, cache, failed, op>>
    BY <1>10 DEF vars, ram, pool, spill
  <2> QED BY <1>0, <2>1 DEF NoIdleReservation, Sound, CacheLen
<1> QED
  BY <1>3, <1>4, <1>5, <1>6, <1>7, <1>8, <1>9, <1>10 DEF Next, OpStep

\* Between its operations, a buffer that its spill file has not failed holds no
\* reservation for which it has no block in RAM, so no buffer that shrank starves the
\* others (scratch.rs set_len, evict_lru).
THEOREM ReservationsInUse == Spec => []NoIdleReservation
<1> DEFINE I == TypeInv /\ OrderIsCache /\ NoIdleReservation
<1>1. Init => I
  <2> SUFFICES ASSUME Init PROVE I
    OBVIOUS
  <2>1. TypeInv /\ OrderIsCache
    BY TypeInit DEF Init, OrderIsCache, ToSet
  <2>2. NoIdleReservation
    BY FS_EmptySet DEF Init, NoIdleReservation, Sound, CacheLen
  <2> QED BY <2>1, <2>2
<1>2. I /\ [Next]_vars => I'
  BY TypeNext, OrderNext, IdleNext
<1> QED
  BY <1>1, <1>2, PTL DEF Spec
-----------------------------------------------------------------------------
(* The pool's counter. *)

\* A step takes from the pool what it adds to one buffer's reservations, and gives back
\* what it takes from them.
LEMMA PoolSteps ==
  ASSUME TypeInv, [Next]_vars
  PROVE  \/ UNCHANGED <<used, reserved>>
         \/ \E s \in Scratches : \E r \in Int :
              used' = used + (r - reserved[s]) /\ reserved' = [reserved EXCEPT ![s] = r]
<1>0. /\ used \in Int /\ reserved \in [Scratches -> Int] /\ PoolBlocks \in Nat
      /\ \A t \in Scratches : cache[t] \in SUBSET Blocks /\ CacheLen(t) \in Nat
  BY PoolAssumption, CardStep DEF TypeInv, TypeOK, CacheLen
<1> DEFINE Moves == \/ UNCHANGED <<used, reserved>>
                    \/ \E s \in Scratches : \E r \in Int :
                         used' = used + (r - reserved[s]) /\ reserved' = [reserved EXCEPT ![s] = r]
<1>1. ASSUME NEW s \in Scratches, NEW r \in Int,
             used' = used + (r - reserved[s]), reserved' = [reserved EXCEPT ![s] = r]
      PROVE  Moves
  BY <1>1
<1>2. ASSUME NEW s \in Scratches, Reserve(s) PROVE Moves
  <2>1. CASE CanReserve(s)
    <3>1. used' = used + ((reserved[s] + 1) - reserved[s]) /\ reserved[s] + 1 \in Int
      BY <1>0, <1>2, <2>1 DEF Reserve
    <3>2. reserved' = [reserved EXCEPT ![s] = reserved[s] + 1]
      BY <1>2, <2>1 DEF Reserve
    <3> QED
      BY <1>1, <3>1, <3>2
  <2>2. CASE ~CanReserve(s)
    BY <1>2, <2>2 DEF Reserve, pool
  <2> QED
    BY <2>1, <2>2
<1>3. ASSUME NEW s \in Scratches, ChangeLoaded(s) \/ LoadFails(s) PROVE Moves
  BY <1>2, <1>3 DEF ChangeLoaded, LoadFails
<1>4. ASSUME NEW s \in Scratches, EvictLru(s) PROVE Moves
  <2>1. CASE reserved[s] > CacheLen(s) - 1
    <3>1. used' = used + ((reserved[s] - 1) - reserved[s]) /\ reserved[s] - 1 \in Int
      BY <1>0, <1>4, <2>1 DEF EvictLru
    <3>2. reserved' = [reserved EXCEPT ![s] = reserved[s] - 1]
      BY <1>4, <2>1 DEF EvictLru
    <3> QED
      BY <1>1, <3>1, <3>2
  <2>2. CASE ~(reserved[s] > CacheLen(s) - 1)
    BY <1>4, <2>2 DEF EvictLru, pool
  <2> QED
    BY <2>1, <2>2
<1>5. ASSUME NEW s \in Scratches, Truncate(s) PROVE Moves
  <2>1. Surplus(s) \in Int
    BY <1>0 DEF Surplus, Max2
  <2>2. used' = used + ((reserved[s] - Surplus(s)) - reserved[s]) /\ reserved[s] - Surplus(s) \in Int
    BY <1>0, <1>5, <2>1 DEF Truncate
  <2>3. reserved' = [reserved EXCEPT ![s] = reserved[s] - Surplus(s)]
    BY <1>5 DEF Truncate
  <2> QED
    BY <1>1, <2>2, <2>3
<1>6. ASSUME NEW s \in Scratches, Discard(s) PROVE Moves
  <2>1. used' = used + (0 - reserved[s])
    BY <1>0, <1>6 DEF Discard
  <2>2. reserved' = [reserved EXCEPT ![s] = 0]
    BY <1>6 DEF Discard
  <2>3. 0 \in Int
    OBVIOUS
  <2> QED
    BY <1>1, <2>1, <2>2, <2>3
<1>7. ASSUME NEW s \in Scratches,
             \/ \E off, end \in Pos, v \in Values : BeginWrite(s, off, end, v)
             \/ \E n \in Pos : Extend(s, n) \/ BeginShrink(s, n)
             \/ WriteThrough(s) \/ ChangeCached(s) \/ SpillFails(s) \/ Finish(s)
             \/ \E b \in Blocks : DropBlock(s, b)
             \/ UploadStep(s)
      PROVE  UNCHANGED <<used, reserved>>
  BY <1>7 DEF BeginWrite, Extend, BeginShrink, WriteThrough, ChangeCached, SpillFails,
     Finish, DropBlock, UploadStep, BeginUpload, ReadChunk, UploadFails, MarkCommitted, pool
<1>8. CASE UNCHANGED vars
  BY <1>8 DEF vars, pool
<1> HIDE DEF Moves
<1>9. Moves
  <2> USE <1>8
  <2>1. ASSUME NEW s \in Scratches, UNCHANGED <<used, reserved>> PROVE Moves
    BY <2>1 DEF Moves
  <2> QED
    BY <1>3, <1>4, <1>5, <1>6, <1>7, <1>8, <2>1 DEF Next, OpStep, Moves
<1> QED
  BY <1>9 DEF Moves

LEMMA PoolIsSum == PoolAccounting <=> used = SumFunctionOnSet(reserved, DOMAIN reserved)
BY DEF PoolAccounting, FoldFunction, SumFunctionOnSet

\* The pool's counter is the sum of the reservations of all buffers, so a release never
\* takes it below zero (scratch.rs ScratchPool::try_reserve, release, Drop).
THEOREM PoolIsExact == Spec => []PoolAccounting
<1> DEFINE I == TypeInv /\ OrderIsCache /\ PoolAccounting
<1>1. Init => I
  <2> SUFFICES ASSUME Init PROVE I
    OBVIOUS
  <2>1. TypeInv /\ OrderIsCache
    BY TypeInit DEF Init, OrderIsCache, ToSet
  <2>2. used = 0 /\ DOMAIN reserved = Scratches /\ \A s \in Scratches : reserved[s] = 0
    BY DEF Init
  <2>3. SumFunctionOnSet(reserved, Scratches) = 0
    BY <2>2, PoolAssumption, SumZero
  <2> QED
    BY PoolIsSum, <2>1, <2>2, <2>3
<1>2. I /\ [Next]_vars => I'
  <2> SUFFICES ASSUME I, [Next]_vars PROVE PoolAccounting'
    BY TypeNext, OrderNext
  <2>1. used = SumFunctionOnSet(reserved, Scratches) /\ used \in Int
        /\ reserved \in [Scratches -> Int]
    BY PoolIsSum DEF TypeInv, TypeOK
  <2>2. used' = SumFunctionOnSet(reserved', Scratches)
    <3>1. CASE UNCHANGED <<used, reserved>>
      BY <2>1, <3>1
    <3>2. ASSUME NEW s \in Scratches, NEW r \in Int,
                 used' = used + (r - reserved[s]), reserved' = [reserved EXCEPT ![s] = r]
          PROVE  used' = SumFunctionOnSet(reserved', Scratches)
      <4>1. /\ \A t \in Scratches : reserved[t] \in Int
            /\ \A t \in Scratches \ {s} : reserved'[t] = reserved[t]
            /\ reserved'[s] = r /\ reserved'[s] \in Int
        BY <2>1, <3>2
      <4>2. SumFunctionOnSet(reserved', Scratches) + reserved[s]
              = SumFunctionOnSet(reserved, Scratches) + reserved'[s]
        BY <4>1, PoolAssumption, SumUpdate
      <4>3. SumFunctionOnSet(reserved', Scratches) \in Int
        <5>1. \A t \in Scratches : reserved'[t] \in Int
          BY <4>1
        <5> QED
          BY <5>1, PoolAssumption, SumType
      <4> QED
        BY <2>1, <3>2, <4>1, <4>2, <4>3
    <3> QED
      BY <3>1, <3>2, PoolSteps
  <2>3. DOMAIN reserved' = Scratches
    <3>1. TypeInv'
      BY TypeNext
    <3> QED
      BY <3>1 DEF TypeInv, TypeOK
  <2> QED
    <3>1. (PoolAccounting <=> used = SumFunctionOnSet(reserved, DOMAIN reserved))'
      BY PoolIsSum, PTL
    <3> QED
      BY <2>2, <2>3, <3>1
<1> QED
  BY <1>1, <1>2, PTL DEF Spec

-----------------------------------------------------------------------------
(* The write buffer implements the plain array of bytes of ByteFile.tla:   *)
(* every step of Scratch.tla is a step of the array or leaves it alone.    *)
(* The second part says, of that array, what a buffer holds.               *)

\* What the array holds at a block.
ByteOf(s, b) ==
  IF op[s].kind = "drop" /\ b >= Keep(op[s].end) THEN Blank ELSE Held(s, b)

\* The refinement reads the operations' arithmetic as it is.
LEMMA FileIdle ==
  /\ File!Idle = Idle /\ File!Blank = Blank
  /\ File!Blocks = Blocks /\ File!Pos = Pos /\ File!Cells = Cells
BY DEF File!Idle, Idle, File!Blank, Blank, File!Blocks, Blocks, File!Pos, Pos,
       File!Cells, Cells

LEMMA FileArithmetic ==
  ASSUME NEW n
  PROVE  File!Keep(n) = Keep(n) /\ File!AtBlock(n) = AtBlock(n) /\ File!BlockOf(n) = BlockOf(n)
BY DEF File!Keep, Keep, File!AtBlock, AtBlock, File!BlockOf, BlockOf

LEMMA FileOperations ==
  /\ \A a, e, v : File!WriteOp(a, e, v) = WriteOp(a, e, v)
  /\ \A k, n : File!CutOp(k, n) = CutOp(k, n)
  /\ \A i, j : File!Max2(i, j) = Max2(i, j)
BY DEF File!WriteOp, WriteOp, File!CutOp, CutOp, File!Max2, Max2

LEMMA FileParts ==
  ASSUME NEW o
  PROVE  /\ File!Touching(o) = Touching(o) /\ File!Target(o) = Target(o)
         /\ File!PartEnd(o) = PartEnd(o) /\ File!Advance(o) = Advance(o)
<1>1. File!Touching(o) = Touching(o)
  BY DEF File!Touching, Touching
<1>2. File!Target(o) = Target(o)
  BY DEF File!Target, Target, File!BlockOf, BlockOf
<1>3. File!PartEnd(o) = PartEnd(o)
  BY <1>2 DEF File!PartEnd, PartEnd, File!Min2, Min2
<1>4. File!Advance(o) = Advance(o)
  BY <1>3 DEF File!Advance, Advance
<1> QED
  BY <1>1, <1>2, <1>3, <1>4

LEMMA FileOverwrite ==
  ASSUME NEW d, NEW o
  PROVE  File!Overwrite(d, o) = Overwrite(d, o)
BY FileParts, FileIdle DEF File!Overwrite, Overwrite
-----------------------------------------------------------------------------
LEMMA BytesDef ==
  /\ Bytes  = [s \in Scratches |-> [b \in Blocks |-> ByteOf(s, b)]]
  /\ Bytes' = [s \in Scratches |-> [b \in Blocks |-> ByteOf(s, b)']]
BY DEF Bytes, ByteOf, Held, Backing

LEMMA SameBytes ==
  ASSUME \A t \in Scratches : \A b \in Blocks : ByteOf(t, b)' = ByteOf(t, b)
  PROVE  Bytes' = Bytes
BY BytesDef

\* A change of one block of one buffer.
LEMMA OneBlock ==
  ASSUME NEW s \in Scratches, NEW b \in Blocks, NEW d,
         \A t \in Scratches : \A c \in Blocks :
           ByteOf(t, c)' = IF t = s /\ c = b THEN d ELSE ByteOf(t, c)
  PROVE  Bytes' = [Bytes EXCEPT ![s][b] = d]
BY BytesDef

\* A step that changes no block and starts or ends no drop is invisible.
LEMMA SameBlocks ==
  ASSUME UNCHANGED <<ram, onDisk, disk>>,
         \A t \in Scratches : op'[t] = op[t] \/ (op[t].kind # "drop" /\ op'[t].kind # "drop")
  PROVE  Bytes' = Bytes
<1>1. ASSUME NEW t \in Scratches, NEW b \in Blocks
      PROVE  ByteOf(t, b)' = ByteOf(t, b)
  BY DEF ByteOf, Held, Backing, ram
<1> QED
  BY <1>1, SameBytes

\* A full write does not depend on what the block held.
LEMMA FullOverwrite ==
  ASSUME TypeInv, NEW s \in Scratches, Touching(op[s]), Full(op[s]), NEW d, NEW e
  PROVE  Overwrite(d, op[s]) = Overwrite(e, op[s])
<1> DEFINE o == op[s]
<1>1. o.at \in Nat /\ AtBlock(o.at) /\ PartEnd(o) = o.at + BlockSize /\ BlockSize \in Nat \ {0}
  BY TouchingType, FileAssumption DEF Full, Op, Pos
<1>2. Target(o) * BlockSize = o.at
  BY <1>1 DEF Target, BlockOf, AtBlock
<1> HIDE DEF o
<1>3. \A c \in Cells : o.at <= o.at + c /\ o.at + c < PartEnd(o)
  BY <1>1 DEF Cells
<1>4. Overwrite(d, o) = Overwrite(e, o)
  BY <1>2, <1>3 DEF Overwrite
<1> QED
  BY <1>4 DEF o
-----------------------------------------------------------------------------
FileInv == TypeInv /\ OrderIsCache /\ CachedIsDirty

\* The blocks an operation changes.
LEMMA ChangeStep ==
  ASSUME FileInv, NEW s \in Scratches,
         WriteThrough(s) \/ ChangeCached(s) \/ ChangeLoaded(s)
  PROVE  File!Change(s)
<1> DEFINE b == Target(op[s])
           d == Overwrite(ByteOf(s, b), op[s])
<1>0. TypeOK
  BY DEF FileInv, TypeInv
<1>1. /\ Touching(op[s]) /\ UNCHANGED <<len, gen>>
      /\ op' = [op EXCEPT ![s] = Advance(op[s])]
  BY DEF WriteThrough, ChangeCached, ChangeLoaded, NeedsBlock
<1>2. b \in Blocks
  BY <1>1, TouchingType DEF FileInv
<1>3. op[s].kind # "drop" /\ op'[s].kind # "drop"
  <2>1. op[s].kind \in {"write", "tail"} /\ op'[s] = Advance(op[s]) /\ op[s] \in Op
    BY <1>0, <1>1 DEF TypeOK, Touching
  <2> QED BY <2>1 DEF Advance, Op
<1>4. \A t \in Scratches \ {s} : op'[t] = op[t]
  BY <1>0, <1>1 DEF TypeOK
<1> HIDE DEF b
<1>5. \A t \in Scratches : \A c \in Blocks :
        Held(t, c)' = IF t = s /\ c = b THEN Overwrite(Held(s, b), op[s]) ELSE Held(t, c)
  <2>1. CASE WriteThrough(s)
    <3>1. /\ b \notin cache[s] /\ Full(op[s]) /\ UNCHANGED <<cache, mem>>
          /\ onDisk' = [onDisk EXCEPT ![s] = @ \cup {b}]
          /\ disk' = [disk EXCEPT ![s][b] = Overwrite(@, op[s])]
      BY <2>1 DEF WriteThrough, WritesThrough, ram, b
    <3>2. Overwrite(disk[s][b], op[s]) = Overwrite(Held(s, b), op[s])
      BY <1>1, <3>1, FullOverwrite DEF FileInv
    <3>3. /\ \A t \in Scratches : \A c \in Blocks :
               c \in onDisk'[t] <=> c \in onDisk[t] \/ (t = s /\ c = b)
          /\ \A t \in Scratches : \A c \in Blocks :
               disk'[t][c] = IF t = s /\ c = b THEN Overwrite(Held(s, b), op[s]) ELSE disk[t][c]
      BY <1>0, <1>2, <3>1, <3>2 DEF TypeOK, Matrix
    <3> QED BY <3>1, <3>3 DEF Held, Backing
  <2>2. CASE ChangeCached(s)
    <3>1. /\ b \in cache[s] /\ UNCHANGED <<cache, onDisk, disk>>
          /\ mem' = [mem EXCEPT ![s][b] = Overwrite(@, op[s])]
      BY <2>2 DEF ChangeCached, spill, b
    <3>2. \A t \in Scratches : \A c \in Blocks :
            mem'[t][c] = IF t = s /\ c = b THEN Overwrite(mem[s][b], op[s]) ELSE mem[t][c]
      BY <1>0, <1>2, <3>1 DEF TypeOK, Matrix
    <3> QED BY <3>1, <3>2 DEF Held, Backing
  <2>3. CASE ChangeLoaded(s)
    <3>1. /\ b \notin cache[s] /\ UNCHANGED <<onDisk, disk>>
          /\ cache' = [cache EXCEPT ![s] = @ \cup {b}]
          /\ mem' = [mem EXCEPT ![s][b] =
                       Overwrite(IF Full(op[s]) THEN Blank ELSE Backing(s, b), op[s])]
      BY <2>3 DEF ChangeLoaded, NeedsBlock, spill, b
    <3>2. Overwrite(IF Full(op[s]) THEN Blank ELSE Backing(s, b), op[s])
            = Overwrite(Held(s, b), op[s])
      <4>1. Held(s, b) = Backing(s, b)
        BY <3>1 DEF Held
      <4>2. CASE Full(op[s])
        BY <1>1, <4>2, FullOverwrite DEF FileInv
      <4>3. CASE ~Full(op[s])
        BY <4>1, <4>3
      <4> QED BY <4>2, <4>3
    <3>3. /\ \A t \in Scratches : \A c \in Blocks :
               c \in cache'[t] <=> c \in cache[t] \/ (t = s /\ c = b)
          /\ \A t \in Scratches : \A c \in Blocks :
               mem'[t][c] = IF t = s /\ c = b THEN Overwrite(Held(s, b), op[s]) ELSE mem[t][c]
      BY <1>0, <1>2, <3>1, <3>2 DEF TypeOK, Matrix
    <3> QED BY <3>1, <3>3 DEF Held, Backing
  <2> QED BY <2>1, <2>2, <2>3
<1>6. \A t \in Scratches : \A c \in Blocks :
        ByteOf(t, c)' = IF t = s /\ c = b THEN d ELSE ByteOf(t, c)
  BY <1>3, <1>4, <1>5 DEF ByteOf
<1>7. d = Overwrite(Bytes[s][b], op[s])
  BY <1>2, BytesDef
<1> HIDE DEF d
<1>8. Bytes' = [Bytes EXCEPT ![s][b] = d]
  BY <1>2, <1>6, OneBlock
<1>9. Bytes' = [Bytes EXCEPT ![s][b] = Overwrite(@, op[s])]
  BY <1>7, <1>8
<1> QED
  BY <1>1, <1>9, FileParts, FileOverwrite DEF File!Change, b

\* Shrinking: what lies past the new end reads as zeros from the start.
LEMMA BeginShrinkStep ==
  ASSUME FileInv, NEW s \in Scratches, NEW n \in Pos, BeginShrink(s, n)
  PROVE  File!BeginShrink(s, n)
<1>0. TypeOK
  BY DEF FileInv, TypeInv
<1>1. /\ op[s] = Idle /\ op' = [op EXCEPT ![s] = CutOp("drop", n)]
      /\ UNCHANGED <<cache, mem, onDisk, disk, len, gen>>
      /\ n < len[s] /\ gen[s] < MaxGen
  BY DEF BeginShrink, ram, spill
<1>2. /\ op'[s].kind = "drop" /\ op'[s].end = n /\ op[s].kind # "drop"
      /\ \A t \in Scratches \ {s} : op'[t] = op[t]
  BY <1>0, <1>1 DEF TypeOK, Idle, CutOp
<1>3. \A t \in Scratches : \A b \in Blocks :
        ByteOf(t, b)' = IF t = s /\ b >= Keep(n) THEN Blank ELSE ByteOf(t, b)
  BY <1>1, <1>2 DEF ByteOf, Held, Backing
<1>4. Bytes' = [Bytes EXCEPT ![s] =
                  [b \in Blocks |-> IF b >= Keep(n) THEN Blank ELSE Bytes[s][b]]]
  BY <1>3, BytesDef
<1>5. File!Keep(n) = Keep(n) /\ File!Blocks = Blocks /\ File!Blank = Blank
      /\ File!CutOp("drop", n) = CutOp("drop", n) /\ File!Idle = Idle
  BY FileIdle, FileOperations, FileArithmetic
<1> QED
  BY <1>1, <1>4, <1>5 DEF File!BeginShrink

\* The surplus is released and the slots past the new end are forgotten: the array
\* keeps its bytes.
LEMMA TruncateStep ==
  ASSUME FileInv, NEW s \in Scratches, Truncate(s)
  PROVE  File!Dropped(s)
<1> DEFINE n    == op[s].end
           gone == {b \in onDisk[s] : b >= Keep(n)}
           k    == IF HasTail(s, n) THEN "tail" ELSE "cut"
<1>0. TypeOK
  BY DEF FileInv, TypeInv
<1>1. /\ op[s].kind = "drop" /\ Doomed(s) = {}
      /\ UNCHANGED <<cache, mem, len, gen>>
      /\ onDisk' = [onDisk EXCEPT ![s] = @ \ gone]
      /\ disk' = [disk EXCEPT ![s] = [b \in Blocks |-> IF b \in gone THEN Blank ELSE @[b]]]
      /\ op' = [op EXCEPT ![s].kind = k]
  BY DEF Truncate, ram
<1>2. op'[s].kind = k /\ \A t \in Scratches \ {s} : op'[t] = op[t]
  BY <1>0, <1>1 DEF TypeOK, Op
<1>3. \A b \in Blocks : b >= Keep(n) => b \notin cache[s]
  BY <1>1 DEF Doomed
<1>4. \A b \in Blocks : Held(s, b)' = IF b >= Keep(n) THEN Blank ELSE Held(s, b)
  <2>1. ASSUME NEW b \in Blocks
        PROVE  /\ b \in onDisk'[s] <=> b \in onDisk[s] /\ ~(b >= Keep(n))
               /\ ~(b >= Keep(n)) => disk'[s][b] = disk[s][b]
    BY <1>0, <1>1 DEF TypeOK
  <2> QED BY <1>1, <1>3, <2>1 DEF Held, Backing
<1>5. \A t \in Scratches \ {s} : \A b \in Blocks : Held(t, b)' = Held(t, b)
  BY <1>0, <1>1 DEF TypeOK, Held, Backing
<1>6. \A t \in Scratches : \A b \in Blocks : ByteOf(t, b)' = ByteOf(t, b)
  BY <1>1, <1>2, <1>4, <1>5 DEF ByteOf
<1>7. Bytes' = Bytes
  BY <1>6, SameBytes
<1>8. CASE HasTail(s, n)
  BY <1>1, <1>7, <1>8, FileArithmetic DEF HasTail, File!Dropped
<1>9. CASE ~HasTail(s, n)
  <2>1. ~AtBlock(n) => Bytes[s][BlockOf(n)] = Blank
    <3> SUFFICES ASSUME ~AtBlock(n) PROVE Bytes[s][BlockOf(n)] = Blank
      OBVIOUS
    <3>1. BlockOf(n) \notin cache[s] /\ BlockOf(n) \notin onDisk[s]
      BY <1>9 DEF HasTail
    <3>2. BlockOf(n) \in Blocks
      <4>1. n < len[s] /\ n \in Pos /\ len[s] \in Pos
        BY <1>0, <1>1 DEF TypeOK, Op, FileInv, TypeInv, OpShape
      <4>2. n \in Nat /\ n < NBlocks * BlockSize
        BY <4>1, FileAssumption DEF Pos
      <4>3. n \div BlockSize \in Nat /\ n \div BlockSize < NBlocks
        BY <4>2, FileAssumption, DivLess, DivBounds
      <4> QED BY <4>3, FileAssumption DEF BlockOf, Blocks
    <3>3. ByteOf(s, BlockOf(n)) = Blank
      BY <3>1 DEF ByteOf, Held, Backing
    <3> QED BY <3>2, <3>3, BytesDef
  <2> QED
    BY <1>1, <1>7, <1>9, <2>1, FileArithmetic, FileIdle DEF File!Dropped
<1> QED
  BY <1>8, <1>9

\* Evicting a block leaves its bytes where load_block finds them.
LEMMA EvictStep ==
  ASSUME FileInv, NEW s \in Scratches, EvictLru(s)
  PROVE  Bytes' = Bytes /\ UNCHANGED <<len, gen, op>>
<1>0. TypeOK /\ CachedIsDirty
  BY DEF FileInv, TypeInv
<1>1. Head(order[s]) \in cache[s] /\ Head(order[s]) \in Blocks
  <2>1. cache[s] # {} /\ cache[s] = ToSet(order[s]) /\ order[s] \in Seq(Blocks)
    BY <1>0 DEF EvictLru, MustEvict, TypeOK, FileInv, OrderIsCache
  <2>2. order[s] # <<>>
    BY <2>1 DEF ToSet
  <2>3. Head(order[s]) = order[s][1] /\ 1 \in DOMAIN order[s] /\ Head(order[s]) \in Blocks
    BY <2>1, <2>2, HeadTailProperties
  <2> QED BY <2>1, <2>3 DEF ToSet
<1>2. PICK b \in Blocks : b = Head(order[s])
  BY <1>1
<1>3. /\ cache' = [cache EXCEPT ![s] = @ \ {b}]
      /\ mem' = [mem EXCEPT ![s][b] = Blank]
      /\ UNCHANGED <<len, gen, op>>
  BY <1>2 DEF EvictLru
<1>4. \A t \in Scratches : \A c \in Blocks :
        /\ c \in cache'[t] <=> c \in cache[t] /\ ~(t = s /\ c = b)
        /\ ~(t = s /\ c = b) => mem'[t][c] = mem[t][c]
  BY <1>0, <1>3 DEF TypeOK, Matrix
<1>5. CASE b \in dirty[s]
  <2>1. /\ onDisk' = [onDisk EXCEPT ![s] = @ \cup {b}]
        /\ disk' = [disk EXCEPT ![s][b] = mem[s][b]]
    BY <1>2, <1>5 DEF EvictLru
  <2>2. \A t \in Scratches : \A c \in Blocks :
          /\ c \in onDisk'[t] <=> c \in onDisk[t] \/ (t = s /\ c = b)
          /\ disk'[t][c] = IF t = s /\ c = b THEN mem[s][b] ELSE disk[t][c]
    BY <1>0, <2>1 DEF TypeOK, Matrix
  <2>3. \A t \in Scratches : \A c \in Blocks : Held(t, c)' = Held(t, c)
    BY <1>1, <1>2, <1>4, <2>2 DEF Held, Backing
  <2>4. \A t \in Scratches : \A c \in Blocks : ByteOf(t, c)' = ByteOf(t, c)
    BY <1>3, <2>3 DEF ByteOf
  <2> QED BY <1>3, <2>4, SameBytes
<1>6. b \in dirty[s]
  BY <1>0, <1>1, <1>2 DEF CachedIsDirty
<1> QED
  BY <1>5, <1>6

LEMMA DropStep ==
  ASSUME FileInv, NEW s \in Scratches, NEW b \in Blocks, DropBlock(s, b)
  PROVE  Bytes' = Bytes /\ UNCHANGED <<len, gen, op>>
<1>0. TypeOK
  BY DEF FileInv, TypeInv
<1>1. /\ op[s].kind = "drop" /\ b >= Keep(op[s].end)
      /\ cache' = [cache EXCEPT ![s] = @ \ {b}]
      /\ mem' = [mem EXCEPT ![s][b] = Blank]
      /\ UNCHANGED <<onDisk, disk, len, gen, op>>
  BY DEF DropBlock, Doomed, spill
<1>2. \A t \in Scratches : \A c \in Blocks : ~(t = s /\ c = b) =>
        /\ c \in cache'[t] <=> c \in cache[t]
        /\ mem'[t][c] = mem[t][c]
  BY <1>0, <1>1 DEF TypeOK, Matrix
<1>3. \A t \in Scratches : \A c \in Blocks : ~(t = s /\ c = b) => Held(t, c)' = Held(t, c)
  BY <1>1, <1>2 DEF Held, Backing
<1>4. \A t \in Scratches : \A c \in Blocks : ByteOf(t, c)' = ByteOf(t, c)
  BY <1>1, <1>3 DEF ByteOf
<1> QED
  BY <1>1, <1>4, SameBytes

LEMMA DiscardStep ==
  ASSUME FileInv, NEW s \in Scratches, Discard(s)
  PROVE  File!Discard(s)
<1>0. TypeOK
  BY DEF FileInv, TypeInv
<1>1. /\ op[s] = Idle /\ UNCHANGED op
      /\ cache' = [cache EXCEPT ![s] = {}] /\ onDisk' = [onDisk EXCEPT ![s] = {}]
      /\ mem' = [mem EXCEPT ![s] = [b \in Blocks |-> Blank]]
      /\ disk' = [disk EXCEPT ![s] = [b \in Blocks |-> Blank]]
      /\ len' = [len EXCEPT ![s] = 0] /\ gen' = [gen EXCEPT ![s] = 0]
  BY DEF Discard
<1>2. \A t \in Scratches : \A b \in Blocks :
        Held(t, b)' = IF t = s THEN Blank ELSE Held(t, b)
  BY <1>0, <1>1 DEF TypeOK, Held, Backing
<1>3. \A t \in Scratches : \A b \in Blocks :
        ByteOf(t, b)' = IF t = s THEN Blank ELSE ByteOf(t, b)
  BY <1>1, <1>2 DEF ByteOf, Idle
<1>4. Bytes' = [Bytes EXCEPT ![s] = [b \in Blocks |-> Blank]]
  BY <1>3, BytesDef
<1> QED
  BY <1>1, <1>4, FileIdle DEF File!Discard

\* The steps that only move the operation along.
LEMMA OtherFileSteps ==
  ASSUME FileInv, NEW s \in Scratches
  PROVE  /\ \A off, end \in Pos, v \in Values :
              BeginWrite(s, off, end, v) => File!BeginWrite(s, off, end, v)
         /\ \A n \in Pos : Extend(s, n) => File!Extend(s, n)
         /\ Finish(s) => File!Finish(s)
         /\ LoadFails(s) \/ SpillFails(s) => File!Fail(s)
<1>0. TypeOK
  BY DEF FileInv, TypeInv
<1>1. ASSUME NEW off \in Pos, NEW end \in Pos, NEW v \in Values, BeginWrite(s, off, end, v)
      PROVE  File!BeginWrite(s, off, end, v)
  <2>1. \A t \in Scratches : op'[t] = op[t] \/ (op[t].kind # "drop" /\ op'[t].kind # "drop")
    BY <1>0, <1>1 DEF TypeOK, BeginWrite, Idle, WriteOp
  <2>2. Bytes' = Bytes
    BY <1>1, <2>1, SameBlocks DEF BeginWrite, spill
  <2> QED BY <1>1, <2>2, FileIdle, FileOperations DEF BeginWrite, File!BeginWrite
<1>2. ASSUME NEW n \in Pos, Extend(s, n)
      PROVE  File!Extend(s, n)
  <2>1. Bytes' = Bytes
    BY <1>2, SameBlocks DEF Extend, spill
  <2> QED BY <1>2, <2>1, FileIdle DEF Extend, File!Extend
<1>3. ASSUME Finish(s)
      PROVE  File!Finish(s)
  <2>1. \A t \in Scratches : op'[t] = op[t] \/ (op[t].kind # "drop" /\ op'[t].kind # "drop")
    BY <1>0, <1>3 DEF TypeOK, Finish, Idle
  <2>2. Bytes' = Bytes
    BY <1>3, <2>1, SameBlocks DEF Finish, spill
  <2> QED BY <1>3, <2>2, FileIdle, FileOperations DEF Finish, File!Finish
<1>4. ASSUME LoadFails(s) \/ SpillFails(s)
      PROVE  File!Fail(s)
  <2>1. /\ Faults /\ Touching(op[s]) /\ op' = [op EXCEPT ![s] = Idle]
        /\ UNCHANGED <<ram, onDisk, disk, len, gen>>
    BY <1>4 DEF LoadFails, SpillFails, Fails, NeedsBlock
  <2>2. \A t \in Scratches : op'[t] = op[t] \/ (op[t].kind # "drop" /\ op'[t].kind # "drop")
    BY <1>0, <2>1 DEF TypeOK, Touching, Idle
  <2>3. Bytes' = Bytes
    BY <2>1, <2>2, SameBlocks
  <2> QED BY <2>1, <2>3, FileIdle, FileParts DEF File!Fail
<1> QED
  BY <1>1, <1>2, <1>3, <1>4

\* Uploads only read.
LEMMA ReadersStep ==
  ASSUME FileInv, UNCHANGED vars \/ \E s \in Scratches : UploadStep(s)
  PROVE  Bytes' = Bytes /\ UNCHANGED <<len, gen, op>>
<1>1. UNCHANGED <<ram, spill, len, gen, op>>
  BY DEF UploadStep, BeginUpload, ReadChunk, UploadFails, MarkCommitted, vars
<1> QED
  BY <1>1, SameBlocks DEF spill

LEMMA FileInit == Init => File!Init
<1> SUFFICES ASSUME Init PROVE File!Init
  OBVIOUS
<1>1. \A s \in Scratches : \A b \in Blocks : ByteOf(s, b) = Blank
  BY DEF Init, ByteOf, Held, Backing
<1>2. Bytes = [s \in Scratches |-> [b \in Blocks |-> Blank]]
  BY <1>1, BytesDef
<1> QED
  BY <1>2, FileIdle DEF Init, File!Init

LEMMA FileNext == FileInv /\ [Next]_vars => [File!Next]_(File!vars)
<1> SUFFICES ASSUME FileInv, [Next]_vars PROVE File!Next \/ UNCHANGED File!vars
  OBVIOUS
<1>1. ASSUME Bytes' = Bytes, UNCHANGED <<len, gen, op>>
      PROVE  UNCHANGED File!vars
  BY <1>1 DEF File!vars
<1>2. ASSUME NEW s \in Scratches,
             \/ \E off, end \in Pos, v \in Values : File!BeginWrite(s, off, end, v)
             \/ \E n \in Pos : File!BeginShrink(s, n) \/ File!Extend(s, n)
             \/ File!Dropped(s) \/ File!Change(s) \/ File!Finish(s) \/ File!Fail(s)
             \/ File!Discard(s)
      PROVE  File!Next
  BY <1>2, FileIdle DEF File!Next
<1>3. ASSUME NEW s \in Scratches, OpStep(s)
      PROVE  File!Next \/ UNCHANGED File!vars
  <2>1. CASE WriteThrough(s) \/ ChangeCached(s) \/ ChangeLoaded(s)
    BY <1>2, <2>1, ChangeStep
  <2>2. CASE LoadFails(s) \/ SpillFails(s) \/ Finish(s)
    BY <1>2, <2>2, OtherFileSteps
  <2>3. CASE EvictLru(s)
    BY <1>1, <2>3, EvictStep
  <2>4. CASE Truncate(s)
    BY <1>2, <2>4, TruncateStep
  <2>5. CASE \E b \in Blocks : DropBlock(s, b)
    BY <1>1, <2>5, DropStep
  <2> QED BY <1>3, <2>1, <2>2, <2>3, <2>4, <2>5 DEF OpStep
<1>4. ASSUME NEW s \in Scratches, NEW off \in Pos, NEW end \in Pos, NEW v \in Values,
             BeginWrite(s, off, end, v)
      PROVE  File!Next
  BY <1>2, <1>4, OtherFileSteps
<1>5. ASSUME NEW s \in Scratches, NEW n \in Pos, Extend(s, n) \/ BeginShrink(s, n)
      PROVE  File!Next
  BY <1>2, <1>5, OtherFileSteps, BeginShrinkStep
<1>6. ASSUME NEW s \in Scratches, Discard(s)
      PROVE  File!Next
  BY <1>2, <1>6, DiscardStep
<1>7. CASE UNCHANGED vars \/ \E s \in Scratches : UploadStep(s)
  BY <1>1, <1>7, ReadersStep
<1> QED
  BY <1>3, <1>4, <1>5, <1>6, <1>7 DEF Next

\* Whatever the budget, the evictions and the failures, a buffer is an array of
\* bytes to the filesystem (scratch.rs write_at, set_len, read_at).
THEOREM ScratchImplementsFile == Spec => FileSpec
<1>1. Init => FileInv
  BY TypeInit DEF Init, FileInv, OrderIsCache, ToSet, CachedIsDirty
<1>2. FileInv /\ [Next]_vars => FileInv'
  BY TypeNext, OrderNext, DirtyNext DEF FileInv
<1> QED
  BY <1>1, <1>2, FileInit, FileNext, PTL DEF Spec, FileSpec, File!Spec

-----------------------------------------------------------------------------
(***************************************************************************)
(* What a write buffer holds: zeros past its end, and, when it says that   *)
(* it is clean, exactly what the last upload sent.  The proof is about the *)
(* array of bytes that the buffer implements, not about its cache and its  *)
(* spill file.                                                             *)
(***************************************************************************)

\* The position of a cell in the file.
At(b, c) == b * BlockSize + c

\* The positions past the end, which moves while an operation runs: a write may have
\* passed it, and a set_len moves it down, first by blocks, then by the tail.
Beyond(t, b, c) ==
  \/ op[t].kind \in {"idle", "write"} /\ At(b, c) >= len[t] /\ At(b, c) >= op[t].at
  \/ op[t].kind \in {"drop", "tail"} /\ b >= Keep(op[t].end)
  \/ op[t].kind = "cut" /\ At(b, c) >= op[t].end

Zeros(t) == \A b \in Blocks, c \in Cells : Beyond(t, b, c) => Bytes[t][b][c] = Zero

\* An upload that no change has overtaken has sent what the buffer holds.
Reading(t) ==
  upload[t].on /\ upload[t].gen = gen[t] /\ op[t] = Idle =>
    /\ upload[t].end = len[t]
    /\ \A b \in Blocks, c \in Cells :
         At(b, c) < upload[t].pos => upload[t].data[b][c] = Bytes[t][b][c]

Clean(t) ==
  op[t] = Idle /\ gen[t] = committed[t] =>
    /\ remote[t].len = len[t]
    /\ \A b \in Blocks, c \in Cells :
         At(b, c) < len[t] => remote[t].data[b][c] = Bytes[t][b][c]

\* An acknowledged change makes a number that no upload so far has.
Counts(t) ==
  /\ committed[t] <= gen[t]
  /\ upload[t].on => upload[t].gen <= gen[t]
  /\ op[t].kind \in {"drop", "tail", "cut"} => op[t].val = Zero

Content(t)  == Counts(t) /\ (failed[t] = 0 => Zeros(t) /\ Reading(t) /\ Clean(t))
ContentInv  == FileInv /\ \A t \in Scratches : Content(t)
-----------------------------------------------------------------------------
(* Blocks and positions. *)

LEMMA Multiples ==
  ASSUME NEW B \in Nat \ {0}, NEW i \in Int, NEW j \in Int, i < j
  PROVE  i * B + B <= j * B
OBVIOUS

LEMMA CellAt ==
  ASSUME NEW b \in Blocks, NEW c \in Cells
  PROVE  /\ At(b, c) \in Nat /\ b \in Nat /\ b * BlockSize \in Nat
         /\ b * BlockSize <= At(b, c) /\ At(b, c) < b * BlockSize + BlockSize
<1>1. BlockSize \in Nat \ {0} /\ NBlocks \in Nat \ {0}
  BY FileAssumption
<1> QED BY <1>1 DEF At, Blocks, Cells

LEMMA PositionOrder ==
  ASSUME NEW b \in Blocks, NEW c \in Cells, NEW n \in Nat
  PROVE  /\ BlockOf(n) \in Nat
         /\ BlockOf(n) * BlockSize <= n /\ n < BlockOf(n) * BlockSize + BlockSize
         /\ At(b, c) >= n => b >= BlockOf(n)
         /\ b > BlockOf(n) => b >= Keep(n) /\ At(b, c) >= n
         /\ AtBlock(n) => Keep(n) = BlockOf(n)
<1>1. BlockSize \in Nat \ {0}
  BY FileAssumption
<1>2. /\ BlockOf(n) \in Nat
      /\ BlockOf(n) * BlockSize <= n /\ n < BlockOf(n) * BlockSize + BlockSize
  BY <1>1, DivBounds DEF BlockOf
<1>3. ASSUME At(b, c) >= n PROVE b >= BlockOf(n)
  <2>1. SUFFICES ASSUME b < BlockOf(n) PROVE FALSE
    BY <1>2, CellAt
  <2>2. b * BlockSize + BlockSize <= BlockOf(n) * BlockSize
    BY <1>1, <1>2, <2>1, CellAt, Multiples
  <2> QED BY <1>1, <1>2, <1>3, <2>2, CellAt
<1>4. ASSUME b > BlockOf(n) PROVE b >= Keep(n) /\ At(b, c) >= n
  <2>1. BlockOf(n) * BlockSize + BlockSize <= b * BlockSize
    BY <1>1, <1>2, <1>4, CellAt, Multiples
  <2>2. At(b, c) >= n
    BY <1>1, <1>2, <2>1, CellAt
  <2>3. b >= Keep(n)
    <3> DEFINE k == Keep(n)
    <3>1. k \in Nat /\ k * BlockSize <= n + BlockSize - 1
      BY <1>1, DivBounds DEF Keep
    <3> HIDE DEF k
    <3>2. SUFFICES ASSUME b < k PROVE FALSE
      BY <3>1, CellAt DEF k
    <3>3. b * BlockSize + BlockSize <= k * BlockSize
      BY <1>1, <3>1, <3>2, CellAt, Multiples
    <3> QED BY <1>1, <1>2, <2>1, <3>1, <3>3, CellAt
  <2> QED BY <2>2, <2>3
<1>5. ASSUME AtBlock(n) PROVE Keep(n) = BlockOf(n)
  <2> DEFINE k == Keep(n)  m == BlockOf(n)
  <2>1. k \in Nat /\ k * BlockSize <= n + BlockSize - 1 /\ n + BlockSize - 1 < (k + 1) * BlockSize
    BY <1>1, DivBounds DEF Keep
  <2>2. m \in Nat /\ m * BlockSize = n
    BY <1>1, <1>2, <1>5 DEF AtBlock, BlockOf
  <2> HIDE DEF k, m
  <2>3. ~(k < m)
    <3>1. SUFFICES ASSUME k < m PROVE FALSE
      OBVIOUS
    <3>2. k * BlockSize + BlockSize <= m * BlockSize
      BY <1>1, <2>1, <2>2, <3>1, Multiples
    <3>3. (k + 1) * BlockSize = k * BlockSize + BlockSize
      BY <1>1, <2>1
    <3> QED BY <1>1, <2>1, <2>2, <3>2, <3>3
  <2>4. ~(m < k)
    <3>1. SUFFICES ASSUME m < k PROVE FALSE
      OBVIOUS
    <3>2. m * BlockSize + BlockSize <= k * BlockSize
      BY <1>1, <2>1, <2>2, <3>1, Multiples
    <3> QED BY <1>1, <2>1, <2>2, <3>2
  <2>5. k = m
    BY <2>1, <2>2, <2>3, <2>4
  <2> QED BY <2>5 DEF k, m
<1> QED BY <1>2, <1>3, <1>4, <1>5
-----------------------------------------------------------------------------
\* A buffer of which a step changes nothing that is spoken of.
LEMMA SameContent ==
  ASSUME NEW t \in Scratches, Content(t), Bytes'[t] = Bytes[t], op'[t] = op[t],
         len'[t] = len[t], gen'[t] = gen[t], failed'[t] = failed[t],
         committed'[t] = committed[t], upload'[t] = upload[t], remote'[t] = remote[t]
  PROVE  Content(t)'
<1>1. Counts(t)'
  BY DEF Content, Counts
<1>2. \A b \in Blocks, c \in Cells : Beyond(t, b, c)' <=> Beyond(t, b, c)
  BY DEF Beyond, At, Keep
<1>3. ASSUME failed[t] = 0 PROVE Zeros(t)' /\ Reading(t)' /\ Clean(t)'
  <2>1. Zeros(t)'
    BY <1>2, <1>3 DEF Content, Zeros
  <2>2. Reading(t)'
    BY <1>3 DEF Content, Reading, At
  <2>3. Clean(t)'
    BY <1>3 DEF Content, Clean, At
  <2> QED BY <2>1, <2>2, <2>3
<1> QED BY <1>1, <1>3 DEF Content

\* A step of one buffer is looked at in that buffer only.
LEMMA OtherBuffers ==
  ASSUME ContentInv, NEW s \in Scratches, Content(s)',
         \A t \in Scratches \ {s} :
           /\ Bytes'[t] = Bytes[t] /\ op'[t] = op[t] /\ len'[t] = len[t] /\ gen'[t] = gen[t]
           /\ failed'[t] = failed[t] /\ committed'[t] = committed[t]
           /\ upload'[t] = upload[t] /\ remote'[t] = remote[t]
  PROVE  \A t \in Scratches : Content(t)'
<1>1. ASSUME NEW t \in Scratches \ {s} PROVE Content(t)'
  BY SameContent DEF ContentInv
<1> QED BY <1>1

\* The bytes of an idle buffer are what read_at finds.
LEMMA IdleBytes ==
  ASSUME NEW s \in Scratches, op[s] = Idle, NEW b \in Blocks
  PROVE  Bytes[s][b] = Held(s, b)
BY DEF Bytes, Idle

\* One read of an upload: up to the end of the block, which is in its place after the
\* cells that have been read before.
LEMMA ReadContent ==
  ASSUME ContentInv, NEW s \in Scratches, ReadChunk(s), Bytes' = Bytes
  PROVE  \A t \in Scratches : Content(t)'
<1> DEFINE u == upload[s]
           b == BlockOf(u.pos)
           e == ReadEnd(s)
           d == [c \in Cells |-> IF u.pos <= b * BlockSize + c /\ b * BlockSize + c < e
                                 THEN Held(s, b)[c] ELSE u.data[b][c]]
<1>0. TypeOK
  BY DEF ContentInv, FileInv, TypeInv
<1>1. /\ op[s] = Idle /\ u.on /\ u.pos < u.end /\ u.pos < len[s]
      /\ UNCHANGED <<failed, len, gen, op, committed, remote>>
  BY DEF ReadChunk, spill
<1>2. /\ u \in [on : BOOLEAN, gen : Nat, pos : Pos, end : Pos, data : Matrix]
      /\ len[s] \in Pos
  BY <1>0 DEF TypeOK
<1>3. /\ u.pos \in Nat /\ u.end \in Nat /\ len[s] \in Nat
      /\ NBlocks \in Nat /\ BlockSize \in Nat \ {0} /\ len[s] <= NBlocks * BlockSize
  BY <1>2, FileAssumption DEF Pos
<1>4. b \in Blocks
  BY <1>1, <1>3, DivLess, DivBounds DEF Blocks, BlockOf
<1>5. upload' = [upload EXCEPT ![s] = [u EXCEPT !.pos = e, !.data[b] = d]]
  BY <1>0, <1>2, <1>4 DEF ReadChunk, TypeOK, Matrix
<1>6. /\ upload'[s].on = u.on /\ upload'[s].gen = u.gen /\ upload'[s].end = u.end
      /\ upload'[s].pos = e
      /\ \A x \in Blocks : upload'[s].data[x] = IF x = b THEN d ELSE u.data[x]
      /\ \A t \in Scratches \ {s} : upload'[t] = upload[t]
  BY <1>0, <1>2, <1>4, <1>5 DEF TypeOK, Matrix
<1>7. e <= (b + 1) * BlockSize
  BY <1>3, <1>4, BlockEndBound DEF ReadEnd, Min2, Blocks
<1>8. (b + 1) * BlockSize = b * BlockSize + BlockSize
  BY <1>3, <1>4 DEF Blocks
<1>9. ASSUME NEW x \in Blocks, NEW c \in Cells, At(x, c) < e,
             \A y \in Blocks, z \in Cells : At(y, z) < u.pos => u.data[y][z] = Bytes[s][y][z]
      PROVE  upload'[s].data[x][c] = Bytes[s][x][c]
  <2>1. CASE x = b
    <3>1. Bytes[s][b] = Held(s, b)
      BY <1>1, <1>4, IdleBytes
    <3>2. upload'[s].data[x][c] = IF u.pos <= At(x, c) THEN Held(s, b)[c] ELSE u.data[b][c]
      BY <1>4, <1>6, <1>9, <2>1 DEF At
    <3> QED BY <1>3, <1>9, <2>1, <3>1, <3>2, CellAt
  <2>2. CASE x # b
    <3>1. upload'[s].data[x] = u.data[x]
      BY <1>6, <2>2
    <3>2. x < b
      <4>1. SUFFICES ASSUME b < x PROVE FALSE
        BY <1>4, <2>2 DEF Blocks
      <4>2. b * BlockSize + BlockSize <= x * BlockSize
        BY <1>3, <1>4, <4>1, Multiples DEF Blocks
      <4>3. e \in Int
        BY <1>2, <1>3, <1>4, BlockEndBound DEF ReadEnd, Min2, Blocks
      <4> QED BY <1>3, <1>4, <1>7, <1>8, <1>9, <4>2, <4>3, CellAt
    <3>3. At(x, c) < u.pos
      <4>0. b * BlockSize <= u.pos
        BY <1>3, DivBounds DEF BlockOf
      <4>1. x * BlockSize + BlockSize <= b * BlockSize
        <5>1. x \in Int /\ b \in Int
          BY <1>4 DEF Blocks
        <5> HIDE DEF b
        <5> QED BY <1>3, <3>2, <5>1, Multiples
      <4>2. b * BlockSize \in Nat
        BY <1>3, <1>4 DEF Blocks
      <4> QED BY <1>3, <4>0, <4>1, <4>2, CellAt
    <3> QED BY <1>9, <3>1, <3>3
  <2> QED BY <2>1, <2>2
<1> HIDE DEF u, b, e, d
<1>10. Content(s)'
  <2>1. Counts(s)'
    BY <1>1, <1>6 DEF ContentInv, Content, Counts, u
  <2>2. ASSUME failed[s] = 0 PROVE Zeros(s)' /\ Reading(s)' /\ Clean(s)'
    <3>1. Zeros(s) /\ Reading(s) /\ Clean(s)
      BY <2>2 DEF ContentInv, Content
    <3>2. Zeros(s)'
      BY <1>1, <3>1 DEF Zeros, Beyond, At
    <3>3. Clean(s)'
      BY <1>1, <3>1 DEF Clean, At
    <3>4. Reading(s)'
      BY <1>1, <1>6, <1>9, <3>1 DEF Reading, At, u
    <3> QED BY <3>2, <3>3, <3>4
  <2> QED BY <1>1, <2>1, <2>2 DEF Content
<1> QED BY <1>1, <1>6, <1>10, OtherBuffers

LEMMA UploadContent ==
  ASSUME ContentInv, NEW s \in Scratches, UploadStep(s)
  PROVE  \A t \in Scratches : Content(t)'
<1>0. TypeOK
  BY DEF ContentInv, FileInv, TypeInv
<1>1. Bytes' = Bytes /\ UNCHANGED <<len, gen, op>>
  BY ReadersStep DEF ContentInv
<1>2. UNCHANGED failed
  BY DEF UploadStep, BeginUpload, ReadChunk, UploadFails, MarkCommitted, spill
<1>3. CASE BeginUpload(s)
  <2>1. /\ upload' = [upload EXCEPT ![s] = [NoUpload EXCEPT !.on = TRUE, !.gen = gen[s], !.end = len[s]]]
        /\ UNCHANGED <<committed, remote>>
    BY <1>3 DEF BeginUpload
  <2>2. /\ upload'[s].on /\ upload'[s].gen = gen[s] /\ upload'[s].end = len[s] /\ upload'[s].pos = 0
        /\ \A t \in Scratches \ {s} : upload'[t] = upload[t]
    BY <1>0, <2>1 DEF TypeOK, NoUpload
  <2>3. Content(s)'
    <3>1. Counts(s)'
      BY <1>0, <1>1, <2>1, <2>2 DEF ContentInv, Content, Counts, TypeOK
    <3>2. ASSUME failed[s] = 0 PROVE Zeros(s)' /\ Reading(s)' /\ Clean(s)'
      <4>1. Zeros(s) /\ Clean(s)
        BY <3>2 DEF ContentInv, Content
      <4>2. Zeros(s)'
        BY <1>1, <4>1 DEF Zeros, Beyond, At
      <4>3. Clean(s)'
        BY <1>1, <2>1, <4>1 DEF Clean, At
      <4>4. \A b \in Blocks, c \in Cells : ~(At(b, c) < 0)
        BY CellAt
      <4>5. Reading(s)'
        BY <1>1, <2>2, <4>4 DEF Reading, At
      <4> QED BY <4>2, <4>3, <4>5
    <3> QED BY <1>2, <3>1, <3>2 DEF Content
  <2> QED BY <1>1, <1>2, <2>1, <2>2, <2>3, OtherBuffers
<1>4. CASE ReadChunk(s)
  BY <1>1, <1>4, ReadContent
<1>5. CASE UploadFails(s)
  <2>1. upload' = [upload EXCEPT ![s] = NoUpload] /\ UNCHANGED <<committed, remote>>
    BY <1>5 DEF UploadFails
  <2>2. ~upload'[s].on /\ \A t \in Scratches \ {s} : upload'[t] = upload[t]
    BY <1>0, <2>1 DEF TypeOK, NoUpload
  <2>3. Content(s)'
    <3>1. Counts(s)'
      BY <1>1, <2>1, <2>2 DEF ContentInv, Content, Counts
    <3>2. ASSUME failed[s] = 0 PROVE Zeros(s)' /\ Reading(s)' /\ Clean(s)'
      <4>1. Zeros(s) /\ Clean(s)
        BY <3>2 DEF ContentInv, Content
      <4>2. Zeros(s)'
        BY <1>1, <4>1 DEF Zeros, Beyond, At
      <4>3. Clean(s)'
        BY <1>1, <2>1, <4>1 DEF Clean, At
      <4> QED BY <2>2, <4>2, <4>3 DEF Reading
    <3> QED BY <1>2, <3>1, <3>2 DEF Content
  <2> QED BY <1>1, <1>2, <2>1, <2>2, <2>3, OtherBuffers
<1>6. CASE MarkCommitted(s)
  <2>0. op[s] = Idle /\ upload[s].on /\ upload[s].pos = upload[s].end
    BY <1>6 DEF MarkCommitted
  <2>1. /\ remote' = [remote EXCEPT ![s] = [len |-> upload[s].end, data |-> upload[s].data]]
        /\ committed' = [committed EXCEPT ![s] = upload[s].gen]
        /\ upload' = [upload EXCEPT ![s] = NoUpload]
    BY <1>6 DEF MarkCommitted
  <2>2. /\ ~upload'[s].on /\ committed'[s] = upload[s].gen
        /\ remote'[s].len = upload[s].end /\ remote'[s].data = upload[s].data
        /\ \A t \in Scratches \ {s} : /\ upload'[t] = upload[t] /\ committed'[t] = committed[t]
                                       /\ remote'[t] = remote[t]
    BY <1>0, <2>1 DEF TypeOK, NoUpload
  <2>3. Content(s)'
    <3>1. Counts(s)'
      BY <1>1, <2>0, <2>2 DEF ContentInv, Content, Counts
    <3>2. ASSUME failed[s] = 0 PROVE Zeros(s)' /\ Reading(s)' /\ Clean(s)'
      <4>1. Zeros(s) /\ Reading(s)
        BY <3>2 DEF ContentInv, Content
      <4>2. Zeros(s)'
        BY <1>1, <4>1 DEF Zeros, Beyond, At
      <4>3. Clean(s)'
        BY <1>1, <2>0, <2>2, <4>1 DEF Clean, Reading, At
      <4> QED BY <2>2, <4>2, <4>3 DEF Reading
    <3> QED BY <1>2, <3>1, <3>2 DEF Content
  <2> QED BY <1>1, <1>2, <2>2, <2>3, OtherBuffers
<1> QED BY <1>3, <1>4, <1>5, <1>6 DEF UploadStep
-----------------------------------------------------------------------------
(* Operations.  While one runs, nothing is said of uploads; when it ends, the *)
(* buffer has a number that no upload has.                                    *)

\* An operation begins or goes on.
LEMMA RunningContent ==
  ASSUME ContentInv, NEW s \in Scratches, UNCHANGED <<len, gen, failed, sync>>,
         op'[s].kind # "idle", Counts(s)', failed[s] = 0 => Zeros(s)',
         \A t \in Scratches \ {s} : Bytes'[t] = Bytes[t] /\ op'[t] = op[t]
  PROVE  \A t \in Scratches : Content(t)'
<1>1. op'[s] # Idle
  BY DEF Idle
<1>2. Reading(s)' /\ Clean(s)'
  BY <1>1 DEF Reading, Clean
<1>3. Content(s)'
  BY <1>2 DEF Content
<1> QED BY <1>3, OtherBuffers DEF sync

LEMMA BeginContent ==
  ASSUME ContentInv, NEW s \in Scratches, NEW off \in Pos, NEW end \in Pos, NEW v \in Values,
         BeginWrite(s, off, end, v)
  PROVE  \A t \in Scratches : Content(t)'
<1>0. TypeOK
  BY DEF ContentInv, FileInv, TypeInv
<1>1. Bytes' = Bytes
  BY OtherFileSteps DEF ContentInv, File!BeginWrite
<1>2. /\ op[s] = Idle /\ op' = [op EXCEPT ![s] = WriteOp(off, end, v)]
      /\ UNCHANGED <<len, gen, failed, sync>>
  BY DEF BeginWrite, spill
<1>3. /\ op'[s].kind = "write" /\ op'[s].at = off /\ op[s].kind = "idle" /\ op[s].at = 0
      /\ \A t \in Scratches \ {s} : op'[t] = op[t]
  BY <1>0, <1>2 DEF TypeOK, WriteOp, Idle
<1>4. Counts(s)'
  BY <1>2, <1>3 DEF ContentInv, Content, Counts, sync
<1>5. failed[s] = 0 => Zeros(s)'
  <2>1. SUFFICES ASSUME Zeros(s) PROVE Zeros(s)'
    BY DEF ContentInv, Content
  <2>2. \A b \in Blocks, c \in Cells : At(b, c) >= 0
    BY CellAt
  <2>3. \A b \in Blocks, c \in Cells : Beyond(s, b, c)' => Beyond(s, b, c)
    BY <1>2, <1>3, <2>2 DEF Beyond, At
  <2> QED BY <1>1, <2>1, <2>3 DEF Zeros
<1> QED BY <1>1, <1>2, <1>3, <1>4, <1>5, RunningContent

LEMMA BeginShrinkContent ==
  ASSUME ContentInv, NEW s \in Scratches, NEW n \in Pos, BeginShrink(s, n)
  PROVE  \A t \in Scratches : Content(t)'
<1>0. TypeOK
  BY DEF ContentInv, FileInv, TypeInv
<1>1. Bytes' = [Bytes EXCEPT ![s] = [b \in Blocks |-> IF b >= Keep(n) THEN Blank ELSE Bytes[s][b]]]
  BY BeginShrinkStep, FileIdle, FileArithmetic DEF ContentInv, File!BeginShrink
<1>2. op' = [op EXCEPT ![s] = CutOp("drop", n)] /\ UNCHANGED <<len, gen, failed, sync>>
  BY DEF BeginShrink, spill
<1>3. /\ op'[s].kind = "drop" /\ op'[s].end = n /\ op'[s].val = Zero
      /\ \A t \in Scratches \ {s} : op'[t] = op[t] /\ Bytes'[t] = Bytes[t]
  BY <1>0, <1>1, <1>2 DEF TypeOK, CutOp
<1>4. Counts(s)'
  BY <1>2, <1>3 DEF ContentInv, Content, Counts, sync
<1>5. Zeros(s)'
  <2>1. s \in DOMAIN Bytes
    BY BytesDef
  <2>2. ASSUME NEW b \in Blocks, b >= Keep(n) PROVE Bytes'[s][b] = Blank
    BY <1>1, <2>1, <2>2
  <2>3. \A b \in Blocks, c \in Cells : Beyond(s, b, c)' => b >= Keep(n)
    BY <1>3 DEF Beyond, Keep
  <2> QED BY <2>2, <2>3 DEF Zeros, Blank
<1> QED BY <1>2, <1>3, <1>4, <1>5, RunningContent

\* A block of a write is below where the write has got to; the tail that a set_len
\* clears is what was left past the new end.
LEMMA ChangeContent ==
  ASSUME ContentInv, NEW s \in Scratches, WriteThrough(s) \/ ChangeCached(s) \/ ChangeLoaded(s)
  PROVE  \A t \in Scratches : Content(t)'
<1> DEFINE o == op[s]
           b == Target(o)
<1>0. TypeOK
  BY DEF ContentInv, FileInv, TypeInv
<1>1. /\ Touching(o) /\ UNCHANGED <<len, gen>> /\ op' = [op EXCEPT ![s] = Advance(o)]
      /\ Bytes' = [Bytes EXCEPT ![s][b] = Overwrite(@, o)]
  BY ChangeStep, FileParts, FileOverwrite DEF ContentInv, File!Change
<1>2. UNCHANGED <<failed, sync>>
  BY DEF WriteThrough, ChangeCached, ChangeLoaded, spill
<1>3. /\ o \in Op /\ b \in Blocks /\ PartEnd(o) \in Pos /\ o.at < PartEnd(o)
      /\ o.kind \in {"write", "tail"}
  BY <1>1, TouchingType DEF ContentInv, FileInv, Touching
<1>4. op'[s] = Advance(o) /\ \A t \in Scratches \ {s} : op'[t] = op[t]
  BY <1>0, <1>1 DEF TypeOK
<1>5. /\ o.kind = "write" => op'[s].kind = "write" /\ op'[s].at = PartEnd(o)
      /\ o.kind = "tail" => op'[s].kind = "cut" /\ op'[s].end = o.end /\ op'[s].val = o.val
  BY <1>3, <1>4 DEF Advance, Op
<1>6. /\ \A t \in Scratches \ {s} : Bytes'[t] = Bytes[t]
      /\ \A x \in Blocks : Bytes'[s][x] = IF x = b THEN Overwrite(Bytes[s][b], o) ELSE Bytes[s][x]
  <2>1. DOMAIN Bytes = Scratches /\ DOMAIN Bytes[s] = Blocks
    BY BytesDef
  <2> HIDE DEF b, o
  <2> QED BY <1>1, <1>3, <2>1
<1>7. Counts(s)'
  BY <1>1, <1>2, <1>3, <1>5 DEF ContentInv, Content, Counts, sync
<1>8. ASSUME failed[s] = 0 PROVE Zeros(s)'
  <2>1. Zeros(s)
    BY <1>8 DEF ContentInv, Content
  <2>2. ASSUME NEW x \in Blocks, NEW c \in Cells
        PROVE  Bytes'[s][x][c] = IF x = b /\ o.at <= At(b, c) /\ At(b, c) < PartEnd(o)
                                 THEN o.val ELSE Bytes[s][x][c]
    <3>1. Overwrite(Bytes[s][b], o)[c] = IF o.at <= At(b, c) /\ At(b, c) < PartEnd(o)
                                         THEN o.val ELSE Bytes[s][b][c]
      BY DEF Overwrite, At
    <3> HIDE DEF b, o
    <3> QED BY <1>6, <3>1
  <2>3. CASE o.kind = "write"
    <3>1. ASSUME NEW x \in Blocks, NEW c \in Cells, Beyond(s, x, c)'
          PROVE  Bytes'[s][x][c] = Zero
      <4>1. At(x, c) >= len[s] /\ At(x, c) >= PartEnd(o)
        BY <1>1, <1>5, <2>3, <3>1 DEF Beyond, At
      <4>2. At(x, c) \in Nat /\ o.at \in Nat /\ PartEnd(o) \in Nat
        BY <1>3, CellAt, FileAssumption DEF Op, Pos
      <4>3. Beyond(s, x, c)
        BY <1>3, <2>3, <4>1, <4>2 DEF Beyond
      <4>4. ~(x = b /\ At(b, c) < PartEnd(o))
        BY <4>1, <4>2
      <4> QED BY <2>1, <2>2, <4>3, <4>4 DEF Zeros
    <3> QED BY <3>1 DEF Zeros
  <2>4. CASE o.kind = "tail"
    <3>1. o.val = Zero /\ o.at = o.end /\ o.end \in Nat /\ b = BlockOf(o.end)
      BY <1>3, <2>4, FileAssumption DEF ContentInv, Content, Counts, FileInv, TypeInv, OpShape, Op, Pos, Target
    <3>2. PartEnd(o) = b * BlockSize + BlockSize
      BY <1>3, <2>4, FileAssumption DEF PartEnd, Blocks
    <3>3. ASSUME NEW x \in Blocks, NEW c \in Cells, Beyond(s, x, c)'
          PROVE  Bytes'[s][x][c] = Zero
      <4>1. At(x, c) >= o.end
        BY <1>5, <2>4, <3>3 DEF Beyond, At
      <4>2. CASE x = b
        <5>1. At(b, c) < PartEnd(o)
          BY <1>3, <3>2, CellAt
        <5> QED BY <2>2, <3>1, <4>1, <4>2, <5>1
      <4>3. CASE x # b
        <5>1. x >= b /\ x \in Nat /\ b \in Nat
          BY <1>3, <3>1, <4>1, PositionOrder DEF Blocks
        <5>2. x > b
          BY <4>3, <5>1
        <5>3. x >= Keep(o.end)
          BY <3>1, <5>2, PositionOrder
        <5>4. Beyond(s, x, c)
          BY <2>4, <5>3 DEF Beyond
        <5> QED BY <2>1, <2>2, <4>3, <5>4 DEF Zeros
      <4> QED BY <4>2, <4>3
    <3> QED BY <3>3 DEF Zeros
  <2> QED BY <1>3, <2>3, <2>4
<1> HIDE DEF o, b
<1> QED BY <1>1, <1>2, <1>3, <1>4, <1>5, <1>6, <1>7, <1>8, RunningContent

LEMMA TruncateContent ==
  ASSUME ContentInv, NEW s \in Scratches, Truncate(s)
  PROVE  \A t \in Scratches : Content(t)'
<1> DEFINE n == op[s].end
<1>0. TypeOK
  BY DEF ContentInv, FileInv, TypeInv
<1>1. /\ op[s].kind = "drop" /\ Bytes' = Bytes
      /\ \/ op' = [op EXCEPT ![s].kind = "tail"]
         \/ /\ op' = [op EXCEPT ![s].kind = "cut"]
            /\ AtBlock(n) \/ Bytes[s][BlockOf(n)] = Blank
  BY TruncateStep, FileArithmetic, FileIdle DEF ContentInv, File!Dropped
<1>2. UNCHANGED <<len, gen, failed, sync>>
  BY DEF Truncate
<1>3. n \in Nat
  BY <1>0, FileAssumption DEF TypeOK, Op, Pos
<1>4. /\ op'[s].kind \in {"tail", "cut"} /\ op'[s].end = n /\ op'[s].val = op[s].val
      /\ op'[s].kind = "cut" => AtBlock(n) \/ Bytes[s][BlockOf(n)] = Blank
      /\ \A t \in Scratches \ {s} : op'[t] = op[t]
  BY <1>0, <1>1 DEF TypeOK, Op
<1>5. Counts(s)'
  BY <1>1, <1>2, <1>4 DEF ContentInv, Content, Counts, sync
<1>6. ASSUME failed[s] = 0 PROVE Zeros(s)'
  <2>1. Zeros(s)
    BY <1>6 DEF ContentInv, Content
  <2>2. \A x \in Blocks, c \in Cells : x >= Keep(n) => Bytes[s][x][c] = Zero
    BY <1>1, <2>1 DEF Zeros, Beyond
  <2>3. ASSUME NEW x \in Blocks, NEW c \in Cells, Beyond(s, x, c)'
        PROVE  Bytes[s][x][c] = Zero
    <3>1. CASE op'[s].kind = "tail"
      <4>1. x >= Keep(n)
        BY <1>4, <2>3, <3>1 DEF Beyond, Keep
      <4> QED BY <2>2, <4>1
    <3>2. CASE op'[s].kind = "cut"
      <4>1. At(x, c) >= n
        BY <1>4, <2>3, <3>2 DEF Beyond, At
      <4>2. x \in Nat /\ BlockOf(n) \in Nat /\ x >= BlockOf(n)
        BY <1>3, <4>1, PositionOrder, CellAt
      <4>3. CASE x > BlockOf(n)
        BY <1>3, <2>2, <4>3, PositionOrder
      <4>4. CASE x = BlockOf(n)
        <5>1. CASE AtBlock(n)
          <6>1. x >= Keep(n)
            BY <1>3, <4>2, <4>4, <5>1, PositionOrder
          <6> QED BY <2>2, <6>1
        <5>2. CASE ~AtBlock(n)
          BY <1>4, <3>2, <4>4, <5>2 DEF Blank
        <5> QED BY <5>1, <5>2
      <4> QED BY <4>2, <4>3, <4>4
    <3> QED BY <1>4, <3>1, <3>2
  <2> QED BY <1>1, <2>3 DEF Zeros
<1> HIDE DEF n
<1> QED BY <1>1, <1>2, <1>4, <1>5, <1>6, RunningContent

\* An acknowledged change, in the end of an operation or at once.
LEMMA CountedContent ==
  ASSUME ContentInv, NEW s \in Scratches, Finish(s) \/ \E n \in Pos : Extend(s, n)
  PROVE  \A t \in Scratches : Content(t)'
<1>0. TypeOK
  BY DEF ContentInv, FileInv, TypeInv
<1>1. Bytes' = Bytes
  BY OtherFileSteps DEF ContentInv, File!Finish, File!Extend
<1>2. /\ gen' = [gen EXCEPT ![s] = @ + 1] /\ UNCHANGED <<failed, sync>>
      /\ op'[s] = Idle
      /\ \A t \in Scratches \ {s} : op'[t] = op[t] /\ len'[t] = len[t]
  BY SMTT(20), <1>0 DEF Finish, Extend, spill, TypeOK
<1>3. gen[s] \in Nat /\ gen'[s] = gen[s] + 1 /\ \A t \in Scratches \ {s} : gen'[t] = gen[t]
  BY <1>0, <1>2 DEF TypeOK
<1>4. Counts(s)'
  <2>1. committed[s] \in Nat /\ upload[s].gen \in Nat
    BY <1>0 DEF TypeOK
  <2>2. op'[s].kind = "idle"
    BY <1>2 DEF Idle
  <2> QED BY <1>2, <1>3, <2>1, <2>2 DEF ContentInv, Content, Counts, sync
<1>5. Reading(s)' /\ Clean(s)'
  <2>1. committed'[s] # gen'[s] /\ (upload'[s].on => upload'[s].gen # gen'[s])
    BY <1>0, <1>2, <1>3 DEF ContentInv, Content, Counts, sync, TypeOK
  <2> QED BY <2>1 DEF Reading, Clean
<1>6. ASSUME failed[s] = 0 PROVE Zeros(s)'
  <2>1. Zeros(s)
    BY <1>6 DEF ContentInv, Content
  <2>2. \/ op[s].kind = "write" /\ len'[s] = Max2(len[s], op[s].end) /\ op[s].at = op[s].end
        \/ op[s].kind = "cut" /\ len'[s] = op[s].end
        \/ op[s] = Idle /\ len'[s] >= len[s]
    BY <1>0 DEF Finish, Extend, TypeOK
  <2>3. len[s] \in Nat /\ len'[s] \in Nat /\ op[s].end \in Nat
    <3>1. len[s] \in Pos /\ op[s].end \in Pos
      BY <1>0 DEF TypeOK, Op
    <3>2. len'[s] \in Pos
      BY <1>0, <3>1, <2>2 DEF Finish, Extend, TypeOK, Max2
    <3> QED BY <3>1, <3>2, FileAssumption DEF Pos
  <2>4. ASSUME NEW b \in Blocks, NEW c \in Cells, Beyond(s, b, c)' PROVE Beyond(s, b, c)
    <3>1. At(b, c) >= len'[s] /\ At(b, c) \in Nat
      BY <1>2, <2>4, CellAt DEF Beyond, Idle, At
    <3>2. CASE op[s].kind = "write"
      BY <2>2, <2>3, <3>1, <3>2 DEF Beyond, Max2, Idle
    <3>3. CASE op[s].kind = "cut"
      BY <2>2, <3>1, <3>3 DEF Beyond, Idle
    <3>4. CASE op[s] = Idle
      BY <2>2, <2>3, <3>1, <3>4 DEF Beyond, Idle
    <3> QED BY <2>2, <3>2, <3>3, <3>4
  <2> QED BY <1>1, <2>1, <2>4 DEF Zeros
<1>7. Content(s)'
  BY <1>2, <1>4, <1>5, <1>6 DEF Content
<1> QED BY <1>1, <1>2, <1>3, <1>7, OtherBuffers DEF sync

\* Nothing is promised of a buffer that its spill file has failed.
LEMMA FailContent ==
  ASSUME ContentInv, NEW s \in Scratches, LoadFails(s) \/ SpillFails(s)
  PROVE  \A t \in Scratches : Content(t)'
<1>0. TypeOK
  BY DEF ContentInv, FileInv, TypeInv
<1>1. Bytes' = Bytes
  BY OtherFileSteps DEF ContentInv, File!Fail
<1>2. /\ failed' = [failed EXCEPT ![s] = @ + 1] /\ op' = [op EXCEPT ![s] = Idle]
      /\ UNCHANGED <<len, gen, sync>>
  BY DEF LoadFails, SpillFails, Fails
<1>3. /\ failed'[s] # 0 /\ op'[s].kind = "idle"
      /\ \A t \in Scratches \ {s} : failed'[t] = failed[t] /\ op'[t] = op[t]
  BY <1>0, <1>2 DEF TypeOK, Idle
<1>4. Content(s)'
  BY <1>2, <1>3 DEF ContentInv, Content, Counts, sync
<1> QED BY <1>1, <1>2, <1>3, <1>4, OtherBuffers DEF sync

\* A new buffer is empty and clean.
LEMMA DiscardContent ==
  ASSUME ContentInv, NEW s \in Scratches, Discard(s)
  PROVE  \A t \in Scratches : Content(t)'
<1>0. TypeOK
  BY DEF ContentInv, FileInv, TypeInv
<1>1. Bytes' = [Bytes EXCEPT ![s] = [b \in Blocks |-> Blank]]
  BY DiscardStep, FileIdle DEF ContentInv, File!Discard
<1>2. /\ op[s] = Idle /\ ~upload[s].on /\ UNCHANGED <<op, upload>>
      /\ len'[s] = 0 /\ gen'[s] = 0 /\ committed'[s] = 0 /\ remote'[s].len = 0
      /\ \A t \in Scratches \ {s} : /\ len'[t] = len[t] /\ gen'[t] = gen[t] /\ failed'[t] = failed[t]
                                     /\ committed'[t] = committed[t] /\ remote'[t] = remote[t]
  BY <1>0 DEF Discard, TypeOK
<1>3. /\ \A b \in Blocks : Bytes'[s][b] = Blank
      /\ \A t \in Scratches \ {s} : Bytes'[t] = Bytes[t]
  <2>1. DOMAIN Bytes = Scratches
    BY BytesDef
  <2> QED BY <1>1, <2>1
<1>4. Zeros(s)'
  BY <1>3 DEF Zeros, Blank
<1>5. Reading(s)'
  BY <1>2 DEF Reading
<1>6. Clean(s)'
  <2>1. \A b \in Blocks, c \in Cells : ~(At(b, c) < 0)
    BY CellAt
  <2> QED BY <1>2, <2>1 DEF Clean, At
<1>7. Counts(s)'
  BY <1>2 DEF Counts, Idle
<1>8. Content(s)'
  BY <1>4, <1>5, <1>6, <1>7 DEF Content
<1> QED BY <1>2, <1>3, <1>8, OtherBuffers
-----------------------------------------------------------------------------
LEMMA ContentInit == Init => ContentInv
<1> SUFFICES ASSUME Init PROVE ContentInv
  OBVIOUS
<1>1. FileInv
  BY TypeInit DEF Init, FileInv, OrderIsCache, ToSet, CachedIsDirty
<1>2. ASSUME NEW s \in Scratches PROVE Content(s)
  <2>1. \A b \in Blocks : Bytes[s][b] = Blank
    BY <1>2 DEF Init, Bytes, Held, Backing
  <2>2. /\ op[s] = Idle /\ ~upload[s].on /\ gen[s] = 0 /\ committed[s] = 0
        /\ len[s] = 0 /\ remote[s].len = 0
    BY DEF Init, NoUpload
  <2>3. \A b \in Blocks, c \in Cells : ~(At(b, c) < 0)
    BY CellAt
  <2>4. Counts(s)
    BY <2>2 DEF Counts, Idle
  <2>5. Zeros(s) /\ Reading(s) /\ Clean(s)
    BY <2>1, <2>2, <2>3 DEF Zeros, Reading, Clean, Blank
  <2> QED BY <2>4, <2>5 DEF Content
<1> QED BY <1>1, <1>2 DEF ContentInv

LEMMA ContentNext == ContentInv /\ [Next]_vars => ContentInv'
<1> SUFFICES ASSUME ContentInv, [Next]_vars PROVE ContentInv'
  OBVIOUS
<1>1. FileInv'
  BY TypeNext, OrderNext, DirtyNext DEF ContentInv, FileInv
<1>2. SUFFICES \A t \in Scratches : Content(t)'
  BY <1>1 DEF ContentInv
<1>3. ASSUME Bytes' = Bytes, UNCHANGED <<len, gen, op, failed, sync>>
      PROVE  \A t \in Scratches : Content(t)'
  BY <1>3, SameContent DEF ContentInv, sync
<1>4. CASE UNCHANGED vars
  BY <1>3, <1>4, ReadersStep DEF ContentInv, vars, spill
<1>5. ASSUME NEW s \in Scratches, OpStep(s)
      PROVE  \A t \in Scratches : Content(t)'
  <2>1. CASE EvictLru(s)
    BY <1>3, <2>1, EvictStep DEF ContentInv, EvictLru
  <2>2. CASE \E b \in Blocks : DropBlock(s, b)
    BY <1>3, <2>2, DropStep DEF ContentInv, DropBlock, spill
  <2>3. CASE WriteThrough(s) \/ ChangeCached(s) \/ ChangeLoaded(s)
    BY <2>3, ChangeContent
  <2> QED BY <1>5, <2>1, <2>2, <2>3, CountedContent, FailContent, TruncateContent DEF OpStep
<1> QED
  BY <1>4, <1>5, BeginContent, BeginShrinkContent, CountedContent, UploadContent, DiscardContent
  DEF Next

\* Bytes past the end of a file are zero whatever was written, cut and spilled before, so
\* a file that grows shows a hole (scratch.rs set_len, set_len_internal).
THEOREM HolesAreZero == Spec => []ZeroPastEnd
<1>1. ContentInv => ZeroPastEnd
  <2> SUFFICES ASSUME ContentInv, NEW s \in Sound, op[s] = Idle, NEW b \in Blocks, NEW c \in Cells,
                      b * BlockSize + c >= len[s]
               PROVE  Held(s, b)[c] = Zero
    BY DEF ZeroPastEnd
  <2>1. s \in Scratches /\ Zeros(s) /\ op[s].kind = "idle" /\ op[s].at = 0
    BY DEF ContentInv, Content, Sound, Idle
  <2>2. Beyond(s, b, c)
    BY <2>1, CellAt DEF Beyond, At
  <2> QED BY <2>1, <2>2, IdleBytes DEF Zeros
<1> QED BY <1>1, ContentInit, ContentNext, PTL DEF Spec

\* A buffer that says it is clean may be dropped: whatever was written, cut, evicted and
\* loaded while an upload read it, the server has its length and each of its bytes
\* (scratch.rs is_dirty, mark_committed; fuse_fs.rs release).
THEOREM CleanIsSafe == Spec => []CleanIsUploaded
<1>1. ContentInv => CleanIsUploaded
  <2> SUFFICES ASSUME ContentInv, NEW s \in Sound, op[s] = Idle, gen[s] = committed[s]
               PROVE  /\ remote[s].len = len[s]
                      /\ \A b \in Blocks, c \in Cells :
                           b * BlockSize + c < len[s] => remote[s].data[b][c] = Held(s, b)[c]
    BY DEF CleanIsUploaded
  <2>1. s \in Scratches /\ Clean(s)
    BY DEF ContentInv, Content, Sound
  <2> QED BY <2>1, IdleBytes DEF Clean, At
<1> QED BY <1>1, ContentInit, ContentNext, PTL DEF Spec
=============================================================================
