-------------------------- MODULE DataLayoutProofs --------------------------
(***************************************************************************)
(* The data array hands no block out twice, whatever the number of leaves, *)
(* the width of a leaf and the size of the array, and never fails to serve *)
(* a leaf.  First what the operations on the empty blocks guarantee:       *)
(* allocating and releasing keeps the blocks apart and inside the array,   *)
(* hands out cells that were empty and are empty no longer, and touches    *)
(* nothing else.                                                           *)
(*                                                                         *)
(* Then the construction lays the leaves out so that no block has two      *)
(* owners and nothing is cut off, and the operations after it keep that so,*)
(* for every number of leaves, every prediction and every size of the      *)
(* array, when each prefetched leaf keeps to the cells predicted for its   *)
(* keys.                                                                   *)
(***************************************************************************)
EXTENDS DataLayout, NumberProofs

(* The empty blocks are well formed, apart, and below size.                *)
Tidy(blocks, size) ==
  /\ blocks \subseteq Block
  /\ \A b \in blocks : b.left + b.width <= size
  /\ \A b, c \in blocks : b # c => Apart(b.left, b.width, c.left, c.width)

(* The n cells from left on are in no empty block.                         *)
Free(blocks, left, n) ==
  \A b \in blocks : Apart(b.left, b.width, left, n)

----------------------------------------------------------------------------
(* Products of the kind EmptyTiles uses.                                   *)
LEMMA WholeTiles ==
  ASSUME NEW len \in Nat
  PROVE  /\ len \div MaxBlockNum \in Nat
         /\ len % MaxBlockNum \in 0..MaxBlockNum - 1
         /\ len = (len \div MaxBlockNum) * MaxBlockNum + (len % MaxBlockNum)
BY MaxBlockNumAssumption, SMTT(30)

LEMMA Multiples ==
  ASSUME NEW j \in Nat, NEW k \in Nat, j < k
  PROVE  j * MaxBlockNum + MaxBlockNum <= k * MaxBlockNum
<1>1. (k - j - 1) * MaxBlockNum >= 0
  BY MaxBlockNumAssumption, SMTT(30)
<1>2. (k - j - 1) * MaxBlockNum = k * MaxBlockNum - j * MaxBlockNum - MaxBlockNum
  BY MaxBlockNumAssumption, SMTT(30)
<1>3. j * MaxBlockNum \in Nat /\ k * MaxBlockNum \in Nat
  BY MaxBlockNumAssumption, SMTT(30)
<1> QED  BY <1>1, <1>2, <1>3, MaxBlockNumAssumption

----------------------------------------------------------------------------
(* AddEmptyMemoryBlock cuts a range into well formed blocks inside it ...  *)
LEMMA TilesInside ==
  ASSUME NEW left \in Nat, NEW len \in Nat, NEW t \in EmptyTiles(left, len)
  PROVE  /\ t \in Block
         /\ left <= t.left
         /\ t.left + t.width <= left + len
<1> DEFINE rest == len % MaxBlockNum
           q    == len \div MaxBlockNum
<1>1. /\ q \in Nat /\ rest \in 0..MaxBlockNum - 1
      /\ len = q * MaxBlockNum + rest
  BY WholeTiles
<1>2. CASE rest > 0 /\ t = [left |-> left, width |-> rest]
  <2>1. q * MaxBlockNum \in Nat
    BY <1>1, MaxBlockNumAssumption, SMTT(30)
  <2> QED  BY <1>1, <1>2, <2>1, MaxBlockNumAssumption DEF Block
<1>3. CASE \E k \in 0..q - 1 :
             t = [left |-> left + rest + k * MaxBlockNum, width |-> MaxBlockNum]
  <2>1. PICK k \in 0..q - 1 :
          t = [left |-> left + rest + k * MaxBlockNum, width |-> MaxBlockNum]
    BY <1>3
  <2>2. k \in Nat /\ k < q
    BY <1>1, <2>1
  <2>3. k * MaxBlockNum + MaxBlockNum <= q * MaxBlockNum
    BY <1>1, <2>2, Multiples
  <2>4. k * MaxBlockNum \in Nat /\ q * MaxBlockNum \in Nat
    BY <1>1, <2>2, MaxBlockNumAssumption, SMTT(30)
  <2> HIDE DEF rest, q
  <2> QED  BY <1>1, <2>1, <2>3, <2>4, MaxBlockNumAssumption DEF Block
<1> QED  BY <1>2, <1>3 DEF EmptyTiles

(* ... that overlap nowhere ...                                            *)
LEMMA TilesApart ==
  ASSUME NEW left \in Nat, NEW len \in Nat,
         NEW s \in EmptyTiles(left, len), NEW t \in EmptyTiles(left, len),
         s # t
  PROVE  Apart(s.left, s.width, t.left, t.width)
<1> DEFINE rest  == len % MaxBlockNum
           q     == len \div MaxBlockNum
           W(k)  == [left |-> left + rest + k * MaxBlockNum, width |-> MaxBlockNum]
           First == [left |-> left, width |-> rest]
<1>1. q \in Nat /\ rest \in 0..MaxBlockNum - 1
  BY WholeTiles
<1>2. ASSUME NEW x \in EmptyTiles(left, len)
      PROVE  (rest > 0 /\ x = First) \/ (\E k \in Nat : x = W(k))
  BY <1>1, <1>2 DEF EmptyTiles
<1>3. ASSUME NEW k \in Nat
      PROVE  Apart(First.left, First.width, W(k).left, W(k).width)
  <2>1. k * MaxBlockNum \in Nat
    BY MaxBlockNumAssumption, SMTT(30)
  <2> HIDE DEF rest, q
  <2> QED  BY <1>1, <2>1, MaxBlockNumAssumption DEF Apart
<1>4. ASSUME NEW j \in Nat, NEW k \in Nat, j < k
      PROVE  Apart(W(j).left, W(j).width, W(k).left, W(k).width)
  <2>1. j * MaxBlockNum + MaxBlockNum <= k * MaxBlockNum
    BY <1>4, Multiples
  <2>2. j * MaxBlockNum \in Nat /\ k * MaxBlockNum \in Nat
    BY MaxBlockNumAssumption, SMTT(30)
  <2> HIDE DEF rest, q
  <2> QED  BY <1>1, <2>1, <2>2, MaxBlockNumAssumption DEF Apart
<1>5. CASE s = First \/ t = First
  <2> HIDE DEF rest, q, W, First
  <2> QED  BY <1>2, <1>3, <1>5 DEF Apart
<1>6. CASE s # First /\ t # First
  <2>1. PICK j \in Nat, k \in Nat : s = W(j) /\ t = W(k)
    BY <1>2, <1>6
  <2>2. j < k \/ k < j
    BY <2>1
  <2> HIDE DEF rest, q, W, First
  <2> QED  BY <1>4, <2>1, <2>2 DEF Apart
<1> QED  BY <1>5, <1>6

(* ... and include a block of the greatest width once the range has it.    *)
LEMMA TilesWide ==
  ASSUME NEW left \in Nat, NEW len \in Nat, len >= MaxBlockNum
  PROVE  \E t \in EmptyTiles(left, len) : t.width = MaxBlockNum
<1> DEFINE rest == len % MaxBlockNum
           q    == len \div MaxBlockNum
<1>1. q \in Nat /\ rest \in 0..MaxBlockNum - 1 /\ len = q * MaxBlockNum + rest
  BY WholeTiles
<1>2. q # 0
  <2> HIDE DEF rest, q
  <2> QED  BY <1>1, MaxBlockNumAssumption
<1>3. 0 \in 0..q - 1
  BY <1>1, <1>2
<1> DEFINE t == [left |-> left + rest + 0 * MaxBlockNum, width |-> MaxBlockNum]
<1>4. t \in EmptyTiles(left, len)
  BY <1>3 DEF EmptyTiles
<1> QED  BY <1>4

----------------------------------------------------------------------------
(* AddEmptyMemoryBlock on cells that were in no empty block keeps the set  *)
(* tidy, and takes nothing outside those cells.                            *)
LEMMA AddTiles ==
  ASSUME NEW blocks, NEW size \in Nat, Tidy(blocks, size),
         NEW left \in Nat, NEW len \in Nat, left + len <= size,
         \A b \in blocks : b.left + b.width <= left \/ left + len <= b.left
  PROVE  Tidy(blocks \cup EmptyTiles(left, len), size)
<1> DEFINE tiles == EmptyTiles(left, len)
<1>1. \A t \in tiles : /\ t \in Block
                       /\ left <= t.left
                       /\ t.left + t.width <= left + len
  BY TilesInside
<1>2. \A s, t \in tiles : s # t => Apart(s.left, s.width, t.left, t.width)
  BY TilesApart
<1> HIDE DEF tiles
<1>3. blocks \cup tiles \subseteq Block
  BY <1>1 DEF Tidy
<1>4. \A b \in blocks \cup tiles : b.left + b.width <= size
  <2> SUFFICES ASSUME NEW b \in tiles
               PROVE  b.left + b.width <= size
    BY DEF Tidy
  <2> QED  BY <1>1, MaxBlockNumAssumption DEF Block
<1>5. ASSUME NEW b \in blocks, NEW t \in tiles
      PROVE  /\ Apart(b.left, b.width, t.left, t.width)
             /\ Apart(t.left, t.width, b.left, b.width)
  <2>1. b \in Block
    BY DEF Tidy
  <2> QED  BY <1>1, <2>1, MaxBlockNumAssumption DEF Apart, Block
<1>6. \A b, c \in blocks \cup tiles :
        b # c => Apart(b.left, b.width, c.left, c.width)
  BY <1>2, <1>5 DEF Tidy
<1> QED  BY <1>3, <1>4, <1>6 DEF Tidy, tiles

LEMMA AddTilesFree ==
  ASSUME NEW blocks, NEW left \in Nat, NEW len \in Nat,
         NEW a \in Nat, NEW m \in Nat,
         Free(blocks, a, m),
         a + m <= left \/ left + len <= a
  PROVE  Free(blocks \cup EmptyTiles(left, len), a, m)
<1> SUFFICES ASSUME NEW t \in EmptyTiles(left, len)
             PROVE  Apart(t.left, t.width, a, m)
  BY DEF Free
<1>1. t \in Block /\ left <= t.left /\ t.left + t.width <= left + len
  BY TilesInside
<1> QED  BY <1>1, MaxBlockNumAssumption DEF Apart, Block

(* What AllocateSingleMemory hands out was empty, is empty no longer, and  *)
(* nothing else changes hands.                                             *)
LEMMA AllocateSingle ==
  ASSUME NEW blocks, NEW size \in Nat, Tidy(blocks, size),
         NEW n \in 1..MaxBlockNum,
         NEW r \in AllocateSingleMemory(blocks, n)
  PROVE  /\ r.left \in Nat
         /\ r.left + n <= size
         /\ Tidy(r.blocks, size)
         /\ Free(r.blocks, r.left, n)
         /\ \A a \in Nat, m \in Nat : m > 0 /\ Free(blocks, a, m) =>
              Free(r.blocks, a, m) /\ Apart(r.left, n, a, m)
<1>1. PICK b \in blocks :
        /\ b.width >= n
        /\ r.left = b.left
        /\ r.blocks = (blocks \ {b}) \cup EmptyTiles(b.left + n, b.width - n)
  BY DEF AllocateSingleMemory, IsBestFit, Fits
<1>2. /\ b \in Block /\ b.left \in Nat /\ b.width \in 1..MaxBlockNum
      /\ b.left + b.width <= size
  BY DEF Tidy, Block
<1>3. /\ b.left + n \in Nat /\ b.width - n \in Nat
      /\ (b.left + n) + (b.width - n) = b.left + b.width
  BY <1>1, <1>2, MaxBlockNumAssumption
<1>4. ASSUME NEW c \in blocks \ {b}
      PROVE  c.left + c.width <= b.left \/ b.left + b.width <= c.left
  BY DEF Tidy, Apart
<1>5. ASSUME NEW c \in blocks
      PROVE  c.left \in Nat /\ c.width \in 1..MaxBlockNum
  BY DEF Tidy, Block
<1>6. Tidy(blocks \ {b}, size)
  BY DEF Tidy
<1>7. Tidy(r.blocks, size)
  <2>1. \A c \in blocks \ {b} : c.left + c.width <= b.left + n
                              \/ (b.left + n) + (b.width - n) <= c.left
    BY <1>2, <1>3, <1>4, <1>5, MaxBlockNumAssumption
  <2> QED  BY <1>1, <1>2, <1>3, <1>6, <2>1, AddTiles
<1>8. Free(r.blocks, r.left, n)
  <2>1. Free(blocks \ {b}, b.left, n)
    <3> SUFFICES ASSUME NEW c \in blocks \ {b}
                 PROVE  Apart(c.left, c.width, b.left, n)
      BY DEF Free
    <3> QED  BY <1>1, <1>2, <1>4, <1>5, MaxBlockNumAssumption DEF Apart
  <2>2. n \in Nat /\ b.left + n <= b.left + n
    BY <1>2, MaxBlockNumAssumption
  <2>3. Free((blocks \ {b}) \cup EmptyTiles(b.left + n, b.width - n), b.left, n)
    BY <1>2, <1>3, <2>1, <2>2, AddTilesFree
  <2> QED  BY <1>1, <2>3
<1>9. ASSUME NEW a \in Nat, NEW m \in Nat, m > 0, Free(blocks, a, m)
      PROVE  Free(r.blocks, a, m) /\ Apart(r.left, n, a, m)
  <2>1. b.left + b.width <= a \/ a + m <= b.left
    BY <1>9 DEF Free, Apart
  <2>2. Apart(r.left, n, a, m)
    BY <1>1, <1>2, <2>1, MaxBlockNumAssumption DEF Apart
  <2>3. Free(blocks \ {b}, a, m)
    BY <1>9 DEF Free
  <2>4. a + m <= b.left + n \/ (b.left + n) + (b.width - n) <= a
    BY <1>1, <1>2, <1>3, <2>1, MaxBlockNumAssumption
  <2> QED  BY <1>1, <1>3, <2>2, <2>3, <2>4, AddTilesFree
<1>10. r.left \in Nat /\ r.left + n <= size
  BY <1>1, <1>2, MaxBlockNumAssumption
<1> QED  BY <1>7, <1>8, <1>9, <1>10

(* AllocateMemory hands out, with the same guarantees, a range of the array*)
(* it may have grown, or -1; and never -1 when a quarter of the array holds*)
(* a block of the greatest width.                                          *)
LEMMA Allocate ==
  ASSUME NEW blocks, NEW size \in Nat, Tidy(blocks, size),
         NEW n \in 1..MaxBlockNum,
         NEW r \in AllocateMemory(blocks, size, n)
  PROVE  /\ r.size \in Nat /\ size <= r.size
         /\ r.left \in Nat \cup {-1}
         /\ Tidy(r.blocks, r.size)
         /\ r.left \in Nat => /\ r.left + n <= r.size
                              /\ Free(r.blocks, r.left, n)
         /\ \A a \in Nat, m \in Nat :
              m > 0 /\ a + m <= size /\ Free(blocks, a, m) =>
                /\ Free(r.blocks, a, m)
                /\ r.left \in Nat => Apart(r.left, n, a, m)
         /\ size \div 4 >= MaxBlockNum => r.left \in Nat
<1> DEFINE more  == size \div 4
           grown == blocks \cup EmptyTiles(size, more)
<1>1. more \in Nat
  OBVIOUS
<1>2. Tidy(grown, size + more)
  <2>1. Tidy(blocks, size + more)
    <3> SUFFICES ASSUME NEW b \in blocks
                 PROVE  b.left + b.width <= size + more
      BY DEF Tidy
    <3> HIDE DEF more
    <3>1. b \in Block /\ b.left + b.width <= size
      BY DEF Tidy
    <3> QED  BY <1>1, <3>1, MaxBlockNumAssumption DEF Block
  <2>2. \A b \in blocks : b.left + b.width <= size \/ size + more <= b.left
    BY DEF Tidy
  <2> HIDE DEF more
  <2> QED  BY <1>1, <2>1, <2>2, AddTiles
<1>3. ASSUME NEW a \in Nat, NEW m \in Nat, a + m <= size, Free(blocks, a, m)
      PROVE  Free(grown, a, m)
  <2> HIDE DEF more
  <2> QED  BY <1>1, <1>3, AddTilesFree
<1>4. more >= MaxBlockNum => Fits(grown, n) # {}
  <2> HIDE DEF more
  <2> SUFFICES ASSUME more >= MaxBlockNum PROVE Fits(grown, n) # {}
    OBVIOUS
  <2>1. PICK t \in EmptyTiles(size, more) : t.width = MaxBlockNum
    BY <1>1, TilesWide
  <2> QED  BY <2>1, MaxBlockNumAssumption DEF Fits
<1>5. size + more \in Nat /\ size <= size + more
  BY <1>1
<1>6. CASE Fits(blocks, n) # {}
  <2>1. PICK s \in AllocateSingleMemory(blocks, n) :
          r = [left |-> s.left, blocks |-> s.blocks, size |-> size]
    BY <1>6 DEF AllocateMemory
  <2> QED  BY <2>1, AllocateSingle
<1>7. CASE Fits(blocks, n) = {} /\ Fits(grown, n) # {}
  <2>1. PICK s \in AllocateSingleMemory(grown, n) :
          r = [left |-> s.left, blocks |-> s.blocks, size |-> size + more]
    BY <1>7 DEF AllocateMemory
  <2> HIDE DEF more, grown
  <2>2. /\ s.left \in Nat
        /\ s.left + n <= size + more
        /\ Tidy(s.blocks, size + more)
        /\ Free(s.blocks, s.left, n)
        /\ \A a \in Nat, m \in Nat : m > 0 /\ Free(grown, a, m) =>
             Free(s.blocks, a, m) /\ Apart(s.left, n, a, m)
    BY <1>2, <1>5, AllocateSingle
  <2> QED  BY <1>3, <1>5, <2>1, <2>2
<1>8. CASE Fits(blocks, n) = {} /\ Fits(grown, n) = {}
  <2>1. r = [left |-> -1, blocks |-> grown, size |-> size + more]
    BY <1>8 DEF AllocateMemory
  <2>2. ~ more >= MaxBlockNum
    BY <1>4, <1>8
  <2> HIDE DEF grown
  <2>3. r.left = -1 /\ r.blocks = grown /\ r.size = size + more /\ r.left \notin Nat
    BY <2>1
  <2>4. ~ size \div 4 >= MaxBlockNum
    BY <2>2
  <2> HIDE DEF more
  <2> QED  BY <1>2, <1>3, <1>5, <2>3, <2>4
<1> QED  BY <1>6, <1>7, <1>8

(* ReleaseMemory of a range in no empty block keeps the set tidy, and      *)
(* takes nothing that was neither in the range nor empty.                  *)
LEMMA Release ==
  ASSUME NEW blocks, NEW size \in Nat, Tidy(blocks, size),
         NEW left \in Nat, NEW n \in Nat, n > 0, left + n <= size,
         Free(blocks, left, n),
         NEW released \in ReleaseMemory(blocks, size, left, n)
  PROVE  /\ Tidy(released, size)
         /\ \A a \in Nat, m \in Nat :
              m > 0 /\ Free(blocks, a, m) /\ Apart(left, n, a, m) =>
                Free(released, a, m)
<1> DEFINE kept(e) == {b \in blocks : ~ (left + n <= b.left /\ b.left < e)}
<1>1. PICK e \in RunEnds(blocks, size, left + n) :
        released = kept(e) \cup EmptyTiles(left, e - left)
  BY DEF ReleaseMemory
<1>2. /\ e \in Nat /\ left + n <= e /\ e <= size
      /\ \A b \in blocks : ~ Covers(b, e)
      /\ \A x \in Int : left + n <= x /\ x < e => \E b \in blocks : Covers(b, x)
  BY DEF RunEnds
<1>3. e - left \in Nat /\ left + (e - left) = e
  BY <1>2
<1>4. ASSUME NEW c \in blocks
      PROVE  /\ c.left \in Nat /\ c.width \in 1..MaxBlockNum
             /\ c.left + c.width <= left \/ left + n <= c.left
  BY DEF Tidy, Block, Free, Apart
<1>5. Tidy(released, size)
  <2>1. Tidy(kept(e), size)
    BY DEF Tidy
  <2>2. \A b \in kept(e) : b.left + b.width <= left \/ left + (e - left) <= b.left
    BY <1>2, <1>4, MaxBlockNumAssumption
  <2> HIDE DEF kept
  <2> QED  BY <1>1, <1>2, <1>3, <2>1, <2>2, AddTiles
<1>6. ASSUME NEW a \in Nat, NEW m \in Nat, m > 0, Free(blocks, a, m),
             Apart(left, n, a, m)
      PROVE  Free(released, a, m)
  <2>1. Free(kept(e), a, m)
    BY <1>6 DEF Free
  <2>2. a + m <= left \/ e <= a
    <3> SUFFICES ASSUME left < a + m, a < e
                 PROVE  FALSE
      BY <1>2
    <3>1. left + n <= a
      BY <1>6 DEF Apart
    <3>2. PICK b \in blocks : Covers(b, a)
      BY <1>2, <3>1
    <3>3. Apart(b.left, b.width, a, m)
      BY <1>6 DEF Free
    <3> QED  BY <1>4, <1>6, <3>2, <3>3, MaxBlockNumAssumption DEF Covers, Apart
  <2> HIDE DEF kept
  <2> QED  BY <1>1, <1>3, <2>1, <2>2, AddTilesFree
<1> QED  BY <1>5, <1>6

(* ReleaseUselessMemory cuts the array off: what remains of the empty      *)
(* blocks lies before the cut, in cells that were empty.                   *)
LEMMA Cut ==
  ASSUME NEW blocks, NEW size \in Nat, Tidy(blocks, size), NEW needed \in Nat
  PROVE  LET cut == ReleaseUselessMemory(blocks, size, needed)
         IN /\ cut.size = IF needed < size THEN needed ELSE size
            /\ Tidy(cut.blocks, cut.size)
            /\ \A a \in Nat, m \in Nat :
                 m > 0 /\ Free(blocks, a, m) => Free(cut.blocks, a, m)
<1> DEFINE end    == IF needed < size THEN needed ELSE size
           kept   == {b \in blocks : b.left < needed}
           across == {b \in kept : b.left + b.width > end}
           rest   == UNION {EmptyTiles(b.left, end - b.left) : b \in across}
           cut    == ReleaseUselessMemory(blocks, size, needed)
<1>1. cut = [size |-> end, blocks |-> (kept \ across) \cup rest]
  BY DEF ReleaseUselessMemory
<1>2. end \in Nat /\ end <= size /\ end <= needed
  OBVIOUS
<1>3. ASSUME NEW b \in blocks
      PROVE  /\ b \in Block /\ b.left \in Nat /\ b.width \in Nat /\ b.width > 0
             /\ b.left + b.width <= size
  BY MaxBlockNumAssumption DEF Tidy, Block
<1> HIDE DEF end
<1>4. ASSUME NEW b \in across
      PROVE  end - b.left \in Nat /\ b.left + (end - b.left) = end
  <2>1. b.left < needed /\ b.left + b.width <= size /\ b.left + b.width > end
    BY <1>3
  <2>2. b.left <= end
    BY <1>2, <1>3, <2>1 DEF end
  <2> QED  BY <1>2, <1>3, <2>2
<1>5. ASSUME NEW t \in rest
      PROVE  \E b \in across :
               /\ t \in EmptyTiles(b.left, end - b.left)
               /\ t \in Block /\ b.left <= t.left /\ t.left + t.width <= end
               /\ t.left + t.width <= b.left + b.width
  <2>1. PICK b \in across : t \in EmptyTiles(b.left, end - b.left)
    OBVIOUS
  <2>2. /\ b.left \in Nat /\ b.width \in Nat /\ b.left + b.width > end
        /\ end - b.left \in Nat /\ b.left + (end - b.left) = end
    BY <1>3, <1>4
  <2>3. t \in Block /\ b.left <= t.left /\ t.left + t.width <= end
    BY <2>1, <2>2, TilesInside
  <2>4. t.left \in Nat /\ t.width \in Nat
    BY <2>3, MaxBlockNumAssumption DEF Block
  <2> HIDE DEF across
  <2> QED  BY <1>2, <2>1, <2>2, <2>3, <2>4
<1>6. ASSUME NEW b \in kept \ across
      PROVE  b \in blocks /\ b.left + b.width <= end
  BY <1>2, <1>3
<1> HIDE DEF rest
<1>7. ASSUME NEW s \in rest, NEW t \in rest, s # t
      PROVE  Apart(s.left, s.width, t.left, t.width)
  <2>1. PICK b \in across :
               /\ s \in EmptyTiles(b.left, end - b.left)
               /\ s \in Block /\ b.left <= s.left /\ s.left + s.width <= end
               /\ s.left + s.width <= b.left + b.width
    BY <1>5
  <2>2. PICK c \in across :
               /\ t \in EmptyTiles(c.left, end - c.left)
               /\ t \in Block /\ c.left <= t.left /\ t.left + t.width <= end
               /\ t.left + t.width <= c.left + c.width
    BY <1>5
  <2>3. CASE b = c
    BY <1>3, <1>4, <1>7, <2>1, <2>2, <2>3, TilesApart
  <2>4. CASE b # c
    <3>1. Apart(b.left, b.width, c.left, c.width)
      BY <2>4 DEF Tidy
    <3>2. /\ b.left \in Nat /\ b.width \in Nat /\ c.left \in Nat /\ c.width \in Nat
          /\ s.left \in Nat /\ s.width \in Nat /\ t.left \in Nat /\ t.width \in Nat
      BY <1>3, <2>1, <2>2, MaxBlockNumAssumption DEF Block
    <3> QED  BY <2>1, <2>2, <3>1, <3>2 DEF Apart
  <2> QED  BY <2>3, <2>4
<1>8. ASSUME NEW s \in kept \ across, NEW t \in rest
      PROVE  Apart(s.left, s.width, t.left, t.width) /\ Apart(t.left, t.width, s.left, s.width)
  <2>1. PICK c \in across :
               /\ t \in Block /\ c.left <= t.left /\ t.left + t.width <= end
               /\ t.left + t.width <= c.left + c.width
    BY <1>5
  <2>2. Apart(s.left, s.width, c.left, c.width)
    BY DEF Tidy
  <2>3. /\ s.left \in Nat /\ s.width \in Nat /\ c.left \in Nat /\ c.width \in Nat
        /\ t.left \in Nat /\ t.width \in Nat
    BY <1>3, <2>1, MaxBlockNumAssumption DEF Block
  <2> HIDE DEF kept, across
  <2> QED  BY <2>1, <2>2, <2>3 DEF Apart
<1>9. Tidy(cut.blocks, cut.size)
  <2>1. cut.blocks = (kept \ across) \cup rest /\ cut.size = end
    BY <1>1
  <2>2. cut.blocks \subseteq Block
    BY <1>3, <1>5, <2>1
  <2>3. \A b \in cut.blocks : b.left + b.width <= end
    BY <1>5, <1>6, <2>1
  <2>4. \A b, c \in kept \ across : b # c => Apart(b.left, b.width, c.left, c.width)
    BY DEF Tidy
  <2> HIDE DEF kept, across, cut
  <2>5. \A b, c \in cut.blocks : b # c => Apart(b.left, b.width, c.left, c.width)
    BY <1>7, <1>8, <2>1, <2>4
  <2> QED  BY <2>1, <2>2, <2>3, <2>5 DEF Tidy
<1>10. ASSUME NEW a \in Nat, NEW m \in Nat, m > 0, Free(blocks, a, m)
       PROVE  Free(cut.blocks, a, m)
  <2> SUFFICES ASSUME NEW t \in rest
               PROVE  Apart(t.left, t.width, a, m)
    BY <1>1, <1>10 DEF Free
  <2>1. PICK c \in across :
               /\ t \in Block /\ c.left <= t.left /\ t.left + t.width <= end
               /\ t.left + t.width <= c.left + c.width
    BY <1>5
  <2>2. Apart(c.left, c.width, a, m)
    BY <1>10 DEF Free
  <2>3. /\ c.left \in Nat /\ c.width \in Nat /\ t.left \in Nat /\ t.width \in Nat
    BY <1>3, <2>1, MaxBlockNumAssumption DEF Block
  <2> HIDE DEF kept, across
  <2> QED  BY <2>1, <2>2, <2>3 DEF Apart
<1>11. cut.size = end
  BY <1>1
<1> QED  BY <1>9, <1>10, <1>11 DEF end

----------------------------------------------------------------------------
(* What the leaves rely on, also when an allocation has failed: the        *)
(* properties of DataArray, which need one another.  Only usedDatasize is  *)
(* of no meaning then.                                                     *)
Sound ==
  /\ TypeOK
  /\ LeavesApart
  /\ LeafBlocksNotEmpty
  /\ EmptyBlocksApart
  /\ \A b \in emptyBlocks : b.left + b.width <= dataSize
  /\ \A l \in Leaf : HasRange(l) => /\ leaf[l].left + leaf[l].num <= usedDatasize
                                   /\ leaf[l].left + leaf[l].num <= dataSize
  /\ AllocationSucceeds => usedDatasize <= dataSize

(* The inductive invariant of the array of a map without points: it never  *)
(* shrinks below its first size, which makes a growth large enough for     *)
(* every leaf.                                                             *)
IInv ==
  /\ Sound
  /\ InitSize <= dataSize
  /\ AllocationSucceeds

LEMMA InitIInv == Init => IInv
<1> SUFFICES ASSUME Init PROVE IInv
  OBVIOUS
<1> USE DEF Init, NoBlocks
<1>1. TypeOK
  BY InitSizeAssumption, MaxBlockNumAssumption DEF TypeOK
<1>2. LeavesApart /\ LeafBlocksNotEmpty /\ AllocationSucceeds
  BY DEF LeavesApart, LeafBlocksNotEmpty, AllocationSucceeds, HasRange, Lost
<1>3. EmptyBlocksApart
  BY DEF EmptyBlocksApart
<1> QED  BY <1>1, <1>2, <1>3, InitSizeAssumption DEF IInv, Sound, HasRange

(* What this says of one leaf.                                             *)
LEMMA LeafFacts ==
  ASSUME Sound, NEW l \in Leaf
  PROVE  /\ leaf[l].num \in 0..MaxBlockNum
         /\ leaf[l].left \in Nat \cup {-1}
         /\ HasRange(l) => /\ leaf[l].left \in Nat
                           /\ leaf[l].left + leaf[l].num <= usedDatasize
                           /\ leaf[l].left + leaf[l].num <= dataSize
                           /\ Free(emptyBlocks, leaf[l].left, leaf[l].num)
<1>1. /\ leaf[l].num \in 0..MaxBlockNum
      /\ leaf[l].left \in Nat \cup {-1}
      /\ usedDatasize \in Nat /\ dataSize \in Nat /\ emptyBlocks \subseteq Block
  BY DEF Sound, TypeOK
<1>2. ASSUME HasRange(l)
      PROVE  Free(emptyBlocks, leaf[l].left, leaf[l].num)
  <2> SUFFICES ASSUME NEW b \in emptyBlocks
               PROVE  Apart(b.left, b.width, leaf[l].left, leaf[l].num)
    BY DEF Free
  <2> QED  BY <1>2 DEF Sound, LeafBlocksNotEmpty, Apart
<1>3. ASSUME HasRange(l)
      PROVE  /\ leaf[l].left \in Nat
             /\ leaf[l].left + leaf[l].num <= usedDatasize
             /\ leaf[l].left + leaf[l].num <= dataSize
  BY <1>1, <1>3 DEF Sound, HasRange
<1> QED  BY <1>1, <1>2, <1>3

(* A leaf comes to hold x, in an array whose empty blocks are `blocks' and *)
(* whose size is `size': both, and the other leaves, are apart from it.    *)
LEMMA HandOut ==
  ASSUME Sound, NEW l \in Leaf, NEW size \in Nat, NEW blocks, NEW used \in Nat,
         NEW x \in [left : Nat \cup {-1}, num : 0..MaxBlockNum],
         dataSize <= size, usedDatasize <= used, Tidy(blocks, size),
         x.num > 0 /\ x.left >= 0 =>
           /\ x.left + x.num <= size /\ x.left + x.num <= used
           /\ Free(blocks, x.left, x.num),
         \A m \in Leaf : m # l /\ HasRange(m) =>
           /\ Free(blocks, leaf[m].left, leaf[m].num)
           /\ x.num > 0 /\ x.left >= 0 =>
                Apart(x.left, x.num, leaf[m].left, leaf[m].num),
         ~ (x.num > 0 /\ x.left < 0) /\ AllocationSucceeds => used <= size,
         AllocationSucceeds,
         dataSize' = size, emptyBlocks' = blocks, usedDatasize' = used,
         leaf' = [leaf EXCEPT ![l] = x]
  PROVE  Sound'
<1>1. /\ dataSize \in Nat /\ usedDatasize \in Nat
      /\ leaf \in [Leaf -> [left : Nat \cup {-1}, num : 0..MaxBlockNum]]
  BY DEF Sound, TypeOK
<1>2. leaf'[l] = x /\ \A m \in Leaf : m # l => leaf'[m] = leaf[m]
  BY <1>1
<1>3. ASSUME NEW m \in Leaf
      PROVE  HasRange(m)' <=> \/ m = l /\ x.num > 0 /\ x.left >= 0
                              \/ m # l /\ HasRange(m)
  BY <1>2 DEF HasRange
<1>4. ASSUME NEW m \in Leaf, HasRange(m)'
      PROVE  /\ leaf'[m].left \in Nat /\ leaf'[m].num \in Nat /\ leaf'[m].num > 0
             /\ leaf'[m].left + leaf'[m].num <= used
             /\ leaf'[m].left + leaf'[m].num <= size
             /\ Free(blocks, leaf'[m].left, leaf'[m].num)
  <2>1. CASE m = l
    BY <1>2, <1>3, <1>4, <2>1
  <2>2. CASE m # l
    BY <1>1, <1>2, <1>3, <1>4, <2>2, LeafFacts DEF HasRange
  <2> QED  BY <2>1, <2>2
<1>5. TypeOK'
  BY <1>1, <1>2 DEF TypeOK, Tidy
<1>6. LeavesApart'
  <2> SUFFICES ASSUME NEW p \in Leaf, NEW q \in Leaf, p # q,
                      HasRange(p)', HasRange(q)'
               PROVE  Apart(leaf'[p].left, leaf'[p].num, leaf'[q].left, leaf'[q].num)
    BY DEF LeavesApart
  <2>1. CASE p # l /\ q # l
    BY <1>2, <1>3, <2>1 DEF Sound, LeavesApart
  <2>2. CASE p = l /\ q # l
    BY <1>2, <1>3, <2>2
  <2>3. CASE q = l /\ p # l
    <3>1. Apart(leaf'[q].left, leaf'[q].num, leaf'[p].left, leaf'[p].num)
      BY <1>2, <1>3, <2>3
    <3> QED  BY <3>1 DEF Apart
  <2> QED  BY <2>1, <2>2, <2>3
<1>7. LeafBlocksNotEmpty'
  BY <1>4 DEF LeafBlocksNotEmpty, Free, Apart
<1>8. EmptyBlocksApart' /\ (\A b \in emptyBlocks : b.left + b.width <= dataSize)'
  BY DEF EmptyBlocksApart, Tidy
<1>9. AllocationSucceeds' => used <= size
  BY <1>2 DEF AllocationSucceeds, Lost
<1> QED  BY <1>4, <1>5, <1>6, <1>7, <1>8, <1>9 DEF Sound

(* A leaf that takes n blocks, of which it keeps some, out of empty blocks *)
(* that hold none of the other leaves' blocks.                             *)
LEMMA TakeSound ==
  ASSUME Sound, AllocationSucceeds, NEW l \in Leaf, NEW blocks,
         NEW n \in 1..MaxBlockNum, NEW kept \in 1..n,
         Tidy(blocks, dataSize),
         \A m \in Leaf : m # l /\ HasRange(m) =>
           Free(blocks, leaf[m].left, leaf[m].num),
         Take(l, blocks, n, kept)
  PROVE  /\ Sound'
         /\ dataSize \in Nat /\ dataSize' \in Nat /\ dataSize <= dataSize'
         /\ dataSize \div 4 >= MaxBlockNum => AllocationSucceeds'
         /\ \A a \in Nat, m \in Nat :
              m > 0 /\ a + m <= dataSize /\ Free(blocks, a, m) =>
                /\ Free(emptyBlocks', a, m)
                /\ leaf'[l].left \in Nat => Apart(leaf'[l].left, leaf'[l].num, a, m)
         /\ \A m \in Leaf : m # l => leaf'[m] = leaf[m]
<1>1. PICK r \in AllocateMemory(blocks, dataSize, n) :
        /\ dataSize' = r.size
        /\ emptyBlocks' = r.blocks
        /\ usedDatasize' = Larger(usedDatasize, r.left + n)
        /\ leaf' = [leaf EXCEPT ![l] = [left |-> r.left, num |-> kept]]
  BY DEF Take
<1>2. /\ dataSize \in Nat /\ usedDatasize \in Nat
      /\ leaf \in [Leaf -> [left : Nat \cup {-1}, num : 0..MaxBlockNum]]
      /\ usedDatasize <= dataSize
  BY DEF Sound, TypeOK
<1>3. /\ r.size \in Nat /\ dataSize <= r.size
      /\ r.left \in Nat \cup {-1}
      /\ Tidy(r.blocks, r.size)
      /\ r.left \in Nat => r.left + n <= r.size /\ Free(r.blocks, r.left, n)
      /\ \A a \in Nat, m \in Nat :
           m > 0 /\ a + m <= dataSize /\ Free(blocks, a, m) =>
             /\ Free(r.blocks, a, m)
             /\ r.left \in Nat => Apart(r.left, n, a, m)
      /\ dataSize \div 4 >= MaxBlockNum => r.left \in Nat
  BY <1>2, Allocate
<1>4. /\ kept \in Nat /\ kept > 0 /\ kept <= n /\ kept \in 0..MaxBlockNum
      /\ n \in Nat /\ n > 0
  BY MaxBlockNumAssumption
<1>5. /\ leaf'[l] = [left |-> r.left, num |-> kept]
      /\ \A m \in Leaf : m # l => leaf'[m] = leaf[m]
  BY <1>1, <1>2
<1> DEFINE x    == [left |-> r.left, num |-> kept]
           used == Larger(usedDatasize, r.left + n)
<1>6. x \in [left : Nat \cup {-1}, num : 0..MaxBlockNum]
  BY <1>3, <1>4
<1>7. /\ used \in Nat /\ usedDatasize <= used
      /\ r.left \in Nat => r.left + kept <= used /\ used <= r.size
  BY <1>2, <1>3, <1>4 DEF Larger
<1>8. ASSUME r.left \in Nat
      PROVE  Free(r.blocks, r.left, kept)
  <2> SUFFICES ASSUME NEW b \in r.blocks
               PROVE  Apart(b.left, b.width, r.left, kept)
    BY DEF Free
  <2>1. Apart(b.left, b.width, r.left, n) /\ b \in Block
    BY <1>3, <1>8 DEF Free, Tidy
  <2> QED  BY <1>4, <1>8, <2>1, MaxBlockNumAssumption DEF Apart, Block
<1>9. ASSUME NEW a \in Nat, NEW m \in Nat, m > 0, a + m <= dataSize, Free(blocks, a, m)
      PROVE  /\ Free(r.blocks, a, m)
             /\ r.left \in Nat => Apart(r.left, kept, a, m)
  <2>1. Free(r.blocks, a, m) /\ (r.left \in Nat => Apart(r.left, n, a, m))
    BY <1>3, <1>9
  <2> QED  BY <1>4, <2>1 DEF Apart
<1>10. ASSUME NEW m \in Leaf, m # l, HasRange(m)
       PROVE  /\ Free(r.blocks, leaf[m].left, leaf[m].num)
              /\ r.left \in Nat => Apart(r.left, kept, leaf[m].left, leaf[m].num)
  <2>1. /\ leaf[m].left \in Nat /\ leaf[m].num \in Nat /\ leaf[m].num > 0
        /\ leaf[m].left + leaf[m].num <= dataSize
    BY <1>10, LeafFacts DEF HasRange
  <2> QED  BY <1>9, <1>10, <2>1
<1>11. Sound'
  <2>1. x.left = r.left /\ x.num = kept /\ (r.left >= 0 <=> r.left \in Nat)
    BY <1>3
  <2>2. x.num > 0 /\ x.left >= 0 =>
          /\ x.left + x.num <= r.size /\ x.left + x.num <= used
          /\ Free(r.blocks, x.left, x.num)
    BY <1>2, <1>3, <1>4, <1>7, <1>8, <2>1
  <2>3. \A m \in Leaf : m # l /\ HasRange(m) =>
          /\ Free(r.blocks, leaf[m].left, leaf[m].num)
          /\ x.num > 0 /\ x.left >= 0 =>
               Apart(x.left, x.num, leaf[m].left, leaf[m].num)
    BY <1>10, <2>1
  <2>4. ~ (x.num > 0 /\ x.left < 0) /\ AllocationSucceeds => used <= r.size
    BY <1>3, <1>4, <1>7, <2>1
  <2> HIDE DEF x, used
  <2> QED  BY <1>1, <1>3, <1>6, <1>7, <2>2, <2>3, <2>4, HandOut DEF x, used
<1>12. dataSize \div 4 >= MaxBlockNum => AllocationSucceeds'
  <2> SUFFICES ASSUME r.left \in Nat, NEW m \in Leaf PROVE ~ Lost(m)'
    BY <1>3 DEF AllocationSucceeds
  <2> QED  BY <1>5 DEF AllocationSucceeds, Lost
<1> QED  BY <1>1, <1>2, <1>3, <1>5, <1>9, <1>11, <1>12

(* A leaf that comes to hold fewer of its blocks, or none.                 *)
LEMMA ShrinkSound ==
  ASSUME Sound, AllocationSucceeds, NEW l \in Leaf,
         NEW x \in [left : Nat \cup {-1}, num : 0..MaxBlockNum],
         x.num = 0 \/ (HasRange(l) /\ x.left = leaf[l].left /\ x.num <= leaf[l].num),
         leaf' = [leaf EXCEPT ![l] = x],
         UNCHANGED <<dataSize, emptyBlocks, usedDatasize>>
  PROVE  Sound' /\ AllocationSucceeds'
<1>1. /\ dataSize \in Nat /\ usedDatasize \in Nat /\ usedDatasize <= dataSize
      /\ leaf \in [Leaf -> [left : Nat \cup {-1}, num : 0..MaxBlockNum]]
      /\ Tidy(emptyBlocks, dataSize)
  BY DEF Sound, TypeOK, EmptyBlocksApart, Tidy
<1>2. leaf'[l] = x /\ \A m \in Leaf : m # l => leaf'[m] = leaf[m]
  BY <1>1
<1>3. ASSUME x.num > 0
      PROVE  /\ x.left \in Nat /\ x.left + x.num <= usedDatasize
             /\ x.left + x.num <= dataSize
             /\ Free(emptyBlocks, x.left, x.num)
  <2>1. /\ HasRange(l) /\ x.left = leaf[l].left /\ x.num <= leaf[l].num
        /\ leaf[l].left \in Nat /\ leaf[l].num \in Nat
        /\ leaf[l].left + leaf[l].num <= usedDatasize
        /\ leaf[l].left + leaf[l].num <= dataSize
        /\ Free(emptyBlocks, leaf[l].left, leaf[l].num)
    BY <1>3, LeafFacts
  <2>2. ASSUME NEW b \in emptyBlocks
        PROVE  Apart(b.left, b.width, x.left, x.num)
    <3>1. Apart(b.left, b.width, leaf[l].left, leaf[l].num) /\ b \in Block
      BY <1>1, <2>1 DEF Free, Tidy
    <3> QED  BY <2>1, <3>1, MaxBlockNumAssumption DEF Apart, Block
  <2> QED  BY <1>1, <2>1, <2>2 DEF Free
<1>4. ASSUME NEW m \in Leaf, m # l, HasRange(m)
      PROVE  /\ Free(emptyBlocks, leaf[m].left, leaf[m].num)
             /\ x.num > 0 => Apart(x.left, x.num, leaf[m].left, leaf[m].num)
  <2>1. Free(emptyBlocks, leaf[m].left, leaf[m].num)
    BY <1>4, LeafFacts
  <2>2. ASSUME x.num > 0
        PROVE  Apart(x.left, x.num, leaf[m].left, leaf[m].num)
    <3>1. /\ HasRange(l) /\ x.left = leaf[l].left /\ x.num <= leaf[l].num
          /\ Apart(leaf[l].left, leaf[l].num, leaf[m].left, leaf[m].num)
      BY <1>4, <2>2 DEF Sound, LeavesApart
    <3>2. /\ leaf[l].left \in Nat /\ leaf[l].num \in Nat
          /\ leaf[m].left \in Nat /\ leaf[m].num \in Nat
      BY <1>4, <3>1, LeafFacts
    <3> QED  BY <3>1, <3>2 DEF Apart
  <2> QED  BY <2>1, <2>2
<1>5. Sound'
  <2>1. x.num > 0 /\ x.left >= 0 =>
          /\ x.left + x.num <= dataSize /\ x.left + x.num <= usedDatasize
          /\ Free(emptyBlocks, x.left, x.num)
    BY <1>3
  <2>2. dataSize <= dataSize /\ usedDatasize <= usedDatasize
    BY <1>1
  <2> QED  BY <1>1, <1>4, <2>1, <2>2, HandOut
<1>6. AllocationSucceeds'
  BY <1>1, <1>2 DEF AllocationSucceeds, Lost, HasRange
<1> QED  BY <1>5, <1>6

LEMMA TidyEmptyBlocks ==
  ASSUME Sound
  PROVE  Tidy(emptyBlocks, dataSize)
BY DEF Sound, TypeOK, EmptyBlocksApart, Tidy

(* One call of a leaf, in an array of any size: the leaves stay apart, the *)
(* array grows if anything, and only a small array fails to serve a leaf.  *)
Served ==
  /\ Sound'
  /\ dataSize \in Nat /\ dataSize' \in Nat /\ dataSize <= dataSize'
  /\ dataSize \div 4 >= MaxBlockNum => AllocationSucceeds'

(* A leaf that takes its first blocks.                                     *)
LEMMA TakeFirstServed ==
  ASSUME Sound, AllocationSucceeds, NEW l \in Leaf, NEW n \in 1..MaxBlockNum,
         Take(l, emptyBlocks, n, n)
  PROVE  Served
<1>1. \A m \in Leaf : HasRange(m) => Free(emptyBlocks, leaf[m].left, leaf[m].num)
  BY LeafFacts
<1>2. n \in 1..n
  OBVIOUS
<1> QED  BY <1>1, <1>2, TakeSound, TidyEmptyBlocks DEF Served

(* A leaf that exchanges its blocks for a larger range.                    *)
LEMMA ExpandServed ==
  ASSUME Sound, AllocationSucceeds, NEW l \in Leaf, NEW actual \in 1..MaxBlockNum,
         Expand(l, actual)
  PROVE  Served
<1> DEFINE left == leaf[l].left
           num  == leaf[l].num
<1>1. /\ HasRange(l) /\ num < MaxBlockNum /\ actual \in 1..num + 1
      /\ num + 1 \in 1..MaxBlockNum
      /\ left \in Nat /\ num \in Nat /\ num > 0
      /\ left + num <= dataSize
      /\ Free(emptyBlocks, left, num)
  BY LeafFacts, MaxBlockNumAssumption DEF Expand, HasRange
<1>2. PICK released \in ReleaseMemory(emptyBlocks, dataSize, left, num) :
        Take(l, released, num + 1, actual)
  BY DEF Expand
<1>3. dataSize \in Nat
  BY DEF Sound, TypeOK
<1> HIDE DEF left, num
<1>4. /\ Tidy(released, dataSize)
      /\ \A a \in Nat, m \in Nat :
           m > 0 /\ Free(emptyBlocks, a, m) /\ Apart(left, num, a, m) =>
             Free(released, a, m)
  BY <1>1, <1>3, TidyEmptyBlocks, Release
<1>5. ASSUME NEW m \in Leaf, m # l, HasRange(m)
      PROVE  Free(released, leaf[m].left, leaf[m].num)
  <2>1. /\ leaf[m].left \in Nat /\ leaf[m].num \in Nat /\ leaf[m].num > 0
        /\ Free(emptyBlocks, leaf[m].left, leaf[m].num)
    BY <1>5, LeafFacts DEF HasRange
  <2>2. Apart(left, num, leaf[m].left, leaf[m].num)
    BY <1>1, <1>5 DEF Sound, LeavesApart, left, num
  <2> QED  BY <1>4, <2>1, <2>2
<1> QED  BY <1>1, <1>2, <1>4, <1>5, TakeSound DEF Served

LEMMA NextServed ==
  ASSUME Sound, AllocationSucceeds, Next
  PROVE  Served
<1>1. ASSUME NEW l \in Leaf, InsertFirst(l)
      PROVE  Served
  BY <1>1, TakeFirstServed, MaxBlockNumAssumption DEF InsertFirst
<1>2. ASSUME NEW l \in Leaf, NEW needed \in 1..MaxBlockNum, StoreNew(l, needed)
      PROVE  Served
  BY <1>2, TakeFirstServed DEF StoreNew
<1>3. ASSUME NEW l \in Leaf, NEW actual \in 1..MaxBlockNum, Expand(l, actual)
      PROVE  Served
  BY <1>3, ExpandServed
<1>4. ASSUME NEW l \in Leaf, NEW actual \in 1..MaxBlockNum, Rebalance(l, actual)
      PROVE  Served
  <2> DEFINE x == [left |-> leaf[l].left, num |-> actual]
  <2>1. /\ leaf \in [Leaf -> [left : Nat \cup {-1}, num : 0..MaxBlockNum]]
        /\ HasRange(l) /\ actual <= leaf[l].num
        /\ leaf' = [leaf EXCEPT ![l].num = actual]
        /\ UNCHANGED <<dataSize, emptyBlocks, usedDatasize>>
        /\ dataSize \in Nat
    BY <1>4 DEF Rebalance, Sound, TypeOK
  <2>2. leaf' = [leaf EXCEPT ![l] = x]
    <3>1. leaf[l] \in [left : Nat \cup {-1}, num : 0..MaxBlockNum]
      BY <2>1
    <3>2. [leaf[l] EXCEPT !.num = actual] = x
      BY <3>1
    <3> QED  BY <2>1, <3>2
  <2>3. x \in [left : Nat \cup {-1}, num : 0..MaxBlockNum]
    BY <2>1, MaxBlockNumAssumption
  <2>4. Sound' /\ AllocationSucceeds'
    BY <2>1, <2>2, <2>3, ShrinkSound
  <2> QED  BY <2>1, <2>4 DEF Served
<1>5. ASSUME NEW l \in Leaf, Split(l)
      PROVE  Served
  <2>1. NoBlocks \in [left : Nat \cup {-1}, num : 0..MaxBlockNum] /\ NoBlocks.num = 0
    BY MaxBlockNumAssumption DEF NoBlocks
  <2>2. Sound' /\ AllocationSucceeds'
    BY <1>5, <2>1, ShrinkSound DEF Split
  <2>3. dataSize' = dataSize /\ dataSize \in Nat
    BY <1>5 DEF Split, Sound, TypeOK
  <2> QED  BY <2>2, <2>3 DEF Served
<1> QED  BY <1>1, <1>2, <1>3, <1>4, <1>5 DEF Next

LEMMA StutterSound ==
  ASSUME Sound, UNCHANGED vars
  PROVE  Sound' /\ (AllocationSucceeds => AllocationSucceeds')
BY DEF vars, Sound, TypeOK, LeavesApart, LeafBlocksNotEmpty, EmptyBlocksApart,
       AllocationSucceeds, HasRange, Lost

LEMMA NextIInv == IInv /\ [Next]_vars => IInv'
<1> SUFFICES ASSUME IInv, [Next]_vars PROVE IInv'
  OBVIOUS
<1>1. CASE Next
  <2>1. Served
    BY <1>1, NextServed DEF IInv
  <2>2. dataSize \div 4 >= MaxBlockNum
    <3>1. dataSize \in Nat /\ InitSize \in Nat /\ InitSize <= dataSize
      BY <2>1, InitSizeAssumption DEF Served, IInv
    <3>2. InitSize \div 4 <= dataSize \div 4
      BY <3>1
    <3>3. InitSize \div 4 \in Int /\ dataSize \div 4 \in Int
      BY <3>1
    <3> QED  BY <3>2, <3>3, InitSizeAssumption, MaxBlockNumAssumption
  <2> QED  BY <2>1, <2>2, InitSizeAssumption DEF Served, IInv
<1>2. CASE UNCHANGED vars
  BY <1>2, StutterSound DEF vars, IInv
<1> QED  BY <1>1, <1>2

(* Every reachable state of the data array satisfies the invariant.        *)
THEOREM Invariance == Spec => []IInv
BY InitIInv, NextIInv, PTL DEF Spec

(* Every variable stays in its range.                                      *)
THEOREM TypeCorrect == Spec => []TypeOK
<1>1. IInv => TypeOK
  BY DEF IInv, Sound
<1> QED  BY Invariance, <1>1, PTL

(* No data block is ever managed by two leaves at once.                    *)
THEOREM NoBlockShared == Spec => []LeavesApart
<1>1. IInv => LeavesApart
  BY DEF IInv, Sound
<1> QED  BY Invariance, <1>1, PTL

(* No data block of a leaf is ever on the list of empty blocks.            *)
THEOREM NoBlockHandedOutTwice == Spec => []LeafBlocksNotEmpty
<1>1. IInv => LeafBlocksNotEmpty
  BY DEF IInv, Sound
<1> QED  BY Invariance, <1>1, PTL

(* The lists of the different widths never name a cell twice.              *)
THEOREM EmptyListsApart == Spec => []EmptyBlocksApart
<1>1. IInv => EmptyBlocksApart
  BY DEF IInv, Sound
<1> QED  BY Invariance, <1>1, PTL

(* Every index AllocateMemory returns lies in the array.                   *)
THEOREM StaysWithinArray == Spec => []WithinArray
<1>1. IInv => WithinArray
  BY DEF IInv, Sound, WithinArray
<1> QED  BY Invariance, <1>1, PTL

(* One growth by a quarter is always enough: from an array whose quarter   *)
(* holds the widest leaf, AllocateMemory never returns -1.                 *)
THEOREM GrowthSuffices == Spec => []AllocationSucceeds
<1>1. IInv => AllocationSucceeds
  BY DEF IInv
<1> QED  BY Invariance, <1>1, PTL

----------------------------------------------------------------------------
(* Ranges that follow one another begin where the one before ends.         *)
LEMMA StartsFollow ==
  ASSUME NEW width \in [1..Prefetched -> Nat]
  PROVE  /\ Starts(width) \in [1..Prefetched + 1 -> Nat]
         /\ \A i \in 1..Prefetched :
              Starts(width)[i + 1] = Starts(width)[i] + width[i]
<1> DEFINE w       == [i \in Nat |-> IF i \in 1..Prefetched THEN width[i] ELSE 0]
           Is(s)   == s = [i \in 1..Prefetched + 1 |->
                             IF i = 1 THEN 0 ELSE s[i - 1] + width[i - 1]]
<1>1. w \in [Nat -> Nat] /\ \A i \in 1..Prefetched : w[i] = width[i]
  BY PrefetchedAssumption
<1> HIDE DEF w
<1>2. PICK f \in [Nat -> Nat] :
        f[0] = 0 /\ \A n \in Nat : f[n + 1] = f[n] + w[n + 1]
  BY <1>1, Sums
<1> DEFINE start == [i \in 1..Prefetched + 1 |-> f[i - 1]]
<1>3. Is(start)
  <2> SUFFICES ASSUME NEW i \in 1..Prefetched + 1
               PROVE  f[i - 1] = IF i = 1 THEN 0 ELSE start[i - 1] + width[i - 1]
    OBVIOUS
  <2>1. CASE i = 1
    BY <1>2, <2>1
  <2>2. CASE i # 1
    <3>1. i - 2 \in Nat /\ i - 1 \in 1..Prefetched /\ (i - 2) + 1 = i - 1
      BY <2>2, PrefetchedAssumption
    <3>2. f[(i - 2) + 1] = f[i - 2] + w[(i - 2) + 1]
      BY <1>2, <3>1
    <3>3. f[i - 1] = f[i - 2] + width[i - 1]
      BY <1>1, <3>1, <3>2
    <3> QED  BY <2>2, <3>1, <3>3, PrefetchedAssumption
  <2> QED  BY <2>1, <2>2
<1>4. Is(Starts(width))
  <2>1. Starts(width) = CHOOSE s : Is(s)
    BY DEF Starts
  <2> HIDE DEF Is, start
  <2> QED  BY <1>3, <2>1
<1> DEFINE s == Starts(width)
<1>5. \A i \in 1..Prefetched + 1 :
        s[i] = IF i = 1 THEN 0 ELSE s[i - 1] + width[i - 1]
  <2> HIDE DEF s
  <2>1. Is(s)
    BY <1>4 DEF s
  <2> QED  BY <2>1
<1>6. DOMAIN s = 1..Prefetched + 1 /\ s = [i \in 1..Prefetched + 1 |-> s[i]]
  <2> HIDE DEF s
  <2>1. Is(s)
    BY <1>4 DEF s
  <2> QED  BY <2>1
<1> HIDE DEF s
<1>7. \A n \in Nat : n + 1 \in 1..Prefetched + 1 => s[n + 1] \in Nat
  <2> DEFINE S == {n \in Nat : n + 1 \in 1..Prefetched + 1 => s[n + 1] \in Nat}
  <2>1. 0 \in S
    <3>1. 1 \in 1..Prefetched + 1 /\ 0 + 1 = 1
      BY PrefetchedAssumption
    <3> QED  BY <1>5, <3>1
  <2>2. ASSUME NEW n \in Nat, n \in S
        PROVE  n + 1 \in S
    <3> SUFFICES ASSUME (n + 1) + 1 \in 1..Prefetched + 1
                 PROVE  s[(n + 1) + 1] \in Nat
      OBVIOUS
    <3>1. n + 1 \in 1..Prefetched + 1 /\ n + 1 \in 1..Prefetched /\ (n + 1) + 1 # 1
          /\ ((n + 1) + 1) - 1 = n + 1
      BY PrefetchedAssumption
    <3>2. s[n + 1] \in Nat /\ width[n + 1] \in Nat
      BY <2>2, <3>1
    <3>3. s[(n + 1) + 1] = s[((n + 1) + 1) - 1] + width[((n + 1) + 1) - 1]
      BY <1>5, <3>1
    <3>4. s[(n + 1) + 1] = s[n + 1] + width[n + 1]
      BY <3>1, <3>3
    <3>5. \A a, b \in Nat : a + b \in Nat
      OBVIOUS
    <3> QED  BY <3>2, <3>4, <3>5, Zenon
  <2> HIDE DEF S
  <2>3. Nat \subseteq S
    BY <2>1, <2>2, Induction
  <2> QED  BY <2>3 DEF S
<1>8. \A i \in 1..Prefetched + 1 : s[i] \in Nat
  <2> SUFFICES ASSUME NEW i \in 1..Prefetched + 1 PROVE s[i] \in Nat
    OBVIOUS
  <2>1. i - 1 \in Nat /\ (i - 1) + 1 = i
    BY PrefetchedAssumption
  <2> QED  BY <1>7, <2>1
<1>9. ASSUME NEW i \in 1..Prefetched
      PROVE  s[i + 1] = s[i] + width[i]
  <2>1. i + 1 \in 1..Prefetched + 1 /\ i + 1 # 1 /\ (i + 1) - 1 = i
    BY PrefetchedAssumption
  <2>2. s[i + 1] = s[(i + 1) - 1] + width[(i + 1) - 1]
    BY <1>5, <2>1
  <2> QED  BY <2>1, <2>2
<1> QED  BY <1>6, <1>8, <1>9 DEF s

----------------------------------------------------------------------------
(* The cells from a on, m of them, belong to no leaf and no empty block.   *)
Untouched(a, m) ==
  /\ Free(emptyBlocks, a, m)
  /\ \A l \in Leaf : HasRange(l) => Apart(leaf[l].left, leaf[l].num, a, m)

(* What the model of the root predicts during the first loop: ranges that  *)
(* follow one another, inside the array and behind the last stored leaf.   *)
Predicted ==
  /\ base \in [1..Prefetched + 1 -> Nat]
  /\ own \in [1..Prefetched -> 1..MaxBlockNum]
  /\ \A i \in 1..Prefetched : base[i] < base[i + 1]
  /\ \A i \in 1..Prefetched : i < Prefetched => base[i] + own[i] <= base[i + 1]
  /\ base[Prefetched + 1] <= dataSize
  /\ prefetchEnd < base[turn]

(* The cells between the last stored leaf and the end of what is predicted *)
(* are nobody's yet, and not on the list of empty blocks either.           *)
Ahead ==
  prefetchEnd + 1 < base[Prefetched + 1] =>
    Untouched(prefetchEnd + 1, base[Prefetched + 1] - (prefetchEnd + 1))

(* The inductive invariant.                                                *)
LInv ==
  /\ LayoutTypeOK
  /\ Sound
  /\ phase = "prefetch" => Predicted /\ Ahead

LEMMA UntouchedPart ==
  ASSUME Sound, NEW a \in Nat, NEW m \in Nat, NEW b \in Nat, NEW k \in Nat,
         Untouched(a, m), a <= b, b + k <= a + m
  PROVE  Untouched(b, k)
<1>1. ASSUME NEW c \in emptyBlocks
      PROVE  Apart(c.left, c.width, b, k)
  <2>1. c \in Block /\ Apart(c.left, c.width, a, m)
    BY DEF Untouched, Free, Sound, TypeOK
  <2> QED  BY <2>1, MaxBlockNumAssumption DEF Apart, Block
<1>2. ASSUME NEW l \in Leaf, HasRange(l)
      PROVE  Apart(leaf[l].left, leaf[l].num, b, k)
  <2>1. /\ leaf[l].left \in Nat /\ leaf[l].num \in Nat
        /\ Apart(leaf[l].left, leaf[l].num, a, m)
    BY <1>2, LeafFacts, MaxBlockNumAssumption DEF Untouched
  <2> QED  BY <2>1 DEF Apart
<1> QED  BY <1>1, <1>2 DEF Untouched, Free

----------------------------------------------------------------------------
LEMMA InitLInv == LayoutInit => LInv
<1> SUFFICES ASSUME LayoutInit PROVE LInv
  OBVIOUS
<1>1. own \in [1..Prefetched -> 1..MaxBlockNum]
  BY DEF LayoutInit
<1>2. PICK between \in [1..Prefetched -> Between], last \in 1..own[Prefetched] :
        base = Starts([i \in 1..Prefetched |->
                         IF i < Prefetched THEN own[i] + between[i] ELSE last])
  BY DEF LayoutInit
<1> DEFINE width == [i \in 1..Prefetched |->
                       IF i < Prefetched THEN own[i] + between[i] ELSE last]
<1>3. /\ width \in [1..Prefetched -> Nat]
      /\ \A i \in 1..Prefetched : /\ width[i] > 0
                                  /\ i < Prefetched => own[i] <= width[i]
  <2>1. last \in Nat /\ last > 0
    BY <1>1, PrefetchedAssumption, MaxBlockNumAssumption
  <2>2. ASSUME NEW i \in 1..Prefetched
        PROVE  /\ own[i] \in Nat /\ own[i] > 0 /\ between[i] \in Nat
               /\ width[i] = IF i < Prefetched THEN own[i] + between[i] ELSE last
    <3>1. own[i] \in Nat /\ own[i] > 0
      <4>1. own[i] \in 1..MaxBlockNum
        BY <1>1
      <4> QED  BY <4>1, MaxBlockNumAssumption
    <3>2. between[i] \in Nat
      BY BetweenAssumption
    <3>3. width[i] = IF i < Prefetched THEN own[i] + between[i] ELSE last
      OBVIOUS
    <3> HIDE DEF width
    <3> QED  BY <3>1, <3>2, <3>3
  <2>3. ASSUME NEW i \in 1..Prefetched
        PROVE  /\ width[i] \in Nat /\ width[i] > 0
               /\ i < Prefetched => own[i] <= width[i]
    BY <2>1, <2>2
  <2>4. width \in [1..Prefetched -> Nat]
    BY <2>3
  <2> QED  BY <2>3, <2>4
<1>4. base = Starts(width)
  BY <1>2
<1> HIDE DEF width
<1>5. /\ base \in [1..Prefetched + 1 -> Nat]
      /\ \A i \in 1..Prefetched : base[i + 1] = base[i] + width[i]
  BY <1>3, <1>4, StartsFollow
<1>6. /\ dataSize = base[Prefetched + 1] /\ dataSize \in Nat
      /\ emptyBlocks = {} /\ usedDatasize = 0
      /\ leaf = [l \in Leaf |-> NoBlocks]
      /\ phase = "prefetch" /\ turn = 1 /\ prefetchEnd = -1 /\ occupied = {}
      /\ remaining = Leaf \ 1..Prefetched /\ served = 0
  BY <1>5, PrefetchedAssumption DEF LayoutInit
<1>7. \A l \in Leaf : /\ leaf[l] = [left |-> -1, num |-> 0]
                      /\ ~ HasRange(l) /\ ~ Lost(l)
  BY <1>6 DEF NoBlocks, HasRange, Lost
<1>8. TypeOK
  BY <1>6, MaxBlockNumAssumption DEF TypeOK, NoBlocks
<1>9. Sound
  BY <1>6, <1>7, <1>8 DEF Sound, LeavesApart, LeafBlocksNotEmpty, EmptyBlocksApart
<1>10. LayoutTypeOK
  BY <1>6, <1>8, PrefetchedAssumption, ReservedAssumption DEF LayoutTypeOK
<1>11. Predicted
  <2>1. ASSUME NEW i \in 1..Prefetched
        PROVE  base[i] < base[i + 1] /\ (i < Prefetched => base[i] + own[i] <= base[i + 1])
    <3>1. /\ base[i] \in Nat /\ width[i] \in Nat /\ own[i] \in Nat
          /\ base[i + 1] = base[i] + width[i]
      <4>1. i \in 1..Prefetched + 1 /\ own[i] \in 1..MaxBlockNum
        BY <1>1, PrefetchedAssumption
      <4> QED  BY <1>3, <1>5, <4>1, MaxBlockNumAssumption
    <3> QED  BY <1>3, <3>1
  <2>2. prefetchEnd < base[turn]
    <3>1. base[1] \in Nat
      BY <1>5, PrefetchedAssumption
    <3> QED  BY <1>6, <3>1
  <2> QED  BY <1>1, <1>5, <1>6, <2>1, <2>2 DEF Predicted
<1>12. Ahead
  BY <1>6, <1>7 DEF Ahead, Untouched, Free
<1> QED  BY <1>9, <1>10, <1>11, <1>12 DEF LInv

----------------------------------------------------------------------------
(* What the invariant says while a leaf has its turn.                      *)
LEMMA TurnFacts ==
  ASSUME LInv, During("prefetch"), turn <= Prefetched
  PROVE  /\ Sound /\ AllocationSucceeds /\ Predicted /\ Ahead
         /\ turn \in 1..Prefetched /\ turn \in Leaf
         /\ turn \in Nat /\ turn + 1 \in 1..Prefetched + 1
         /\ base[turn] \in Nat /\ base[turn + 1] \in Nat
         /\ base[Prefetched + 1] \in Nat
         /\ base[turn] < base[turn + 1]
         /\ prefetchEnd \in Nat \cup {-1} /\ prefetchEnd + 1 \in Nat
         /\ dataSize \in Nat
<1>1. /\ Sound /\ AllocationSucceeds /\ Predicted /\ Ahead /\ LayoutTypeOK
  BY DEF LInv, During
<1>2. turn \in 1..Prefetched /\ prefetchEnd \in Nat \cup {-1}
  BY <1>1, PrefetchedAssumption DEF LayoutTypeOK
<1>3. /\ base[turn] \in Nat /\ base[turn + 1] \in Nat
      /\ base[Prefetched + 1] \in Nat /\ base[turn] < base[turn + 1]
  <2>1. turn \in 1..Prefetched + 1 /\ turn + 1 \in 1..Prefetched + 1
        /\ Prefetched + 1 \in 1..Prefetched + 1
    BY <1>2, PrefetchedAssumption
  <2> QED  BY <1>1, <1>2, <2>1 DEF Predicted
<1> QED  BY <1>1, <1>2, <1>3, PrefetchedAssumption DEF Sound, TypeOK

LEMMA PostponeLInv == LInv /\ Postpone => LInv'
<1> SUFFICES ASSUME LInv, Postpone PROVE LInv'
  OBVIOUS
<1>1. During("prefetch") /\ turn <= Prefetched
  BY DEF Postpone
<1>2. /\ Sound /\ Predicted /\ Ahead
      /\ turn \in 1..Prefetched /\ turn \in Leaf /\ turn + 1 \in 1..Prefetched + 1
      /\ base[turn] \in Nat /\ base[turn + 1] \in Nat
      /\ base[turn] < base[turn + 1] /\ prefetchEnd \in Nat \cup {-1}
  BY <1>1, TurnFacts
<1>3. Sound'
  BY <1>2, StutterSound DEF Postpone
<1>4. LayoutTypeOK'
  BY <1>2, <1>3 DEF LInv, LayoutTypeOK, Postpone, Sound
<1>5. Predicted'
  BY <1>2 DEF Predicted, Postpone, vars
<1>6. Ahead'
  BY <1>2 DEF Ahead, Untouched, HasRange, Postpone, vars
<1> QED  BY <1>3, <1>4, <1>5, <1>6 DEF LInv

(* A leaf that is stored where the model predicts takes cells that were    *)
(* nobody's, and what it leaves of them becomes empty.                     *)
LEMMA PrefetchInPlaceLInv ==
  ASSUME LInv, ~ Spill, NEW first \in 0..dataSize, NEW last \in 0..dataSize,
         NEW needed \in 1..MaxBlockNum, NEW actual \in 1..MaxBlockNum,
         PrefetchInPlace(first, last, needed, actual)
  PROVE  LInv'
<1> DEFINE a   == prefetchEnd + 1
           end == base[Prefetched + 1]
           x   == [left |-> first, num |-> actual]
<1>1. During("prefetch") /\ turn <= Prefetched
  BY DEF PrefetchInPlace, PrefetchTurn
<1>2. /\ Sound /\ AllocationSucceeds /\ Predicted /\ Ahead
      /\ turn \in 1..Prefetched /\ turn \in Leaf
      /\ turn \in Nat /\ turn + 1 \in 1..Prefetched + 1
      /\ base[turn] \in Nat /\ base[turn + 1] \in Nat /\ end \in Nat
      /\ base[turn] < base[turn + 1]
      /\ prefetchEnd \in Nat \cup {-1} /\ a \in Nat /\ dataSize \in Nat
  BY <1>1, TurnFacts
<1>3. /\ base[turn] <= first /\ first <= last /\ last < end
      /\ last < base[turn] + own[turn]
      /\ first + needed <= dataSize /\ actual <= needed
      /\ first + actual <= last + 1
      /\ leaf' = [leaf EXCEPT ![turn] = x]
      /\ usedDatasize' = Larger(usedDatasize, first + actual)
      /\ emptyBlocks' = emptyBlocks \cup Gap(first)
      /\ prefetchEnd' = first + actual - 1
      /\ Occupy(first, actual)
      /\ dataSize' = dataSize
      /\ turn' = turn + 1
      /\ UNCHANGED <<phase, base, own, remaining, served>>
  BY <1>2 DEF PrefetchInPlace, PrefetchTurn, PlacePrefetched, CheckIsPrefetch
<1>4. /\ first \in Nat /\ last \in Nat /\ needed \in Nat
      /\ actual \in Nat /\ actual > 0
      /\ a <= first /\ first + actual <= dataSize /\ first + actual <= end
      /\ first + actual - 1 < base[turn + 1]
      /\ end <= dataSize
  <2>1. prefetchEnd < base[turn] /\ end <= dataSize
    BY <1>2 DEF Predicted
  <2>2. CASE turn < Prefetched
    <3>1. base[turn] + own[turn] <= base[turn + 1] /\ own[turn] \in Nat
      BY <1>2, <2>2, MaxBlockNumAssumption DEF Predicted
    <3> QED  BY <1>2, <1>3, <2>1, <3>1, MaxBlockNumAssumption
  <2>3. CASE turn = Prefetched
    <3>1. base[turn + 1] = end
      BY <2>3
    <3>2. last < base[turn + 1]
      BY <1>3, <3>1
    <3> QED  BY <1>2, <1>3, <2>1, <3>2, MaxBlockNumAssumption
  <2> QED  BY <1>2, <2>2, <2>3, PrefetchedAssumption
<1> HIDE DEF a, end, x
<1>5. Untouched(a, end - a) /\ end - a \in Nat
  BY <1>2, <1>4 DEF Ahead, a, end
<1>6. Untouched(first, actual) /\ Untouched(a, first - a) /\ first - a \in Nat
  BY <1>2, <1>4, <1>5, UntouchedPart
<1>7. /\ Tidy(emptyBlocks', dataSize)
      /\ \A b \in Nat, m \in Nat :
           Free(emptyBlocks, b, m) /\ (b + m <= a \/ first <= b) =>
             Free(emptyBlocks', b, m)
  <2>1. CASE first - prefetchEnd > 1
    <3>1. Gap(first) = EmptyTiles(a, first - a)
      <4>1. first - prefetchEnd - 1 = first - a
        BY <1>2, <1>4 DEF a
      <4> QED  BY <2>1, <4>1 DEF Gap, a
    <3>2. a + (first - a) <= dataSize /\ a + (first - a) = first
      BY <1>2, <1>4
    <3>3. \A b \in emptyBlocks : b.left + b.width <= a \/ a + (first - a) <= b.left
      BY <1>6, <1>2 DEF Untouched, Free, Apart
    <3>4. Tidy(emptyBlocks, dataSize)
      BY <1>2, TidyEmptyBlocks
    <3>5. Tidy(emptyBlocks', dataSize)
      BY <1>2, <1>3, <1>6, <3>1, <3>2, <3>3, <3>4, AddTiles
    <3>6. ASSUME NEW b \in Nat, NEW m \in Nat, Free(emptyBlocks, b, m),
                 b + m <= a \/ first <= b
          PROVE  Free(emptyBlocks', b, m)
      BY <1>2, <1>3, <1>6, <3>1, <3>2, <3>6, AddTilesFree
    <3> QED  BY <3>5, <3>6
  <2>2. CASE ~ (first - prefetchEnd > 1)
    <3>1. emptyBlocks' = emptyBlocks
      BY <1>3, <2>2 DEF Gap
    <3> QED  BY <1>2, <3>1, TidyEmptyBlocks
  <2> QED  BY <2>1, <2>2
<1>8. ASSUME NEW m \in Leaf, m # turn, HasRange(m)
      PROVE  /\ Free(emptyBlocks', leaf[m].left, leaf[m].num)
             /\ Apart(first, actual, leaf[m].left, leaf[m].num)
  <2>1. /\ leaf[m].left \in Nat /\ leaf[m].num \in Nat /\ leaf[m].num > 0
        /\ Free(emptyBlocks, leaf[m].left, leaf[m].num)
    BY <1>2, <1>8, LeafFacts, MaxBlockNumAssumption DEF HasRange
  <2>2. /\ Apart(leaf[m].left, leaf[m].num, first, actual)
        /\ Apart(leaf[m].left, leaf[m].num, a, first - a)
    BY <1>6, <1>8 DEF Untouched
  <2>3. leaf[m].left + leaf[m].num <= a \/ first <= leaf[m].left
    BY <1>2, <1>4, <2>1, <2>2 DEF Apart
  <2> QED  BY <1>7, <2>1, <2>2, <2>3 DEF Apart
<1>9. Sound'
  <2> DEFINE used == Larger(usedDatasize, first + actual)
  <2>1. usedDatasize \in Nat /\ usedDatasize <= dataSize
    BY <1>2 DEF Sound, TypeOK
  <2>2. /\ used \in Nat /\ usedDatasize <= used /\ first + actual <= used
        /\ used <= dataSize
    BY <1>2, <1>4, <2>1 DEF Larger
  <2>3. x \in [left : Nat \cup {-1}, num : 0..MaxBlockNum]
        /\ x.left = first /\ x.num = actual
    BY <1>4, MaxBlockNumAssumption DEF x
  <2>4. Free(emptyBlocks', first, actual)
    BY <1>4, <1>6, <1>7 DEF Untouched
  <2> HIDE DEF used
  <2>5. x.num > 0 /\ x.left >= 0 =>
          /\ x.left + x.num <= dataSize /\ x.left + x.num <= used
          /\ Free(emptyBlocks', x.left, x.num)
    BY <1>4, <2>2, <2>3, <2>4
  <2>6. \A m \in Leaf : m # turn /\ HasRange(m) =>
          /\ Free(emptyBlocks', leaf[m].left, leaf[m].num)
          /\ x.num > 0 /\ x.left >= 0 =>
               Apart(x.left, x.num, leaf[m].left, leaf[m].num)
    BY <1>8, <2>3
  <2>7. usedDatasize' = used /\ dataSize <= dataSize
    BY <1>2, <1>3 DEF used
  <2> QED  BY <1>2, <1>3, <1>7, <2>2, <2>3, <2>5, <2>6, <2>7, HandOut
<1>10. LayoutTypeOK'
  <2>1. occupied' \subseteq Nat \cup {-1}
    <3>1. Cells(first, actual) \subseteq Nat
      BY <1>4 DEF Cells
    <3> QED  BY <1>3, <3>1 DEF Occupy, LInv, LayoutTypeOK
  <2>2. prefetchEnd' \in Nat
    BY <1>3, <1>4
  <2> QED  BY <1>2, <1>3, <1>9, <2>1, <2>2 DEF LInv, LayoutTypeOK, Sound
<1>11. Predicted'
  BY <1>2, <1>3, <1>4 DEF Predicted, end
<1>12. Ahead'
  <2> DEFINE b == first + actual
             m == end - (first + actual)
  <2>1. /\ prefetchEnd' + 1 = b /\ base'[Prefetched + 1] = end
        /\ b \in Nat /\ m \in Nat /\ first <= b /\ a <= b /\ b + m <= a + (end - a)
    BY <1>2, <1>3, <1>4 DEF end
  <2> HIDE DEF b
  <2>2. Untouched(b, m)
    BY <1>2, <1>5, <2>1, UntouchedPart
  <2>3. Free(emptyBlocks', b, m)
    BY <1>7, <2>1, <2>2 DEF Untouched
  <2>4. ASSUME NEW l \in Leaf, HasRange(l)'
        PROVE  Apart(leaf'[l].left, leaf'[l].num, b, m)
    <3>0. leaf \in [Leaf -> [left : Nat \cup {-1}, num : 0..MaxBlockNum]]
      BY <1>2 DEF Sound, TypeOK
    <3>1. CASE l = turn
      <4>1. leaf'[l].left = first /\ leaf'[l].num = actual
        BY <1>2, <1>3, <3>0, <3>1 DEF x
      <4> QED  BY <4>1 DEF Apart, b
    <3>2. CASE l # turn
      <4>1. leaf'[l] = leaf[l]
        BY <1>3, <3>0, <3>2
      <4> QED  BY <2>2, <2>4, <4>1 DEF Untouched, HasRange
    <3> QED  BY <3>1, <3>2
  <2>5. m = base'[Prefetched + 1] - (prefetchEnd' + 1)
    BY <2>1 DEF b
  <2> HIDE DEF m
  <2> QED  BY <2>1, <2>3, <2>4, <2>5 DEF Ahead, Untouched
<1> QED  BY <1>9, <1>10, <1>11, <1>12 DEF LInv

(* A leaf that is stored elsewhere takes nothing of what is predicted.     *)
LEMMA PrefetchElsewhereLInv ==
  ASSUME LInv, NEW first \in 0..dataSize, NEW last \in 0..dataSize,
         NEW needed \in 1..MaxBlockNum, NEW actual \in 1..MaxBlockNum,
         PrefetchElsewhere(first, last, needed, actual)
  PROVE  LInv'
<1> DEFINE a   == prefetchEnd + 1
           m   == base[Prefetched + 1] - (prefetchEnd + 1)
<1>1. During("prefetch") /\ turn <= Prefetched
  BY DEF PrefetchElsewhere, PrefetchTurn
<1>2. /\ Sound /\ AllocationSucceeds /\ Predicted /\ Ahead
      /\ turn \in 1..Prefetched /\ turn \in Leaf
      /\ turn \in Nat /\ turn + 1 \in 1..Prefetched + 1
      /\ base[turn] \in Nat /\ base[turn + 1] \in Nat
      /\ base[Prefetched + 1] \in Nat
      /\ base[turn] < base[turn + 1]
      /\ prefetchEnd \in Nat \cup {-1} /\ a \in Nat /\ dataSize \in Nat
  BY <1>1, TurnFacts
<1>3. /\ Take(turn, emptyBlocks, needed, actual)
      /\ actual <= needed
      /\ Occupy(leaf'[turn].left, actual)
      /\ turn' = turn + 1
      /\ UNCHANGED <<phase, base, own, prefetchEnd, remaining, served>>
  BY DEF PrefetchElsewhere, PrefetchTurn, PlaceElsewhere
<1>4. /\ Sound'
      /\ dataSize' \in Nat /\ dataSize <= dataSize'
      /\ \A b \in Nat, k \in Nat :
           k > 0 /\ b + k <= dataSize /\ Free(emptyBlocks, b, k) =>
             /\ Free(emptyBlocks', b, k)
             /\ leaf'[turn].left \in Nat =>
                  Apart(leaf'[turn].left, leaf'[turn].num, b, k)
      /\ \A l \in Leaf : l # turn => leaf'[l] = leaf[l]
  <2>1. actual \in 1..needed
    BY <1>3, MaxBlockNumAssumption
  <2>2. \A l \in Leaf : l # turn /\ HasRange(l) =>
          Free(emptyBlocks, leaf[l].left, leaf[l].num)
    BY <1>2, LeafFacts
  <2>3. Tidy(emptyBlocks, dataSize)
    BY <1>2, TidyEmptyBlocks
  <2> QED  BY <1>2, <1>3, <2>1, <2>2, <2>3, TakeSound
<1>5. LayoutTypeOK'
  <2>1. leaf'[turn].left \in Nat \cup {-1}
    BY <1>2, <1>4 DEF Sound, TypeOK
  <2>2. Cells(leaf'[turn].left, actual) \subseteq Nat \cup {-1}
    BY <2>1, MaxBlockNumAssumption DEF Cells
  <2>4. occupied \subseteq Nat \cup {-1}
    BY DEF LInv, LayoutTypeOK
  <2>3. occupied' \subseteq Nat \cup {-1}
    BY <1>3, <2>2, <2>4 DEF Occupy
  <2> QED  BY <1>2, <1>3, <1>4, <2>3 DEF LInv, LayoutTypeOK, Sound
<1>6. Predicted'
  <2>1. base[Prefetched + 1] <= dataSize' /\ prefetchEnd < base[turn + 1]
    <3>1. base[Prefetched + 1] <= dataSize /\ prefetchEnd < base[turn]
      BY <1>2 DEF Predicted
    <3> QED  BY <1>2, <1>4, <3>1
  <2> QED  BY <1>2, <1>3, <2>1 DEF Predicted
<1>7. Ahead'
  <2> SUFFICES ASSUME a < base[Prefetched + 1]
               PROVE  Untouched(a, m)'
    BY <1>3 DEF Ahead
  <2>1. /\ Untouched(a, m) /\ m \in Nat /\ m > 0 /\ a + m <= dataSize
        /\ a' = a /\ m' = m
    BY <1>2, <1>3, SMTT(20) DEF Ahead, Predicted
  <2> HIDE DEF a, m
  <2>2. Free(emptyBlocks', a, m)
    BY <1>2, <1>4, <2>1 DEF Untouched
  <2>3. ASSUME NEW l \in Leaf, HasRange(l)'
        PROVE  Apart(leaf'[l].left, leaf'[l].num, a, m)
    <3>1. CASE l = turn
      <4>1. leaf'[turn].left \in Nat
        <5>1. leaf'[turn].left \in Nat \cup {-1} /\ leaf'[turn].left >= 0
          BY <1>2, <1>4, <2>3, <3>1 DEF Sound, TypeOK, HasRange
        <5> QED  BY <5>1
      <4> QED  BY <1>2, <1>4, <2>1, <3>1, <4>1 DEF Untouched
    <3>2. CASE l # turn
      <4>1. leaf'[l] = leaf[l]
        BY <1>4, <3>2
      <4> QED  BY <2>1, <2>3, <4>1 DEF Untouched, HasRange
    <3> QED  BY <3>1, <3>2
  <2> QED  BY <2>1, <2>2, <2>3 DEF Untouched
<1> QED  BY <1>4, <1>5, <1>6, <1>7 DEF LInv

LEMMA EndPrefetchLInv == LInv /\ EndPrefetch => LInv'
<1> SUFFICES ASSUME LInv, EndPrefetch PROVE LInv'
  OBVIOUS
<1>1. Sound'
  BY StutterSound DEF EndPrefetch, LInv
<1>2. LayoutTypeOK'
  BY <1>1 DEF LInv, LayoutTypeOK, EndPrefetch, Sound
<1> QED  BY <1>1, <1>2 DEF LInv, EndPrefetch

LEMMA StoreRemainingLInv ==
  ASSUME LInv, NEW l \in Leaf, NEW needed \in 1..MaxBlockNum,
         StoreRemaining(l, needed)
  PROVE  LInv'
<1>1. /\ Sound /\ AllocationSucceeds
      /\ Take(l, emptyBlocks, needed, needed)
  BY DEF LInv, StoreRemaining, During, PlaceElsewhere
<1>2. Sound'
  BY <1>1, TakeFirstServed DEF Served
<1>3. LayoutTypeOK'
  BY <1>2 DEF LInv, LayoutTypeOK, StoreRemaining, PlaceElsewhere, Sound
<1> QED  BY <1>2, <1>3 DEF LInv, StoreRemaining, During

LEMMA StoreNoDataLInv ==
  ASSUME LInv, NEW l \in Leaf, StoreNoData(l)
  PROVE  LInv'
<1>1. Sound'
  BY StutterSound DEF StoreNoData, LInv
<1>2. LayoutTypeOK'
  BY <1>1 DEF LInv, LayoutTypeOK, StoreNoData, Sound
<1> QED  BY <1>1, <1>2 DEF LInv, StoreNoData, During

(* The cut at the end takes no block away from a leaf, since all of them   *)
(* lie below usedDatasize.                                                 *)
LEMMA EndConstructionLInv == LInv /\ EndConstruction => LInv'
<1> SUFFICES ASSUME LInv, EndConstruction PROVE LInv'
  OBVIOUS
<1> DEFINE needed == usedDatasize + Reserved
           cut == ReleaseUselessMemory(emptyBlocks, dataSize, needed)
<1>1. /\ Sound /\ AllocationSucceeds /\ LayoutTypeOK
      /\ dataSize' = cut.size /\ emptyBlocks' = cut.blocks
      /\ phase' = "serve" /\ prefetchEnd' = -1
      /\ UNCHANGED <<usedDatasize, leaf, turn, occupied, remaining, served>>
  BY DEF LInv, EndConstruction, During
<1>2. /\ dataSize \in Nat /\ usedDatasize \in Nat /\ usedDatasize <= dataSize
      /\ needed \in Nat /\ usedDatasize <= needed
      /\ Tidy(emptyBlocks, dataSize)
      /\ leaf \in [Leaf -> [left : Nat \cup {-1}, num : 0..MaxBlockNum]]
  BY <1>1, TidyEmptyBlocks, ReservedAssumption DEF Sound, TypeOK
<1> HIDE DEF needed
<1>3. /\ cut.size = IF needed < dataSize THEN needed ELSE dataSize
      /\ Tidy(cut.blocks, cut.size)
      /\ \A a \in Nat, m \in Nat :
           m > 0 /\ Free(emptyBlocks, a, m) => Free(cut.blocks, a, m)
  BY <1>2, Cut
<1> HIDE DEF cut
<1>4. dataSize' \in Nat /\ usedDatasize <= dataSize'
  BY <1>1, <1>2, <1>3
<1>5. ASSUME NEW l \in Leaf, HasRange(l)
      PROVE  /\ leaf[l].left + leaf[l].num <= usedDatasize
             /\ leaf[l].left + leaf[l].num <= dataSize'
             /\ Free(emptyBlocks', leaf[l].left, leaf[l].num)
  <2>1. /\ leaf[l].left \in Nat /\ leaf[l].num \in Nat /\ leaf[l].num > 0
        /\ leaf[l].left + leaf[l].num <= usedDatasize
        /\ Free(emptyBlocks, leaf[l].left, leaf[l].num)
    BY <1>1, <1>5, LeafFacts, MaxBlockNumAssumption DEF HasRange
  <2> QED  BY <1>1, <1>2, <1>3, <1>4, <2>1
<1>6. TypeOK'
  BY <1>1, <1>2, <1>3, <1>4 DEF TypeOK, Tidy
<1>7. LeavesApart' /\ (AllocationSucceeds' <=> AllocationSucceeds)
  BY <1>1 DEF Sound, LeavesApart, HasRange, AllocationSucceeds, Lost
<1>8. LeafBlocksNotEmpty'
  BY <1>1, <1>5 DEF LeafBlocksNotEmpty, Free, Apart, HasRange
<1>9. EmptyBlocksApart' /\ (\A b \in emptyBlocks : b.left + b.width <= dataSize)'
  BY <1>1, <1>3 DEF EmptyBlocksApart, Tidy
<1>10. Sound'
  BY <1>1, <1>4, <1>5, <1>6, <1>7, <1>8, <1>9 DEF Sound, HasRange
<1>11. LayoutTypeOK'
  BY <1>1, <1>6 DEF LayoutTypeOK
<1> QED  BY <1>1, <1>10, <1>11 DEF LInv

LEMMA ServeLInv == LInv /\ Serve => LInv'
<1> SUFFICES ASSUME LInv, Serve PROVE LInv'
  OBVIOUS
<1>1. Sound'
  BY NextServed DEF LInv, Serve, During, Served
<1>2. LayoutTypeOK'
  BY <1>1, ReservedAssumption DEF LInv, LayoutTypeOK, Serve, Sound
<1> QED  BY <1>1, <1>2 DEF LInv, Serve, During

LEMMA NextLInv ==
  ASSUME ~ Spill, LInv, [LayoutNext]_layoutVars
  PROVE  LInv'
<1>1. CASE LayoutNext
  BY <1>1, PostponeLInv, PrefetchInPlaceLInv, PrefetchElsewhereLInv,
     EndPrefetchLInv, StoreRemainingLInv, StoreNoDataLInv, EndConstructionLInv,
     ServeLInv DEF LayoutNext
<1>2. CASE UNCHANGED layoutVars
  <2>1. Sound'
    BY <1>2, StutterSound DEF layoutVars, LInv
  <2>2. LayoutTypeOK'
    BY <1>2, <2>1 DEF layoutVars, LInv, LayoutTypeOK, Sound
  <2>3. Predicted' = Predicted /\ Ahead' = Ahead
    BY <1>2 DEF layoutVars, vars, Predicted, Ahead, Untouched, HasRange
  <2> QED  BY <1>2, <2>1, <2>2, <2>3 DEF layoutVars, LInv
<1> QED  BY <1>1, <1>2

----------------------------------------------------------------------------
(* The invariant holds throughout the construction and after it, when no   *)
(* leaf is pushed beyond the cells predicted for its keys (Spill).         *)
THEOREM LayoutInvariance == ASSUME ~ Spill PROVE LayoutSpec => []LInv
BY InitLInv, NextLInv, PTL DEF LayoutSpec

(* Every variable of the construction stays in its range.                  *)
THEOREM LayoutTypeCorrect == ASSUME ~ Spill PROVE LayoutSpec => []LayoutTypeOK
<1>1. LInv => LayoutTypeOK
  BY DEF LInv
<1> QED  BY LayoutInvariance, <1>1, PTL

(* The leaves that ConstructSubTree and Construction lay out share no      *)
(* block, and neither do those of the operations that follow.              *)
THEOREM LayoutLeavesApart == ASSUME ~ Spill PROVE LayoutSpec => []LeavesApart
<1>1. LInv => LeavesApart
  BY DEF LInv, Sound
<1> QED  BY LayoutInvariance, <1>1, PTL

(* No block of a leaf laid out by the construction is on the list of empty *)
(* blocks, from which later leaves are served.                             *)
THEOREM LayoutLeafBlocksNotEmpty ==
  ASSUME ~ Spill PROVE LayoutSpec => []LeafBlocksNotEmpty
<1>1. LInv => LeafBlocksNotEmpty
  BY DEF LInv, Sound
<1> QED  BY LayoutInvariance, <1>1, PTL

(* The gaps between the prefetched leaves are registered once.             *)
THEOREM LayoutEmptyBlocksApart ==
  ASSUME ~ Spill PROVE LayoutSpec => []EmptyBlocksApart
<1>1. LInv => EmptyBlocksApart
  BY DEF LInv, Sound
<1> QED  BY LayoutInvariance, <1>1, PTL

(* The cut at the end of the construction takes no block from a leaf and   *)
(* leaves no empty block behind the end of the array.                      *)
THEOREM LayoutNothingCutOff == ASSUME ~ Spill PROVE LayoutSpec => []NothingCutOff
<1>1. LInv => NothingCutOff
  BY DEF LInv, Sound, NothingCutOff
<1> QED  BY LayoutInvariance, <1>1, PTL
=============================================================================
