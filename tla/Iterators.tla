----------------------------- MODULE Iterators ------------------------------
(***************************************************************************)
(* The iterators of CARMIMap (carmi_map.h) over the chain of leaves: begin,*)
(* end, rbegin and rend, ++ and --, the bounds, find, count and equal_range*)
(* and erase(key), after which no iterator is kept.                        *)
(*                                                                         *)
(* A leaf is its blocks, each the keys of the perSize points in it, and    *)
(* the separators between them.  Leaves are numbered from 1 along the      *)
(* chain, blocks and slots from 0 as in the code, where an iterator is a   *)
(* pointer to a leaf, currblock and currslot.  That the chain is in order  *)
(* is the matter of CarmiTree, that the blocks of a leaf are, and their    *)
(* separators right, that of CFArrayLeaf.                                  *)
(*                                                                         *)
(* The const members of CARMIMap other than cbegin, cend, crbegin and crend*)
(* (lower_bound, find and the others) do not compile: they are left out.   *)
(***************************************************************************)
EXTENDS Integers, SequencesExt

CONSTANTS
  Key,         \* the keys
  Leaves,      \* the number of leaves in the chain
  Cap,         \* kMaxBlockCapacity
  MaxBlockNum, \* kMaxBlockNum
  Copies,      \* bound: points of one key
  MaxPoints,   \* bound: points of the map
  Odd,         \* the odd cases there may be: see Init and Convert
  Stray        \* the byte before perSize in a leaf without blocks

ASSUME KeyAssumption == Key \subseteq Nat \ {0} /\ IsFiniteSet(Key)
ASSUME SizesAssumption ==
  {Leaves, Cap, MaxBlockNum, Copies, MaxPoints} \subseteq Nat \ {0}
ASSUME OddAssumption == Odd \subseteq {"bare last leaf", "key in two blocks",
                                        "converted at a block's edge"}
ASSUME StrayAssumption == Stray \in 0..127

VARIABLES
  home,        \* the leaf that the root and the inner nodes lead to for a key
  leaf,        \* leaf[i]: blocks and slotkeys
  firstLeaf, lastLeaf,
  it,          \* the iterator that is held
  call         \* the call it comes from, and the key that was given

vars == <<home, leaf, firstLeaf, lastLeaf, it, call>>

----------------------------------------------------------------------------
Num(i) == Len(leaf[i].blocks)

(* GetBlockSize.  In front of perSize lie the separators.                  *)
GetBlockSize(i, b) ==
  IF b = -1 THEN Stray ELSE IF b < Num(i) THEN Len(leaf[i].blocks[b + 1]) ELSE 0

Forward  == {"iterator", "const_iterator"}
Backward == {"reverse_iterator", "const_reverse_iterator"}

At(class, i, b, s) == [class |-> class, node |-> i, block |-> b, slot |-> s]

NoIterator == At("none", 0, 0, 0)

SizeAt(x) == GetBlockSize(x.node, x.block)

KeyAt(x) == leaf[x.node].blocks[x.block + 1][x.slot + 1]

(* key of a reverse iterator: the slot before its own.                     *)
KeyBefore(x) == KeyAt([x EXCEPT !.slot = @ - 1])

(* Blocks in the order of the chain.                                       *)
Precedes(p, q) == p[1] < q[1] \/ (p[1] = q[1] /\ p[2] < q[2])

Full == {p \in (1..Leaves) \X (0..MaxBlockNum - 1) : GetBlockSize(p[1], p[2]) > 0}

(* The blocks with points that advanceBlock and advanceNode come by, those *)
(* of leaves without blocks and emptied blocks being skipped.              *)
Behind(x) == {p \in Full : Precedes(<<x.node, x.block>>, p)}

(* The same for backwardBlock and backwardNode.                            *)
Ahead(x) == {p \in Full : Precedes(p, <<x.node, x.block>>)}

NearestBehind(x) == CHOOSE p \in Behind(x) : \A q \in Behind(x) : ~ Precedes(q, p)
NearestAhead(x)  == CHOOSE p \in Ahead(x) : \A q \in Ahead(x) : ~ Precedes(p, q)

(* The first and the last point of a block.                                *)
ToFirst(class, p) == At(class, p[1], p[2], IF class \in Forward THEN 0 ELSE 1)
ToLast(class, p) ==
  At(class, p[1], p[2],
     GetBlockSize(p[1], p[2]) - IF class \in Forward THEN 1 ELSE 0)

(* begin and rbegin, on a map with points: one step leads to one of them.  *)
Begin(class) ==
  LET x == At(class, firstLeaf, 0, 0)
  IN IF SizeAt(x) = 0 THEN ToFirst(class, NearestBehind(x)) ELSE x

RBegin(class) ==
  LET num == Num(lastLeaf)
      x   == At(class, lastLeaf, num - 1, GetBlockSize(lastLeaf, num - 1))
  IN IF SizeAt(x) = 0 THEN ToLast(class, NearestAhead(x)) ELSE x

(* end and rend are made from the other one's begin.                       *)
End(class) == [RBegin("reverse_iterator") EXCEPT !.class = class]
REnd(class) == [Begin("iterator") EXCEPT !.class = class]

EndOf(x) == IF x.class \in Forward THEN End(x.class) ELSE REnd(x.class)

(* Mutation: of the leaves behind, only the next one with blocks is seen.  *)
UpToNextLeaf(x) ==
  LET limit == SizeAt(x) - IF x.class \in Forward THEN 1 ELSE 0
      later == {i \in x.node + 1..Leaves : Num(i) > 0}
      seen  == {p \in Behind(x) : \A i \in later : p[1] <= i}
  IN IF x.slot < limit THEN [x EXCEPT !.slot = @ + 1]
     ELSE IF seen # {} THEN ToFirst(x.class, NearestBehind(x))
     ELSE EndOf(x)

(* Toward the greater keys: ++ of a forward and -- of a reverse iterator.  *)
Up(x) ==
  LET limit == SizeAt(x) - IF x.class \in Forward THEN 1 ELSE 0
  IN IF x.slot < limit THEN [x EXCEPT !.slot = @ + 1]
     ELSE IF Behind(x) # {} THEN ToFirst(x.class, NearestBehind(x))
     ELSE EndOf(x)

(* Mutation: slot 0 is not the last one.                                   *)
DownTooFar(x) ==
  IF x.slot >= 0 THEN [x EXCEPT !.slot = @ - 1]
  ELSE IF Ahead(x) # {} THEN ToLast(x.class, NearestAhead(x))
  ELSE EndOf(x)

(* Toward the smaller keys: -- of a forward and ++ of a reverse iterator.  *)
Down(x) ==
  LET limit == IF x.class \in Forward THEN 0 ELSE 1
  IN IF x.slot > limit THEN [x EXCEPT !.slot = @ - 1]
     ELSE IF Ahead(x) # {} THEN ToLast(x.class, NearestAhead(x))
     ELSE EndOf(x)

----------------------------------------------------------------------------
(* Search and SearchDataBlock of the leaf, see CFArrayLeaf.                *)
Search(i, k) ==
  Cardinality({b \in 1..Num(i) - 1 : leaf[i].slotkeys[b] <= k})

(* Mutation: the points of the key are passed.                             *)
SlotBehind(i, b, k) ==
  Cardinality({s \in 1..GetBlockSize(i, b) : leaf[i].blocks[b + 1][s] <= k})

SearchDataBlock(i, b, k) ==
  Cardinality({s \in 1..GetBlockSize(i, b) : leaf[i].blocks[b + 1][s] < k})

(* CARMI::Find.                                                            *)
Position(k) ==
  LET b == Search(home[k], k)
  IN At("iterator", home[k], b, SearchDataBlock(home[k], b, k))

(* Mutation: a place behind the last point of a block is left as it is.    *)
LowerBoundInBlock(k) == Position(k)

LowerBound(k) ==
  LET x == Position(k) IN IF x.slot >= SizeAt(x) THEN Up(x) ELSE x

PointsOf(i) == FlattenSeq(leaf[i].blocks)
Points == FlattenSeq([i \in 1..Leaves |-> PointsOf(i)])

(* The places that ++ leads to from x.                                     *)
WalkUp(x) ==
  LET walk[n \in 0..Len(Points) + 1] == IF n = 0 THEN x ELSE Up(walk[n - 1])
  IN walk

UpperBound(k) ==
  LET walk == WalkUp(Position(k))
      Stops(x) == x = End("iterator") \/ (x.slot < SizeAt(x) /\ KeyAt(x) # k)
  IN walk[Min({n \in DOMAIN walk : Stops(walk[n])})]

Find(k) ==
  LET x == Position(k)
  IN IF x.slot >= SizeAt(x) \/ KeyAt(x) # k THEN End("iterator") ELSE x

(* How often count increments its iterator.                                *)
Count(k) ==
  LET walk == WalkUp(LowerBound(k))
  IN Min({n \in DOMAIN walk : walk[n] = End("iterator") \/ KeyAt(walk[n]) # k})

----------------------------------------------------------------------------
(* The points that a map may have, in order.                               *)
SortedPoints ==
  {points \in BoundedSeq(Key, MaxPoints) :
     /\ points # <<>>
     /\ \A j \in 2..Len(points) : points[j - 1] <= points[j]
     /\ \A k \in Key : Cardinality({j \in DOMAIN points : points[j] = k}) <= Copies}

(* The points are dealt to the blocks of their leaf: StoreData, outside of *)
(* the init mode and in it.                                                *)
Deals(points) ==
  {at \in [DOMAIN points -> 1..MaxBlockNum] :
     \A j \in DOMAIN points :
       LET Same(m) == m \in 1..j /\ home[points[m]] = home[points[j]]
       IN /\ IF Same(j - 1) THEN at[j - 1] <= at[j] ELSE at[j] = 1
          /\ Same(j - Cap) => at[j - Cap] < at[j]
          /\ j > 1 /\ points[j - 1] = points[j] =>
               \/ at[j - 1] = at[j]
               \/ "key in two blocks" \in Odd /\ Same(j - Cap)
                  /\ at[j - Cap] = at[j - 1]}

(* The separators: the first key of the block behind or, if it is empty,   *)
(* one more than the last key before it.                                   *)
LeafOf(i, points, at) ==
  LET here  == {j \in DOMAIN points : home[points[j]] = i}
      In(b) == {j \in here : at[j] = b}
      block == [b \in 1..Max({0} \cup {at[j] : j \in here}) |->
                  [s \in 1..Cardinality(In(b)) |-> points[Min(In(b)) + s - 1]]]
  IN [blocks   |-> block,
      slotkeys |-> [b \in 1..Len(block) - 1 |->
                      IF block[b + 1] # <<>> THEN block[b + 1][1]
                      ELSE 1 + Max({points[j] : j \in {m \in here : at[m] <= b}})]]

(* A map with points, in any leaves of the chain that CarmiTree finds in   *)
(* order: the leaves before firstLeaf and behind lastLeaf have no points,  *)
(* nor need they have any themselves: a split leaves its first and its last*)
(* child there.  Odd says whether the last leaf may be one without blocks, *)
(* and whether the points of one key may be in two blocks, a full one and  *)
(* the one behind it.                                                      *)
Init ==
  /\ home \in {h \in [Key -> 1..Leaves] : \A j, k \in Key : j < k => h[j] <= h[k]}
  /\ \E points \in SortedPoints :
       LET used == {home[k] : k \in ToSet(points)}
       IN /\ \E at \in Deals(points) :
               leaf = [i \in 1..Leaves |-> LeafOf(i, points, at)]
          /\ firstLeaf \in 1..Min(used)
          /\ lastLeaf \in {Max(used)} \cup
               IF "bare last leaf" \in Odd THEN Max(used)..Leaves ELSE {}
  /\ it = NoIterator
  /\ call = <<"none", 0>>

Take(op, k, x) ==
  /\ call' = <<op, k>>
  /\ it' = x
  /\ UNCHANGED <<home, leaf, firstLeaf, lastLeaf>>

Edge ==
  \/ Take("begin", 0, Begin("iterator"))
  \/ Take("end", 0, End("iterator"))
  \/ Take("rbegin", 0, RBegin("reverse_iterator"))
  \/ Take("rend", 0, REnd("reverse_iterator"))

ConstEdge ==
  \/ Take("begin", 0, Begin("const_iterator"))
  \/ Take("end", 0, End("const_iterator"))
  \/ Take("rbegin", 0, RBegin("const_reverse_iterator"))
  \/ Take("rend", 0, REnd("const_reverse_iterator"))

(* ++ and -- of the four classes.                                          *)
IteratorStep ==
  /\ it.class = "iterator"
  /\ Take("++", 0, Up(it)) \/ Take("--", 0, Down(it))

ConstStep ==
  /\ it.class = "const_iterator"
  /\ Take("++", 0, Up(it)) \/ Take("--", 0, Down(it))

ReverseStep ==
  /\ it.class = "reverse_iterator"
  /\ Take("++", 0, Down(it)) \/ Take("--", 0, Up(it))

ConstReverseStep ==
  /\ it.class = "const_reverse_iterator"
  /\ Take("++", 0, Down(it)) \/ Take("--", 0, Up(it))

(* The classes that one of another class is made from.                     *)
IteratorFrom == {"reverse_iterator"}
ConstFrom == {"iterator", "reverse_iterator", "const_reverse_iterator"}
ReverseFrom == {"iterator"}
ConstReverseFrom == {"iterator", "const_iterator", "reverse_iterator"}

From == [iterator               |-> IteratorFrom,
         const_iterator         |-> ConstFrom,
         reverse_iterator       |-> ReverseFrom,
         const_reverse_iterator |-> ConstReverseFrom]

(* The node, the block and the slot are taken over.  A forward iterator at *)
(* the first slot of a block becomes a reverse one that reads in front of  *)
(* the block, a reverse one behind the last slot a forward one that reads  *)
(* behind it, unless it is the end: the odd case.                          *)
Convert(class) ==
  LET x == [it EXCEPT !.class = class]
  IN /\ it.class \in From[class]
     /\ \/ (it.class \in Forward) = (class \in Forward)
        \/ IF class \in Forward THEN x.slot < SizeAt(x) ELSE x.slot > 0
        \/ x = EndOf(x)
        \/ "converted at a block's edge" \in Odd
     /\ Take("convert", 0, x)

(* erase(key), where the loop of Delete does what it should (ClearToErase  *)
(* of CFArrayLeaf), and other points are left: on a map without points     *)
(* begin and rbegin call each other without end.                           *)
Erase(k) ==
  LET x     == Position(k)
      b     == x.block + 1
      size  == SizeAt(x)
  IN /\ x.slot < size /\ KeyAt(x) = k
     /\ Cardinality({j \in DOMAIN Points : Points[j] = k}) = 1
     /\ IF size = Cap THEN x.slot = Cap - 1 /\ b = Num(x.node)
        ELSE x.slot # size - 2
     /\ Len(Points) > 1
     /\ leaf' = [leaf EXCEPT ![x.node].blocks[b] =
                   RemoveAt(leaf[x.node].blocks[b], x.slot + 1)]
     /\ it' = NoIterator
     /\ call' = <<"erase", k>>
     /\ UNCHANGED <<home, firstLeaf, lastLeaf>>

Next ==
  \/ Edge
  \/ ConstEdge
  \/ IteratorStep
  \/ ConstStep
  \/ ReverseStep
  \/ ConstReverseStep
  \/ \E class \in DOMAIN From : Convert(class)
  \/ \E k \in Key :
       \/ Take("lower_bound", k, LowerBound(k))
       \/ Take("upper_bound", k, UpperBound(k))
       \/ Take("find", k, Find(k))
       \/ Erase(k)

Spec == Init /\ [][Next]_vars

----------------------------------------------------------------------------
TypeOK ==
  /\ home \in [Key -> 1..Leaves]
  /\ \A i \in 1..Leaves :
       /\ Num(i) \in 0..MaxBlockNum
       /\ \A b \in 1..Num(i) : leaf[i].blocks[b] \in BoundedSeq(Key, Cap)
  /\ {firstLeaf, lastLeaf} \subseteq 1..Leaves
  /\ it = NoIterator \/
     it \in [class : Forward \cup Backward, node : 1..Leaves,
             block : 0..MaxBlockNum - 1, slot : 0..Cap]

(* The points before the place of the iterator.                            *)
PointsBefore(x) ==
  IF x = NoIterator THEN 0
  ELSE x.slot + Len(FlattenSeq([i \in 1..x.node - 1 |-> PointsOf(i)]))
              + Len(FlattenSeq(SubSeq(leaf[x.node].blocks, 1, x.block)))

(* What key() of the iterator returns, 0 when it compares equal to its end.*)
KeyOf(x) ==
  IF x = NoIterator \/ x = EndOf(x) THEN 0
  ELSE IF x.class \in Forward THEN KeyAt(x) ELSE KeyBefore(x)

(* However an iterator has been come by and moved, over leaves that were   *)
(* split off without points and blocks that were emptied by erase, it is   *)
(* where the cursor over the sorted points is.                             *)
Cursor == INSTANCE SortedCursor WITH
            points <- Points, pos <- PointsBefore(it), key <- KeyOf(it),
            way <- IF it.class \in Forward THEN "forward"
                   ELSE IF it.class \in Backward THEN "reverse" ELSE "none"
Walks == Cursor!Spec

(* A loop over the map ends: an iterator without a point to refer to       *)
(* compares equal to end() or rend(), and any other one refers to a slot   *)
(* that holds a point.                                                     *)
EndIsRecognized ==
  /\ it.class \in Forward =>
       IF PointsBefore(it) = Len(Points) THEN it = EndOf(it) ELSE it.slot < SizeAt(it)
  /\ it.class \in Backward =>
       IF PointsBefore(it) = 0 THEN it = EndOf(it) ELSE it.slot \in 1..SizeAt(it)

(* count "returns the number of matches", in any state of the blocks.      *)
CountIsRight ==
  \A k \in Key : Count(k) = Cardinality({j \in DOMAIN Points : Points[j] = k})
============================================================================
