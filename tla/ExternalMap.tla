---------------------------- MODULE ExternalMap -----------------------------
(***************************************************************************)
(* CARMIExternalMap (carmi_external_map.h): the tree of CARMI over external*)
(* array leaves, which index an array of records that the caller keeps, and*)
(* the iterators over that array.                                          *)
(*                                                                         *)
(* An iterator is a slot: the number of the record it refers to, or, if it *)
(* is a reverse one, of the record behind that.  Slots, places in the array*)
(* and m_left count from 0, nodes from 1.                                  *)
(*                                                                         *)
(* As in the tests, the caller inserts keys in ascending order, greater    *)
(* than those of all records, and writes the record behind the others when *)
(* insert has returned: here, in the step in which it does.                *)
(***************************************************************************)
EXTENDS ExternalLeaf

CONSTANTS
  Key,         \* the keys, positive integers
  RootLeaves,  \* the number of leaves below the root
  Children,    \* kInsertNewChildNumber
  MaxNodes,    \* bound: no record is inserted with more nodes than these
  Odd          \* the odd cases there may be: see BeginInsert and Bound

ASSUME KeyAssumption ==
  Key # {} /\ IsFiniteSet(Key) /\ Key \cup {Junk} \subseteq Nat \ {0}
ASSUME TreeAssumption ==
  RootLeaves \in Nat \ {0} /\ Children \in Nat \ {0, 1} /\ MaxNodes \in Nat
ASSUME OddAssumption ==
  Odd \subseteq {"insert into an empty leaf", "bound in an empty leaf"}

VARIABLES
  root,       \* root.model.Predict: the node below the root for a key
  node,       \* node.nodeArray
  data,       \* external_data: the keys of the records in the array
  currsize,   \* the number of records that the tree has counted
  inserting,  \* the key that Insert is on its way with, or 0
  at,         \* idx, the node that Insert has come to
  it,         \* the iterator that is held: its class and its slot
  call        \* the call it comes from, and the key that was given

vars == <<root, node, data, currsize, inserting, at, it, call>>

tree == <<root, node, data, currsize>>

----------------------------------------------------------------------------
IsLeaf(i) == node[i].kind = "leaf"

ChildOf(inner, k) == inner.childLeft + Predict(inner.lr, Children, k)

(* Where the loops of Find and Insert end for the key k.                   *)
LeafFor(k) ==
  LET below[i \in DOMAIN node] ==
        IF node[i].kind = "inner" THEN below[ChildOf(node[i], k)] ELSE i
  IN below[root[k]]

Ascending(keys) == \A p, q \in DOMAIN keys : p < q => keys[p] < keys[q]

(* CARMI's constructor and Construction: the records are sorted and go to  *)
(* the leaves below a model that is monotone in the key.  A leaf without   *)
(* any is placed behind the records of the leaves before it.               *)
Construct(keys) ==
  LET left(i) == Cardinality({p \in DOMAIN keys : root[keys[p]] < i})
      size(i) == Cardinality({p \in DOMAIN keys : root[keys[p]] = i})
  IN /\ \A i \in 1..RootLeaves : size(i) <= MaxLeafSize
     /\ data = keys
     /\ node = [i \in 1..RootLeaves |->
                  TrainLeaf(left(i), keys, left(i), size(i))]

(* The constructors of CARMIExternalMap.                                   *)
Init ==
  /\ root \in {r \in [Key -> 1..RootLeaves] :
                 \A j, k \in Key : j < k => r[j] <= r[k]}
  /\ \E keys \in BoundedSeq(Key, Cardinality(Key)) :
       keys # <<>> /\ Ascending(keys) /\ Construct(keys)
  /\ currsize = Len(data)
  /\ inserting = 0 /\ at = 0
  /\ it = [class |-> "none", slot |-> 0]
  /\ call = <<"none", 0>>

----------------------------------------------------------------------------
(* Mutation: the line is trained on the first record alone.                *)
InnerOfFirst(i) == [kind      |-> "inner",
                    lr        |-> Train(<<Head(Extract(data, node[i]))>>, Children),
                    childLeft |-> Len(node) + 1]

(* Split's inner node over the records of the leaf i.                      *)
Inner(i) == [kind      |-> "inner",
             lr        |-> Train(Extract(data, node[i]), Children),
             childLeft |-> Len(node) + 1]

(* NodePartition: which records of the leaf go to the child c.             *)
Part(i, c) ==
  LET records == Extract(data, node[i])
  IN {p \in 1..node[i].size : Predict(Inner(i).lr, Children, records[p]) = c}

(* Insert of the key k would come to a leaf without records, at once or    *)
(* when it has split a full one.                                           *)
MeetsEmptyLeaf(k) ==
  LET i == LeafFor(k)
  IN \/ node[i].size = 0
     \/ Full(node[i]) /\ Part(i, Predict(Inner(i).lr, Children, k)) = {}

(* insert(key), and the root node.  A leaf without records that takes one  *)
(* counts it twice: what follows from that is one of the odd cases.        *)
BeginInsert(k) ==
  /\ inserting = 0
  /\ k > Last(data) /\ Len(node) <= MaxNodes
  /\ MeetsEmptyLeaf(k) => "insert into an empty leaf" \in Odd
  /\ inserting' = k
  /\ at' = root[k]
  /\ UNCHANGED <<tree, it, call>>

(* Insert: an inner node.                                                  *)
Descend ==
  /\ inserting # 0 /\ ~ IsLeaf(at)
  /\ at' = ChildOf(node[at], inserting)
  /\ UNCHANGED <<tree, inserting, it, call>>

(* Insert: a leaf that takes the record.  The caller keeps the iterator    *)
(* that is returned, or the one it held.                                   *)
InsertIntoLeaf ==
  /\ inserting # 0 /\ IsLeaf(at) /\ ~ Full(node[at])
  /\ node' = [node EXCEPT ![at] = AddTo(@, inserting, currsize)]
  /\ currsize' = currsize + 1
  /\ data' = Append(data, inserting)
  /\ it' \in {it, [class |-> "iterator", slot |-> currsize' - 1]}
  /\ call' = <<"insert", inserting>>
  /\ inserting' = 0 /\ at' = 0
  /\ UNCHANGED root

(* Mutation: tmpLeft is not advanced.                                      *)
ChildStartFixed(i, c) == node[i].m_left

(* The place of the records of child c: behind those of the ones before it.*)
ChildStart(i, c) ==
  node[i].m_left + Cardinality(UNION {Part(i, b) : b \in 0..c - 1})

(* Insert: a leaf that does not take the record, and Split.  A child is    *)
(* trained on the part of the records that NodePartition found for it.     *)
Split ==
  LET childLeft == Inner(at).childLeft
      Child(c)  == TrainLeaf(ChildStart(at, c), Extract(data, node[at]),
                             ChildStart(at, c) - node[at].m_left,
                             Cardinality(Part(at, c)))
  IN /\ inserting # 0 /\ IsLeaf(at) /\ Full(node[at])
     /\ node' = [i \in 1..Len(node) + Children |->
                   IF i = at THEN Inner(at)
                   ELSE IF i >= childLeft THEN Child(i - childLeft) ELSE node[i]]
     /\ at' = ChildOf(Inner(at), inserting)
     /\ UNCHANGED <<root, data, currsize, inserting, it, call>>

----------------------------------------------------------------------------
(* The iterators.                                                          *)
At(class, slot) == [class |-> class, slot |-> slot]

Take(op, k, x) ==
  /\ inserting = 0
  /\ call' = <<op, k>>
  /\ it' = x
  /\ UNCHANGED <<tree, inserting, at>>

Edge ==
  \/ Take("begin", 0, At("iterator", 0))
  \/ Take("end", 0, At("iterator", currsize))
  \/ Take("begin", 0, At("const_iterator", 0))
  \/ Take("end", 0, At("const_iterator", currsize))
  \/ Take("rbegin", 0, At("reverse_iterator", currsize))
  \/ Take("rend", 0, At("reverse_iterator", 0))
  \/ Take("rbegin", 0, At("const_reverse_iterator", currsize))
  \/ Take("rend", 0, At("const_reverse_iterator", 0))

(* Mutation: the number of records is not looked at.                       *)
NextSlotPast(s) == s + 1

(* operator++ of iterator: behind the last record is end().                *)
NextSlot(s) == IF s + 1 >= currsize THEN currsize ELSE s + 1

(* operator-- of iterator: before the first record is end(), too.          *)
PreviousSlot(s) == IF s - 1 < 0 THEN currsize ELSE s - 1

(* operator++ of reverse_iterator.                                         *)
ReverseNextSlot(s) == IF s - 1 <= 0 THEN 0 ELSE s - 1

(* operator-- of reverse_iterator.                                         *)
ReversePreviousSlot(s) == IF s + 1 > currsize THEN 0 ELSE s + 1

Forward == {"iterator", "const_iterator"}
Backward == {"reverse_iterator", "const_reverse_iterator"}

(* The classes repeat the code; const_iterator has the one of iterator.    *)
StepForward ==
  /\ it.class \in Forward
  /\ \/ Take("++", 0, [it EXCEPT !.slot = NextSlot(@)])
     \/ Take("--", 0, [it EXCEPT !.slot = PreviousSlot(@)])

(* const_reverse_iterator has the code of reverse_iterator.                *)
StepReverse ==
  /\ it.class \in Backward
  /\ \/ Take("++", 0, [it EXCEPT !.slot = ReverseNextSlot(@)])
     \/ Take("--", 0, [it EXCEPT !.slot = ReversePreviousSlot(@)])

(* The constructors of one class from the others: the slot is taken over.  *)
Conversions ==
  {<<"reverse_iterator", "iterator">>, <<"iterator", "const_iterator">>,
   <<"reverse_iterator", "const_iterator">>,
   <<"const_reverse_iterator", "const_iterator">>,
   <<"iterator", "reverse_iterator">>, <<"iterator", "const_reverse_iterator">>,
   <<"const_iterator", "const_reverse_iterator">>,
   <<"reverse_iterator", "const_reverse_iterator">>}

Convert ==
  \E c \in Conversions :
    it.class = c[1] /\ Take("convert", 0, [it EXCEPT !.class = c[2]])

----------------------------------------------------------------------------
(* CARMI::Find, and the key at a slot.                                     *)
Slot(k) == FindIn(data, node[LeafFor(k)], k)

RecordAt(s) == KeyAt(data, s)

(* key of a reverse iterator.                                              *)
RecordBefore(s) == RecordAt(s - 1)

IsEmptyLeafFor(k) == node[LeafFor(k)].size = 0

(* lower_bound: what Find has found is the record before the one looked for*)
(* or at it or, among equals, behind it.                                   *)
LowerBound(k) ==
  LET s      == Slot(k)
      before == {p \in 0..s : RecordAt(p) < k}
  IN IF s < 0 \/ s >= currsize THEN currsize
     ELSE IF RecordAt(s) < k THEN NextSlot(s)
     ELSE IF before = {} THEN 0 ELSE Max(before) + 1

(* Mutation: a record with the key is not passed.                          *)
UpperBoundAtEqual(k) ==
  LET s == Slot(k)
  IN IF s < 0 \/ s >= currsize THEN currsize
     ELSE Min({currsize} \cup {p \in s..currsize - 1 : RecordAt(p) >= k})

(* upper_bound: the records that are not greater are passed.               *)
UpperBound(k) ==
  LET s == Slot(k)
  IN IF s < 0 \/ s >= currsize THEN currsize
     ELSE Min({currsize} \cup {p \in s..currsize - 1 : RecordAt(p) > k})

(* find.                                                                   *)
Found(k) ==
  LET s == Slot(k)
  IN IF s < 0 \/ RecordAt(s) # k THEN currsize ELSE s

(* A bound of a key whose leaf has no records is end(), the other odd case.*)
Bound(k) ==
  /\ IsEmptyLeafFor(k) => \/ "bound in an empty leaf" \in Odd
                          \/ k > Last(data)
  /\ \/ Take("lower_bound", k, At("iterator", LowerBound(k)))
     \/ Take("upper_bound", k, At("iterator", UpperBound(k)))

Find(k) == Take("find", k, At("iterator", Found(k)))

Next ==
  \/ Edge
  \/ StepForward
  \/ StepReverse
  \/ Convert
  \/ \E k \in Key : Bound(k) \/ Find(k) \/ BeginInsert(k)
  \/ Descend
  \/ InsertIntoLeaf
  \/ Split

Spec == Init /\ [][Next]_vars

----------------------------------------------------------------------------
TypeOK ==
  /\ root \in [Key -> 1..RootLeaves]
  /\ \A i \in DOMAIN node :
       \/ node[i].kind = "inner" /\ node[i].childLeft + Children - 1 \in 1..Len(node)
       \/ /\ IsLeaf(i) /\ node[i].size \in 0..MaxLeafSize + 1
          /\ node[i].error \in 0..MaxLeafSize
  /\ ToSet(data) \subseteq Key /\ currsize = Len(data)
  /\ inserting \in Key \cup {0}
  /\ at \in 0..Len(node)
  /\ it.class \in Forward \cup Backward \cup {"none"} /\ it.slot \in 0..currsize

(* The leaves share out the array: every record lies in the range of the   *)
(* leaf that its key leads to, and no leaf has more than its records.      *)
LeavesShareRecords ==
  \A i \in DOMAIN node :
    IsLeaf(i) =>
      LET l == node[i]
      IN {p \in 0..currsize - 1 : LeafFor(data[p + 1]) = i}
           = l.m_left..l.m_left + l.size - 1

(* What key() of the iterator returns, 0 when it compares equal to its end.*)
KeyOf(x) ==
  CASE x.class \in Forward /\ x.slot # currsize -> RecordAt(x.slot)
    [] x.class \in Backward /\ x.slot # 0       -> RecordBefore(x.slot)
    [] OTHER                                    -> 0

Cursor == INSTANCE SortedCursor WITH
            points <- data, pos <- it.slot, key <- KeyOf(it),
            way <- IF it.class \in Forward THEN "forward"
                   ELSE IF it.class \in Backward THEN "reverse" ELSE "none"

(* The map over the caller's array is a sorted sequence under a cursor:    *)
(* whatever has been appended and split, the bounds and find come to the   *)
(* right record, insert to the new one, and the iterators of the four      *)
(* classes walk the records in order, each way, and know where they end.   *)
Walks == Cursor!Spec

(* Insert splits no more than one leaf: the new one that the key leads to  *)
(* has room for it, so the call comes back.                                *)
SplitMakesRoom ==
  [][at # 0 /\ IsLeaf(at) /\ at' # 0 => ~ Full(node'[at'])]_vars
============================================================================
