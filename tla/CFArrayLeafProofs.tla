------------------------- MODULE CFArrayLeafProofs -------------------------
(***************************************************************************)
(* A leaf is a bag of keys (module KeyStore) that keeps its keys in order  *)
(* and finds every one of them, whatever the capacity of a block, the      *)
(* number of blocks and the sequence of insertions and of erasures that    *)
(* Delete gets right.                                                      *)
(***************************************************************************)
EXTENDS CFArrayLeaf, NumberProofs, FiniteSetTheorems, TLAPS

----------------------------------------------------------------------------
(* std::lower_bound: the halving ends where the positions before the value *)
(* end, if these come first.                                               *)
LEMMA Halving ==
  ASSUME NEW n \in Nat, NEW before, before \subseteq 1..n,
         \A i \in before : \A j \in 1..n : j < i => j \in before
  PROVE  /\ LowerBound(n, before) \in 1..n + 1
         /\ \A i \in 1..n : i \in before <=> i < LowerBound(n, before)
<1> DEFINE Rest == {i \in 1..n + 1 : i \notin before}
<1>1. Rest \subseteq Nat /\ Rest # {}
  <2>1. n + 1 \in Rest
    OBVIOUS
  <2> QED  BY <2>1
<1>2. PICK t \in Rest : \A i \in Rest : t <= i
  BY <1>1, LeastNumber
<1>3. /\ t \in 1..n + 1
      /\ \A i \in 1..n : i \in before <=> i < t
  <2>1. t \in 1..n + 1 /\ t \notin before
    BY <1>2
  <2>2. ASSUME NEW i \in 1..n, i \in before
        PROVE  i < t
    <3>1. ~ (t < i)
      BY <2>1, <2>2
    <3> QED  BY <2>1, <2>2, <3>1
  <2>3. ASSUME NEW i \in 1..n, i < t
        PROVE  i \in before
    <3>1. i \notin Rest
      BY <1>2, <2>1, <2>3
    <3> QED  BY <3>1
  <2> QED  BY <2>1, <2>2, <2>3
<1> DEFINE D == (1..n + 1) \X (0..n)
           End(first, len) ==
             IF t <= first THEN first ELSE IF t <= first + len THEN t ELSE first + len
           Step(b, first, len) ==
             IF len = 0 THEN first
             ELSE IF first + len \div 2 \in before
             THEN b[<<first + len \div 2 + 1, (len - 1) \div 2>>]
             ELSE b[<<first, len \div 2>>]
           Is(b) == b = [range \in D |-> Step(b, range[1], range[2])]
<1> HIDE DEF Rest
<1>4. ASSUME NEW first \in 1..n + 1, NEW len \in 0..n, len # 0
      PROVE  /\ len \div 2 \in 0..len - 1 /\ (len - 1) \div 2 \in 0..len - 1
             /\ len \div 2 \in 0..n /\ (len - 1) \div 2 \in 0..n
             /\ first + len \div 2 \in before =>
                  /\ first + len \div 2 + 1 \in 1..n + 1
                  /\ End(first, len) = End(first + len \div 2 + 1, (len - 1) \div 2)
             /\ first + len \div 2 \notin before =>
                  End(first, len) = End(first, len \div 2)
  <2>1. /\ len \div 2 \in 0..len - 1 /\ (len - 1) \div 2 \in 0..len - 1
        /\ len \div 2 + 1 + (len - 1) \div 2 = len
    BY <1>4
  <2>2. ASSUME first + len \div 2 \in before
        PROVE  /\ first + len \div 2 + 1 \in 1..n + 1
               /\ End(first, len) = End(first + len \div 2 + 1, (len - 1) \div 2)
    BY <1>3, <1>4, <2>1, <2>2
  <2>3. ASSUME first + len \div 2 \notin before
        PROVE  End(first, len) = End(first, len \div 2)
    <3>1. t <= first + len \div 2
      BY <1>3, <1>4, <2>1, <2>3
    <3> QED  BY <1>3, <1>4, <2>1, <3>1
  <2> QED  BY <1>4, <2>1, <2>2, <2>3
<1> DEFINE closed == [range \in D |-> End(range[1], range[2])]
<1>5. Is(closed)
  <2>1. \A first \in 1..n + 1, len \in 0..n : closed[<<first, len>>] = End(first, len)
    OBVIOUS
  <2> HIDE DEF closed
  <2>2. ASSUME NEW first \in 1..n + 1, NEW len \in 0..n
        PROVE  End(first, len) = Step(closed, first, len)
    <3>1. CASE len = 0
      BY <3>1, <1>3
    <3>2. CASE len # 0 /\ first + len \div 2 \in before
      <4> HIDE DEF End
      <4>1. /\ first + len \div 2 + 1 \in 1..n + 1 /\ (len - 1) \div 2 \in 0..n
            /\ End(first, len) = End(first + len \div 2 + 1, (len - 1) \div 2)
        BY <1>4, <3>2
      <4>2. closed[<<first + len \div 2 + 1, (len - 1) \div 2>>]
              = End(first + len \div 2 + 1, (len - 1) \div 2)
        BY <2>1, <4>1
      <4> QED  BY <3>2, <4>1, <4>2
    <3>3. CASE len # 0 /\ first + len \div 2 \notin before
      <4> HIDE DEF End
      <4>1. len \div 2 \in 0..n /\ End(first, len) = End(first, len \div 2)
        BY <1>4, <3>3
      <4>2. closed[<<first, len \div 2>>] = End(first, len \div 2)
        BY <2>1, <4>1
      <4> QED  BY <3>3, <4>1, <4>2
    <3> QED  BY <3>1, <3>2, <3>3
  <2>3. ASSUME NEW range \in D
        PROVE  End(range[1], range[2]) = Step(closed, range[1], range[2])
    <3> HIDE DEF End, Step
    <3> QED  BY <2>2
  <2>4. closed = [range \in D |-> End(range[1], range[2])]
    BY DEF closed
  <2> HIDE DEF End, Step, D
  <2> QED  BY <2>3, <2>4
<1>6. PICK b : Is(b) /\ LowerBound(n, before) = b[<<1, n>>]
  <2> HIDE DEF closed
  <2>1. LowerBound(n, before) = (CHOOSE b : Is(b))[<<1, n>>]
    BY DEF LowerBound
  <2> HIDE DEF Is
  <2> QED  BY <1>5, <2>1
<1>7. ASSUME NEW first \in 1..n + 1, NEW len \in 0..n
      PROVE  b[<<first, len>>] = Step(b, first, len)
  <2>1. <<first, len>> \in D /\ <<first, len>>[1] = first /\ <<first, len>>[2] = len
    OBVIOUS
  <2> HIDE DEF Step, D
  <2> QED  BY <1>6, <2>1
<1> HIDE DEF Is, closed
<1> DEFINE S == {len \in Nat : \A first \in 1..n + 1 : b[<<first, len>>] = End(first, len)}
<1>8. ASSUME NEW len \in 0..n, \A m \in 0..len - 1 : m \in S
      PROVE  len \in S
  <2> SUFFICES ASSUME NEW first \in 1..n + 1
               PROVE  b[<<first, len>>] = End(first, len)
    OBVIOUS
  <2>0. b[<<first, len>>] = Step(b, first, len)
    BY <1>7
  <2>1. CASE len = 0
    BY <1>3, <2>0, <2>1
  <2>2. CASE len # 0 /\ first + len \div 2 \in before
    <3>1. /\ first + len \div 2 + 1 \in 1..n + 1 /\ (len - 1) \div 2 \in 0..len - 1
          /\ End(first, len) = End(first + len \div 2 + 1, (len - 1) \div 2)
      BY <1>4, <2>2
    <3>2. (len - 1) \div 2 \in S
      BY <1>8, <3>1
    <3>3. b[<<first + len \div 2 + 1, (len - 1) \div 2>>]
            = End(first + len \div 2 + 1, (len - 1) \div 2)
      <4> HIDE DEF End
      <4> QED  BY <3>1, <3>2
    <3> HIDE DEF End, S
    <3> QED  BY <2>0, <2>2, <3>1, <3>3
  <2>3. CASE len # 0 /\ first + len \div 2 \notin before
    <3>1. len \div 2 \in 0..len - 1 /\ End(first, len) = End(first, len \div 2)
      BY <1>4, <2>3
    <3>2. len \div 2 \in S
      BY <1>8, <3>1
    <3>3. b[<<first, len \div 2>>] = End(first, len \div 2)
      <4> HIDE DEF End
      <4> QED  BY <3>2
    <3> HIDE DEF End, S
    <3> QED  BY <2>0, <2>3, <3>1, <3>3
  <2> QED  BY <2>1, <2>2, <2>3
<1> HIDE DEF S
<1>9. 0..n \subseteq S
  BY <1>8, StrongInduction
<1>10. b[<<1, n>>] = t
  <2>1. n \in S /\ 1 \in 1..n + 1
    BY <1>9
  <2>2. b[<<1, n>>] = End(1, n)
    BY <2>1 DEF S
  <2> QED  BY <1>3, <2>2
<1> QED  BY <1>3, <1>6, <1>10

----------------------------------------------------------------------------
(* Which block a key is looked up in, as a matter of the sets K[b] of keys *)
(* of the blocks 1..n and of the separators sep[c] behind the blocks.      *)
Ascending(n, sep) == \A b, c \in 1..n - 1 : b <= c => sep[b] <= sep[c]

Between(n, K, sep) ==
  \A b \in 1..n, c \in 1..n - 1 : \A x \in K[b] :
    IF b <= c THEN x <= sep[c] ELSE sep[c] <= x

Leads(n, sep, x, s) ==
  /\ s > 1 => sep[s - 1] <= x
  /\ s < n => x < sep[s]

Reached(n, K, sep) ==
  \A b, s \in 1..n : \A x \in K[b] : Leads(n, sep, x, s) => x \in K[s]

Spaced(n, sep) ==
  \A c \in 1..n - 1, j \in Key : j < sep[c] => j + One <= sep[c]

Routed(n, K, sep) ==
  /\ K \in [1..n -> SUBSET Key]
  /\ sep \in [1..n - 1 -> Int]
  /\ Ascending(n, sep)
  /\ Between(n, K, sep)
  /\ Reached(n, K, sep)
  /\ Spaced(n, sep)

LEMMA KeysAreNumbers ==
  /\ One \in Nat \ {0} /\ MAX \in Nat \ {0} /\ Cap \in Nat \ {0}
  /\ MaxBlockNum \in Nat /\ MaxBlockNum >= 2
  /\ \A k \in Key : k \in Nat \ {0} /\ k + One < MAX /\ k < MAX
<1>1. /\ One \in Nat \ {0} /\ MAX \in Nat \ {0} /\ Cap \in Nat \ {0}
      /\ MaxBlockNum \in Nat /\ MaxBlockNum >= 2
  BY SizesAssumption
<1>2. \A k \in Key : k \in Nat \ {0} /\ k + One < MAX
  BY KeyAssumption
<1> QED  BY <1>1, <1>2

(* Keys differ by One at least.                                            *)
KeysApart == \A j, k \in Key : j < k => j + One <= k

(* A key is put into the block it leads to, and that block is not empty.   *)
LEMMA PutIntoBlock ==
  ASSUME NEW n \in Nat \ {0}, NEW K, NEW sep, Routed(n, K, sep),
         NEW b \in 1..n, NEW k \in Key, Leads(n, sep, k, b)
  PROVE  Routed(n, [K EXCEPT ![b] = @ \cup {k}], sep)
<1> DEFINE K2 == [K EXCEPT ![b] = @ \cup {k}]
<1>1. K2 \in [1..n -> SUBSET Key] /\ K2[b] = K[b] \cup {k}
  BY DEF Routed
<1>2. \A a \in 1..n : a # b => K2[a] = K[a]
  BY DEF Routed
<1> HIDE DEF K2
<1>3. k \in Int
  BY KeysAreNumbers
<1>4. Between(n, K2, sep)
  <2>1. ASSUME NEW c \in 1..n - 1
        PROVE  IF b <= c THEN k <= sep[c] ELSE sep[c] <= k
    <3>1. CASE b <= c
      <4>1. b \in 1..n - 1 /\ sep[b] \in Int /\ sep[c] \in Int /\ sep[b] <= sep[c]
        BY <3>1 DEF Routed, Ascending
      <4> QED  BY <1>3, <3>1, <4>1 DEF Leads
    <3>2. CASE c < b
      <4>1. b - 1 \in 1..n - 1 /\ sep[b - 1] \in Int /\ sep[c] \in Int
            /\ sep[c] <= sep[b - 1]
        BY <3>2 DEF Routed, Ascending
      <4> QED  BY <1>3, <3>2, <4>1 DEF Leads
    <3> QED  BY <3>1, <3>2
  <2> QED  BY <1>1, <1>2, <2>1 DEF Routed, Between
<1>5. Reached(n, K2, sep)
  <2>1. ASSUME NEW s \in 1..n, Leads(n, sep, k, s)
        PROVE  s = b
    <3>1. CASE s < b
      <4>1. s \in 1..n - 1 /\ b - 1 \in 1..n - 1 /\ s <= b - 1 /\ sep[s] \in Int
            /\ sep[b - 1] \in Int /\ sep[s] <= sep[b - 1]
        BY <3>1 DEF Routed, Ascending
      <4> QED  BY <1>3, <2>1, <3>1, <4>1 DEF Leads
    <3>2. CASE b < s
      <4>1. b \in 1..n - 1 /\ s - 1 \in 1..n - 1 /\ b <= s - 1 /\ sep[b] \in Int
            /\ sep[s - 1] \in Int /\ sep[b] <= sep[s - 1]
        BY <3>2 DEF Routed, Ascending
      <4> QED  BY <1>3, <2>1, <3>2, <4>1 DEF Leads
    <3> QED  BY <3>1, <3>2
  <2>2. ASSUME NEW a \in 1..n, NEW s \in 1..n, NEW x \in K2[a], Leads(n, sep, x, s)
        PROVE  x \in K2[s]
    <3>1. CASE x = k
      BY <1>1, <2>1, <2>2, <3>1
    <3>2. CASE x # k
      <4>1. x \in K[a]
        BY <1>1, <1>2, <2>2, <3>2
      <4>2. x \in K[s]
        BY <2>2, <4>1 DEF Routed, Reached
      <4> QED  BY <1>1, <1>2, <4>2
    <3> QED  BY <3>1, <3>2
  <2> QED  BY <2>2 DEF Reached
<1>6. Routed(n, K2, sep)
  BY <1>1, <1>4, <1>5 DEF Routed
<1> QED  BY <1>6 DEF K2

(* The separator before an empty block is raised to a key that leads there.*)
LEMMA RaiseSeparator ==
  ASSUME NEW n \in Nat \ {0}, NEW K, NEW sep, Routed(n, K, sep), KeysApart,
         NEW b \in 2..n, NEW k \in Key, Leads(n, sep, k, b),
         \A x \in K[b] : k < x
  PROVE  /\ Routed(n, K, [sep EXCEPT ![b - 1] = k])
         /\ Leads(n, [sep EXCEPT ![b - 1] = k], k, b)
<1> DEFINE t == [sep EXCEPT ![b - 1] = k]
<1>0. b - 1 \in 1..n - 1 /\ k \in Int /\ b \in 1..n
  BY KeysAreNumbers
<1>1. sep[b - 1] <= k /\ (b < n => k < sep[b])
  BY DEF Leads
<1>2. /\ sep \in [1..n - 1 -> Int]
      /\ t \in [1..n - 1 -> Int] /\ t[b - 1] = k
      /\ \A c \in 1..n - 1 : c # b - 1 => t[c] = sep[c]
  BY <1>0 DEF Routed
<1>3. K \in [1..n -> SUBSET Key] /\ \A a \in 1..n : \A x \in K[a] : x \in Int
  BY KeysAreNumbers DEF Routed
<1> HIDE DEF t
<1>4. \A c \in 1..n - 1 : IF c < b THEN sep[c] <= k ELSE k < sep[c]
  <2> SUFFICES ASSUME NEW c \in 1..n - 1
               PROVE  IF c < b THEN sep[c] <= k ELSE k < sep[c]
    OBVIOUS
  <2>1. CASE c < b
    <3>1. sep[c] <= sep[b - 1] /\ sep[c] \in Int /\ sep[b - 1] \in Int
      BY <1>0, <1>2, <2>1 DEF Routed, Ascending
    <3> QED  BY <1>0, <1>1, <2>1, <3>1
  <2>2. CASE b <= c
    <3>1. b \in 1..n - 1 /\ sep[b] <= sep[c] /\ sep[c] \in Int /\ sep[b] \in Int
      BY <1>2, <2>2 DEF Routed, Ascending
    <3> QED  BY <1>0, <1>1, <2>2, <3>1
  <2> QED  BY <2>1, <2>2
<1>5. Ascending(n, t)
  <2> SUFFICES ASSUME NEW c \in 1..n - 1, NEW d \in 1..n - 1, c <= d
               PROVE  t[c] <= t[d]
    BY DEF Ascending
  <2>1. sep[c] <= sep[d] /\ sep[c] \in Int /\ sep[d] \in Int
    BY <1>2 DEF Routed, Ascending
  <2>2. CASE c = b - 1
    <3>1. d = b - 1 \/ k < sep[d]
      BY <1>0, <1>4, <2>2
    <3> QED  BY <1>0, <1>2, <2>1, <2>2, <3>1
  <2>3. CASE c # b - 1 /\ d = b - 1
    <3>1. sep[c] <= k
      BY <1>0, <1>4, <2>3
    <3> QED  BY <1>0, <1>2, <2>3, <3>1
  <2>4. CASE c # b - 1 /\ d # b - 1
    BY <1>2, <2>1, <2>4
  <2> QED  BY <2>2, <2>3, <2>4
<1>6. Between(n, K, t)
  <2> SUFFICES ASSUME NEW a \in 1..n, NEW x \in K[a]
               PROVE  IF a <= b - 1 THEN x <= k ELSE k <= x
    <3>1. \A a \in 1..n, c \in 1..n - 1 : \A x \in K[a] :
            c # b - 1 => IF a <= c THEN x <= t[c] ELSE t[c] <= x
      BY <1>2 DEF Routed, Between
    <3> QED  BY <1>0, <1>2, <3>1 DEF Between
  <2>1. CASE a <= b - 1
    <3>1. x <= sep[b - 1] /\ sep[b - 1] \in Int /\ x \in Int
      BY <1>0, <1>2, <1>3, <2>1 DEF Routed, Between
    <3> QED  BY <1>0, <1>1, <2>1, <3>1
  <2>2. CASE a = b
    BY <1>0, <1>3, <2>2
  <2>3. CASE b < a
    <3>1. b \in 1..n - 1 /\ sep[b] <= x /\ x \in Int /\ sep[b] \in Int
      BY <1>2, <1>3, <2>3 DEF Routed, Between
    <3> QED  BY <1>0, <1>1, <2>3, <3>1
  <2> QED  BY <1>0, <2>1, <2>2, <2>3
<1>7. Reached(n, K, t)
  <2> SUFFICES ASSUME NEW a \in 1..n, NEW s \in 1..n, NEW x \in K[a], Leads(n, t, x, s)
               PROVE  x \in K[s]
    BY DEF Reached
  <2>0. x \in Int
    BY <1>3
  <2>1. CASE s = b
    <3>1. Leads(n, sep, x, b)
      BY <1>0, <1>1, <1>2, <2>0, <2>1 DEF Leads
    <3> QED  BY <1>0, <2>1, <3>1 DEF Routed, Reached
  <2>2. CASE s = b - 1
    <3>0. s < n /\ x < k /\ (s > 1 => s - 1 \in 1..n - 1 /\ sep[s - 1] <= x)
      BY <1>0, <1>2, <2>0, <2>2 DEF Leads
    <3>1. CASE x < sep[b - 1]
      <4>1. Leads(n, sep, x, s)
        BY <2>2, <3>0, <3>1 DEF Leads
      <4> QED  BY <4>1 DEF Routed, Reached
    <3>2. CASE sep[b - 1] <= x
      <4>1. Leads(n, sep, x, b)
        BY <1>0, <1>1, <1>2, <1>4, <2>0, <3>0, <3>2 DEF Leads
      <4>2. x \in K[b]
        BY <1>0, <4>1 DEF Routed, Reached
      <4> QED  BY <1>0, <2>0, <3>0, <4>2
    <3> QED  BY <1>0, <1>2, <2>0, <3>1, <3>2
  <2>3. CASE s # b /\ s # b - 1
    <3>1. Leads(n, sep, x, s)
      BY <1>0, <1>2, <2>3 DEF Leads
    <3> QED  BY <3>1 DEF Routed, Reached
  <2> QED  BY <2>1, <2>2, <2>3
<1>8. Spaced(n, t)
  BY <1>0, <1>2 DEF Routed, Spaced, KeysApart
<1>9. Routed(n, K, t)
  BY <1>2, <1>3, <1>5, <1>6, <1>7, <1>8 DEF Routed
<1>10. Leads(n, t, k, b)
  <2>1. k <= t[b - 1]
    BY <1>0, <1>2
  <2>2. ASSUME b < n
        PROVE  k < t[b]
    <3>1. b \in 1..n - 1 /\ b # b - 1 /\ k < sep[b]
      BY <1>1, <2>2
    <3> QED  BY <1>2, <3>1
  <2> QED  BY <1>0, <1>2, <2>1, <2>2 DEF Leads
<1> QED  BY <1>9, <1>10 DEF t

(* The separator behind the first block, which is empty, is lowered to just*)
(* above a key that leads there.                                           *)
LEMMA LowerFirstSeparator ==
  ASSUME NEW n \in Nat \ {0}, NEW K, NEW sep, Routed(n, K, sep), KeysApart,
         n > 1, NEW k \in Key, Leads(n, sep, k, 1), K[1] = {}
  PROVE  /\ Routed(n, K, [sep EXCEPT ![1] = k + One])
         /\ Leads(n, [sep EXCEPT ![1] = k + One], k, 1)
<1> DEFINE t == [sep EXCEPT ![1] = k + One]
<1>0. 1 \in 1..n - 1 /\ k \in Int /\ 1 \in 1..n /\ k + One \in Int /\ k < k + One
  BY KeysAreNumbers
<1>1. k < sep[1]
  BY DEF Leads
<1>2. /\ sep \in [1..n - 1 -> Int]
      /\ t \in [1..n - 1 -> Int] /\ t[1] = k + One
      /\ \A c \in 1..n - 1 : c # 1 => t[c] = sep[c]
  BY <1>0 DEF Routed
<1>3. K \in [1..n -> SUBSET Key] /\ \A a \in 1..n : \A x \in K[a] : x \in Int /\ x \in Key
  BY KeysAreNumbers DEF Routed
<1> HIDE DEF t
<1>4. \A c \in 1..n - 1 : k + One <= sep[c]
  <2>1. k + One <= sep[1]
    BY <1>0, <1>1 DEF Routed, Spaced
  <2>2. \A c \in 1..n - 1 : sep[1] <= sep[c] /\ sep[c] \in Int
    BY <1>0, <1>2 DEF Routed, Ascending
  <2> QED  BY <1>0, <2>1, <2>2
<1>5. Ascending(n, t)
  <2> SUFFICES ASSUME NEW c \in 1..n - 1, NEW d \in 1..n - 1, c <= d
               PROVE  t[c] <= t[d]
    BY DEF Ascending
  <2>1. sep[c] <= sep[d] /\ sep[c] \in Int /\ sep[d] \in Int
    BY <1>2 DEF Routed, Ascending
  <2>2. CASE c = 1
    <3>1. d = 1 \/ k + One <= sep[d]
      BY <1>4, <2>2
    <3> QED  BY <1>0, <1>2, <2>1, <2>2, <3>1
  <2>3. CASE c # 1
    <3>1. d # 1
      BY <2>3
    <3> QED  BY <1>2, <2>1, <2>3, <3>1
  <2> QED  BY <2>2, <2>3
<1>6. Between(n, K, t)
  <2> SUFFICES ASSUME NEW a \in 1..n, NEW x \in K[a], a > 1
               PROVE  k + One <= x
    BY <1>0, <1>2, SMTT(20) DEF Routed, Between
  <2>1. sep[1] <= x /\ x \in Int /\ sep[1] \in Int
    BY <1>0, <1>2, <1>3 DEF Routed, Between
  <2> QED  BY <1>0, <1>4, <2>1
<1>7. Reached(n, K, t)
  <2> SUFFICES ASSUME NEW a \in 1..n, NEW s \in 1..n, NEW x \in K[a], Leads(n, t, x, s)
               PROVE  x \in K[s]
    BY DEF Reached
  <2>0. x \in Int /\ a > 1
    BY <1>3
  <2>1. sep[1] <= x /\ sep[1] \in Int
    BY <1>0, <1>2, <2>0 DEF Routed, Between
  <2>2. s # 1
    BY <1>0, <1>2, <1>4, <2>0, <2>1 DEF Leads
  <2>3. Leads(n, sep, x, s)
    <3>1. CASE s = 2
      <4>1. s < n => s \in 1..n - 1 /\ s # 1
        BY <3>1
      <4> QED  BY <1>2, <2>1, <3>1, <4>1 DEF Leads
    <3>2. CASE s > 2
      <4>1. s - 1 \in 1..n - 1 /\ s - 1 # 1 /\ (s < n => s \in 1..n - 1 /\ s # 1)
        BY <3>2
      <4> QED  BY <1>2, <3>2, <4>1 DEF Leads
    <3> QED  BY <2>2, <3>1, <3>2
  <2> QED  BY <2>3 DEF Routed, Reached
<1>8. Spaced(n, t)
  <2>1. \A j \in Key : j < k + One => j + One <= k + One
    <3> SUFFICES ASSUME NEW j \in Key, j < k + One
                 PROVE  j <= k
      BY KeysAreNumbers
    <3> QED  BY KeysAreNumbers DEF KeysApart
  <2> QED  BY <1>0, <1>2, <2>1 DEF Routed, Spaced
<1>9. Routed(n, K, t)
  BY <1>2, <1>3, <1>5, <1>6, <1>7, <1>8 DEF Routed
<1>10. Leads(n, t, k, 1)
  BY <1>0, <1>1, <1>2 DEF Leads
<1> QED  BY <1>9, <1>10 DEF t

(* A block overflows into the next one: the key x, none of which is greater*)
(* in the block, goes to the next block and separates the two.  The block  *)
(* takes the key k that led to it, and keeps what is less than x.          *)
LEMMA Overflow ==
  ASSUME NEW n \in Nat \ {0}, NEW K, NEW sep, Routed(n, K, sep), KeysApart,
         NEW b \in 1..n - 1, NEW k \in Key, Leads(n, sep, k, b),
         NEW x \in K[b] \cup {k}, k <= x, \A y \in K[b] : y <= x,
         NEW kept \in SUBSET (K[b] \cup {k}),
         \A y \in K[b] \cup {k} : y < x => y \in kept
  PROVE  Routed(n, [K EXCEPT ![b] = kept, ![b + 1] = @ \cup {x}], [sep EXCEPT ![b] = x])
<1> DEFINE t == [sep EXCEPT ![b] = x]
           K2 == [K EXCEPT ![b] = kept, ![b + 1] = @ \cup {x}]
<1>0. /\ b \in 1..n /\ b + 1 \in 1..n /\ b # b + 1 /\ b + 1 > 1
      /\ K \in [1..n -> SUBSET Key] /\ sep \in [1..n - 1 -> Int]
  BY DEF Routed
<1>1. /\ x \in Key /\ x \in Int /\ k \in Int
      /\ \A a \in 1..n : \A y \in K[a] : y \in Key /\ y \in Int
  BY <1>0, KeysAreNumbers
<1>2. /\ t \in [1..n - 1 -> Int] /\ t[b] = x
      /\ \A c \in 1..n - 1 : c # b => t[c] = sep[c]
  BY <1>0, <1>1
<1>3. /\ K2 \in [1..n -> SUBSET Key] /\ K2[b] = kept /\ K2[b + 1] = K[b + 1] \cup {x}
      /\ \A a \in 1..n : a # b /\ a # b + 1 => K2[a] = K[a]
  <2>1. kept \in SUBSET Key
    BY <1>0, <1>1
  <2> QED  BY <1>0, <1>1, <2>1
<1> HIDE DEF t, K2
<1>4. x <= sep[b] /\ k < sep[b]
  <2>1. k < sep[b]
    BY DEF Leads
  <2>2. \A y \in K[b] : y <= sep[b]
    BY <1>0 DEF Routed, Between
  <2> QED  BY <1>0, <1>1, <2>1, <2>2
<1>5. \A c \in 1..n - 1 : IF c < b THEN sep[c] <= k ELSE k < sep[c] /\ x <= sep[c]
  <2> SUFFICES ASSUME NEW c \in 1..n - 1
               PROVE  IF c < b THEN sep[c] <= k ELSE k < sep[c] /\ x <= sep[c]
    OBVIOUS
  <2>1. CASE c < b
    <3>1. b - 1 \in 1..n - 1 /\ c <= b - 1 /\ b > 1
      BY <2>1
    <3>2. sep[c] <= sep[b - 1] /\ sep[c] \in Int /\ sep[b - 1] \in Int
      BY <1>0, <3>1 DEF Routed, Ascending
    <3> QED  BY <1>1, <2>1, <3>1, <3>2 DEF Leads
  <2>2. CASE b <= c
    <3>1. sep[b] <= sep[c] /\ sep[c] \in Int /\ sep[b] \in Int
      BY <1>0, <2>2 DEF Routed, Ascending
    <3> QED  BY <1>1, <1>4, <2>2, <3>1
  <2> QED  BY <2>1, <2>2
<1>6. Ascending(n, t)
  <2> SUFFICES ASSUME NEW c \in 1..n - 1, NEW d \in 1..n - 1, c <= d
               PROVE  t[c] <= t[d]
    BY DEF Ascending
  <2>1. sep[c] <= sep[d] /\ sep[c] \in Int /\ sep[d] \in Int
    BY <1>0 DEF Routed, Ascending
  <2>2. CASE c = b
    <3>1. d = b \/ x <= sep[d]
      BY <1>5, <2>2
    <3> QED  BY <1>1, <1>2, <2>1, <2>2, <3>1
  <2>3. CASE c # b /\ d = b
    <3>1. sep[c] <= k
      BY <1>0, <1>5, <2>3
    <3> QED  BY <1>1, <1>2, <2>1, <2>3, <3>1
  <2>4. CASE c # b /\ d # b
    BY <1>2, <2>1, <2>4
  <2> QED  BY <2>2, <2>3, <2>4
<1>7. Between(n, K2, t)
  <2>1. ASSUME NEW a \in 1..n, NEW c \in 1..n - 1, NEW y \in K[a]
        PROVE  IF a <= c THEN y <= t[c] ELSE t[c] <= y
    <3>0. (IF a <= c THEN y <= sep[c] ELSE sep[c] <= y) /\ y \in Int
      BY <1>1 DEF Routed, Between
    <3>1. CASE c # b
      BY <1>2, <3>0, <3>1
    <3>2. CASE c = b /\ a > b
      BY <1>0, <1>1, <1>2, <1>4, <3>0, <3>2
    <3>3. CASE c = b /\ a = b
      BY <1>2, <3>3
    <3>4. CASE c = b /\ a < b
      <4>1. a \in 1..n - 1 /\ y <= sep[a] /\ sep[a] <= k /\ sep[a] \in Int
        BY <1>0, <1>5, <3>4 DEF Routed, Between
      <4> QED  BY <1>1, <1>2, <3>0, <3>4, <4>1
    <3> QED  BY <3>1, <3>2, <3>3, <3>4
  <2>2. ASSUME NEW c \in 1..n - 1
        PROVE  /\ IF b <= c THEN k <= t[c] ELSE t[c] <= k
               /\ IF b + 1 <= c THEN x <= t[c] ELSE t[c] <= x
    BY <1>0, <1>1, <1>2, <1>5
  <2>3. ASSUME NEW a \in 1..n, NEW c \in 1..n - 1, NEW y \in K2[a]
        PROVE  IF a <= c THEN y <= t[c] ELSE t[c] <= y
    <3>1. CASE y \in K[a]
      BY <2>1, <3>1
    <3>2. CASE a = b /\ y = k
      BY <2>2, <3>2
    <3>3. CASE a = b + 1 /\ y = x
      BY <2>2, <3>3
    <3> QED  BY <1>3, <2>3, <3>1, <3>2, <3>3
  <2> QED  BY <2>3 DEF Between
<1>8. Reached(n, K2, t)
  <2>1. ASSUME NEW s \in 1..n, NEW y \in Int, Leads(n, t, y, s), s # b, s # b + 1
        PROVE  Leads(n, sep, y, s) /\ y # k
    <3>1. Leads(n, sep, y, s)
      <4>1. /\ s > 1 => s - 1 \in 1..n - 1 /\ s - 1 # b
            /\ s < n => s \in 1..n - 1 /\ s # b
        BY <2>1
      <4> QED  BY <1>2, <2>1, <4>1 DEF Leads
    <3>2. CASE s < b
      <4>1. s \in 1..n - 1 /\ sep[s] <= k /\ sep[s] \in Int
        BY <1>0, <1>5, <3>2
      <4> QED  BY <1>1, <2>1, <3>1, <3>2, <4>1 DEF Leads
    <3>3. CASE s > b + 1
      <4>1. s - 1 \in 1..n - 1 /\ b + 1 <= s - 1 /\ b + 1 \in 1..n - 1
            /\ s > 1 /\ sep[s - 1] \in Int
        BY <1>0, <3>3
      <4>2. k < sep[s - 1] /\ x <= sep[s - 1]
        BY <1>5, <4>1
      <4>3. sep[s - 1] <= y
        BY <3>1, <4>1 DEF Leads
      <4> QED  BY <1>1, <2>1, <3>1, <4>1, <4>2, <4>3
    <3> QED  BY <2>1, <3>1, <3>2, <3>3
  <2>2. ASSUME NEW a \in 1..n, NEW s \in 1..n, NEW y \in K2[a], Leads(n, t, y, s)
        PROVE  y \in K2[s]
    <3>0. y \in Int /\ (y = k \/ \E c \in 1..n : y \in K[c])
      <4>1. y \in K[a] \cup K[b] \cup {k}
        BY <1>3, <2>2
      <4> QED  BY <1>0, <1>1, <4>1
    <3>1. ASSUME Leads(n, sep, y, s), y # k
          PROVE  y \in K[s]
      BY <3>0, <3>1 DEF Routed, Reached
    <3>2. CASE s # b /\ s # b + 1
      BY <1>3, <2>1, <2>2, <3>0, <3>1, <3>2
    <3>3. CASE s = b
      <4>1. y < x /\ y < sep[b] /\ (b > 1 => b - 1 \in 1..n - 1 /\ t[b - 1] <= y)
        <5>1. y < x
          BY <1>2, <2>2, <3>3 DEF Leads
        <5>2. sep[b] \in Int
          BY <1>0
        <5> QED  BY <1>1, <1>4, <2>2, <3>0, <3>3, <5>1, <5>2 DEF Leads
      <4>2. Leads(n, sep, y, b)
        BY <1>2, <4>1 DEF Leads
      <4>3. y \in K[b] \cup {k}
        BY <3>1, <3>3, <4>2
      <4> QED  BY <1>3, <3>3, <4>1, <4>3
    <3>4. CASE s = b + 1
      <4>1. x <= y /\ (b + 1 < n => b + 1 \in 1..n - 1 /\ y < sep[b + 1])
        <5>1. t[b] <= y /\ (b + 1 < n => y < t[b + 1])
          BY <2>2, <3>4 DEF Leads
        <5> QED  BY <1>2, <5>1
      <4>2. CASE y = x \/ y = k
        BY <1>1, <1>3, <3>4, <4>1, <4>2
      <4>3. CASE y # x /\ y # k /\ sep[b] <= y
        <5>1. Leads(n, sep, y, b + 1)
          BY <4>1, <4>3 DEF Leads
        <5> QED  BY <1>3, <3>1, <3>4, <4>3, <5>1
      <4>4. CASE y # x /\ y # k /\ y < sep[b]
        <5>1. b > 1 => b - 1 \in 1..n - 1 /\ sep[b - 1] <= k /\ sep[b - 1] \in Int
          BY <1>0 DEF Leads
        <5>2. Leads(n, sep, y, b)
          BY <1>1, <3>0, <4>1, <4>4, <5>1 DEF Leads
        <5>3. y \in K[b]
          BY <1>0, <3>0, <4>4, <5>2 DEF Routed, Reached
        <5> QED  BY <1>1, <3>0, <4>1, <4>4, <5>3
      <4> QED  BY <1>0, <3>0, <4>2, <4>3, <4>4
    <3> QED  BY <3>2, <3>3, <3>4
  <2> QED  BY <2>2 DEF Reached
<1>9. Spaced(n, t)
  BY <1>0, <1>1, <1>2 DEF Routed, Spaced, KeysApart
<1>10. Routed(n, K2, t)
  BY <1>2, <1>3, <1>6, <1>7, <1>8, <1>9 DEF Routed
<1> QED  BY <1>10 DEF t, K2

(* A key that is in one block only is erased there.                        *)
LEMMA TakeFromBlock ==
  ASSUME NEW n \in Nat \ {0}, NEW K, NEW sep, Routed(n, K, sep),
         NEW b \in 1..n, NEW k, \A a \in 1..n : a # b => k \notin K[a]
  PROVE  Routed(n, [K EXCEPT ![b] = @ \ {k}], sep)
<1> DEFINE K2 == [K EXCEPT ![b] = @ \ {k}]
<1>1. /\ K2 \in [1..n -> SUBSET Key] /\ K2[b] = K[b] \ {k}
      /\ \A a \in 1..n : a # b => K2[a] = K[a]
  BY DEF Routed
<1> HIDE DEF K2
<1>2. Between(n, K2, sep)
  BY <1>1 DEF Routed, Between
<1>3. Reached(n, K2, sep)
  BY <1>1 DEF Routed, Reached
<1>4. Routed(n, K2, sep)
  BY <1>1, <1>2, <1>3 DEF Routed
<1> QED  BY <1>4 DEF K2

(* Points in order are given their blocks, at[j] to the j-th, in order; the*)
(* separators are made as FreshSlotkeys makes them.                        *)
Dealt(points, at) ==
  /\ Len(points) \in Nat \ {0} /\ points \in [1..Len(points) -> Key]
  /\ at \in [1..Len(points) -> 1..MaxBlockNum] /\ at[1] = 1
  /\ \A i, j \in 1..Len(points) : i <= j => points[i] <= points[j] /\ at[i] <= at[j]

(* Where a block is left out, the keys before and after it are not equal.  *)
Skips(points, at) ==
  \A j \in 1..Len(points) - 1 : at[j] + 1 < at[j + 1] => points[j] < points[j + 1]

(* The m-th point is the last one that goes to one of the blocks 1..c.     *)
Ends(points, at, c, m) ==
  /\ m \in 1..Len(points) - 1 /\ m \in 1..Len(points) /\ m + 1 \in 1..Len(points)
  /\ at[m] <= c /\ c < at[m + 1]

(* The keys that go to block b, and the separator behind block c.          *)
GivenTo(points, at, b) == {points[j] : j \in {i \in 1..Len(points) : at[i] = b}}

SeparatedAt(points, at, sep, c) ==
  \E m : /\ Ends(points, at, c, m)
         /\ sep[c] = IF at[m + 1] = c + 1 THEN points[m + 1] ELSE points[m] + One

LEMMA FreshlyRouted ==
  ASSUME NEW points, NEW at, Dealt(points, at), Skips(points, at), KeysApart,
         NEW n \in Nat \ {0}, n = at[Len(points)],
         NEW K, K \in [1..n -> SUBSET Key],
         \A b \in 1..n : K[b] = GivenTo(points, at, b),
         NEW sep, sep \in [1..n - 1 -> Int],
         \A c \in 1..n - 1 : SeparatedAt(points, at, sep, c)
  PROVE  Routed(n, K, sep)
<1> DEFINE N == Len(points)
<1>0. /\ \A b \in 1..n : K[b] = {points[j] : j \in {i \in 1..N : at[i] = b}}
      /\ \A c \in 1..n - 1 : \E m :
           /\ Ends(points, at, c, m)
           /\ sep[c] = IF at[m + 1] = c + 1 THEN points[m + 1] ELSE points[m] + One
  BY DEF GivenTo, SeparatedAt
<1>01. ASSUME NEW b \in 1..n, NEW x \in K[b]
       PROVE  \E j \in 1..N : x = points[j] /\ at[j] = b
  <2>1. x \in {points[j] : j \in {i \in 1..N : at[i] = b}}
    BY <1>0
  <2> QED  BY <2>1
<1>1. /\ N \in Nat \ {0}
      /\ \A j \in 1..N : points[j] \in Key /\ points[j] \in Int /\ at[j] \in Int
                         /\ at[j] \in 1..n
      /\ \A i, j \in 1..N : i <= j => points[i] <= points[j] /\ at[i] <= at[j]
      /\ One \in Nat \ {0}
  <2>1. N \in Nat \ {0} /\ N \in 1..N
    BY DEF Dealt
  <2>2. \A j \in 1..N : points[j] \in Key /\ at[j] \in 1..MaxBlockNum /\ at[j] <= n
    BY <2>1 DEF Dealt
  <2> QED  BY <2>1, <2>2, KeysAreNumbers DEF Dealt
<1>2. PICK last \in [1..n - 1 -> 1..N - 1] : \A c \in 1..n - 1 :
        /\ Ends(points, at, c, last[c])
        /\ sep[c] = IF at[last[c] + 1] = c + 1 THEN points[last[c] + 1]
                    ELSE points[last[c]] + One
  <2> DEFINE Fits(c, m) ==
        /\ Ends(points, at, c, m)
        /\ sep[c] = IF at[m + 1] = c + 1 THEN points[m + 1] ELSE points[m] + One
      last == [c \in 1..n - 1 |-> CHOOSE m : Fits(c, m)]
  <2>1. \A c \in 1..n - 1 : Fits(c, last[c])
    <3> SUFFICES ASSUME NEW c \in 1..n - 1
                 PROVE  Fits(c, CHOOSE m : Fits(c, m))
      OBVIOUS
    <3>1. \E m : Fits(c, m)
      BY <1>0
    <3> HIDE DEF Fits
    <3> QED  BY <3>1
  <2> HIDE DEF last
  <2>2. \A c \in 1..n - 1 : last[c] \in 1..N - 1
    BY <2>1 DEF Ends
  <2>3. last \in [1..n - 1 -> 1..N - 1]
    <3>1. last = [c \in 1..n - 1 |-> last[c]]
      BY DEF last
    <3> QED  BY <2>2, <3>1
  <2> QED  BY <2>1, <2>3
<1>3. ASSUME NEW c \in 1..n - 1
      PROVE  /\ last[c] \in 1..N /\ last[c] + 1 \in 1..N /\ last[c] \in Int
             /\ at[last[c]] <= c /\ c < at[last[c] + 1] /\ sep[c] \in Int
             /\ points[last[c]] <= sep[c] /\ sep[c] <= points[last[c] + 1]
             /\ \A j \in 1..N : j <= last[c] <=> at[j] <= c
  <2>1. /\ last[c] \in 1..N /\ last[c] + 1 \in 1..N /\ last[c] \in Int
        /\ at[last[c]] <= c /\ c < at[last[c] + 1] /\ sep[c] \in Int
        /\ last[c] \in 1..Len(points) - 1
    <3>1. Ends(points, at, c, last[c]) /\ sep[c] \in Int
      BY <1>2
    <3>2. last[c] \in Int
      BY <1>1, <1>2
    <3> QED  BY <3>1, <3>2 DEF Ends
  <2>2. points[last[c]] <= points[last[c] + 1]
    BY <1>1, <2>1
  <2>3. points[last[c]] <= sep[c] /\ sep[c] <= points[last[c] + 1]
    <3>1. CASE at[last[c] + 1] = c + 1
      <4>1. sep[c] = points[last[c] + 1]
        BY <1>2, <3>1
      <4> QED  BY <1>1, <2>1, <2>2, <4>1
    <3>2. CASE at[last[c] + 1] # c + 1
      <4>1. sep[c] = points[last[c]] + One
        BY <1>2, <3>2
      <4>2. at[last[c]] + 1 < at[last[c] + 1]
        <5>1. at[last[c]] \in Int /\ at[last[c] + 1] \in Int
          BY <1>1, <2>1
        <5> QED  BY <2>1, <3>2, <5>1
      <4>3. points[last[c]] < points[last[c] + 1]
        BY <2>1, <4>2 DEF Skips
      <4>4. points[last[c]] + One <= points[last[c] + 1]
        BY <1>1, <2>1, <4>3 DEF KeysApart
      <4> QED  BY <1>1, <2>1, <4>1, <4>4
    <3> QED  BY <3>1, <3>2
  <2>4. ASSUME NEW j \in 1..N
        PROVE  j <= last[c] <=> at[j] <= c
    <3>1. CASE j <= last[c]
      BY <1>1, <2>1, <3>1
    <3>2. CASE last[c] + 1 <= j
      BY <1>1, <2>1, <3>2
    <3> QED  BY <2>1, <3>1, <3>2
  <2> QED  BY <2>1, <2>3, <2>4
<1>4. Ascending(n, sep)
  <2> SUFFICES ASSUME NEW b \in 1..n - 1, NEW c \in 1..n - 1, b <= c
               PROVE  sep[b] <= sep[c]
    BY DEF Ascending
  <2>0. last[b] <= last[c]
    <3>1. last[b] \in 1..N /\ at[last[b]] <= b /\ at[last[b]] \in Int
      BY <1>1, <1>3
    <3>2. at[last[b]] <= c
      BY <3>1
    <3> QED  BY <1>3, <3>1, <3>2
  <2>1. CASE last[b] = last[c]
    <3>1. CASE b = c
      BY <1>3, <3>1
    <3>2. CASE b < c
      <4>1. at[last[b] + 1] # b + 1 /\ last[b] + 1 \in 1..N /\ at[last[b] + 1] \in Int
        BY <1>1, <1>3, <2>1, <3>2
      <4>2. sep[b] = points[last[b]] + One
        BY <1>2, <4>1
      <4>3. sep[c] = points[last[c] + 1] \/ sep[c] = points[last[c]] + One
        BY <1>2
      <4>4. sep[b] <= points[last[b] + 1] /\ sep[b] \in Int
        BY <1>3
      <4>5. sep[c] \in Int /\ points[last[c] + 1] = points[last[b] + 1]
            /\ points[last[c]] = points[last[b]]
        BY <1>3, <2>1
      <4> HIDE <2>1
      <4> QED  BY <4>2, <4>3, <4>4, <4>5
    <3>3. b = c \/ b < c
      OBVIOUS
    <3> QED  BY <3>1, <3>2, <3>3
  <2>2. CASE last[b] < last[c]
    <3>1. points[last[b] + 1] <= points[last[c]]
      <4>1. last[b] + 1 \in 1..N /\ last[c] \in 1..N
        BY <1>3
      <4>2. last[b] + 1 <= last[c]
        <5>1. last[b] \in Int /\ last[c] \in Int
          BY <1>3
        <5> QED  BY <2>2, <5>1
      <4> QED  BY <1>1, <4>1, <4>2
    <3>2. sep[b] <= points[last[b] + 1] /\ points[last[c]] <= sep[c]
      BY <1>3
    <3>3. sep[b] \in Int /\ sep[c] \in Int /\ points[last[b] + 1] \in Int
          /\ points[last[c]] \in Int
      BY <1>1, <1>3
    <3> QED  BY <3>1, <3>2, <3>3
  <2>3. last[b] \in Int /\ last[c] \in Int
    BY <1>3
  <2> QED  BY <2>0, <2>1, <2>2, <2>3
<1>5. Between(n, K, sep)
  <2> SUFFICES ASSUME NEW c \in 1..n - 1, NEW j \in 1..N
               PROVE  IF at[j] <= c THEN points[j] <= sep[c] ELSE sep[c] <= points[j]
    <3>1. ASSUME NEW b \in 1..n, NEW c \in 1..n - 1, NEW x \in K[b]
          PROVE  IF b <= c THEN x <= sep[c] ELSE sep[c] <= x
      <4>1. PICK j \in 1..N : x = points[j] /\ at[j] = b
        BY <1>01
      <4> QED  BY <4>1
    <3> QED  BY <3>1 DEF Between
  <2>0. /\ last[c] \in 1..N /\ last[c] + 1 \in 1..N /\ last[c] \in Int
        /\ points[last[c]] <= sep[c] /\ sep[c] <= points[last[c] + 1] /\ sep[c] \in Int
        /\ j <= last[c] <=> at[j] <= c
    BY <1>3
  <2>3. /\ points[j] \in Int /\ points[last[c]] \in Int /\ points[last[c] + 1] \in Int
    BY <1>1, <2>0
  <2>1. CASE j <= last[c]
    <3>1. points[j] <= points[last[c]]
      BY <1>1, <2>0, <2>1
    <3> QED  BY <2>0, <2>1, <2>3, <3>1
  <2>2. CASE last[c] + 1 <= j
    <3>1. points[last[c] + 1] <= points[j]
      BY <1>1, <2>0, <2>2
    <3>2. ~ (j <= last[c])
      BY <2>0, <2>2
    <3> QED  BY <2>0, <2>3, <3>1, <3>2
  <2> QED  BY <2>0, <2>1, <2>2
<1>6. Reached(n, K, sep)
  <2> SUFFICES ASSUME NEW s \in 1..n, NEW j \in 1..N, Leads(n, sep, points[j], s)
               PROVE  points[j] \in K[s]
    <3>1. ASSUME NEW a \in 1..n, NEW s \in 1..n, NEW x \in K[a], Leads(n, sep, x, s)
          PROVE  x \in K[s]
      <4>1. PICK j \in 1..N : x = points[j] /\ at[j] = a
        BY <1>01
      <4> QED  BY <3>1, <4>1
    <3> QED  BY <3>1 DEF Reached
  <2>1. CASE at[j] = s
    BY <1>0, <2>1
  <2>2. CASE s < at[j]
    <3>1. s \in 1..n - 1 /\ s < n /\ ~ (j <= last[s])
      BY <1>1, <1>3, <2>2
    <3>2. points[last[s] + 1] <= points[j]
      BY <1>1, <1>3, <3>1
    <3>3. sep[s] <= points[last[s] + 1] /\ points[j] < sep[s]
      BY <1>3, <3>1 DEF Leads
    <3>4. sep[s] \in Int /\ points[j] \in Int /\ points[last[s] + 1] \in Int
      BY <1>1, <1>3, <3>1
    <3> QED  BY <3>2, <3>3, <3>4
  <2>3. CASE at[j] < s
    <3> DEFINE c == s - 1
    <3>1. c \in 1..n - 1 /\ s > 1 /\ at[j] <= c /\ c + 1 = s
      <4>1. at[j] \in 1..n /\ s \in Int /\ at[j] \in Int
        BY <1>1
      <4> QED  BY <2>3, <4>1
    <3> HIDE DEF c
    <3>2. j <= last[c] /\ last[c] \in 1..N
      BY <1>3, <3>1
    <3>3. points[j] <= points[last[c]] /\ points[last[c]] <= sep[c] /\ sep[c] <= points[j]
      <4>1. points[j] <= points[last[c]]
        BY <1>1, <3>2
      <4>2. sep[c] <= points[j]
        BY <3>1 DEF Leads, c
      <4>3. points[last[c]] <= sep[c]
        BY <1>3, <3>1
      <4> QED  BY <4>1, <4>2, <4>3
    <3>4. sep[c] \in Int /\ points[j] \in Int /\ points[last[c]] \in Int
      BY <1>1, <1>3, <3>1, <3>2
    <3>5. sep[c] = points[j] /\ sep[c] # points[last[c]] + One
      BY <1>1, <3>3, <3>4, SMTT(20)
    <3>6. at[last[c] + 1] = s /\ sep[c] = points[last[c] + 1] /\ last[c] + 1 \in 1..N
      BY <1>2, <1>3, <3>1, <3>5
    <3> QED  BY <1>0, <3>5, SMTT(20), <3>6
  <2> QED  BY <1>1, <2>1, <2>2, <2>3
<1>7. Spaced(n, sep)
  <2> SUFFICES ASSUME NEW c \in 1..n - 1, NEW j \in Key, j < sep[c]
               PROVE  j + One <= sep[c]
    BY DEF Spaced
  <2>1. PICK p \in Key : sep[c] = p \/ sep[c] = p + One
    <3>1. /\ points[last[c]] \in Key /\ points[last[c] + 1] \in Key
          /\ sep[c] = points[last[c] + 1] \/ sep[c] = points[last[c]] + One
      BY <1>1, <1>2, <1>3
    <3> QED  BY <3>1
  <2>2. p \in Int /\ j \in Int /\ (j < p => j + One <= p) /\ (p < j => p + One <= j)
    BY KeysAreNumbers DEF KeysApart
  <2>3. CASE sep[c] = p
    BY <2>2, <2>3
  <2>4. CASE sep[c] = p + One
    <3>1. j <= p
      BY <1>1, <2>2, <2>4
    <3> QED  BY <1>1, <2>2, <2>4, <3>1
  <2> QED  BY <2>1, <2>3, <2>4
<1> QED  BY <1>4, <1>5, <1>6, <1>7 DEF Routed

----------------------------------------------------------------------------
(* A block: `size' keys in order.                                          *)
BlockOK(block, size) ==
  /\ block \in [1..Cap -> Key \cup {MAX}]
  /\ size \in 0..Cap
  /\ \A i \in 1..size : block[i] \in Key
  /\ \A i, j \in 1..size : i <= j => block[i] <= block[j]

BlankFrom(block, size) == \A i \in 1..Cap : i > size => block[i] = MAX

KeysOf(block, size) == {block[i] : i \in 1..size}

LEMMA SearchInBlock ==
  ASSUME NEW block, NEW size, BlockOK(block, size), NEW k \in Key
  PROVE  /\ SearchDataBlock(block, k, size) \in 1..size + 1
         /\ \A i \in 1..size : block[i] < k <=> i < SearchDataBlock(block, k, size)
<1> DEFINE before == {i \in 1..size : block[i] < k}
<1>1. /\ size \in Nat /\ k \in Int
      /\ \A i \in 1..size : block[i] \in Int
  BY KeysAreNumbers DEF BlockOK
<1>2. before \subseteq 1..size /\ \A i \in before : \A j \in 1..size : j < i => j \in before
  <2> SUFFICES ASSUME NEW i \in before, NEW j \in 1..size, j < i
               PROVE  block[j] < k
    OBVIOUS
  <2>1. block[j] <= block[i] /\ block[i] < k
    BY DEF BlockOK
  <2> QED  BY <1>1, <2>1
<1>3. SearchDataBlock(block, k, size) = LowerBound(size, before)
  BY DEF SearchDataBlock
<1>4. \A i \in 1..size : i \in before <=> block[i] < k
  OBVIOUS
<1> HIDE DEF before
<1>5. /\ LowerBound(size, before) \in 1..size + 1
      /\ \A i \in 1..size : i \in before <=> i < LowerBound(size, before)
  BY <1>1, <1>2, Halving
<1> QED  BY <1>3, <1>4, <1>5

LEMMA FoundInBlock ==
  ASSUME NEW block, NEW size, BlockOK(block, size), NEW k \in Key,
         k \in KeysOf(block, size)
  PROVE  /\ SearchDataBlock(block, k, size) \in 1..size
         /\ block[SearchDataBlock(block, k, size)] = k
<1> DEFINE at == SearchDataBlock(block, k, size)
<1>1. PICK i \in 1..size : block[i] = k
  BY DEF KeysOf
<1>2. at \in 1..size + 1 /\ \A j \in 1..size : block[j] < k <=> j < at
  BY SearchInBlock
<1> HIDE DEF at
<1>3. size \in Nat /\ k \in Int /\ \A j \in 1..size : block[j] \in Int
  BY KeysAreNumbers DEF BlockOK
<1>4. at <= i
  <2>1. ~ (i < at)
    BY <1>1, <1>2, <1>3
  <2> QED  BY <1>2, <1>3, <2>1
<1>5. at \in 1..size
  BY <1>2, <1>3, <1>4
<1>6. block[at] <= block[i] /\ ~ (block[at] < k)
  <2>1. ~ (at < at)
    BY <1>3, <1>5
  <2> QED  BY <1>2, <1>4, <1>5, <2>1 DEF BlockOK
<1>7. block[at] = k
  BY <1>1, <1>3, <1>5, <1>6
<1> QED  BY <1>5, <1>7 DEF at

(* The block with the point k put among its points, at its place.          *)
Joined(block, k, size) ==
  LET at == SearchDataBlock(block, k, size)
  IN [i \in 1..Cap |-> IF i = at THEN k
                       ELSE IF at < i /\ i <= size + 1 THEN block[i - 1]
                       ELSE block[i]]

LEMMA BlockTakesPoint ==
  ASSUME NEW block, NEW size, BlockOK(block, size), size < Cap, NEW k \in Key
  PROVE  /\ BlockOK(Joined(block, k, size), size + 1)
         /\ KeysOf(Joined(block, k, size), size + 1) = KeysOf(block, size) \cup {k}
         /\ BlankFrom(block, size) => BlankFrom(Joined(block, k, size), size + 1)
         /\ (\A x \in KeysOf(block, size) : k <= x) => Joined(block, k, size)[1] = k
<1> DEFINE at == SearchDataBlock(block, k, size)
           joined == Joined(block, k, size)
<1>1. at \in 1..size + 1 /\ \A i \in 1..size : block[i] < k <=> i < at
  BY SearchInBlock
<1>2. /\ Cap \in Nat /\ size \in 0..Cap /\ size + 1 \in 0..Cap /\ size \in Nat
      /\ at \in Nat /\ k \in Int
      /\ \A i \in 1..size : block[i] \in Int /\ i \in 1..Cap
      /\ 1 \in 1..Cap /\ \A i \in 1..size + 1 : i \in 1..Cap
  BY <1>1, KeysAreNumbers DEF BlockOK
<1>3. \A i \in 1..Cap : joined[i] = IF i = at THEN k
                                    ELSE IF at < i /\ i <= size + 1 THEN block[i - 1]
                                    ELSE block[i]
  BY DEF Joined
<1>4. joined \in [1..Cap -> Key \cup {MAX}]
  <2>1. \A i \in 1..Cap : joined[i] \in Key \cup {MAX}
    BY <1>1, <1>2, <1>3 DEF BlockOK
  <2>2. joined = [i \in 1..Cap |-> joined[i]]
    BY DEF Joined
  <2> HIDE DEF joined
  <2> QED  BY <2>1, <2>2
<1> HIDE DEF at, joined
<1>5. ASSUME NEW i \in 1..size + 1
      PROVE  /\ i < at => i \in 1..size /\ joined[i] = block[i] /\ block[i] < k
             /\ i = at => joined[i] = k
             /\ i > at => i - 1 \in 1..size /\ joined[i] = block[i - 1] /\ k <= block[i - 1]
  <2>1. ASSUME i < at
        PROVE  i \in 1..size /\ joined[i] = block[i] /\ block[i] < k
    BY <1>1, <1>2, <1>3, <2>1
  <2>2. ASSUME i > at
        PROVE  i - 1 \in 1..size /\ joined[i] = block[i - 1] /\ k <= block[i - 1]
    <3>1. i - 1 \in 1..size /\ ~ (i - 1 < at)
      BY <1>1, <1>2, <2>2
    <3>2. ~ (block[i - 1] < k) /\ block[i - 1] \in Int
      BY <1>1, <1>2, <3>1
    <3>3. joined[i] = block[i - 1]
      BY <1>2, <1>3, <2>2
    <3> QED  BY <1>2, <3>1, <3>2, <3>3
  <2> QED  BY <1>2, <1>3, <2>1, <2>2
<1>6. \A i \in 1..size + 1 : joined[i] \in Key
  BY <1>1, <1>2, <1>5 DEF BlockOK
<1>7. ASSUME NEW i \in 1..size + 1, NEW j \in 1..size + 1, i <= j
      PROVE  joined[i] <= joined[j]
  <2>1. CASE j < at
    BY <1>1, <1>2, <1>5, <1>7, <2>1 DEF BlockOK
  <2>2. CASE j = at
    BY <1>1, <1>2, <1>5, <1>7, <2>2
  <2>3. CASE at < j
    <3>1. j - 1 \in 1..size /\ joined[j] = block[j - 1] /\ k <= block[j - 1]
      BY <1>5, <2>3
    <3>2. CASE i < at
      <4>1. joined[i] = block[i] /\ block[i] < k /\ i \in 1..size
        BY <1>5, <3>2
      <4> QED  BY <1>2, <3>1, <4>1
    <3>3. CASE i = at
      BY <1>5, <3>1, <3>3
    <3>4. CASE at < i
      <4>1. i - 1 \in 1..size /\ joined[i] = block[i - 1] /\ i - 1 <= j - 1
        BY <1>2, <1>5, <1>7, <3>4
      <4> QED  BY <3>1, <4>1 DEF BlockOK
    <3> QED  BY <1>2, <3>2, <3>3, <3>4
  <2> QED  BY <1>2, <2>1, <2>2, <2>3
<1>8. KeysOf(joined, size + 1) = KeysOf(block, size) \cup {k}
  <2>1. ASSUME NEW i \in 1..size + 1
        PROVE  joined[i] \in KeysOf(block, size) \cup {k}
    BY <1>2, <1>5 DEF KeysOf
  <2>2. k \in KeysOf(joined, size + 1)
    BY <1>1, <1>5 DEF KeysOf
  <2>3. ASSUME NEW i \in 1..size
        PROVE  block[i] \in KeysOf(joined, size + 1)
    <3>1. CASE i < at
      <4>1. i \in 1..size + 1 /\ joined[i] = block[i]
        BY <1>2, <1>5, <3>1
      <4> QED  BY <4>1 DEF KeysOf
    <3>2. CASE at <= i
      <4>1. i + 1 \in 1..size + 1 /\ i + 1 > at /\ (i + 1) - 1 = i
        BY <1>2, <3>2
      <4>2. joined[i + 1] = block[i]
        BY <1>5, <4>1
      <4> QED  BY <4>1, <4>2 DEF KeysOf
    <3> QED  BY <1>2, <3>1, <3>2
  <2> QED  BY <2>1, <2>2, <2>3 DEF KeysOf
<1>9. ASSUME BlankFrom(block, size)
      PROVE  BlankFrom(joined, size + 1)
  <2> SUFFICES ASSUME NEW i \in 1..Cap, i > size + 1
               PROVE  joined[i] = MAX
    BY DEF BlankFrom
  <2> QED  BY <1>1, <1>2, <1>3, <1>9 DEF BlankFrom
<1>10. ASSUME \A x \in KeysOf(block, size) : k <= x
       PROVE  joined[1] = k
  <2>1. at = 1
    <3> SUFFICES ASSUME at > 1 PROVE FALSE
      BY <1>1, <1>2
    <3>1. 1 \in 1..size /\ block[1] < k
      BY <1>1, <1>2
    <3>2. block[1] \in KeysOf(block, size) /\ block[1] \in Int
      BY <1>2, <3>1 DEF KeysOf
    <3>3. k <= block[1]
      BY <1>10, <3>2
    <3> QED  BY <1>2, <3>1, <3>2, <3>3
  <2> QED  BY <1>2, <1>3, <2>1
<1>11. BlockOK(joined, size + 1)
  BY <1>2, <1>4, <1>6, <1>7 DEF BlockOK
<1> QED  BY <1>8, <1>9, <1>10, <1>11 DEF joined

----------------------------------------------------------------------------
(* The inductive invariant: the blocks are in order, and empty behind their*)
(* points once there are several of them, and the separators lead to every *)
(* point.  A single block may have come with what another leaf left in it. *)
LeafRecords ==
  [num      : 0..MaxBlockNum,
   slotkeys : [1..MaxBlockNum - 1 -> 0..MAX],
   perSize  : [1..MaxBlockNum -> 0..Cap],
   slots    : [1..MaxBlockNum -> [1..Cap -> Key \cup {MAX}]]]

KeysIn(l) == [b \in 1..l.num |-> KeysOf(l.slots[b], l.perSize[b])]

SeparatorsOf(l) == [c \in 1..l.num - 1 |-> l.slotkeys[c]]

Sound(l) ==
  /\ l \in LeafRecords
  /\ \A b \in 1..l.num : BlockOK(l.slots[b], l.perSize[b])
  /\ l.num > 1 => \A b \in 1..l.num : BlankFrom(l.slots[b], l.perSize[b])
  /\ l.num > 0 => Routed(l.num, KeysIn(l), SeparatorsOf(l))

LEMMA SearchLeads ==
  ASSUME NEW l, Sound(l), l.num > 0, NEW k \in Key
  PROVE  Search(l, k) \in 1..l.num /\ Leads(l.num, SeparatorsOf(l), k, Search(l, k))
<1> DEFINE n == l.num - 1
           before == {b \in 1..n : l.slotkeys[b] <= k}
<1>1. n \in Nat /\ l.num = n + 1 /\ l.num \in Nat /\ k \in Int
  <2>1. l.num \in 0..MaxBlockNum /\ MaxBlockNum \in Nat /\ k \in Int
    BY KeysAreNumbers DEF Sound, LeafRecords
  <2> QED  BY <2>1
<1>2. SeparatorsOf(l) \in [1..n -> Int] /\ \A b \in 1..n : SeparatorsOf(l)[b] = l.slotkeys[b]
  BY <1>1 DEF Sound, Routed, SeparatorsOf
<1>3. Max({0, l.num - 1}) = n
  BY <1>1, MaxOfTwo
<1>4. Search(l, k) = LowerBound(n, before)
  BY <1>3 DEF Search
<1>5. \A b \in 1..n : b \in before <=> SeparatorsOf(l)[b] <= k
  BY <1>2
<1>6. before \subseteq 1..n /\ \A i \in before : \A j \in 1..n : j < i => j \in before
  <2> SUFFICES ASSUME NEW i \in before, NEW j \in 1..n, j < i
               PROVE  SeparatorsOf(l)[j] <= k
    BY <1>5
  <2>1. SeparatorsOf(l)[j] <= SeparatorsOf(l)[i] /\ SeparatorsOf(l)[i] <= k
    BY <1>1, <1>5 DEF Sound, Routed, Ascending
  <2> QED  BY <1>1, <1>2, <2>1
<1> HIDE DEF before, n
<1>7. /\ LowerBound(n, before) \in 1..n + 1
      /\ \A i \in 1..n : i \in before <=> i < LowerBound(n, before)
  BY <1>1, <1>6, Halving
<1> DEFINE s == Search(l, k)
<1>8. s \in 1..n + 1 /\ \A i \in 1..n : SeparatorsOf(l)[i] <= k <=> i < s
  BY <1>4, <1>5, <1>7
<1> HIDE DEF s
<1>9. s > 1 => SeparatorsOf(l)[s - 1] <= k
  BY <1>1, <1>8
<1>10. s < l.num => k < SeparatorsOf(l)[s]
  <2> SUFFICES ASSUME s < l.num
               PROVE  k < SeparatorsOf(l)[s]
    OBVIOUS
  <2>1. s \in 1..n /\ ~ (s < s)
    BY <1>1, <1>8
  <2> QED  BY <1>1, <1>2, <1>8, <2>1
<1> QED  BY <1>1, <1>8, <1>9, <1>10 DEF Leads, s

(* What InsertDataBlock makes of a leaf, and of the slot keys.             *)
PointInserted(l, k, b, m) ==
  /\ m \in LeafRecords
  /\ m.num = l.num
  /\ m.perSize = [l.perSize EXCEPT ![b] = @ + 1]
  /\ m.slots = [l.slots EXCEPT ![b] = Joined(l.slots[b], k, l.perSize[b])]
  /\ m.slotkeys = SlotkeysWith(l, k, b)

LEMMA InsertDataBlockIs ==
  ASSUME NEW l \in LeafRecords, NEW k, NEW b \in 1..MaxBlockNum, l.perSize[b] < Cap,
         BlockOK(l.slots[b], l.perSize[b]), k \in Key
  PROVE  PointInserted(l, k, b, InsertDataBlock(l, k, b))
<1> DEFINE joined == Joined(l.slots[b], k, l.perSize[b])
           keys == SlotkeysWith(l, k, b)
<1>1. /\ l = [num |-> l.num, slotkeys |-> l.slotkeys, perSize |-> l.perSize,
              slots |-> l.slots]
      /\ l.num \in 0..MaxBlockNum /\ l.slotkeys \in [1..MaxBlockNum - 1 -> 0..MAX]
      /\ l.perSize \in [1..MaxBlockNum -> 0..Cap]
      /\ l.slots \in [1..MaxBlockNum -> [1..Cap -> Key \cup {MAX}]]
  BY DEF LeafRecords
<1>2. joined \in [1..Cap -> Key \cup {MAX}] /\ l.perSize[b] + 1 \in 0..Cap
  <2>1. BlockOK(joined, l.perSize[b] + 1)
    BY BlockTakesPoint
  <2> QED  BY <2>1 DEF BlockOK
<1>3. keys \in [1..MaxBlockNum - 1 -> 0..MAX]
  <2>1. k \in 0..MAX /\ k + One \in 0..MAX /\ k \in Int
    BY KeysAreNumbers
  <2>2. CASE b > 1
    <3>0. b - 1 \in 1..MaxBlockNum - 1
      BY <2>2, KeysAreNumbers
    <3>1. b - 1 \in 1..MaxBlockNum - 1 /\ l.slotkeys[b - 1] \in 0..MAX
      BY <1>1, <3>0
    <3>2. Min({l.slotkeys[b - 1], k}) \in 0..MAX
      <4>1. l.slotkeys[b - 1] \in Int
        BY <3>1, KeysAreNumbers
      <4> QED  BY <2>1, <3>1, <4>1, MinOfTwo
    <3> QED  BY <1>1, <2>1, <2>2, <3>1, <3>2 DEF SlotkeysWith
  <2>3. CASE ~ (b > 1)
    <3>1. 1 \in 1..MaxBlockNum - 1
      BY KeysAreNumbers
    <3> QED  BY <1>1, <2>1, <2>3, <3>1 DEF SlotkeysWith
  <2> QED  BY <2>2, <2>3
<1>4. InsertDataBlock(l, k, b)
        = [l EXCEPT !.slots[b] = joined, !.perSize[b] = l.perSize[b] + 1,
                    !.slotkeys = keys]
  BY DEF InsertDataBlock, Joined
<1> HIDE DEF joined, keys
<1>5. InsertDataBlock(l, k, b)
        = [num |-> l.num, slotkeys |-> keys,
           perSize |-> [l.perSize EXCEPT ![b] = @ + 1],
           slots |-> [l.slots EXCEPT ![b] = joined]]
  BY <1>1, <1>4
<1> QED  BY <1>1, <1>2, <1>3, <1>5 DEF PointInserted, LeafRecords, joined, keys

LEMMA LeafNumbers ==
  ASSUME NEW l \in LeafRecords
  PROVE  /\ l.num \in Nat /\ l.num <= MaxBlockNum
         /\ \A b \in 1..l.num : b \in 1..MaxBlockNum /\ l.perSize[b] \in 0..Cap
         /\ \A c \in 1..l.num - 1 : c \in 1..MaxBlockNum - 1 /\ l.slotkeys[c] \in Nat
<1>1. /\ l.num \in 0..MaxBlockNum /\ l.slotkeys \in [1..MaxBlockNum - 1 -> 0..MAX]
      /\ l.perSize \in [1..MaxBlockNum -> 0..Cap] /\ MaxBlockNum \in Nat /\ MAX \in Nat
  BY KeysAreNumbers DEF LeafRecords
<1>2. l.num \in Nat /\ l.num <= MaxBlockNum
  BY <1>1
<1>3. \A b \in 1..l.num : b \in 1..MaxBlockNum
  BY <1>1, <1>2
<1>4. \A c \in 1..l.num - 1 : c \in 1..MaxBlockNum - 1
  BY <1>1, <1>2
<1> QED  BY <1>1, <1>2, <1>3, <1>4

(* InsertDataBlock keeps the invariant, for the block the key leads to.    *)
LEMMA InsertDataBlockSound ==
  ASSUME NEW l, Sound(l), KeysApart, NEW k \in Key, NEW b \in 1..l.num,
         Leads(l.num, SeparatorsOf(l), k, b), l.perSize[b] < Cap
  PROVE  Sound(InsertDataBlock(l, k, b)) /\ InsertDataBlock(l, k, b).num = l.num
<1> DEFINE m == InsertDataBlock(l, k, b)
           n == l.num
           size == l.perSize[b]
           joined == Joined(l.slots[b], k, size)
           K == KeysIn(l)
           sep == SeparatorsOf(l)
<1>1. /\ l \in LeafRecords /\ n \in Nat \ {0} /\ b \in 1..MaxBlockNum
      /\ BlockOK(l.slots[b], size) /\ Routed(n, K, sep) /\ size \in 0..Cap
  <2>1. l \in LeafRecords /\ BlockOK(l.slots[b], size)
    BY DEF Sound
  <2> QED  BY <2>1, LeafNumbers DEF Sound
<1>2. /\ m \in LeafRecords
      /\ m.num = n
      /\ m.perSize = [l.perSize EXCEPT ![b] = @ + 1]
      /\ m.slots = [l.slots EXCEPT ![b] = joined]
      /\ m.slotkeys = SlotkeysWith(l, k, b)
  <2>1. PointInserted(l, k, b, m)
    BY <1>1, InsertDataBlockIs
  <2> HIDE DEF m
  <2> QED  BY <2>1 DEF PointInserted
<1>3. /\ l.perSize \in [1..MaxBlockNum -> 0..Cap]
      /\ l.slots \in [1..MaxBlockNum -> [1..Cap -> Key \cup {MAX}]]
      /\ l.slotkeys \in [1..MaxBlockNum - 1 -> 0..MAX]
  BY <1>1 DEF LeafRecords
<1>4. /\ m.perSize[b] = size + 1 /\ m.slots[b] = joined
      /\ \A a \in 1..n : a # b => m.perSize[a] = l.perSize[a] /\ m.slots[a] = l.slots[a]
  <2>1. \A a \in 1..n : a \in 1..MaxBlockNum
    BY <1>1, LeafNumbers
  <2> QED  BY <1>1, <1>2, <1>3, <2>1
<1>5. /\ BlockOK(joined, size + 1)
      /\ KeysOf(joined, size + 1) = KeysOf(l.slots[b], size) \cup {k}
      /\ BlankFrom(l.slots[b], size) => BlankFrom(joined, size + 1)
  BY <1>1, BlockTakesPoint
<1> HIDE DEF m, joined, size, n
<1>6. \A a \in 1..m.num : BlockOK(m.slots[a], m.perSize[a])
  BY <1>2, <1>4, <1>5 DEF Sound, n
<1>7. m.num > 1 => \A a \in 1..m.num : BlankFrom(m.slots[a], m.perSize[a])
  BY <1>2, <1>4, <1>5 DEF Sound, n, size
<1>8. /\ K = [a \in 1..n |-> KeysOf(l.slots[a], l.perSize[a])]
      /\ sep = [c \in 1..n - 1 |-> l.slotkeys[c]] /\ b \in 1..n /\ Leads(n, sep, k, b)
  BY DEF KeysIn, SeparatorsOf, n
<1> HIDE DEF K, sep
<1>9. KeysIn(m) = [K EXCEPT ![b] = @ \cup {k}]
  <2>1. KeysIn(m) = [a \in 1..n |-> KeysOf(m.slots[a], m.perSize[a])]
    BY <1>2 DEF KeysIn
  <2>2. \A a \in 1..n : KeysOf(m.slots[a], m.perSize[a])
                          = IF a = b THEN K[a] \cup {k} ELSE K[a]
    BY <1>4, <1>5, <1>8 DEF size
  <2>3. K = [a \in 1..n |-> K[a]]
    BY <1>8
  <2>4. [K EXCEPT ![b] = @ \cup {k}] = [a \in 1..n |-> IF a = b THEN K[a] \cup {k} ELSE K[a]]
    BY <2>3
  <2> QED  BY <2>1, <2>2, <2>4
<1>10. \E t : /\ Routed(n, K, t) /\ Leads(n, t, k, b)
              /\ SeparatorsOf(m) = t
  <2>0. /\ SeparatorsOf(m) = [c \in 1..n - 1 |-> SlotkeysWith(l, k, b)[c]]
        /\ \A c \in 1..n - 1 : c \in 1..MaxBlockNum - 1 /\ l.slotkeys[c] \in Nat
        /\ k \in Int
    <3>1. SeparatorsOf(m) = [c \in 1..n - 1 |-> SlotkeysWith(l, k, b)[c]]
      BY <1>2 DEF SeparatorsOf, n
    <3>2. \A c \in 1..n - 1 : c \in 1..MaxBlockNum - 1 /\ l.slotkeys[c] \in Nat
      BY <1>1, LeafNumbers DEF n
    <3> QED  BY <3>1, <3>2, KeysAreNumbers
  <2>1. CASE b > 1 /\ size = 0
    <3>1. K[b] = {}
      <4>1. K[b] = KeysOf(l.slots[b], size) /\ 1..size = {}
        BY <1>8, <2>1 DEF size
      <4> QED  BY <4>1 DEF KeysOf
    <3>2. b \in 2..n
      BY <1>1, <1>8, <2>1
    <3>3. /\ Routed(n, K, [sep EXCEPT ![b - 1] = k])
          /\ Leads(n, [sep EXCEPT ![b - 1] = k], k, b)
      BY <1>1, <1>8, <3>1, <3>2, RaiseSeparator
    <3>4. SlotkeysWith(l, k, b) = [l.slotkeys EXCEPT ![b - 1] = k]
      BY <2>1 DEF SlotkeysWith, size
    <3>5. SeparatorsOf(m) = [sep EXCEPT ![b - 1] = k]
      BY <1>3, <1>8, <2>0, <3>2, <3>4
    <3> QED  BY <3>3, <3>5
  <2>2. CASE b > 1 /\ size # 0
    <3>1. b - 1 \in 1..n - 1 /\ sep[b - 1] <= k
      BY <1>1, <1>8, <2>2 DEF Leads
    <3>2. l.slotkeys[b - 1] <= k /\ l.slotkeys[b - 1] \in Nat
      BY <1>8, <2>0, <3>1
    <3>3. Min({l.slotkeys[b - 1], k}) = l.slotkeys[b - 1]
      BY <2>0, <3>2, MinOfTwo
    <3>4. SlotkeysWith(l, k, b) = l.slotkeys
      BY <1>3, <2>0, <2>2, <3>1, <3>3 DEF SlotkeysWith, size
    <3> QED  BY <1>1, <1>8, <2>0, <3>4
  <2>3. CASE b = 1 /\ n = 1
    <3>1. SeparatorsOf(m) = sep
      BY <1>8, <2>0, <2>3
    <3> QED  BY <1>1, <1>8, <3>1
  <2>4. CASE b = 1 /\ n > 1 /\ size = 0
    <3>1. K[1] = {}
      <4>1. K[1] = KeysOf(l.slots[b], size) /\ 1..size = {}
        BY <1>8, <2>4 DEF size
      <4> QED  BY <4>1 DEF KeysOf
    <3>2. /\ Routed(n, K, [sep EXCEPT ![1] = k + One])
          /\ Leads(n, [sep EXCEPT ![1] = k + One], k, 1)
      BY <1>1, <1>8, <2>4, <3>1, LowerFirstSeparator
    <3>3. SlotkeysWith(l, k, b) = [l.slotkeys EXCEPT ![1] = k + One]
      BY <2>4 DEF SlotkeysWith, size
    <3>4. SeparatorsOf(m) = [sep EXCEPT ![1] = k + One]
      BY <1>3, <1>8, <2>0, <3>3
    <3> QED  BY <2>4, <3>2, <3>4
  <2>5. CASE b = 1 /\ n > 1 /\ size # 0
    <3>1. 1 \in 1..n - 1 /\ k < sep[1]
      BY <1>1, <1>8, <2>5 DEF Leads
    <3>2. ~ (k > l.slotkeys[1])
      BY <1>8, <2>0, <3>1
    <3>3. SlotkeysWith(l, k, b) = l.slotkeys
      BY <1>3, <2>0, <2>5, <3>1, <3>2 DEF SlotkeysWith, size
    <3> QED  BY <1>1, <1>8, <2>0, <3>3
  <2> QED  BY <1>1, <1>8, <2>1, <2>2, <2>3, <2>4, <2>5
<1>11. Routed(n, KeysIn(m), SeparatorsOf(m))
  <2>1. PICK t : Routed(n, K, t) /\ Leads(n, t, k, b) /\ SeparatorsOf(m) = t
    BY <1>10
  <2>2. Routed(n, [K EXCEPT ![b] = @ \cup {k}], t)
    BY <1>1, <1>8, <2>1, PutIntoBlock
  <2> QED  BY <1>9, <2>1, <2>2
<1>12. Sound(m)
  BY <1>2, <1>6, <1>7, <1>11 DEF Sound
<1> QED  BY <1>2, <1>12 DEF m, n

----------------------------------------------------------------------------
(* The places of the points x in the blocks 1..n of a leaf, and how many   *)
(* there are.                                                              *)
Places(l, n, x) ==
  {p \in (1..n) \X (1..Cap) : p[2] <= l.perSize[p[1]] /\ l.slots[p[1]][p[2]] = x}

CountTo(l, n, x) == Cardinality(Places(l, n, x))

OccursIn(l, b, x) == Occurs(l.slots[b], l.perSize[b], x)

LEMMA StoredIsCount ==
  ASSUME NEW l, NEW x PROVE Stored(l, x) = CountTo(l, l.num, x)
BY DEF Stored, CountTo, Places

LEMMA BlockNumbers ==
  ASSUME NEW l \in LeafRecords, NEW b \in 1..MaxBlockNum
  PROVE  /\ l.perSize[b] \in Nat /\ l.perSize[b] <= Cap /\ Cap \in Nat
         /\ \A x : OccursIn(l, b, x) \in Nat
<1>1. l.perSize[b] \in 0..Cap
  BY DEF LeafRecords
<1>2. l.perSize[b] \in Nat /\ l.perSize[b] <= Cap /\ Cap \in Nat
  BY <1>1, KeysAreNumbers
<1> QED  BY <1>2, OccursIsNumber DEF OccursIn

LEMMA CountIsNumber ==
  ASSUME NEW l, NEW n \in Nat, NEW x
  PROVE  IsFiniteSet(Places(l, n, x)) /\ CountTo(l, n, x) \in Nat
<1>1. IsFiniteSet(1..n) /\ IsFiniteSet(1..Cap)
  <2>1. 1 \in Int /\ n \in Int /\ Cap \in Int
    BY KeysAreNumbers
  <2> QED  BY <2>1, FS_Interval
<1>2. IsFiniteSet((1..n) \X (1..Cap))
  BY <1>1, FS_Product
<1>3. Places(l, n, x) \in SUBSET ((1..n) \X (1..Cap))
  BY DEF Places
<1>4. IsFiniteSet(Places(l, n, x))
  BY <1>2, <1>3, FS_Subset
<1> QED  BY <1>4, FS_CardinalityType DEF CountTo

LEMMA CountInNone ==
  ASSUME NEW l, NEW x PROVE CountTo(l, 0, x) = 0
<1>1. Places(l, 0, x) = {}
  BY DEF Places
<1> QED  BY <1>1, FS_EmptySet DEF CountTo

LEMMA CountNext ==
  ASSUME NEW l \in LeafRecords, NEW n \in Nat, n + 1 <= MaxBlockNum, NEW x
  PROVE  CountTo(l, n + 1, x) = CountTo(l, n, x) + OccursIn(l, n + 1, x)
<1> DEFINE P == Places(l, n, x)
           S == PlacesOf(l.slots[n + 1], l.perSize[n + 1], x)
           T == {n + 1} \X S
<1>1. n + 1 \in 1..MaxBlockNum /\ l.perSize[n + 1] \in Nat /\ l.perSize[n + 1] <= Cap
      /\ Cap \in Nat
  <2>1. n + 1 \in 1..MaxBlockNum
    BY KeysAreNumbers
  <2> QED  BY <2>1, BlockNumbers
<1>2. IsFiniteSet(S) /\ Cardinality(S) = OccursIn(l, n + 1, x) /\ OccursIn(l, n + 1, x) \in Nat
  BY <1>1, OccursIsNumber DEF OccursIn, Occurs
<1>3. IsFiniteSet(P) /\ Cardinality(P) = CountTo(l, n, x) /\ CountTo(l, n, x) \in Nat
  BY CountIsNumber DEF CountTo
<1>4. Places(l, n + 1, x) = P \cup T
  <2>1. ASSUME NEW p \in Places(l, n + 1, x)
        PROVE  p \in P \cup T
    <3>1. /\ p \in (1..n + 1) \X (1..Cap) /\ p = <<p[1], p[2]>>
          /\ p[2] <= l.perSize[p[1]] /\ l.slots[p[1]][p[2]] = x
      BY DEF Places
    <3>2. CASE p[1] = n + 1
      <4>1. p[2] \in S
        BY <1>1, <3>1, <3>2 DEF PlacesOf
      <4> HIDE DEF S
      <4> QED  BY <3>1, <3>2, <4>1
    <3>3. CASE p[1] # n + 1
      <4>1. p \in (1..n) \X (1..Cap)
        BY <3>1, <3>3
      <4> QED  BY <3>1, <4>1 DEF Places
    <3> QED  BY <3>2, <3>3
  <2>2. ASSUME NEW p \in P
        PROVE  p \in Places(l, n + 1, x)
    BY DEF Places
  <2>3. ASSUME NEW p \in T
        PROVE  p \in Places(l, n + 1, x)
    <3>1. p = <<n + 1, p[2]>> /\ p[1] = n + 1 /\ p[2] \in S
      OBVIOUS
    <3>2. p[2] \in 1..Cap /\ p[2] <= l.perSize[n + 1] /\ l.slots[n + 1][p[2]] = x
      BY <1>1, <3>1 DEF PlacesOf
    <3>3. n + 1 \in 1..n + 1
      OBVIOUS
    <3>4. p \in (1..n + 1) \X (1..Cap)
      BY <3>1, <3>2, <3>3
    <3> QED  BY <3>1, <3>2, <3>4 DEF Places
  <2> QED  BY <2>1, <2>2, <2>3
<1>5. P \cap T = {}
  <2> SUFFICES ASSUME NEW p \in P, p \in T
               PROVE  FALSE
    OBVIOUS
  <2>1. p[1] = n + 1 /\ p[1] \in 1..n
    BY DEF Places
  <2> QED  BY <2>1
<1>6. IsFiniteSet(T) /\ Cardinality(T) = Cardinality(S)
  <2>1. IsFiniteSet({n + 1}) /\ Cardinality({n + 1}) = 1
    BY FS_Singleton
  <2> HIDE DEF S
  <2>2. IsFiniteSet(T) /\ Cardinality(T) = 1 * Cardinality(S)
    BY <1>2, <2>1, FS_Product
  <2> QED  BY <1>2, <2>2
<1> HIDE DEF P, T, S
<1>7. Cardinality(P \cup T) = Cardinality(P) + Cardinality(T) - Cardinality({})
  BY <1>3, <1>5, <1>6, FS_Union
<1>8. Cardinality({}) = 0
  BY FS_EmptySet
<1>9. CountTo(l, n + 1, x) = Cardinality(P \cup T)
  BY <1>4 DEF CountTo
<1>10. Cardinality(P \cup T) = Cardinality(P) + Cardinality(T)
  BY <1>2, <1>3, <1>6, <1>7, <1>8
<1> QED  BY <1>2, <1>3, <1>6, <1>9, <1>10

(* Two leaves that differ in one block.                                    *)
DifferAt(l, m, b) ==
  \A a \in 1..MaxBlockNum : a # b => m.perSize[a] = l.perSize[a] /\ m.slots[a] = l.slots[a]

LEMMA CountDiffers ==
  ASSUME NEW l \in LeafRecords, NEW m \in LeafRecords, NEW b \in 1..MaxBlockNum,
         DifferAt(l, m, b), NEW n \in b..MaxBlockNum, NEW x
  PROVE  CountTo(m, n, x) + OccursIn(l, b, x) = CountTo(l, n, x) + OccursIn(m, b, x)
<1>0. /\ MaxBlockNum \in Nat /\ b \in Nat /\ n \in Nat /\ b \in 1..MaxBlockNum
      /\ OccursIn(l, b, x) \in Nat /\ OccursIn(m, b, x) \in Nat
      /\ \A a \in Nat : CountTo(l, a, x) \in Nat /\ CountTo(m, a, x) \in Nat
  BY KeysAreNumbers, BlockNumbers, CountIsNumber
<1> DEFINE S == {a \in Nat : a <= MaxBlockNum =>
                   IF a < b THEN CountTo(m, a, x) = CountTo(l, a, x)
                   ELSE CountTo(m, a, x) + OccursIn(l, b, x)
                          = CountTo(l, a, x) + OccursIn(m, b, x)}
<1>1. 0 \in S
  BY <1>0, CountInNone
<1>2. ASSUME NEW a \in Nat, a \in S
      PROVE  a + 1 \in S
  <2> SUFFICES ASSUME a + 1 <= MaxBlockNum
               PROVE  IF a + 1 < b THEN CountTo(m, a + 1, x) = CountTo(l, a + 1, x)
                      ELSE CountTo(m, a + 1, x) + OccursIn(l, b, x)
                             = CountTo(l, a + 1, x) + OccursIn(m, b, x)
    OBVIOUS
  <2>1. /\ IF a < b THEN CountTo(m, a, x) = CountTo(l, a, x)
           ELSE CountTo(m, a, x) + OccursIn(l, b, x) = CountTo(l, a, x) + OccursIn(m, b, x)
        /\ a + 1 \in 1..MaxBlockNum
    BY <1>0, <1>2
  <2> HIDE DEF S
  <2>2. /\ CountTo(m, a + 1, x) = CountTo(m, a, x) + OccursIn(m, a + 1, x)
        /\ CountTo(l, a + 1, x) = CountTo(l, a, x) + OccursIn(l, a + 1, x)
    BY CountNext
  <2>3. OccursIn(m, a + 1, x) \in Nat /\ OccursIn(l, a + 1, x) \in Nat
    BY <2>1, BlockNumbers
  <2>4. a + 1 # b => OccursIn(m, a + 1, x) = OccursIn(l, a + 1, x)
    BY <2>1 DEF DifferAt, OccursIn
  <2>5. CountTo(l, a, x) \in Nat /\ CountTo(m, a, x) \in Nat
    BY <1>0
  <2>6. CASE a + 1 = b
    <3>1. a < b /\ ~ (a + 1 < b)
      BY <1>0, <2>6
    <3> QED  BY <2>1, <2>2, <2>3, <2>5, <2>6, <3>1
  <2>7. CASE a + 1 # b
    <3>1. a < b <=> a + 1 < b
      BY <1>0, <2>7
    <3> QED  BY <1>0, <2>1, <2>2, <2>3, <2>4, <2>5, <2>7, <3>1
  <2> QED  BY <2>6, <2>7
<1> HIDE DEF S
<1>3. n \in S
  <2>1. Nat \subseteq S
    BY <1>1, <1>2, Induction
  <2> QED  BY <1>0, <2>1
<1> QED  BY <1>0, <1>3 DEF S

(* Two leaves with the same blocks.                                        *)
LEMMA CountAlike ==
  ASSUME NEW l, NEW m, m.perSize = l.perSize, m.slots = l.slots, NEW n, NEW x
  PROVE  CountTo(m, n, x) = CountTo(l, n, x)
BY DEF CountTo, Places

(* Blocks that are empty.                                                  *)
LEMMA CountBeyond ==
  ASSUME NEW l, NEW n \in Nat, NEW m \in Nat, n <= m, NEW x,
         \A b \in 1..m : b > n => l.perSize[b] = 0
  PROVE  CountTo(l, m, x) = CountTo(l, n, x)
<1>1. ASSUME NEW p \in Places(l, m, x)
      PROVE  p \in Places(l, n, x)
  <2>1. p[1] \in 1..m /\ p[2] \in 1..Cap /\ p[2] <= l.perSize[p[1]] /\ p = <<p[1], p[2]>>
    BY DEF Places
  <2>2. ~ (p[1] > n)
    BY <2>1
  <2>3. p[1] \in 1..n
    BY <2>1, <2>2
  <2> QED  BY <2>1, <2>3 DEF Places
<1>2. Places(l, n, x) \subseteq Places(l, m, x)
  BY DEF Places
<1>3. Places(l, n, x) = Places(l, m, x)
  BY <1>1, <1>2
<1> QED  BY <1>3 DEF CountTo

(* A point put into a block.                                               *)
Adds(k, x) == IF k = x THEN 1 ELSE 0

LEMMA JoinedCounts ==
  ASSUME NEW block, NEW size, BlockOK(block, size), size < Cap, NEW k \in Key, NEW x
  PROVE  Occurs(Joined(block, k, size), size + 1, x)
           = Occurs(block, size, x) + Adds(k, x)
<1> DEFINE at == SearchDataBlock(block, k, size)
           t == Joined(block, k, size)
<1>0. size \in 0..Cap /\ size \in Nat /\ Cap \in Nat
  BY KeysAreNumbers DEF BlockOK
<1>1. size \in Nat /\ Cap \in Nat /\ at \in 1..size + 1
  BY <1>0, SearchInBlock
<1>2. t = [i \in 1..Cap |-> IF i = at THEN k
                            ELSE IF at < i /\ i <= size + 1 THEN block[i - 1]
                            ELSE block[i]]
  BY DEF Joined
<1> HIDE DEF t, at
<1>3. at \in 1..Cap /\ t[at] = k
  BY <1>1, <1>2
<1>4. \A i \in 1..size : i < at => t[i] = block[i]
  BY <1>1, <1>2
<1>5. ASSUME NEW i \in 1..size, at <= i
      PROVE  t[i + 1] = block[i]
  <2>1. i + 1 \in 1..Cap /\ i + 1 # at /\ at < i + 1 /\ i + 1 <= size + 1 /\ (i + 1) - 1 = i
    BY <1>1, <1>5
  <2> QED  BY <1>2, <2>1
<1>6. Occurs(t, size + 1, x) = Occurs(block, size, x) + OneIf(t, at, x)
  <2>1. PutIn(block, t, size, at)
    BY <1>4, <1>5 DEF PutIn
  <2> QED  BY <1>1, <2>1, OccursPutIn
<1>7. OneIf(t, at, x) = Adds(k, x)
  BY <1>3 DEF OneIf, Adds
<1> QED  BY <1>6, <1>7 DEF t

LEMMA InsertDataBlockCounts ==
  ASSUME NEW l \in LeafRecords, NEW k \in Key, NEW b \in 1..MaxBlockNum,
         l.perSize[b] < Cap, BlockOK(l.slots[b], l.perSize[b]),
         NEW n \in b..MaxBlockNum, NEW x
  PROVE  CountTo(InsertDataBlock(l, k, b), n, x)
           = CountTo(l, n, x) + Adds(k, x)
<1> DEFINE m == InsertDataBlock(l, k, b)
           size == l.perSize[b]
<1>1. PointInserted(l, k, b, m)
  BY InsertDataBlockIs
<1> HIDE DEF m
<1>2. /\ m \in LeafRecords /\ DifferAt(l, m, b)
      /\ m.perSize[b] = size + 1 /\ m.slots[b] = Joined(l.slots[b], k, size)
  <2>1. l.perSize \in [1..MaxBlockNum -> 0..Cap]
        /\ l.slots \in [1..MaxBlockNum -> [1..Cap -> Key \cup {MAX}]]
    BY DEF LeafRecords
  <2>2. m.perSize = [l.perSize EXCEPT ![b] = @ + 1]
        /\ m.slots = [l.slots EXCEPT ![b] = Joined(l.slots[b], k, size)]
    BY <1>1 DEF PointInserted
  <2> QED  BY <1>1, <2>1, <2>2 DEF PointInserted, DifferAt
<1>3. OccursIn(m, b, x) = OccursIn(l, b, x) + Adds(k, x)
  BY <1>2, JoinedCounts DEF OccursIn
<1>4. CountTo(m, n, x) + OccursIn(l, b, x) = CountTo(l, n, x) + OccursIn(m, b, x)
  BY <1>2, CountDiffers
<1>5. CountTo(m, n, x) \in Nat /\ CountTo(l, n, x) \in Nat /\ OccursIn(l, b, x) \in Nat
  <2>1. n \in Nat
    BY KeysAreNumbers
  <2> QED  BY <2>1, CountIsNumber, BlockNumbers
<1>6. Adds(k, x) \in Nat
  BY DEF Adds
<1>7. CountTo(m, n, x) = CountTo(l, n, x) + Adds(k, x)
  BY <1>3, <1>4, <1>5, <1>6
<1> QED  BY <1>7 DEF m

(* The place of a key among the points of a full block but the last.       *)
LEMMA PlaceInFullBlock ==
  ASSUME NEW block, BlockOK(block, Cap), NEW k \in Key
  PROVE  LET m == Cardinality({i \in 1..Cap - 1 : block[i] <= k})
         IN m \in 0..Cap - 1 /\ \A i \in 1..Cap - 1 : block[i] <= k <=> i <= m
<1> DEFINE T == {i \in 1..Cap - 1 : block[i] <= k}
           Rest == {i \in 1..Cap : i \notin T}
<1>1. Cap \in Nat \ {0} /\ k \in Int /\ \A i \in 1..Cap : block[i] \in Int
  BY KeysAreNumbers DEF BlockOK
<1>2. Rest \subseteq Nat /\ Rest # {}
  <2>1. Cap \in Rest
    BY <1>1
  <2> QED  BY <1>1, <2>1
<1>3. PICK t \in Rest : \A i \in Rest : t <= i
  BY <1>2, LeastNumber
<1>4. t \in 1..Cap /\ t - 1 \in 0..Cap - 1
  BY <1>1, <1>3
<1>5. ASSUME NEW i \in 1..Cap - 1
      PROVE  block[i] <= k <=> i <= t - 1
  <2>0. i \in 1..Cap
    BY <1>1
  <2>1. CASE i < t
    <3>1. i \notin Rest
      BY <1>3, <1>4, <2>1
    <3> QED  BY <1>1, <1>4, <2>0, <2>1, <3>1
  <2>2. CASE t <= i
    <3>1. t \in 1..Cap - 1 /\ ~ (block[t] <= k)
      BY <1>1, <1>3, <1>4, <2>2
    <3>2. block[t] <= block[i]
      BY <1>4, <2>0, <2>2 DEF BlockOK
    <3> QED  BY <1>1, <1>4, <2>0, <2>2, <3>1, <3>2
  <2> QED  BY <1>1, <1>4, <2>1, <2>2
<1>6. T = 1..t - 1
  BY <1>1, <1>4, <1>5
<1> HIDE DEF T, Rest
<1>7. Cardinality(T) = t - 1
  <2>1. 1 \in Int /\ t - 1 \in Int
    BY <1>4
  <2>2. Cardinality(1..t - 1) = IF 1 > t - 1 THEN 0 ELSE (t - 1) - 1 + 1
    BY <2>1, FS_Interval
  <2> QED  BY <1>4, <1>6, <2>1, <2>2
<1>8. Cardinality({i \in 1..Cap - 1 : block[i] <= k}) = t - 1
  BY <1>7 DEF T
<1> HIDE DEF T
<1> QED  BY <1>4, <1>5, <1>8

(* The full block with the point k put among its points and without the    *)
(* last one.                                                               *)
Shifted(block, k, at) ==
  [i \in 1..Cap |-> IF i < at THEN block[i] ELSE IF i = at THEN k ELSE block[i - 1]]

LEMMA BlockTakesTurn ==
  ASSUME NEW block, BlockOK(block, Cap), NEW k \in Key, k < block[Cap],
         NEW at, at = 1 + Cardinality({i \in 1..Cap - 1 : block[i] <= k})
  PROVE  /\ BlockOK(Shifted(block, k, at), Cap)
         /\ KeysOf(Shifted(block, k, at), Cap) \subseteq KeysOf(block, Cap) \cup {k}
         /\ \A y \in KeysOf(block, Cap) \cup {k} :
              y < block[Cap] => y \in KeysOf(Shifted(block, k, at), Cap)
         /\ at = 1 => \A y \in KeysOf(block, Cap) : k < y
<1> DEFINE s == Shifted(block, k, at)
<1>1. Cap \in Nat \ {0} /\ k \in Int /\ \A i \in 1..Cap : block[i] \in Int
  BY KeysAreNumbers DEF BlockOK
<1>2. at \in 1..Cap /\ \A i \in 1..Cap - 1 : block[i] <= k <=> i < at
  BY <1>1, PlaceInFullBlock
<1>3. \A i \in 1..Cap : s[i] = IF i < at THEN block[i] ELSE IF i = at THEN k
                               ELSE block[i - 1]
  BY DEF Shifted
<1>4. s = [i \in 1..Cap |-> s[i]]
  BY DEF Shifted
<1> HIDE DEF s
<1>5. ASSUME NEW i \in 1..Cap
      PROVE  /\ i < at => i \in 1..Cap - 1 /\ s[i] = block[i] /\ block[i] <= k
             /\ i = at => s[i] = k
             /\ at < i => i - 1 \in 1..Cap - 1 /\ i - 1 \in 1..Cap
                          /\ s[i] = block[i - 1] /\ k < block[i - 1]
  <2>1. ASSUME i < at
        PROVE  i \in 1..Cap - 1 /\ s[i] = block[i] /\ block[i] <= k
    BY <1>1, <1>2, <1>3, <2>1
  <2>2. ASSUME at < i
        PROVE  i - 1 \in 1..Cap - 1 /\ i - 1 \in 1..Cap
               /\ s[i] = block[i - 1] /\ k < block[i - 1]
    <3>1. i - 1 \in 1..Cap - 1 /\ i - 1 \in 1..Cap /\ ~ (i - 1 < at)
      BY <1>1, <1>2, <2>2
    <3>2. ~ (block[i - 1] <= k) /\ block[i - 1] \in Int
      BY <1>1, <1>2, <3>1
    <3>3. s[i] = block[i - 1]
      BY <1>2, <1>3, <2>2
    <3> QED  BY <1>1, <3>1, <3>2, <3>3
  <2> QED  BY <1>2, <1>3, <2>1, <2>2
<1>6. \A i \in 1..Cap : s[i] \in Key /\ s[i] \in KeysOf(block, Cap) \cup {k}
  <2> SUFFICES ASSUME NEW i \in 1..Cap
               PROVE  s[i] \in Key /\ s[i] \in KeysOf(block, Cap) \cup {k}
    OBVIOUS
  <2>1. s[i] = k \/ \E j \in 1..Cap : s[i] = block[j]
    BY <1>2, <1>5
  <2> QED  BY <2>1 DEF BlockOK, KeysOf
<1>7. ASSUME NEW i \in 1..Cap, NEW j \in 1..Cap, i <= j
      PROVE  s[i] <= s[j]
  <2>1. CASE j < at
    <3>1. s[i] = block[i] /\ s[j] = block[j]
      BY <1>1, <1>2, <1>5, <1>7, <2>1
    <3> QED  BY <1>7, <3>1 DEF BlockOK
  <2>2. CASE j = at
    <3>1. s[j] = k /\ (s[i] = k \/ s[i] <= k)
      BY <1>1, <1>2, <1>5, <1>7, <2>2
    <3> QED  BY <1>1, <3>1
  <2>3. CASE at < j
    <3>1. s[j] = block[j - 1] /\ k < block[j - 1] /\ j - 1 \in 1..Cap
      BY <1>5, <2>3
    <3>2. CASE i < at
      <4>1. s[i] = block[i] /\ block[i] <= k
        BY <1>5, <3>2
      <4> QED  BY <1>1, <3>1, <4>1
    <3>3. CASE i = at
      <4>1. s[i] = k
        BY <1>5, <3>3
      <4> QED  BY <1>1, <3>1, <4>1
    <3>4. CASE at < i
      <4>1. s[i] = block[i - 1] /\ i - 1 \in 1..Cap /\ i - 1 <= j - 1
        BY <1>1, <1>5, <1>7, <3>4
      <4> QED  BY <3>1, <4>1 DEF BlockOK
    <3> QED  BY <1>2, <3>2, <3>3, <3>4
  <2> QED  BY <1>2, <2>1, <2>2, <2>3
<1>8. BlockOK(s, Cap)
  BY <1>1, <1>4, <1>6, <1>7 DEF BlockOK
<1>9. KeysOf(s, Cap) \subseteq KeysOf(block, Cap) \cup {k}
  BY <1>6 DEF KeysOf
<1>10. ASSUME NEW y \in KeysOf(block, Cap) \cup {k}, y < block[Cap]
       PROVE  y \in KeysOf(s, Cap)
  <2>1. CASE y = k
    BY <1>2, <1>5, <2>1 DEF KeysOf
  <2>2. CASE y \in KeysOf(block, Cap)
    <3>1. PICK i \in 1..Cap : y = block[i]
      BY <2>2 DEF KeysOf
    <3>2. i \in 1..Cap - 1 /\ i + 1 \in 1..Cap /\ (i + 1) - 1 = i
      <4>1. i # Cap
        BY <1>1, <1>10, <3>1
      <4> QED  BY <1>1, <4>1
    <3>3. CASE i < at
      BY <1>5, <3>1, <3>3 DEF KeysOf
    <3>4. CASE at <= i
      <4>1. s[i + 1] = block[(i + 1) - 1]
        BY <1>2, <1>5, <3>2, <3>4
      <4>2. s[i + 1] = y
        BY <3>1, <3>2, <4>1
      <4> QED  BY <3>2, <4>2 DEF KeysOf
    <3> QED  BY <1>2, <3>3, <3>4
  <2> QED  BY <1>10, <2>1, <2>2
<1>11. ASSUME at = 1
       PROVE  \A y \in KeysOf(block, Cap) : k < y
  <2> SUFFICES ASSUME NEW i \in 1..Cap
               PROVE  k < block[i]
    BY DEF KeysOf
  <2>1. CASE i = Cap
    BY <2>1
  <2>2. CASE i # Cap
    <3>1. i \in 1..Cap - 1 /\ ~ (i < at)
      BY <1>1, <1>11, <2>2
    <3>2. ~ (block[i] <= k)
      BY <1>2, <3>1
    <3> QED  BY <1>1, <3>2
  <2> QED  BY <2>1, <2>2
<1> QED  BY <1>8, <1>9, <1>10, <1>11 DEF s

(* InsertNextBlock: x, the greatest of the keys of a full block and of a   *)
(* new one that leads there, opens the next block; the others stay.        *)
NextBlockOpened(l, k, b, m) ==
  LET last == l.slots[b][Cap]
      x    == IF k >= last THEN k ELSE last
      at   == 1 + Cardinality({i \in 1..Cap - 1 : l.slots[b][i] <= k})
  IN /\ m \in LeafRecords
     /\ m.num = l.num
     /\ m.perSize = [l.perSize EXCEPT ![b + 1] = @ + 1]
     /\ m.slots = [l.slots EXCEPT
          ![b] = IF k >= last THEN @ ELSE Shifted(@, k, at),
          ![b + 1] = Joined(@, x, l.perSize[b + 1])]
     /\ \A c \in 1..l.num - 1 :
          m.slotkeys[c] = IF c = b THEN x
                          ELSE IF c = b - 1 /\ at = 1 /\ ~ (k >= last) THEN k
                          ELSE l.slotkeys[c]

LEMMA InsertNextBlockIs ==
  ASSUME NEW l, Sound(l), NEW k \in Key, NEW b \in 1..l.num - 1,
         l.perSize[b] = Cap, l.perSize[b + 1] < Cap,
         Leads(l.num, SeparatorsOf(l), k, b)
  PROVE  NextBlockOpened(l, k, b, InsertNextBlock(l, k, b))
<1> DEFINE block == l.slots[b]
           last  == block[Cap]
           x     == IF k >= last THEN k ELSE last
           at    == 1 + Cardinality({i \in 1..Cap - 1 : block[i] <= k})
           over  == InsertDataBlock(l, x, b + 1)
           size  == l.perSize[b + 1]
<1>1. /\ l \in LeafRecords /\ l.num \in Nat /\ b \in 1..l.num /\ b + 1 \in 1..l.num
      /\ b \in 1..MaxBlockNum /\ b + 1 \in 1..MaxBlockNum /\ b \in 1..MaxBlockNum - 1
      /\ b # b + 1
      /\ \A c \in 1..l.num - 1 : c \in 1..MaxBlockNum - 1
      /\ BlockOK(block, Cap) /\ BlockOK(l.slots[b + 1], size) /\ size < Cap
      /\ Cap \in Nat \ {0}
      /\ last \in Key /\ last \in Nat /\ k \in Nat /\ x \in Key
  <2>1. l \in LeafRecords
    BY DEF Sound
  <2>2. l.num \in Nat /\ \A c \in 1..l.num - 1 : c \in 1..MaxBlockNum - 1
    BY <2>1, LeafNumbers
  <2>3. b \in 1..l.num /\ b + 1 \in 1..l.num
    BY <2>2
  <2>4. b \in 1..MaxBlockNum /\ b + 1 \in 1..MaxBlockNum
    BY <2>1, <2>3, LeafNumbers
  <2>5. BlockOK(block, Cap) /\ BlockOK(l.slots[b + 1], size)
    BY <2>3 DEF Sound
  <2>6. last \in Key
    BY <2>5, KeysAreNumbers DEF BlockOK
  <2> QED  BY <2>1, <2>2, <2>3, <2>4, <2>5, <2>6, KeysAreNumbers
<1>2. /\ over \in LeafRecords
      /\ over.num = l.num
      /\ over.perSize = [l.perSize EXCEPT ![b + 1] = @ + 1]
      /\ over.slots = [l.slots EXCEPT ![b + 1] = Joined(l.slots[b + 1], x, size)]
      /\ over.slotkeys = SlotkeysWith(l, x, b + 1)
  <2> HIDE DEF x
  <2>1. PointInserted(l, x, b + 1, over)
    BY <1>1, InsertDataBlockIs
  <2> HIDE DEF over
  <2> QED  BY <2>1 DEF PointInserted
<1>3. /\ l.perSize \in [1..MaxBlockNum -> 0..Cap]
      /\ l.slots \in [1..MaxBlockNum -> [1..Cap -> Key \cup {MAX}]]
      /\ l.slotkeys \in [1..MaxBlockNum - 1 -> 0..MAX]
  BY <1>1 DEF LeafRecords
<1>4. Joined(l.slots[b + 1], x, size)[1] = x
  <2>1. \A y \in KeysOf(l.slots[b + 1], size) : x <= y
    <3> SUFFICES ASSUME NEW y \in KeysOf(l.slots[b + 1], size)
                 PROVE  x <= y
      OBVIOUS
    <3>1. /\ Routed(l.num, KeysIn(l), SeparatorsOf(l))
          /\ y \in KeysIn(l)[b + 1] /\ last \in KeysIn(l)[b]
      <4>1. last \in KeysOf(block, Cap)
        BY <1>1 DEF KeysOf
      <4> QED  BY <1>1, <4>1 DEF Sound, KeysIn
    <3>2. SeparatorsOf(l)[b] <= y /\ last <= SeparatorsOf(l)[b] /\ k < SeparatorsOf(l)[b]
          /\ SeparatorsOf(l)[b] \in Int /\ y \in Int
      <4>1. b \in 1..l.num - 1 /\ ~ (b + 1 <= b) /\ b <= b /\ b < l.num
        BY <1>1
      <4>2. SeparatorsOf(l)[b] <= y /\ last <= SeparatorsOf(l)[b]
        BY <1>1, <3>1, <4>1 DEF Routed, Between
      <4>3. k < SeparatorsOf(l)[b]
        BY <4>1 DEF Leads
      <4>4. y \in Key /\ SeparatorsOf(l)[b] \in Int
        BY <1>1, <3>1, <4>1 DEF Routed
      <4> QED  BY <4>2, <4>3, <4>4, KeysAreNumbers
    <3> QED  BY <1>1, <3>2
  <2> HIDE DEF x
  <2> QED  BY <1>1, <2>1, BlockTakesPoint
<1> DEFINE joined == Joined(l.slots[b + 1], x, size)
           shifted == Shifted(block, k, at)
           first == at = 1 /\ ~ (k >= last) /\ b > 1
           after == IF k >= last THEN over
                    ELSE [over EXCEPT !.slots[b] = shifted,
                            !.slotkeys = IF at = 1 /\ b > 1
                                         THEN [over.slotkeys EXCEPT ![b - 1] = k]
                                         ELSE over.slotkeys]
<1>5. InsertNextBlock(l, k, b) = [after EXCEPT !.slotkeys[b] = after.slots[b + 1][1]]
  BY DEF InsertNextBlock, Shifted
<1>6. shifted \in [1..Cap -> Key \cup {MAX}]
  <2>1. \A i \in 1..Cap : block[i] \in Key
    BY <1>1 DEF BlockOK
  <2>2. Cardinality({i \in 1..Cap - 1 : block[i] <= k}) \in 0..Cap - 1
    BY <1>1, PlaceInFullBlock
  <2>3. at \in 1..Cap
    BY <1>1, <2>2
  <2> HIDE DEF at
  <2>4. ASSUME NEW i \in 1..Cap
        PROVE  (IF i < at THEN block[i] ELSE IF i = at THEN k ELSE block[i - 1]) \in Key
    <3>1. CASE i <= at
      BY <2>1, <2>3, <3>1
    <3>2. CASE at < i
      <4>1. i - 1 \in 1..Cap /\ ~ (i < at) /\ i # at
        BY <1>1, <2>3, <3>2
      <4> QED  BY <2>1, <4>1
    <3> QED  BY <2>3, <3>1, <3>2
  <2> QED  BY <2>4 DEF Shifted
<1> DEFINE slots2 == [l.slots EXCEPT ![b] = IF k >= last THEN @ ELSE shifted,
                                     ![b + 1] = joined]
           keys2 == IF first THEN [over.slotkeys EXCEPT ![b - 1] = k] ELSE over.slotkeys
           perSize2 == over.perSize
<1>7. after = [num |-> l.num, slotkeys |-> keys2, perSize |-> perSize2, slots |-> slots2]
  <2> HIDE DEF at, x, last, size, joined, shifted
  <2>1. over = [num |-> l.num, slotkeys |-> over.slotkeys, perSize |-> perSize2,
                slots |-> over.slots]
        /\ over.slots = [l.slots EXCEPT ![b + 1] = joined]
    BY <1>2 DEF LeafRecords, joined
  <2>2. slots2 = IF k >= last THEN over.slots ELSE [over.slots EXCEPT ![b] = shifted]
    BY <1>1, <1>3, <2>1 DEF last
  <2> HIDE DEF over, slots2, perSize2
  <2>3. CASE k >= last
    BY <2>1, <2>2, <2>3
  <2>4. CASE ~ (k >= last)
    <3>1. keys2 = IF at = 1 /\ b > 1 THEN [over.slotkeys EXCEPT ![b - 1] = k]
                  ELSE over.slotkeys
      BY <2>4
    <3>2. after = [over EXCEPT !.slots[b] = shifted, !.slotkeys = keys2]
      BY <2>4, <3>1
    <3> HIDE DEF after, keys2
    <3>3. [over EXCEPT !.slots[b] = shifted, !.slotkeys = keys2]
            = [num |-> l.num, slotkeys |-> keys2, perSize |-> perSize2,
               slots |-> [over.slots EXCEPT ![b] = shifted]]
      <4> DEFINE mid == [over EXCEPT !.slots[b] = shifted]
      <4>1. mid = [num |-> l.num, slotkeys |-> over.slotkeys, perSize |-> perSize2,
                   slots |-> [over.slots EXCEPT ![b] = shifted]]
        BY <2>1
      <4>2. [over EXCEPT !.slots[b] = shifted, !.slotkeys = keys2]
              = [mid EXCEPT !.slotkeys = keys2]
        OBVIOUS
      <4> HIDE DEF mid
      <4>3. [mid EXCEPT !.slotkeys = keys2]
              = [num |-> l.num, slotkeys |-> keys2, perSize |-> perSize2,
                 slots |-> [over.slots EXCEPT ![b] = shifted]]
        BY <4>1
      <4> QED  BY <4>2, <4>3
    <3> QED  BY <2>2, <2>4, <3>2, <3>3
  <2> QED  BY <2>3, <2>4
<1>8. slots2[b + 1][1] = x
  <2> HIDE DEF x, shifted
  <2> QED  BY <1>1, <1>3, <1>4
<1> HIDE DEF after
<1>9. InsertNextBlock(l, k, b)
        = [num |-> l.num, slotkeys |-> [keys2 EXCEPT ![b] = x], perSize |-> perSize2,
           slots |-> slots2]
  <2> HIDE DEF keys2, perSize2, slots2, x
  <2> QED  BY <1>5, <1>7, <1>8
<1>10. /\ over.slotkeys \in [1..MaxBlockNum - 1 -> 0..MAX]
       /\ \A c \in 1..MaxBlockNum - 1 : c # b => over.slotkeys[c] = l.slotkeys[c]
  <2>1. over.slotkeys \in [1..MaxBlockNum - 1 -> 0..MAX]
    BY <1>2 DEF LeafRecords
  <2>2. b + 1 > 1 /\ (b + 1) - 1 = b
    BY <1>1
  <2>3. \A c \in 1..MaxBlockNum - 1 : c # b => SlotkeysWith(l, x, b + 1)[c] = l.slotkeys[c]
    <3> HIDE DEF x
    <3> QED  BY <1>3, <2>2 DEF SlotkeysWith
  <2> QED  BY <1>2, <2>1, <2>3
<1>11. /\ keys2 \in [1..MaxBlockNum - 1 -> 0..MAX]
       /\ \A c \in 1..MaxBlockNum - 1 : c # b =>
            keys2[c] = IF c = b - 1 /\ first THEN k ELSE l.slotkeys[c]
  <2>1. k \in 0..MAX
    BY KeysAreNumbers
  <2>2. b > 1 => b - 1 \in 1..MaxBlockNum - 1
    BY <1>1
  <2> HIDE DEF at, last, over
  <2> QED  BY <1>10, <2>1, <2>2
<1>12. [keys2 EXCEPT ![b] = x] \in [1..MaxBlockNum - 1 -> 0..MAX]
  <2>1. x \in 0..MAX
    <3> HIDE DEF x
    <3> QED  BY <1>1, KeysAreNumbers
  <2> HIDE DEF x, keys2
  <2> QED  BY <1>11, <2>1
<1>13. slots2 \in [1..MaxBlockNum -> [1..Cap -> Key \cup {MAX}]]
  <2>1. joined \in [1..Cap -> Key \cup {MAX}]
    <3> HIDE DEF x
    <3>1. BlockOK(joined, size + 1)
      BY <1>1, BlockTakesPoint
    <3> QED  BY <3>1 DEF BlockOK
  <2> HIDE DEF joined, shifted, last
  <2> QED  BY <1>1, <1>3, <1>6, <2>1
<1>14. perSize2 \in [1..MaxBlockNum -> 0..Cap]
  BY <1>2 DEF LeafRecords
<1>15. InsertNextBlock(l, k, b) \in LeafRecords
  <2> HIDE DEF keys2, slots2, perSize2, x
  <2>1. l.num \in 0..MaxBlockNum
    BY <1>1 DEF LeafRecords
  <2> QED  BY <1>9, <1>12, <1>13, <1>14, <2>1 DEF LeafRecords
<1>16. \A c \in 1..l.num - 1 :
         [keys2 EXCEPT ![b] = x][c] = IF c = b THEN x
                                      ELSE IF c = b - 1 /\ at = 1 /\ ~ (k >= last) THEN k
                                      ELSE l.slotkeys[c]
  <2> SUFFICES ASSUME NEW c \in 1..l.num - 1
               PROVE  [keys2 EXCEPT ![b] = x][c]
                        = IF c = b THEN x
                          ELSE IF c = b - 1 /\ at = 1 /\ ~ (k >= last) THEN k
                          ELSE l.slotkeys[c]
    OBVIOUS
  <2>1. c \in 1..MaxBlockNum - 1 /\ (c = b - 1 => b > 1)
    BY <1>1
  <2> DEFINE lower == at = 1 /\ ~ (k >= last)
  <2>2. first <=> lower /\ b > 1
    OBVIOUS
  <2> HIDE DEF x, keys2, first, lower
  <2>3. [keys2 EXCEPT ![b] = x][c] = IF c = b THEN x ELSE IF c = b - 1 /\ lower THEN k
                                     ELSE l.slotkeys[c]
    BY <1>11, <2>1, <2>2
  <2> QED  BY <2>3 DEF lower
<1> HIDE DEF keys2, perSize2
<1>17. /\ InsertNextBlock(l, k, b).num = l.num
       /\ InsertNextBlock(l, k, b).perSize = [l.perSize EXCEPT ![b + 1] = @ + 1]
       /\ InsertNextBlock(l, k, b).slots = slots2
       /\ InsertNextBlock(l, k, b).slotkeys = [keys2 EXCEPT ![b] = x]
  <2> HIDE DEF slots2, x
  <2> QED  BY <1>2, <1>9 DEF perSize2
<1>18. slots2 = [l.slots EXCEPT ![b] = IF k >= last THEN @ ELSE Shifted(@, k, at),
                                ![b + 1] = Joined(@, x, size)]
  <2> HIDE DEF x, last, at, size
  <2> QED  BY <1>1, <1>3
<1> HIDE DEF slots2
<1> QED  BY <1>15, <1>16, <1>17, <1>18 DEF NextBlockOpened

LEMMA InsertNextBlockSound ==
  ASSUME NEW l, Sound(l), KeysApart, NEW k \in Key, NEW b \in 1..l.num - 1,
         l.perSize[b] = Cap, l.perSize[b + 1] < Cap,
         Leads(l.num, SeparatorsOf(l), k, b)
  PROVE  Sound(InsertNextBlock(l, k, b)) /\ InsertNextBlock(l, k, b).num = l.num
<1> DEFINE m     == InsertNextBlock(l, k, b)
           n     == l.num
           block == l.slots[b]
           last  == block[Cap]
           x     == IF k >= last THEN k ELSE last
           at    == 1 + Cardinality({i \in 1..Cap - 1 : block[i] <= k})
           size  == l.perSize[b + 1]
           next  == l.slots[b + 1]
           joined == Joined(next, x, size)
           kept   == IF k >= last THEN block ELSE Shifted(block, k, at)
           lower  == at = 1 /\ ~ (k >= last)
           K     == KeysIn(l)
           sep   == SeparatorsOf(l)
<1>1. /\ m \in LeafRecords
      /\ m.num = n
      /\ m.perSize = [l.perSize EXCEPT ![b + 1] = @ + 1]
      /\ m.slots = [l.slots EXCEPT ![b] = kept, ![b + 1] = joined]
      /\ \A c \in 1..n - 1 :
           m.slotkeys[c] = IF c = b THEN x ELSE IF c = b - 1 /\ lower THEN k
                           ELSE l.slotkeys[c]
  <2>1. /\ m \in LeafRecords
        /\ m.num = n
        /\ m.perSize = [l.perSize EXCEPT ![b + 1] = @ + 1]
        /\ m.slots = [l.slots EXCEPT ![b] = IF k >= last THEN @ ELSE Shifted(@, k, at),
                                     ![b + 1] = Joined(@, x, size)]
        /\ \A c \in 1..n - 1 :
             m.slotkeys[c] = IF c = b THEN x
                             ELSE IF c = b - 1 /\ at = 1 /\ ~ (k >= last) THEN k
                             ELSE l.slotkeys[c]
    <3>1. NextBlockOpened(l, k, b, m)
      BY InsertNextBlockIs
    <3> HIDE DEF m
    <3> QED  BY <3>1 DEF NextBlockOpened
  <2>2. l \in LeafRecords /\ n \in Nat
    BY LeafNumbers DEF Sound
  <2>3. l.slots \in [1..MaxBlockNum -> [1..Cap -> Key \cup {MAX}]] /\ b # b + 1
        /\ b \in 1..MaxBlockNum /\ b + 1 \in 1..MaxBlockNum
    <3>1. b \in 1..n /\ b + 1 \in 1..n
      BY <2>2
    <3> QED  BY <2>2, <3>1, LeafNumbers DEF LeafRecords
  <2> HIDE DEF m, n, x, last, at, size
  <2>4. m.slots = [l.slots EXCEPT ![b] = kept, ![b + 1] = joined]
    BY <2>1, <2>3
  <2>5. \A c \in 1..n - 1 :
          m.slotkeys[c] = IF c = b THEN x ELSE IF c = b - 1 /\ lower THEN k
                          ELSE l.slotkeys[c]
    BY <2>1
  <2> QED  BY <2>1, <2>4, <2>5
<1>2. /\ l \in LeafRecords /\ n \in Nat \ {0} /\ b \in 1..n /\ b + 1 \in 1..n /\ b # b + 1
      /\ b \in 1..MaxBlockNum /\ b + 1 \in 1..MaxBlockNum
      /\ n > 1 /\ \A c \in 1..n - 1 : c \in 1..MaxBlockNum - 1 /\ l.slotkeys[c] \in Nat
      /\ \A a \in 1..n : a \in 1..MaxBlockNum
      /\ Cap \in Nat \ {0} /\ k \in Nat
      /\ Routed(n, K, sep) /\ b \in 1..n - 1 /\ Leads(n, sep, k, b)
      /\ BlockOK(block, Cap) /\ BlockOK(next, size) /\ size < Cap
      /\ BlankFrom(next, size)
      /\ l.perSize[b] = Cap
  <2>1. l \in LeafRecords
    BY DEF Sound
  <2>2. n \in Nat
    BY <2>1, LeafNumbers
  <2>3. n \in Nat \ {0} /\ b \in 1..n /\ b + 1 \in 1..n /\ b # b + 1 /\ n > 1
    BY <2>2
  <2> QED  BY <2>1, <2>3, LeafNumbers, KeysAreNumbers DEF Sound
<1>3. /\ last \in Key /\ last \in Nat /\ last \in KeysOf(block, Cap)
      /\ \A y \in KeysOf(block, Cap) : y <= last /\ y \in Nat
  <2>1. last \in Key /\ last \in KeysOf(block, Cap)
    BY <1>2 DEF BlockOK, KeysOf
  <2>2. \A y \in KeysOf(block, Cap) : y <= last /\ y \in Key
    BY <1>2 DEF BlockOK, KeysOf
  <2> QED  BY <2>1, <2>2, KeysAreNumbers
<1>4. /\ x \in Key /\ x \in Nat /\ k <= x /\ x \in KeysOf(block, Cap) \cup {k}
      /\ \A y \in KeysOf(block, Cap) : y <= x
  BY <1>2, <1>3
<1>5. /\ BlockOK(joined, size + 1)
      /\ KeysOf(joined, size + 1) = KeysOf(next, size) \cup {x}
      /\ BlankFrom(joined, size + 1)
  <2> HIDE DEF x, next, size
  <2> QED  BY <1>2, <1>4, BlockTakesPoint
<1>6. /\ BlockOK(kept, Cap)
      /\ KeysOf(kept, Cap) \in SUBSET (KeysOf(block, Cap) \cup {k})
      /\ \A y \in KeysOf(block, Cap) \cup {k} : y < x => y \in KeysOf(kept, Cap)
      /\ lower => \A y \in KeysOf(block, Cap) : k < y
  <2>1. CASE k >= last
    <3>1. kept = block /\ x = k /\ ~ lower
      BY <2>1
    <3> HIDE DEF kept, x, lower
    <3> QED  BY <1>2, <1>3, <2>1, <3>1
  <2>2. CASE ~ (k >= last)
    <3>1. kept = Shifted(block, k, at) /\ x = last /\ k < last /\ (lower <=> at = 1)
      BY <1>2, <1>3, <2>2
    <3>2. /\ BlockOK(Shifted(block, k, at), Cap)
          /\ KeysOf(Shifted(block, k, at), Cap) \subseteq KeysOf(block, Cap) \cup {k}
          /\ \A y \in KeysOf(block, Cap) \cup {k} :
               y < last => y \in KeysOf(Shifted(block, k, at), Cap)
          /\ at = 1 => \A y \in KeysOf(block, Cap) : k < y
      BY <1>2, <3>1, BlockTakesTurn
    <3> HIDE DEF kept, x, lower, at
    <3> QED  BY <3>1, <3>2
  <2> QED  BY <2>1, <2>2
<1> HIDE DEF m, block, last, x, at, joined, kept, lower, next, size, n
<1>7. /\ m.perSize[b] = Cap /\ m.slots[b] = kept
      /\ m.perSize[b + 1] = size + 1 /\ m.slots[b + 1] = joined
      /\ \A a \in 1..n : a # b /\ a # b + 1 =>
           m.perSize[a] = l.perSize[a] /\ m.slots[a] = l.slots[a]
  <2>1. /\ l.perSize \in [1..MaxBlockNum -> 0..Cap]
        /\ l.slots \in [1..MaxBlockNum -> [1..Cap -> Key \cup {MAX}]]
    BY <1>2 DEF LeafRecords
  <2>2. l.perSize[b + 1] = size
    BY DEF size
  <2> QED  BY <1>1, <1>2, <2>1, <2>2
<1>8. \A a \in 1..m.num : BlockOK(m.slots[a], m.perSize[a])
  BY <1>1, <1>2, <1>5, <1>6, <1>7 DEF Sound, n
<1>9. \A a \in 1..m.num : BlankFrom(m.slots[a], m.perSize[a])
  <2>1. BlankFrom(kept, Cap)
    BY <1>2 DEF BlankFrom
  <2> QED  BY <1>1, <1>2, <1>5, <1>7, <2>1 DEF Sound, n
<1>10. /\ K = [a \in 1..n |-> KeysOf(l.slots[a], l.perSize[a])]
       /\ sep = [c \in 1..n - 1 |-> l.slotkeys[c]]
       /\ K[b] = KeysOf(block, Cap) /\ K[b + 1] = KeysOf(next, size)
  BY <1>2 DEF KeysIn, SeparatorsOf, n, block, next, size
<1> DEFINE sep1 == IF lower /\ b > 1 THEN [sep EXCEPT ![b - 1] = k] ELSE sep
<1> HIDE DEF K, sep
<1>11. Routed(n, K, sep1) /\ Leads(n, sep1, k, b)
  <2>1. CASE lower /\ b > 1
    <3>1. b \in 2..n /\ \A y \in K[b] : k < y
      BY <1>2, <1>6, <1>10, <2>1
    <3>2. /\ Routed(n, K, [sep EXCEPT ![b - 1] = k])
          /\ Leads(n, [sep EXCEPT ![b - 1] = k], k, b)
      BY <1>2, <3>1, RaiseSeparator
    <3> QED  BY <2>1, <3>2
  <2>2. CASE ~ (lower /\ b > 1)
    BY <1>2, <2>2
  <2> QED  BY <2>1, <2>2
<1> DEFINE K2 == [K EXCEPT ![b] = KeysOf(kept, Cap), ![b + 1] = @ \cup {x}]
           sep2 == [sep1 EXCEPT ![b] = x]
<1>12. Routed(n, K2, sep2)
  <2> HIDE DEF sep1
  <2>1. /\ x \in K[b] \cup {k} /\ k <= x /\ \A y \in K[b] : y <= x
        /\ KeysOf(kept, Cap) \in SUBSET (K[b] \cup {k})
        /\ \A y \in K[b] \cup {k} : y < x => y \in KeysOf(kept, Cap)
    BY <1>4, <1>6, <1>10
  <2> QED  BY <1>2, <1>11, <2>1, Overflow
<1>13. KeysIn(m) = K2
  <2>1. KeysIn(m) = [a \in 1..n |-> KeysOf(m.slots[a], m.perSize[a])]
    BY <1>1 DEF KeysIn
  <2>2. \A a \in 1..n : KeysOf(m.slots[a], m.perSize[a])
          = IF a = b THEN KeysOf(kept, Cap) ELSE IF a = b + 1 THEN K[b + 1] \cup {x}
            ELSE K[a]
    BY <1>2, <1>5, <1>7, <1>10
  <2> QED  BY <1>2, <1>10, <2>1, <2>2
<1>14. SeparatorsOf(m) = sep2
  <2>1. SeparatorsOf(m) = [c \in 1..n - 1 |-> m.slotkeys[c]]
    BY <1>1 DEF SeparatorsOf
  <2>2. \A c \in 1..n - 1 : c = b - 1 => b > 1
    BY <1>2
  <2>3. sep1 = [c \in 1..n - 1 |-> IF c = b - 1 /\ lower THEN k ELSE l.slotkeys[c]]
    BY <1>2, <1>10, <2>2
  <2> HIDE DEF sep1
  <2>4. sep2 = [c \in 1..n - 1 |-> IF c = b THEN x
                                  ELSE IF c = b - 1 /\ lower THEN k ELSE l.slotkeys[c]]
    BY <1>2, <2>3
  <2>5. \A c \in 1..n - 1 :
          m.slotkeys[c] = IF c = b THEN x
                          ELSE IF c = b - 1 /\ lower THEN k ELSE l.slotkeys[c]
    BY <1>1, <1>2
  <2> HIDE DEF sep2
  <2> QED  BY <2>1, <2>4, <2>5
<1>15. Sound(m)
  BY <1>1, <1>8, <1>9, <1>12, <1>13, <1>14 DEF Sound
<1> QED  BY <1>1, <1>15 DEF m, n

(* The last of the points of block b goes to the next block, if the new    *)
(* one does not.                                                           *)
LEMMA ShiftedCounts ==
  ASSUME NEW block, BlockOK(block, Cap), NEW k \in Key, NEW y,
         NEW at, at = 1 + Cardinality({i \in 1..Cap - 1 : block[i] <= k})
  PROVE  Occurs(Shifted(block, k, at), Cap, y) + Adds(block[Cap], y)
           = Occurs(block, Cap, y) + Adds(k, y)
<1> DEFINE s == Shifted(block, k, at)
<1>1. Cap - 1 \in Nat /\ (Cap - 1) + 1 = Cap /\ Cap \in Nat \ {0}
  BY KeysAreNumbers
<1>2. at \in 1..(Cap - 1) + 1
  <2>1. Cardinality({i \in 1..Cap - 1 : block[i] <= k}) \in 0..Cap - 1
    BY PlaceInFullBlock
  <2> QED  BY <1>1, <2>1
<1>3. s = [i \in 1..Cap |-> IF i < at THEN block[i] ELSE IF i = at THEN k ELSE block[i - 1]]
  BY DEF Shifted
<1> HIDE DEF s
<1>4. PutIn(block, s, Cap - 1, at) /\ s[at] = k
  <2>1. ASSUME NEW i \in 1..Cap - 1, i < at
        PROVE  s[i] = block[i]
    BY <1>1, <1>3, <2>1
  <2>2. ASSUME NEW i \in 1..Cap - 1, at <= i
        PROVE  s[i + 1] = block[i]
    <3>1. i + 1 \in 1..Cap /\ ~ (i + 1 < at) /\ i + 1 # at /\ (i + 1) - 1 = i
      BY <1>1, <1>2, <2>2
    <3> QED  BY <1>3, <3>1
  <2>3. s[at] = k
    BY <1>1, <1>2, <1>3
  <2> QED  BY <2>1, <2>2, <2>3 DEF PutIn
<1>5. Occurs(s, (Cap - 1) + 1, y) = Occurs(block, Cap - 1, y) + OneIf(s, at, y)
  BY <1>1, <1>2, <1>4, OccursPutIn
<1>6. Occurs(block, (Cap - 1) + 1, y)
        = Occurs(block, Cap - 1, y) + OneIf(block, (Cap - 1) + 1, y)
  BY <1>1, OccursNext
<1>7. OneIf(s, at, y) = Adds(k, y) /\ OneIf(block, Cap, y) = Adds(block[Cap], y)
  BY <1>4 DEF OneIf, Adds
<1>8. Occurs(block, Cap - 1, y) \in Nat
  BY <1>1, OccursIsNumber
<1>9. Adds(k, y) \in Nat /\ Adds(block[Cap], y) \in Nat
  BY DEF Adds
<1> QED  BY <1>1, <1>5, <1>6, <1>7, <1>8, <1>9 DEF s

LEMMA InsertNextBlockCounts ==
  ASSUME NEW l, Sound(l), NEW k \in Key, NEW b \in 1..l.num - 1,
         l.perSize[b] = Cap, l.perSize[b + 1] < Cap,
         Leads(l.num, SeparatorsOf(l), k, b), NEW y
  PROVE  Stored(InsertNextBlock(l, k, b), y) = Stored(l, y) + Adds(k, y)
<1> DEFINE m     == InsertNextBlock(l, k, b)
           n     == l.num
           block == l.slots[b]
           last  == block[Cap]
           x     == IF k >= last THEN k ELSE last
           at    == 1 + Cardinality({i \in 1..Cap - 1 : block[i] <= k})
           over  == InsertDataBlock(l, x, b + 1)
           kept  == IF k >= last THEN block ELSE Shifted(block, k, at)
<1>1. /\ l \in LeafRecords /\ n \in Nat /\ b \in 1..n /\ b + 1 \in 1..n
      /\ b \in 1..MaxBlockNum /\ b + 1 \in 1..MaxBlockNum /\ b # b + 1
      /\ n \in b..MaxBlockNum /\ n \in b + 1..MaxBlockNum
      /\ BlockOK(block, Cap) /\ BlockOK(l.slots[b + 1], l.perSize[b + 1])
      /\ last \in Key /\ x \in Key
  <2>1. l \in LeafRecords
    BY DEF Sound
  <2>2. n \in Nat /\ n <= MaxBlockNum /\ MaxBlockNum \in Nat
    BY <2>1, LeafNumbers, KeysAreNumbers DEF LeafRecords
  <2>3. b \in 1..n /\ b + 1 \in 1..n /\ b # b + 1
    BY <2>2
  <2>4. b \in 1..MaxBlockNum /\ b + 1 \in 1..MaxBlockNum
        /\ n \in b..MaxBlockNum /\ n \in b + 1..MaxBlockNum
    BY <2>2, <2>3
  <2>5. BlockOK(block, Cap) /\ BlockOK(l.slots[b + 1], l.perSize[b + 1])
    BY <2>3 DEF Sound
  <2>6. last \in Key
    BY <2>5, KeysAreNumbers DEF BlockOK
  <2> QED  BY <2>1, <2>2, <2>3, <2>4, <2>5, <2>6
<1>2. /\ over \in LeafRecords
      /\ over.perSize = [l.perSize EXCEPT ![b + 1] = @ + 1]
      /\ over.slots = [l.slots EXCEPT ![b + 1] = Joined(l.slots[b + 1], x, l.perSize[b + 1])]
  <2> HIDE DEF x
  <2>1. PointInserted(l, x, b + 1, over)
    BY <1>1, InsertDataBlockIs
  <2> HIDE DEF over
  <2> QED  BY <2>1 DEF PointInserted
<1>3. /\ m \in LeafRecords /\ m.num = n
      /\ m.perSize = [l.perSize EXCEPT ![b + 1] = @ + 1]
      /\ m.slots = [l.slots EXCEPT
           ![b] = IF k >= last THEN @ ELSE Shifted(@, k, at),
           ![b + 1] = Joined(@, x, l.perSize[b + 1])]
  <2>1. NextBlockOpened(l, k, b, m)
    BY InsertNextBlockIs
  <2> HIDE DEF m
  <2> QED  BY <2>1 DEF NextBlockOpened
<1>4. CountTo(over, n, y) = CountTo(l, n, y) + Adds(x, y)
  <2> HIDE DEF x
  <2> QED  BY <1>1, InsertDataBlockCounts
<1> HIDE DEF over, m, x, at
<1>5. /\ DifferAt(over, m, b)
      /\ m.slots[b] = kept /\ m.perSize[b] = Cap
      /\ over.slots[b] = block /\ over.perSize[b] = Cap
  <2>1. /\ l.perSize \in [1..MaxBlockNum -> 0..Cap]
        /\ l.slots \in [1..MaxBlockNum -> [1..Cap -> Key \cup {MAX}]]
    BY <1>1 DEF LeafRecords
  <2>2. m.perSize = over.perSize
    BY <1>2, <1>3
  <2>3. over.slots[b] = block /\ over.perSize[b] = Cap
    BY <1>1, <1>2, <2>1
  <2>4. m.slots[b] = kept
    BY <1>1, <1>3, <2>1
  <2>5. ASSUME NEW a \in 1..MaxBlockNum, a # b
        PROVE  m.slots[a] = over.slots[a]
    BY <1>1, <1>2, <1>3, <2>1, <2>5
  <2> QED  BY <2>2, <2>3, <2>4, <2>5 DEF DifferAt
<1>6. CountTo(m, n, y) + OccursIn(over, b, y) = CountTo(over, n, y) + OccursIn(m, b, y)
  BY <1>1, <1>2, <1>3, <1>5, CountDiffers
<1>7. OccursIn(over, b, y) = Occurs(block, Cap, y) /\ OccursIn(m, b, y) = Occurs(kept, Cap, y)
  <2> HIDE DEF block, kept
  <2> QED  BY <1>5 DEF OccursIn
<1>8. Occurs(kept, Cap, y) + Adds(x, y) = Occurs(block, Cap, y) + Adds(k, y)
  <2>1. CASE k >= last
    BY <2>1 DEF x
  <2>2. CASE ~ (k >= last)
    <3>1. kept = Shifted(block, k, at) /\ x = last
      BY <2>2 DEF x
    <3>2. Occurs(Shifted(block, k, at), Cap, y) + Adds(last, y)
            = Occurs(block, Cap, y) + Adds(k, y)
      BY <1>1, ShiftedCounts DEF at
    <3> HIDE DEF kept, block, last
    <3> QED  BY <3>1, <3>2
  <2> QED  BY <2>1, <2>2
<1>9. /\ CountTo(m, n, y) \in Nat /\ CountTo(l, n, y) \in Nat
      /\ Occurs(kept, Cap, y) \in Nat /\ Occurs(block, Cap, y) \in Nat
      /\ Adds(x, y) \in Nat /\ Adds(k, y) \in Nat
  BY <1>1, CountIsNumber, OccursIsNumber, KeysAreNumbers DEF Adds
<1>10. CountTo(m, n, y) = CountTo(l, n, y) + Adds(k, y)
  <2> HIDE DEF kept, block
  <2> QED  BY <1>4, <1>6, <1>7, <1>8, <1>9
<1>11. Stored(m, y) = CountTo(m, n, y) /\ Stored(l, y) = CountTo(l, n, y)
  BY <1>3, StoredIsCount
<1> QED  BY <1>10, <1>11 DEF m

----------------------------------------------------------------------------
(* ExtractDataset: the points of the blocks one after the other.           *)
Appended(points, block, size, q) ==
  /\ q \in Seq(Key)
  /\ Len(q) = Len(points) + size
  /\ \A i \in 1..Len(points) : q[i] = points[i]
  /\ \A i \in 1..size : q[Len(points) + i] = block[i]

LEMMA ExtractedFromBlock ==
  ASSUME NEW points \in Seq(Key), NEW block, NEW size, BlockOK(block, size),
         BlankFrom(block, size)
  PROVE  Appended(points, block, size, Extracted(points, block))
<1> DEFINE n == Len(points)
           len(i) == IF i <= size THEN n + i ELSE n + size
           upTo(i) == [j \in 1..len(i) |-> IF j <= n THEN points[j] ELSE block[j - n]]
           Is(f) == f = [i \in 0..Cap |->
                           IF i = 0 THEN points
                           ELSE IF block[i] = MAX THEN f[i - 1]
                           ELSE Append(f[i - 1], block[i])]
<1>1. /\ n \in Nat /\ size \in Nat /\ size <= Cap /\ Cap \in Nat \ {0}
      /\ points \in [1..n -> Key]
      /\ \A i \in 1..size : block[i] \in Key /\ block[i] # MAX
      /\ \A i \in 1..Cap : i > size => block[i] = MAX
  <2>1. \A i \in 1..size : block[i] \in Key /\ block[i] # MAX
    BY KeysAreNumbers DEF BlockOK
  <2>2. n \in Nat /\ points \in [1..n -> Key]
    OBVIOUS
  <2> QED  BY <2>1, <2>2, KeysAreNumbers DEF BlockOK, BlankFrom
<1> HIDE DEF n
<1>2. ASSUME NEW i \in 0..Cap
      PROVE  len(i) \in Nat /\ upTo(i) \in Seq(Key) /\ Len(upTo(i)) = len(i)
  <2>1. len(i) \in Nat /\ len(i) <= n + size
    BY <1>1
  <2>2. ASSUME NEW j \in 1..len(i)
        PROVE  (IF j <= n THEN points[j] ELSE block[j - n]) \in Key
    <3>1. j > n => j - n \in 1..size
      BY <1>1, <2>1
    <3>2. j <= n => j \in 1..n
      BY <1>1, <2>1
    <3>3. j <= n \/ j > n
      BY <1>1, <2>1
    <3> HIDE DEF len
    <3> QED  BY <1>1, <3>1, <3>2, <3>3
  <2> HIDE DEF len
  <2>3. upTo(i) \in [1..len(i) -> Key]
    BY <2>2
  <2> HIDE DEF upTo
  <2> QED  BY <2>1, <2>3
<1>3. upTo(0) = points
  <2>1. len(0) = n
    BY <1>1
  <2> QED  BY <1>1, <2>1
<1>4. ASSUME NEW i \in 1..Cap
      PROVE  upTo(i) = IF block[i] = MAX THEN upTo(i - 1) ELSE Append(upTo(i - 1), block[i])
  <2>0. i - 1 \in 0..Cap
    BY <1>1
  <2>1. CASE i <= size
    <3>1. len(i) = n + i /\ len(i - 1) = n + i - 1 /\ block[i] # MAX /\ block[i] \in Key
      BY <1>1, <2>1
    <3>2. upTo(i - 1) \in Seq(Key) /\ Len(upTo(i - 1)) = n + i - 1
      BY <1>2, <2>0, <3>1
    <3>3. Append(upTo(i - 1), block[i])
            = [j \in 1..n + i |-> IF j <= n + i - 1 THEN upTo(i - 1)[j] ELSE block[i]]
      <4> HIDE DEF upTo
      <4>1. (n + i - 1) + 1 = n + i
        BY <1>1
      <4> QED  BY <3>1, <3>2, <4>1
    <3>4. ASSUME NEW j \in 1..n + i
          PROVE  (IF j <= n THEN points[j] ELSE block[j - n])
                   = IF j <= n + i - 1 THEN upTo(i - 1)[j] ELSE block[i]
      <4>1. CASE j <= n + i - 1
        <5>1. j \in 1..len(i - 1)
          BY <1>1, <3>1, <4>1
        <5> HIDE DEF len
        <5> QED  BY <4>1, <5>1
      <4>2. CASE ~ (j <= n + i - 1)
        <5>1. j - n = i /\ ~ (j <= n)
          BY <1>1, <4>2
        <5> QED  BY <4>2, <5>1
      <4> QED  BY <4>1, <4>2
    <3>5. upTo(i) = [j \in 1..n + i |-> IF j <= n THEN points[j] ELSE block[j - n]]
      BY <3>1
    <3>6. upTo(i) = Append(upTo(i - 1), block[i])
      <4> HIDE DEF upTo
      <4> QED  BY <3>3, <3>4, <3>5
    <3> QED  BY <3>1, <3>6
  <2>2. CASE ~ (i <= size)
    <3>1. len(i) = n + size /\ len(i - 1) = n + size /\ block[i] = MAX
      BY <1>1, <2>2
    <3> HIDE DEF len
    <3> QED  BY <3>1
  <2> QED  BY <2>1, <2>2
<1> HIDE DEF upTo
<1>5. Is([i \in 0..Cap |-> upTo(i)])
  <2> DEFINE f == [i \in 0..Cap |-> upTo(i)]
  <2>1. ASSUME NEW i \in 0..Cap
        PROVE  upTo(i) = IF i = 0 THEN points
                         ELSE IF block[i] = MAX THEN f[i - 1]
                         ELSE Append(f[i - 1], block[i])
    <3>1. CASE i = 0
      BY <1>3, <3>1
    <3>2. CASE i # 0
      <4>1. i \in 1..Cap /\ i - 1 \in 0..Cap
        BY <1>1, <3>2
      <4>2. f[i - 1] = upTo(i - 1)
        BY <4>1
      <4> HIDE DEF f
      <4> QED  BY <1>4, <3>2, <4>1, <4>2
    <3> QED  BY <3>1, <3>2
  <2> QED  BY <2>1
<1>6. PICK f : Is(f) /\ Extracted(points, block) = f[Cap]
  <2>1. Extracted(points, block) = (CHOOSE f : Is(f))[Cap]
    BY DEF Extracted
  <2> HIDE DEF Is
  <2> QED  BY <1>5, <2>1
<1> DEFINE S == {i \in Nat : i <= Cap => f[i] = upTo(i)}
<1>7. 0 \in S
  BY <1>1, <1>3, <1>6
<1>8. ASSUME NEW i \in Nat, i \in S
      PROVE  i + 1 \in S
  <2> SUFFICES ASSUME i + 1 <= Cap
               PROVE  f[i + 1] = upTo(i + 1)
    OBVIOUS
  <2>1. i + 1 \in 1..Cap /\ (i + 1) - 1 = i /\ i + 1 \in 0..Cap /\ f[i] = upTo(i)
    BY <1>1, <1>8
  <2>2. f[i + 1] = IF block[i + 1] = MAX THEN f[(i + 1) - 1]
                   ELSE Append(f[(i + 1) - 1], block[i + 1])
    <3>1. \A a \in 0..Cap : f[a] = IF a = 0 THEN points
                                  ELSE IF block[a] = MAX THEN f[a - 1]
                                  ELSE Append(f[a - 1], block[a])
      BY <1>6
    <3>2. i + 1 # 0
      OBVIOUS
    <3> HIDE DEF Is
    <3> QED  BY <2>1, <3>1, <3>2
  <2>3. upTo(i + 1) = IF block[i + 1] = MAX THEN upTo((i + 1) - 1)
                      ELSE Append(upTo((i + 1) - 1), block[i + 1])
    BY <1>4, <2>1
  <2> QED  BY <2>1, <2>2, <2>3
<1> HIDE DEF S, Is
<1>9. f[Cap] = upTo(Cap)
  <2>1. Nat \subseteq S
    BY <1>7, <1>8, Induction
  <2>2. Cap \in S
    BY <1>1, <2>1
  <2> QED  BY <1>1, <2>2 DEF S
<1>10. /\ Cap \in 0..Cap /\ len(Cap) = n + size
  BY <1>1
<1>11. /\ \A i \in 1..n : upTo(Cap)[i] = points[i]
       /\ \A i \in 1..size : upTo(Cap)[n + i] = block[i]
  <2>1. upTo(Cap) = [j \in 1..n + size |-> IF j <= n THEN points[j] ELSE block[j - n]]
    BY <1>10 DEF upTo
  <2>2. ASSUME NEW i \in 1..n
        PROVE  upTo(Cap)[i] = points[i]
    <3>1. i \in 1..n + size /\ i <= n
      BY <1>1
    <3> QED  BY <2>1, <3>1
  <2>3. ASSUME NEW i \in 1..size
        PROVE  upTo(Cap)[n + i] = block[i]
    <3>1. n + i \in 1..n + size /\ ~ (n + i <= n) /\ (n + i) - n = i
      BY <1>1
    <3> QED  BY <2>1, <3>1
  <2> QED  BY <2>2, <2>3
<1> QED  BY <1>2, <1>6, <1>9, <1>10, <1>11 DEF n, Appended

(* ExtractDataset and GetDataNum, block by block.                          *)
ExtractsTo(l, q, b, cnt) ==
  /\ q \in Seq(Key) /\ cnt \in Nat /\ Len(q) = cnt /\ cnt <= b * Cap
  /\ \A i, j \in 1..cnt : i <= j => q[i] <= q[j]
  /\ \A i \in 1..cnt : \E c \in 1..b : q[i] \in KeysOf(l.slots[c], l.perSize[c])
  /\ \A c \in 1..b : l.perSize[c] <= cnt
  /\ \A x : Occurs(q, cnt, x) = CountTo(l, b, x)

LEMMA SeparatesThem ==
  ASSUME NEW n, NEW K, NEW sep, Between(n, K, sep), sep \in [1..n - 1 -> Int],
         NEW c \in 1..n - 1, NEW d \in 1..n, c \in 1..n, c <= c, ~ (d <= c),
         NEW x \in K[c], NEW y \in K[d]
  PROVE  x <= sep[c] /\ sep[c] <= y /\ sep[c] \in Int
BY DEF Between

LEMMA ExtractNextBlock ==
  ASSUME NEW l, Sound(l), NEW b \in 0..l.num - 1, NEW q, NEW cnt,
         ExtractsTo(l, q, b, cnt),
         BlankFrom(l.slots[b + 1], l.perSize[b + 1])
  PROVE  ExtractsTo(l, Extracted(q, l.slots[b + 1]), b + 1, cnt + l.perSize[b + 1])
<1> DEFINE block == l.slots[b + 1]
           size  == l.perSize[b + 1]
           q2    == Extracted(q, block)
           K     == KeysIn(l)
           sep   == SeparatorsOf(l)
<1>1. /\ l.num \in Nat \ {0} /\ b \in Nat /\ b + 1 \in 1..l.num
      /\ BlockOK(block, size) /\ size \in Nat /\ size <= Cap /\ Cap \in Nat
      /\ cnt \in Nat /\ q \in Seq(Key) /\ Len(q) = cnt
      /\ Routed(l.num, K, sep)
      /\ \A c \in 1..b : c \in 1..l.num /\ c \in 1..l.num - 1
      /\ \A c \in 1..l.num : l.perSize[c] \in Nat
  <2>1. l.num \in Nat /\ \A c \in 1..l.num : l.perSize[c] \in 0..Cap
    BY LeafNumbers DEF Sound
  <2>2. b + 1 \in 1..l.num /\ b \in Nat /\ l.num > 0
    BY <2>1
  <2>3. BlockOK(block, size) /\ Routed(l.num, K, sep)
    BY <2>2 DEF Sound
  <2>4. \A c \in 1..b : c \in 1..l.num /\ c \in 1..l.num - 1
    BY <2>1, <2>2
  <2>5. cnt \in Nat /\ q \in Seq(Key) /\ Len(q) = cnt
    BY DEF ExtractsTo
  <2> QED  BY <2>1, <2>2, <2>3, <2>4, <2>5, KeysAreNumbers DEF BlockOK
<1>2. /\ q2 \in Seq(Key) /\ Len(q2) = cnt + size
      /\ \A i \in 1..cnt : q2[i] = q[i]
      /\ \A i \in 1..size : q2[cnt + i] = block[i]
  <2>1. Appended(q, block, size, q2)
    BY <1>1, ExtractedFromBlock
  <2> HIDE DEF q2
  <2> QED  BY <1>1, <2>1 DEF Appended
<1>3. /\ \A c \in 1..l.num : K[c] = KeysOf(l.slots[c], l.perSize[c])
      /\ \A i \in 1..cnt : q[i] \in Nat
      /\ \A i \in 1..size : block[i] \in K[b + 1] /\ block[i] \in Nat
  <2>1. \A c \in 1..l.num : K[c] = KeysOf(l.slots[c], l.perSize[c])
    BY DEF KeysIn
  <2>2. \A i \in 1..cnt : q[i] \in Key
    BY <1>1
  <2>3. \A i \in 1..size : block[i] \in K[b + 1] /\ block[i] \in Key
    BY <1>1, <2>1 DEF KeysOf, BlockOK
  <2> QED  BY <2>1, <2>2, <2>3, KeysAreNumbers
<1> HIDE DEF q2, K, sep
<1>4. ASSUME NEW i \in 1..cnt + size
      PROVE  i \in 1..cnt \/ (i - cnt \in 1..size /\ cnt + (i - cnt) = i)
  BY <1>1
<1>5. ASSUME NEW i \in 1..cnt + size
      PROVE  \E c \in 1..b + 1 : q2[i] \in KeysOf(l.slots[c], l.perSize[c])
  <2>1. CASE i \in 1..cnt
    <3>1. PICK c \in 1..b : q[i] \in KeysOf(l.slots[c], l.perSize[c])
      BY <2>1 DEF ExtractsTo
    <3>2. c \in 1..b + 1 /\ q2[i] = q[i]
      BY <1>1, <1>2, <2>1
    <3> QED  BY <3>1, <3>2
  <2>2. CASE i - cnt \in 1..size /\ cnt + (i - cnt) = i
    <3>1. q2[i] = block[i - cnt] /\ b + 1 \in 1..b + 1
      BY <1>1, <1>2, <2>2
    <3> QED  BY <2>2, <3>1 DEF KeysOf
  <2> QED  BY <1>4, <2>1, <2>2
<1>6. ASSUME NEW i \in 1..cnt + size, NEW j \in 1..cnt + size, i <= j
      PROVE  q2[i] <= q2[j]
  <2>1. CASE j \in 1..cnt
    <3>1. i \in 1..cnt
      BY <1>1, <1>6, <2>1
    <3> QED  BY <1>2, <1>6, <2>1, <3>1 DEF ExtractsTo
  <2>2. CASE j - cnt \in 1..size /\ cnt + (j - cnt) = j
    <3>1. q2[j] = block[j - cnt]
      BY <1>2, <2>2
    <3>2. CASE i \in 1..cnt
      <4>1. PICK c \in 1..b : q[i] \in KeysOf(l.slots[c], l.perSize[c])
        BY <3>2 DEF ExtractsTo
      <4>2. q[i] \in K[c] /\ c \in 1..l.num /\ c \in 1..l.num - 1 /\ c <= c
            /\ ~ (b + 1 <= c) /\ block[j - cnt] \in K[b + 1]
        <5>1. c \in 1..l.num /\ c \in 1..l.num - 1 /\ c <= c /\ ~ (b + 1 <= c)
          BY <1>1
        <5>2. K[c] = KeysOf(l.slots[c], l.perSize[c])
          BY <1>3, <5>1
        <5>3. block[j - cnt] \in K[b + 1]
          BY <1>3, <2>2
        <5> QED  BY <4>1, <5>1, <5>2, <5>3
      <4>3. q[i] <= sep[c] /\ sep[c] <= block[j - cnt] /\ sep[c] \in Int
        <5>1. Between(l.num, K, sep) /\ sep \in [1..l.num - 1 -> Int] /\ b + 1 \in 1..l.num
          BY <1>1 DEF Routed
        <5> QED  BY <4>2, <5>1, SeparatesThem
      <4> QED  BY <1>2, <1>3, <2>2, <3>1, <3>2, <4>3
    <3>3. CASE i - cnt \in 1..size /\ cnt + (i - cnt) = i
      <4>0. q2[cnt + (i - cnt)] = block[i - cnt]
        BY <1>2, <3>3
      <4>1. q2[i] = block[i - cnt] /\ i - cnt <= j - cnt
        BY <1>1, <1>6, <3>3, <4>0
      <4> QED  BY <1>1, <2>2, <3>1, <3>3, <4>1 DEF BlockOK
    <3> QED  BY <1>4, <3>2, <3>3
  <2> QED  BY <1>4, <2>1, <2>2
<1>7. ASSUME NEW c \in 1..b + 1
      PROVE  l.perSize[c] <= cnt + size
  <2>1. CASE c = b + 1
    BY <1>1, <2>1
  <2>2. CASE c # b + 1
    <3>1. c \in 1..b /\ c \in 1..l.num
      BY <1>1, <2>2
    <3>2. l.perSize[c] <= cnt /\ l.perSize[c] \in Nat
      BY <1>1, <3>1 DEF ExtractsTo
    <3> QED  BY <1>1, <3>2
  <2> QED  BY <2>1, <2>2
<1>8. cnt + size <= (b + 1) * Cap
  <2>1. cnt <= b * Cap
    BY DEF ExtractsTo
  <2>2. (b + 1) * Cap = b * Cap + Cap /\ b * Cap \in Nat
    BY <1>1
  <2> QED  BY <1>1, <2>1, <2>2
<1>9. cnt + size \in Nat
  BY <1>1
<1>10. ASSUME NEW x
       PROVE  Occurs(q2, cnt + size, x) = CountTo(l, b + 1, x)
  <2>1. Occurs(q2, cnt + size, x) = Occurs(q, cnt, x) + Occurs(block, size, x)
    <3>1. Together(q, cnt, block, size, q2)
      BY <1>2 DEF Together
    <3> HIDE DEF size, block
    <3> QED  BY <1>1, <3>1, OccursAppended
  <2>2. Occurs(block, size, x) = OccursIn(l, b + 1, x)
    BY DEF OccursIn
  <2>3. CountTo(l, b + 1, x) = CountTo(l, b, x) + OccursIn(l, b + 1, x)
    <3>1. b + 1 <= MaxBlockNum /\ l \in LeafRecords
      <4>1. l \in LeafRecords /\ l.num \in 0..MaxBlockNum
        BY DEF Sound, LeafRecords
      <4> QED  BY <1>1, <4>1, KeysAreNumbers
    <3> HIDE DEF size, block
    <3> QED  BY <1>1, <3>1, CountNext
  <2>4. Occurs(q, cnt, x) = CountTo(l, b, x)
    BY DEF ExtractsTo
  <2> HIDE DEF size, block
  <2> QED  BY <2>1, <2>2, <2>3, <2>4
<1> HIDE DEF size, block
<1>11. ExtractsTo(l, q2, b + 1, cnt + size)
  BY <1>2, <1>5, <1>6, <1>7, <1>8, <1>9, <1>10 DEF ExtractsTo
<1> QED  BY <1>11 DEF q2, size, block

LEMMA ExtractDatasetIs ==
  ASSUME NEW l, Sound(l), l.num > 0,
         \A b \in 1..l.num : BlankFrom(l.slots[b], l.perSize[b])
  PROVE  ExtractsTo(l, ExtractDataset(l), l.num, GetDataNum(l))
<1> DEFINE n == l.num
           IsData(f) == f = [b \in 0..n |-> IF b = 0 THEN <<>>
                                            ELSE Extracted(f[b - 1], l.slots[b])]
           IsCount(f) == f = [b \in 0..n |-> IF b = 0 THEN 0
                                             ELSE f[b - 1] + l.perSize[b]]
<1>1. /\ n \in Nat \ {0} /\ n \in 0..n
      /\ \A b \in 1..n : /\ l.perSize[b] \in Nat /\ BlockOK(l.slots[b], l.perSize[b])
                         /\ BlankFrom(l.slots[b], l.perSize[b])
  <2>1. n \in Nat /\ \A b \in 1..n : l.perSize[b] \in 0..Cap
    BY LeafNumbers DEF Sound
  <2> QED  BY <2>1, KeysAreNumbers DEF Sound
<1>2. PICK cnt : /\ IsCount(cnt) /\ GetDataNum(l) = cnt[n]
  <2>1. GetDataNum(l) = (CHOOSE f : IsCount(f))[n]
    BY DEF GetDataNum
  <2> DEFINE w == [b \in Nat |-> IF b \in 1..n THEN l.perSize[b] ELSE 0]
  <2>2. w \in [Nat -> Nat] /\ \A b \in 1..n : w[b] = l.perSize[b]
    BY <1>1
  <2> HIDE DEF w
  <2>3. PICK f \in [Nat -> Nat] : f[0] = 0 /\ \A b \in Nat : f[b + 1] = f[b] + w[b + 1]
    BY <2>2, Sums
  <2>4. ASSUME NEW b \in 0..n
        PROVE  f[b] = IF b = 0 THEN 0 ELSE f[b - 1] + l.perSize[b]
    <3>1. CASE b = 0
      BY <2>3, <3>1
    <3>2. CASE b # 0
      <4>1. b - 1 \in Nat /\ (b - 1) + 1 = b /\ b \in 1..n
        BY <1>1, <3>2
      <4>2. f[(b - 1) + 1] = f[b - 1] + w[(b - 1) + 1]
        BY <2>3, <4>1
      <4> QED  BY <2>2, <3>2, <4>1, <4>2
    <3> QED  BY <3>1, <3>2
  <2> DEFINE h == [b \in 0..n |-> f[b]]
  <2>5. IsCount(h)
    <3>1. \A b \in 0..n : b # 0 => h[b - 1] = f[b - 1]
      BY <1>1
    <3> QED  BY <2>4, <3>1
  <2> HIDE DEF h, IsCount
  <2> QED  BY <2>1, <2>5
<1>3. PICK data : IsData(data) /\ ExtractDataset(l) = data[n]
  <2>1. ExtractDataset(l) = (CHOOSE f : IsData(f))[n]
    BY DEF ExtractDataset
  <2> DEFINE g == [p \in Nat \X Seq(Key) |-> IF p[1] \in 1..n
                                             THEN Extracted(p[2], l.slots[p[1]])
                                             ELSE p[2]]
  <2>2. \A b \in 1..n, q \in Seq(Key) : Extracted(q, l.slots[b]) \in Seq(Key)
    <3> SUFFICES ASSUME NEW b \in 1..n, NEW q \in Seq(Key)
                 PROVE  Extracted(q, l.slots[b]) \in Seq(Key)
      OBVIOUS
    <3>1. Appended(q, l.slots[b], l.perSize[b], Extracted(q, l.slots[b]))
      BY <1>1, ExtractedFromBlock
    <3> QED  BY <3>1 DEF Appended
  <2>3. g \in [Nat \X Seq(Key) -> Seq(Key)]
    BY <2>2
  <2>4. \A b \in 1..n, q \in Seq(Key) : g[<<b, q>>] = Extracted(q, l.slots[b])
    BY <1>1
  <2> HIDE DEF g
  <2>5. <<>> \in Seq(Key)
    OBVIOUS
  <2>6. PICK f : Recurs(f, Seq(Key), <<>>, g)
    BY <2>3, <2>5, Recursion
  <2>7. ASSUME NEW b \in 0..n
        PROVE  f[b] = IF b = 0 THEN <<>> ELSE Extracted(f[b - 1], l.slots[b])
    <3>1. CASE b = 0
      BY <2>6, <3>1 DEF Recurs
    <3>2. CASE b # 0
      <4>1. b - 1 \in Nat /\ (b - 1) + 1 = b /\ b \in 1..n
        BY <1>1, <3>2
      <4>2. f[(b - 1) + 1] = g[<<(b - 1) + 1, f[b - 1]>>] /\ f[b - 1] \in Seq(Key)
        BY <2>6, <4>1 DEF Recurs
      <4> QED  BY <2>4, <3>2, <4>1, <4>2
    <3> QED  BY <3>1, <3>2
  <2> DEFINE h == [b \in 0..n |-> f[b]]
  <2>8. IsData(h)
    <3>1. \A b \in 0..n : b # 0 => h[b - 1] = f[b - 1]
      BY <1>1
    <3> QED  BY <2>7, <3>1
  <2> HIDE DEF h, IsData
  <2> QED  BY <2>1, <2>8
<1>4. /\ \A b \in 0..n : data[b] = IF b = 0 THEN <<>>
                                   ELSE Extracted(data[b - 1], l.slots[b])
      /\ \A b \in 0..n : cnt[b] = IF b = 0 THEN 0 ELSE cnt[b - 1] + l.perSize[b]
  BY <1>2, <1>3
<1> HIDE DEF IsData, IsCount
<1> DEFINE S == {b \in Nat : b <= n => ExtractsTo(l, data[b], b, cnt[b])}
<1>5. 0 \in S
  <2>1. data[0] = <<>> /\ cnt[0] = 0
    BY <1>1, <1>4
  <2>2. 0 <= 0 * Cap
    BY KeysAreNumbers
  <2>3. \A x : Occurs(<<>>, 0, x) = CountTo(l, 0, x)
    BY OccursInNone, CountInNone
  <2>4. ExtractsTo(l, <<>>, 0, 0)
    BY <2>2, <2>3 DEF ExtractsTo
  <2> QED  BY <2>1, <2>4
<1>6. ASSUME NEW b \in Nat, b \in S
      PROVE  b + 1 \in S
  <2> SUFFICES ASSUME b + 1 <= n
               PROVE  ExtractsTo(l, data[b + 1], b + 1, cnt[b + 1])
    OBVIOUS
  <2>1. /\ b \in 0..n - 1 /\ b + 1 \in 0..n /\ b + 1 \in 1..n /\ b + 1 # 0
        /\ (b + 1) - 1 = b
        /\ ExtractsTo(l, data[b], b, cnt[b])
    BY <1>1, <1>6
  <2>2. /\ data[b + 1] = Extracted(data[b], l.slots[b + 1])
        /\ cnt[b + 1] = cnt[b] + l.perSize[b + 1]
    BY <1>4, <2>1
  <2>3. BlankFrom(l.slots[b + 1], l.perSize[b + 1])
    BY <2>1
  <2>4. ExtractsTo(l, Extracted(data[b], l.slots[b + 1]), b + 1,
                   cnt[b] + l.perSize[b + 1])
    BY <2>1, <2>3, ExtractNextBlock
  <2> QED  BY <2>2, <2>4
<1> HIDE DEF S
<1>7. n \in S
  <2>1. Nat \subseteq S
    BY <1>5, <1>6, Induction
  <2> QED  BY <1>1, <2>1
<1> QED  BY <1>1, <1>2, <1>3, <1>7 DEF S

----------------------------------------------------------------------------
(* StoreData: the points are put one after the other into fresh blocks, of *)
(* which none gets more than w.                                            *)
Spread(points, at, w) ==
  /\ w \in 1..Cap
  /\ \A j \in 1..Len(points) - w : at[j] < at[j + w]

BlockFilledTo(points, at, w, j, block, size, b) ==
  /\ BlockOK(block, size) /\ BlankFrom(block, size) /\ size <= w
  /\ KeysOf(block, size) = {points[i] : i \in {h \in 1..j : at[h] = b}}

FilledTo(points, at, w, j, l) ==
  /\ l \in LeafRecords /\ l.num = 0
  /\ \A b \in 1..MaxBlockNum :
       BlockFilledTo(points, at, w, j, l.slots[b], l.perSize[b], b)
  /\ j > 0 => /\ l.perSize[at[j]] <= j
              /\ \A i \in 1..j : i > j - l.perSize[at[j]] => at[i] = at[j]
  /\ \A x : CountTo(l, MaxBlockNum, x) = Occurs(points, j, x)

LEMMA NewLeafIsEmpty ==
  /\ NewLeaf \in LeafRecords /\ NewLeaf.num = 0
  /\ \A b \in 1..MaxBlockNum :
       /\ NewLeaf.perSize[b] = 0
       /\ BlockOK(NewLeaf.slots[b], 0) /\ BlankFrom(NewLeaf.slots[b], 0)
<1>1. /\ MaxBlockNum \in Nat /\ Cap \in Nat /\ MAX \in Nat
  BY KeysAreNumbers
<1>2. NewLeaf \in LeafRecords
  BY <1>1 DEF NewLeaf, LeafRecords, EmptyBlock
<1>3. BlockOK(EmptyBlock, 0) /\ BlankFrom(EmptyBlock, 0)
  BY <1>1 DEF BlockOK, BlankFrom, EmptyBlock
<1> QED  BY <1>2, <1>3 DEF NewLeaf

LEMMA FillOneMore ==
  ASSUME NEW points, NEW at, Dealt(points, at), NEW w, Spread(points, at, w),
         NEW j \in Nat, j + 1 <= Len(points), NEW l, FilledTo(points, at, w, j, l)
  PROVE  FilledTo(points, at, w, j + 1, InsertDataBlock(l, points[j + 1], at[j + 1]))
<1> DEFINE N == Len(points)
           b == at[j + 1]
           k == points[j + 1]
           size == l.perSize[b]
           m == InsertDataBlock(l, k, b)
<1>1. /\ N \in Nat \ {0} /\ j + 1 \in 1..N /\ b \in 1..MaxBlockNum /\ k \in Key
      /\ Cap \in Nat /\ MaxBlockNum \in Nat /\ w \in Nat \ {0} /\ w <= Cap
      /\ \A i \in 1..N : at[i] \in 1..MaxBlockNum /\ at[i] \in Nat
      /\ l \in LeafRecords
      /\ BlockOK(l.slots[b], size) /\ BlankFrom(l.slots[b], size) /\ size <= w
      /\ size \in Nat
      /\ KeysOf(l.slots[b], size) = {points[i] : i \in {h \in 1..j : at[h] = b}}
  <2>1. /\ N \in Nat \ {0} /\ j + 1 \in 1..N /\ Cap \in Nat /\ MaxBlockNum \in Nat
    BY KeysAreNumbers DEF Dealt
  <2>2. b \in 1..MaxBlockNum /\ k \in Key
    BY <2>1 DEF Dealt
  <2>3. w \in Nat \ {0} /\ w <= Cap
    BY <2>1 DEF Spread
  <2>4. \A i \in 1..N : at[i] \in 1..MaxBlockNum /\ at[i] \in Nat
    BY <2>1 DEF Dealt
  <2> HIDE DEF b, k, N
  <2>5. /\ l \in LeafRecords
        /\ BlockOK(l.slots[b], size) /\ BlankFrom(l.slots[b], size) /\ size <= w
        /\ KeysOf(l.slots[b], size) = {points[i] : i \in {h \in 1..j : at[h] = b}}
    BY <2>2 DEF FilledTo, BlockFilledTo
  <2>6. size \in Nat
    BY <2>1, <2>5 DEF BlockOK
  <2> QED  BY <2>1, <2>2, <2>3, <2>4, <2>5, <2>6
<1>2. \A i \in 1..j : i \in 1..N /\ i <= j + 1 /\ at[i] <= b
  <2>1. \A i \in 1..j : i \in 1..N /\ i <= j + 1
    BY <1>1
  <2> QED  BY <1>1, <2>1 DEF Dealt
<1>3. ASSUME j = 0 \/ at[j] # b
      PROVE  size = 0
  <2>1. ASSUME NEW i \in 1..j
        PROVE  at[i] # b
    <3>1. j \in 1..j /\ j \in 1..N /\ i \in 1..N /\ at[j] <= b /\ at[j] # b /\ i <= j
      BY <1>1, <1>2, <1>3, <2>1
    <3>2. at[i] <= at[j]
      BY <3>1 DEF Dealt
    <3> QED  BY <1>1, <3>1, <3>2
  <2>2. KeysOf(l.slots[b], size) = {}
    BY <1>1, <2>1
  <2> HIDE DEF b, size
  <2>3. ~ (1 \in 1..size)
    BY <2>2 DEF KeysOf
  <2> QED  BY <1>1, <2>3
<1>4. ASSUME j > 0, at[j] = b
      PROVE  size <= j /\ \A i \in 1..j : i > j - size => at[i] = b
  BY <1>4 DEF FilledTo
<1>5. size < w
  <2> SUFFICES ASSUME size = w
               PROVE  FALSE
    BY <1>1
  <2>1. j > 0 /\ at[j] = b
    BY <1>1, <1>3
  <2> DEFINE i == j + 1 - w
  <2>2. i \in 1..j /\ i > j - size /\ i \in 1..N - w /\ i + w = j + 1
    BY <1>1, <1>4, <2>1
  <2>3. at[i] = b /\ at[i] < at[i + w]
    BY <1>4, <2>1, <2>2 DEF Spread
  <2> QED  BY <1>1, <2>2, <2>3
<1> HIDE DEF N, b, k, size, m
<1>6. /\ m \in LeafRecords
      /\ m.num = l.num
      /\ m.perSize = [l.perSize EXCEPT ![b] = @ + 1]
      /\ m.slots = [l.slots EXCEPT ![b] = Joined(l.slots[b], k, l.perSize[b])]
  <2>1. l.perSize[b] < Cap /\ BlockOK(l.slots[b], l.perSize[b])
    BY <1>1, <1>5 DEF size
  <2>2. PointInserted(l, k, b, m)
    BY <1>1, <2>1, InsertDataBlockIs DEF m
  <2> QED  BY <2>2 DEF PointInserted
<1>7. /\ m.perSize[b] = size + 1 /\ m.slots[b] = Joined(l.slots[b], k, size)
      /\ \A a \in 1..MaxBlockNum : a # b => m.perSize[a] = l.perSize[a]
                                            /\ m.slots[a] = l.slots[a]
  <2>1. /\ l.perSize \in [1..MaxBlockNum -> 0..Cap]
        /\ l.slots \in [1..MaxBlockNum -> [1..Cap -> Key \cup {MAX}]]
    BY <1>1 DEF LeafRecords
  <2> QED  BY <1>1, <1>6, <2>1 DEF size
<1>8. /\ BlockOK(Joined(l.slots[b], k, size), size + 1)
      /\ KeysOf(Joined(l.slots[b], k, size), size + 1) = KeysOf(l.slots[b], size) \cup {k}
      /\ BlankFrom(Joined(l.slots[b], k, size), size + 1)
  BY <1>1, <1>5, BlockTakesPoint
<1>9. ASSUME NEW a \in 1..MaxBlockNum
      PROVE  BlockFilledTo(points, at, w, j + 1, m.slots[a], m.perSize[a], a)
  <2>0. 1..j + 1 = 1..j \cup {j + 1}
    OBVIOUS
  <2>1. CASE a = b
    <3>1. {points[i] : i \in {h \in 1..j + 1 : at[h] = b}}
            = {points[i] : i \in {h \in 1..j : at[h] = b}} \cup {k}
      BY <2>0 DEF b, k
    <3>2. size + 1 <= w
      BY <1>1, <1>5
    <3>3. KeysOf(m.slots[b], m.perSize[b]) = {points[i] : i \in {h \in 1..j + 1 : at[h] = b}}
      BY <1>1, <1>7, <1>8, <3>1
    <3>4. /\ BlockOK(m.slots[b], m.perSize[b]) /\ BlankFrom(m.slots[b], m.perSize[b])
          /\ m.perSize[b] <= w
      BY <1>7, <1>8, <3>2
    <3> QED  BY <2>1, <3>3, <3>4 DEF BlockFilledTo
  <2>2. CASE a # b
    <3>1. {h \in 1..j + 1 : at[h] = a} = {h \in 1..j : at[h] = a}
      BY <2>0, <2>2 DEF b
    <3> QED  BY <1>7, <2>2, <3>1 DEF FilledTo, BlockFilledTo
  <2> QED  BY <2>1, <2>2
<1>10. /\ m.perSize[at[j + 1]] <= j + 1
       /\ \A i \in 1..j + 1 : i > (j + 1) - m.perSize[at[j + 1]] => at[i] = at[j + 1]
  <2>1. CASE j = 0 \/ at[j] # b
    <3>1. size = 0 /\ m.perSize[b] = 1
      BY <1>3, <1>7, <2>1
    <3>2. \A i \in 1..j + 1 : i > (j + 1) - 1 => i = j + 1
      OBVIOUS
    <3> QED  BY <3>1, <3>2 DEF b
  <2>2. CASE j > 0 /\ at[j] = b
    <3>1. size <= j /\ \A i \in 1..j : i > j - size => at[i] = b
      BY <1>4, <2>2
    <3>2. m.perSize[b] = size + 1 /\ (j + 1) - (size + 1) = j - size
      BY <1>1, <1>7
    <3>3. \A i \in 1..j + 1 : i \in 1..j \/ i = j + 1
      OBVIOUS
    <3> QED  BY <1>1, <3>1, <3>2, <3>3 DEF b
  <2> QED  BY <2>1, <2>2
<1>11. FilledTo(points, at, w, j + 1, m)
  <2>1. m.num = 0
    BY <1>6 DEF FilledTo
  <2>2. ASSUME NEW x
        PROVE  CountTo(m, MaxBlockNum, x) = Occurs(points, j + 1, x)
    <3>1. CountTo(m, MaxBlockNum, x)
            = CountTo(l, MaxBlockNum, x) + Adds(k, x)
      <4>1. MaxBlockNum \in b..MaxBlockNum /\ l.perSize[b] < Cap
            /\ BlockOK(l.slots[b], l.perSize[b])
        BY <1>1, <1>5 DEF size
      <4> QED  BY <1>1, <4>1, InsertDataBlockCounts DEF m
    <3>2. Occurs(points, j + 1, x) = Occurs(points, j, x) + OneIf(points, j + 1, x)
      BY OccursNext
    <3>3. OneIf(points, j + 1, x) = Adds(k, x)
      BY DEF OneIf, Adds, k
    <3>4. CountTo(l, MaxBlockNum, x) = Occurs(points, j, x)
      BY DEF FilledTo
    <3> QED  BY <3>1, <3>2, <3>3, <3>4
  <2> QED  BY <1>6, <1>9, <1>10, <2>1, <2>2 DEF FilledTo
<1> QED  BY <1>11 DEF m, k, b

LEMMA FilledIs ==
  ASSUME NEW points, NEW at, Dealt(points, at), NEW w, Spread(points, at, w)
  PROVE  FilledTo(points, at, w, Len(points), Filled(points, at))
<1> DEFINE N == Len(points)
           Steps(f, n) == f = [j \in 0..n |->
                                 IF j = 0 THEN NewLeaf
                                 ELSE InsertDataBlock(f[j - 1], points[j], at[j])]
           E == {n \in Nat : \E f : Steps(f, n)}
<1>1. N \in Nat \ {0} /\ N \in 0..N
  BY DEF Dealt
<1>2. 0 \in E
  <2>1. Steps([j \in 0..0 |-> NewLeaf], 0)
    BY DEF NewLeaf
  <2> HIDE DEF Steps
  <2> QED  BY <2>1
<1>3. ASSUME NEW n \in Nat, n \in E
      PROVE  n + 1 \in E
  <2>1. PICK f : Steps(f, n)
    BY <1>3
  <2> DEFINE h == [j \in 0..n + 1 |->
                     IF j <= n THEN f[j]
                     ELSE InsertDataBlock(f[n], points[n + 1], at[n + 1])]
  <2>2. \A j \in 0..n : h[j] = f[j]
    OBVIOUS
  <2>3. ASSUME NEW j \in 0..n + 1
        PROVE  (IF j <= n THEN f[j]
                ELSE InsertDataBlock(f[n], points[n + 1], at[n + 1]))
                 = IF j = 0 THEN NewLeaf ELSE InsertDataBlock(h[j - 1], points[j], at[j])
    <3>1. CASE j <= n
      <4>1. j \in 0..n /\ (j # 0 => j - 1 \in 0..n)
        BY <3>1
      <4>2. f[j] = IF j = 0 THEN NewLeaf ELSE InsertDataBlock(f[j - 1], points[j], at[j])
        BY <2>1, <4>1
      <4> HIDE DEF h, Steps
      <4> QED  BY <2>2, <3>1, <4>1, <4>2
    <3>2. CASE j = n + 1
      <4>1. h[n] = f[n] /\ j - 1 = n /\ j # 0 /\ ~ (j <= n)
        BY <2>2, <3>2
      <4> HIDE DEF h, Steps
      <4> QED  BY <3>2, <4>1
    <3> QED  BY <3>1, <3>2
  <2>4. Steps(h, n + 1)
    BY <2>3
  <2> HIDE DEF h, Steps
  <2> QED  BY <2>4
<1>4. PICK f : Steps(f, N) /\ Filled(points, at) = f[N]
  <2>1. \E f : Steps(f, N)
    <3> HIDE DEF Steps
    <3>1. \E f : Steps(f, 0)
      BY <1>2
    <3>2. Nat \subseteq E
      <4> HIDE DEF E
      <4> QED  BY <1>2, <1>3, Induction
    <3> QED  BY <1>1, <3>2
  <2>2. Filled(points, at) = (CHOOSE f : Steps(f, N))[N]
    BY DEF Filled
  <2> HIDE DEF Steps
  <2> QED  BY <2>1, <2>2
<1>5. \A j \in 0..N : f[j] = IF j = 0 THEN NewLeaf
                              ELSE InsertDataBlock(f[j - 1], points[j], at[j])
  BY <1>4
<1> HIDE DEF Steps, E
<1> DEFINE S == {j \in Nat : j <= N => FilledTo(points, at, w, j, f[j])}
<1>6. 0 \in S
  <2>1. f[0] = NewLeaf
    BY <1>1, <1>5
  <2>2. ASSUME NEW b \in 1..MaxBlockNum
        PROVE  BlockFilledTo(points, at, w, 0, NewLeaf.slots[b], NewLeaf.perSize[b], b)
    <3>1. KeysOf(NewLeaf.slots[b], 0) = {} /\ 1..0 = {}
      BY DEF KeysOf
    <3>2. {points[i] : i \in {h \in 1..0 : at[h] = b}} = {}
      BY <3>1
    <3>3. 0 <= w
      BY KeysAreNumbers DEF Spread
    <3> QED  BY <3>1, <3>2, <3>3, NewLeafIsEmpty DEF BlockFilledTo
  <2>4. ASSUME NEW x
        PROVE  CountTo(NewLeaf, MaxBlockNum, x) = Occurs(points, 0, x)
    <3>1. MaxBlockNum \in Nat /\ 0 \in Nat /\ 0 <= MaxBlockNum
      BY KeysAreNumbers
    <3>2. CountTo(NewLeaf, MaxBlockNum, x) = CountTo(NewLeaf, 0, x)
      BY <3>1, NewLeafIsEmpty, CountBeyond
    <3> QED  BY <3>2, CountInNone, OccursInNone
  <2>3. FilledTo(points, at, w, 0, NewLeaf)
    BY <2>2, <2>4, NewLeafIsEmpty DEF FilledTo
  <2> QED  BY <2>1, <2>3
<1>7. ASSUME NEW j \in Nat, j \in S
      PROVE  j + 1 \in S
  <2> SUFFICES ASSUME j + 1 <= N
               PROVE  FilledTo(points, at, w, j + 1, f[j + 1])
    OBVIOUS
  <2>1. j + 1 \in 0..N /\ j + 1 # 0 /\ (j + 1) - 1 = j /\ FilledTo(points, at, w, j, f[j])
    BY <1>1, <1>7
  <2>2. f[j + 1] = InsertDataBlock(f[j], points[j + 1], at[j + 1])
    BY <1>5, <2>1
  <2>3. FilledTo(points, at, w, j + 1, InsertDataBlock(f[j], points[j + 1], at[j + 1]))
    BY <2>1, FillOneMore
  <2> QED  BY <2>2, <2>3
<1> HIDE DEF S
<1>8. N \in S
  <2>1. Nat \subseteq S
    BY <1>6, <1>7, Induction
  <2> QED  BY <1>1, <2>1
<1>9. FilledTo(points, at, w, N, f[N])
  BY <1>1, <1>8 DEF S
<1> QED  BY <1>4, <1>9

(* StoreData and its separators.                                           *)
LEMMA StoreSound ==
  ASSUME NEW points, NEW at, Dealt(points, at), NEW w, Spread(points, at, w),
         Skips(points, at), KeysApart
  PROVE  /\ Sound(Store(points, at))
         /\ Store(points, at).num = at[Len(points)]
         /\ \A b \in 1..MaxBlockNum : Store(points, at).perSize[b] <= w
         /\ \A x : Stored(Store(points, at), x) = Occurs(points, Len(points), x)
<1> DEFINE N == Len(points)
           n == at[N]
           f == Filled(points, at)
           fresh == FreshSlotkeys(points, at, f)
           s == Store(points, at)
           first(c) == LastBefore(points, at, c)
<1>1. /\ N \in Nat \ {0} /\ N \in 1..N /\ 1 \in 1..N /\ n \in 1..MaxBlockNum /\ n \in Nat \ {0}
      /\ MaxBlockNum \in Nat /\ MaxBlockNum >= 2 /\ Cap \in Nat /\ MAX \in Nat
      /\ at[1] = 1
      /\ \A j \in 1..N : points[j] \in Key /\ points[j] \in Nat /\ at[j] \in Nat
                         /\ at[j] \in 1..n
      /\ \A i, j \in 1..N : i <= j => points[i] <= points[j] /\ at[i] <= at[j]
  <2>1. N \in Nat \ {0} /\ N \in 1..N /\ 1 \in 1..N
    BY DEF Dealt
  <2>2. /\ MaxBlockNum \in Nat /\ MaxBlockNum >= 2 /\ Cap \in Nat /\ MAX \in Nat
    BY KeysAreNumbers
  <2>3. n \in 1..MaxBlockNum /\ n \in Nat \ {0} /\ at[1] = 1
    BY <2>1, <2>2 DEF Dealt
  <2>4. \A i, j \in 1..N : i <= j => points[i] <= points[j] /\ at[i] <= at[j]
    BY DEF Dealt
  <2>5. \A j \in 1..N : points[j] \in Key /\ points[j] \in Nat
    BY KeysAreNumbers DEF Dealt
  <2>6. \A j \in 1..N : at[j] \in Nat /\ at[j] \in 1..n
    BY <2>1, <2>2, <2>3, <2>4 DEF Dealt
  <2> QED  BY <2>1, <2>2, <2>3, <2>4, <2>5, <2>6
<1>2. FilledTo(points, at, w, N, f)
  BY FilledIs
<1> HIDE DEF N, n, f, fresh, s, first
<1>3. \A b \in 1..MaxBlockNum :
        /\ BlockOK(f.slots[b], f.perSize[b])
        /\ BlankFrom(f.slots[b], f.perSize[b])
        /\ f.perSize[b] <= w
        /\ f.perSize[b] \in Nat
        /\ KeysOf(f.slots[b], f.perSize[b]) = {points[i] : i \in {h \in 1..N : at[h] = b}}
  <2> SUFFICES ASSUME NEW b \in 1..MaxBlockNum
               PROVE  /\ BlockOK(f.slots[b], f.perSize[b])
                      /\ BlankFrom(f.slots[b], f.perSize[b])
                      /\ f.perSize[b] <= w
                      /\ f.perSize[b] \in Nat
                      /\ KeysOf(f.slots[b], f.perSize[b])
                           = {points[i] : i \in {h \in 1..N : at[h] = b}}
    OBVIOUS
  <2>1. BlockFilledTo(points, at, w, N, f.slots[b], f.perSize[b], b)
    BY <1>2 DEF FilledTo
  <2>2. f.perSize[b] \in Nat
    BY <1>1, <2>1 DEF BlockFilledTo, BlockOK
  <2> QED  BY <2>1, <2>2 DEF BlockFilledTo
<1>4. ASSUME NEW c \in 1..MaxBlockNum
      PROVE  \E m \in 1..N : /\ at[m] <= c /\ first(c) = points[m]
                             /\ \A j \in 1..N : at[j] <= c => j <= m
  <2> DEFINE T == {j \in 1..N : at[j] <= c}
  <2>1. T \subseteq 0..N /\ T # {}
    <3>1. 1 \in T
      BY <1>1
    <3> QED  BY <1>1, <3>1
  <2>2. first(c) = points[Max(T)]
    BY DEF first, LastBefore, N
  <2>3. Max(T) \in T /\ \A j \in T : j <= Max(T)
    <3> HIDE DEF T
    <3> QED  BY <1>1, <2>1, MaxOfNumbers
  <2> QED  BY <2>2, <2>3
<1>5. s = [f EXCEPT !.num = n, !.slotkeys = fresh]
  BY <1>1 DEF s, f, n, N, fresh, Store
<1>6. /\ f = [num |-> f.num, slotkeys |-> f.slotkeys, perSize |-> f.perSize,
              slots |-> f.slots]
      /\ f.perSize \in [1..MaxBlockNum -> 0..Cap]
      /\ f.slots \in [1..MaxBlockNum -> [1..Cap -> Key \cup {MAX}]]
  BY <1>2 DEF FilledTo, LeafRecords
<1>7. s = [num |-> n, slotkeys |-> fresh, perSize |-> f.perSize, slots |-> f.slots]
  <2> DEFINE mid == [f EXCEPT !.num = n]
  <2>1. mid = [num |-> n, slotkeys |-> f.slotkeys, perSize |-> f.perSize,
               slots |-> f.slots]
    BY <1>6
  <2>2. s = [mid EXCEPT !.slotkeys = fresh]
    BY <1>5
  <2> HIDE DEF mid
  <2> QED  BY <2>1, <2>2
<1>8. /\ fresh = [b \in 1..MaxBlockNum - 1 |->
             IF b < n /\ f.perSize[b + 1] > 0 THEN f.slots[b + 1][1]
             ELSE IF b < n \/ b = 1 THEN first(b) + One ELSE MAX]
  BY DEF fresh, FreshSlotkeys, n, N, first
<1>9. fresh \in [1..MaxBlockNum - 1 -> 0..MAX]
  <2> SUFFICES ASSUME NEW b \in 1..MaxBlockNum - 1
               PROVE  (IF b < n /\ f.perSize[b + 1] > 0 THEN f.slots[b + 1][1]
                       ELSE IF b < n \/ b = 1 THEN first(b) + One ELSE MAX) \in 0..MAX
    BY <1>8
  <2>1. b \in 1..MaxBlockNum /\ b + 1 \in 1..MaxBlockNum
    BY <1>1
  <2>2. first(b) + One \in 0..MAX
    <3>1. PICK m \in 1..N : first(b) = points[m]
      BY <1>4, <2>1
    <3> QED  BY <1>1, <3>1, KeysAreNumbers
  <2>3. f.perSize[b + 1] > 0 => f.slots[b + 1][1] \in 0..MAX
    <3> SUFFICES ASSUME f.perSize[b + 1] > 0
                 PROVE  f.slots[b + 1][1] \in 0..MAX
      OBVIOUS
    <3>1. 1 \in 1..f.perSize[b + 1]
      BY <1>3, <2>1
    <3>2. f.slots[b + 1][1] \in Key
      BY <1>3, <2>1, <3>1 DEF BlockOK
    <3> QED  BY <3>2, KeysAreNumbers
  <2> QED  BY <1>1, <2>2, <2>3
<1>10. s \in LeafRecords
  <2>1. n \in 0..MaxBlockNum
    BY <1>1
  <2> QED  BY <1>6, <1>7, <1>9, <2>1 DEF LeafRecords
<1>11. s.num = n /\ s.perSize = f.perSize /\ s.slots = f.slots /\ s.slotkeys = fresh
  BY <1>7
<1>12. \A b \in 1..n : b \in 1..MaxBlockNum
  BY <1>1
<1> DEFINE K == KeysIn(s)
           sep == SeparatorsOf(s)
<1>13. /\ K = [b \in 1..n |-> KeysOf(f.slots[b], f.perSize[b])]
       /\ sep = [c \in 1..n - 1 |-> fresh[c]]
  BY <1>11 DEF KeysIn, SeparatorsOf
<1> HIDE DEF K, sep
<1>14. ASSUME NEW c \in 1..n - 1
       PROVE  \E m : /\ Ends(points, at, c, m)
                     /\ sep[c] = IF at[m + 1] = c + 1 THEN points[m + 1]
                                 ELSE points[m] + One
  <2>1. c \in 1..MaxBlockNum /\ c + 1 \in 1..MaxBlockNum /\ c < n
        /\ c \in 1..MaxBlockNum - 1 /\ c \in Nat
    BY <1>1
  <2>2. PICK m \in 1..N : /\ at[m] <= c /\ first(c) = points[m]
                          /\ \A j \in 1..N : at[j] <= c => j <= m
    BY <1>4, <2>1
  <2>3. m \in 1..N - 1 /\ m + 1 \in 1..N /\ at[m + 1] > c
    <3>1. m # N
      BY <1>1, <2>1, <2>2 DEF n
    <3>2. m \in 1..N - 1 /\ m + 1 \in 1..N /\ ~ (m + 1 <= m)
      BY <1>1, <3>1
    <3>3. ~ (at[m + 1] <= c) /\ at[m + 1] \in Nat
      BY <1>1, <2>2, <3>2
    <3> QED  BY <2>1, <3>2, <3>3
  <2>4. Ends(points, at, c, m)
    BY <2>2, <2>3 DEF Ends, N
  <2> DEFINE block == f.slots[c + 1]
             size  == f.perSize[c + 1]
  <2>5. /\ BlockOK(block, size) /\ size \in Nat
        /\ KeysOf(block, size) = {points[i] : i \in {h \in 1..N : at[h] = c + 1}}
    BY <1>3, <2>1
  <2>6. sep[c] = IF size > 0 THEN block[1] ELSE points[m] + One
    BY <1>8, <1>13, <2>1, <2>2
  <2> HIDE DEF block, size
  <2>7. CASE at[m + 1] = c + 1
    <3>1. points[m + 1] \in KeysOf(block, size)
      BY <2>3, <2>5, <2>7
    <3>2. PICK i \in 1..size : points[m + 1] = block[i]
      BY <3>1 DEF KeysOf
    <3>3. size > 0 /\ 1 \in 1..size /\ 1 <= i
      BY <2>5
    <3>4. block[1] <= points[m + 1] /\ block[1] \in Nat
      BY <2>5, <3>2, <3>3, KeysAreNumbers DEF BlockOK
    <3>5. block[1] \in KeysOf(block, size)
      BY <3>3 DEF KeysOf
    <3>6. PICK j \in 1..N : block[1] = points[j] /\ at[j] = c + 1
      BY <2>5, <3>5
    <3>7. m + 1 <= j
      <4>1. CASE j <= m
        <5>1. at[j] <= at[m] /\ at[j] = c + 1 /\ at[m] <= c /\ at[m] \in Nat
          BY <1>1, <2>2, <3>6, <4>1
        <5> QED  BY <2>1, <5>1
      <4> QED  BY <1>1, <4>1
    <3>8. points[m + 1] <= points[j]
      BY <1>1, <2>3, <3>7
    <3>9. block[1] = points[m + 1]
      BY <1>1, <2>3, <3>4, <3>6, <3>8
    <3> QED  BY <2>4, <2>6, <2>7, <3>3, <3>9
  <2>8. CASE at[m + 1] # c + 1
    <3>1. ASSUME NEW j \in 1..N, at[j] = c + 1
          PROVE  FALSE
      <4>1. ~ (j <= m)
        <5> SUFFICES ASSUME j <= m PROVE FALSE
          OBVIOUS
        <5>1. at[j] <= at[m] /\ at[m] <= c /\ at[m] \in Nat
          BY <1>1, <2>2
        <5> QED  BY <2>1, <3>1, <5>1
      <4>2. m + 1 <= j
        BY <1>1, <4>1
      <4>3. at[m + 1] <= at[j] /\ at[m + 1] \in Nat
        BY <1>1, <2>3, <4>2
      <4> QED  BY <2>1, <2>3, <2>8, <3>1, <4>3
    <3>2. KeysOf(block, size) = {}
      BY <2>5, <3>1
    <3>3. ~ (1 \in 1..size)
      BY <3>2 DEF KeysOf
    <3>4. ~ (size > 0)
      BY <2>5, <3>3
    <3> QED  BY <2>4, <2>6, <2>8, <3>4
  <2> QED  BY <2>7, <2>8
<1>15. /\ K \in [1..n -> SUBSET Key]
       /\ \A b \in 1..n : K[b] = {points[i] : i \in {h \in 1..N : at[h] = b}}
  <2>1. \A b \in 1..n : K[b] = {points[i] : i \in {h \in 1..N : at[h] = b}}
    BY <1>3, <1>12, <1>13
  <2>2. \A b \in 1..n : K[b] \in SUBSET Key
    BY <1>1, <2>1
  <2> QED  BY <1>13, <2>1, <2>2
<1>16. sep \in [1..n - 1 -> Int]
  <2>1. \A c \in 1..n - 1 : c \in 1..MaxBlockNum - 1
    BY <1>1
  <2>2. \A c \in 1..n - 1 : fresh[c] \in Int
    BY <1>1, <1>9, <2>1
  <2> QED  BY <1>13, <2>2
<1>17. Routed(n, K, sep)
  <2>1. \A b \in 1..n : K[b] = GivenTo(points, at, b)
    BY <1>15 DEF GivenTo, N
  <2>2. \A c \in 1..n - 1 : SeparatedAt(points, at, sep, c)
    BY <1>14 DEF SeparatedAt
  <2>3. n = at[Len(points)]
    BY DEF n, N
  <2> QED  BY <1>1, <1>15, <1>16, <2>1, <2>2, <2>3, FreshlyRouted
<1>18. Sound(s)
  BY <1>3, <1>10, <1>11, <1>12, <1>17 DEF Sound, K, sep
<1>19. ASSUME NEW x
       PROVE  Stored(s, x) = Occurs(points, N, x)
  <2>1. CountTo(f, MaxBlockNum, x) = Occurs(points, N, x)
    BY <1>2 DEF FilledTo
  <2>2. ASSUME NEW b \in 1..MaxBlockNum, b > n
        PROVE  f.perSize[b] = 0
    <3>1. \A h \in 1..N : at[h] # b
      BY <1>1, <2>2
    <3>2. KeysOf(f.slots[b], f.perSize[b]) = {}
      BY <1>3, <3>1
    <3>3. ~ (1 \in 1..f.perSize[b])
      BY <3>2 DEF KeysOf
    <3> QED  BY <1>3, <3>3
  <2>3. CountTo(f, MaxBlockNum, x) = CountTo(f, n, x)
    <3>1. n \in Nat /\ n <= MaxBlockNum
      BY <1>1
    <3> QED  BY <1>1, <2>2, <3>1, CountBeyond
  <2>4. CountTo(s, n, x) = CountTo(f, n, x)
    BY <1>11, CountAlike
  <2>5. Stored(s, x) = CountTo(s, n, x)
    BY <1>11, StoredIsCount
  <2> QED  BY <2>1, <2>3, <2>4, <2>5
<1> QED  BY <1>3, <1>11, <1>18, <1>19 DEF s, n, N

(* Quotients.                                                              *)
LEMMA NaturalQuotient ==
  ASSUME NEW a \in Nat, NEW d \in Nat \ {0}
  PROVE  a \div d \in Nat /\ (a \div d) * d <= a /\ a < (a \div d) * d + d
OBVIOUS

LEMMA QuotientIsLeast ==
  ASSUME NEW a \in Nat, NEW d \in Nat \ {0}, NEW q \in Nat, a < q * d
  PROVE  a \div d < q
<1> DEFINE p == a \div d
<1>1. p \in Nat /\ p * d <= a
  BY NaturalQuotient
<1> HIDE DEF p
<1>2. CASE q <= p
  <2>1. PICK e \in Nat : p = q + e
    BY <1>1, <1>2
  <2>2. p * d = q * d + e * d /\ e * d \in Nat /\ q * d \in Nat
    BY <2>1
  <2> QED  BY <1>1, <2>2
<1> QED  BY <1>1, <1>2 DEF p

LEMMA CeilDivIs ==
  ASSUME NEW m \in Nat \ {0}, NEW n \in Nat \ {0}
  PROVE  /\ CeilDiv(m, n) \in Nat \ {0}
         /\ m <= CeilDiv(m, n) * n
         /\ \A q \in Nat : m <= q * n => CeilDiv(m, n) <= q
<1> DEFINE a == m + n - 1
           c == a \div n
<1>1. a \in Nat
  OBVIOUS
<1>2. c \in Nat /\ c * n <= a /\ a < c * n + n
  BY <1>1, NaturalQuotient
<1>3. CeilDiv(m, n) = c
  BY DEF CeilDiv
<1> HIDE DEF c
<1>4. c * n \in Nat
  BY <1>2
<1>5. m <= c * n
  BY <1>2, <1>4
<1>6. c # 0
  <2>1. 0 * n = 0
    OBVIOUS
  <2> QED  BY <1>5, <2>1
<1>7. ASSUME NEW q \in Nat, m <= q * n
      PROVE  c <= q
  <2>1. q * n \in Nat /\ (q + 1) * n = q * n + n
    OBVIOUS
  <2>2. a < (q + 1) * n
    BY <1>1, <1>7, <2>1
  <2>3. a \div n < q + 1
    BY <1>1, <2>2, QuotientIsLeast
  <2> QED  BY <1>2, <2>3 DEF c
<1> QED  BY <1>2, <1>3, <1>5, <1>6, <1>7

InOrder(points) ==
  /\ points \in Seq(Key)
  /\ \A i, j \in 1..Len(points) : i <= j => points[i] <= points[j]

LEMMA StoreDataSound ==
  ASSUME NEW points, InOrder(points), Len(points) > 0, KeysApart,
         NEW needed \in 1..MaxBlockNum, Len(points) <= needed * Cap
  PROVE  /\ Sound(StoreData(points, needed))
         /\ StoreData(points, needed).num \in 1..needed
         /\ \A b \in 1..MaxBlockNum :
              StoreData(points, needed).perSize[b] <= CeilDiv(Len(points), needed)
         /\ \A x : Stored(StoreData(points, needed), x) = Occurs(points, Len(points), x)
<1> DEFINE N == Len(points)
           avg == Min({Cap, CeilDiv(N, needed)})
           at == [j \in 1..N |-> (j - 1) \div avg + 1]
<1>1. /\ N \in Nat \ {0} /\ needed \in Nat \ {0} /\ Cap \in Nat \ {0}
      /\ MaxBlockNum \in Nat /\ points \in [1..N -> Key]
  <2>1. N \in Nat /\ points \in [1..N -> Key]
    BY DEF InOrder
  <2> QED  BY <2>1, KeysAreNumbers
<1> HIDE DEF N
<1>2. /\ CeilDiv(N, needed) \in Nat \ {0}
      /\ N <= CeilDiv(N, needed) * needed
  BY <1>1, CeilDivIs
<1>3. /\ avg \in Nat \ {0} /\ avg <= Cap /\ avg <= CeilDiv(N, needed)
      /\ avg = Cap \/ avg = CeilDiv(N, needed)
  <2>1. avg = IF Cap <= CeilDiv(N, needed) THEN Cap ELSE CeilDiv(N, needed)
    BY <1>1, <1>2, MinOfTwo
  <2> HIDE DEF avg
  <2> QED  BY <1>1, <1>2, <2>1
<1>4. StoreData(points, needed) = Store(points, at)
  BY DEF StoreData, N
<1> HIDE DEF avg
<1>5. N <= needed * avg
  <2>1. CASE avg = Cap
    BY <2>1 DEF N
  <2>2. CASE avg = CeilDiv(N, needed)
    <3>1. CeilDiv(N, needed) * needed = needed * CeilDiv(N, needed)
      BY <1>1, <1>2
    <3> QED  BY <1>2, <2>2, <3>1
  <2> QED  BY <1>3, <2>1, <2>2
<1>6. ASSUME NEW i \in Nat
      PROVE  /\ i \div avg \in Nat /\ (i \div avg) * avg \in Nat
             /\ (i \div avg) * avg <= i /\ i < (i \div avg) * avg + avg
  <2>1. i \div avg \in Nat /\ (i \div avg) * avg <= i /\ i < (i \div avg) * avg + avg
    BY <1>3, NaturalQuotient
  <2> QED  BY <1>3, <2>1
<1>7. \A j \in 1..N : j - 1 \in Nat /\ at[j] = (j - 1) \div avg + 1
  BY <1>1
<1> HIDE DEF at
<1>8. ASSUME NEW i \in Nat, NEW j \in Nat, i <= j
      PROVE  i \div avg <= j \div avg
  <2> DEFINE p == j \div avg
  <2>1. p \in Nat /\ j < p * avg + avg
    BY <1>6
  <2> HIDE DEF p
  <2>2. (p + 1) * avg = p * avg + avg /\ p * avg \in Nat
    BY <1>3, <2>1
  <2>3. i < (p + 1) * avg
    BY <1>3, <1>8, <2>1, <2>2
  <2>6. p + 1 \in Nat
    BY <2>1
  <2>4. i \div avg < p + 1
    BY <1>3, <2>6, <2>3, QuotientIsLeast
  <2>5. i \div avg \in Nat
    BY <1>6
  <2> QED  BY <2>1, <2>4, <2>5 DEF p
<1>9. ASSUME NEW i \in Nat
      PROVE  /\ (i + 1) \div avg <= i \div avg + 1
             /\ i \div avg < (i + avg) \div avg
  <2> DEFINE p == i \div avg
             r == (i + avg) \div avg
  <2>1. p \in Nat /\ p * avg \in Nat /\ i < p * avg + avg
    BY <1>6
  <2>2. i + avg \in Nat
    BY <1>3
  <2>3. r \in Nat /\ r * avg \in Nat /\ i + avg < r * avg + avg
    BY <1>6, <2>2
  <2> HIDE DEF p, r
  <2>4. i < r * avg
    BY <1>3, <2>3
  <2>5. i \div avg < r
    BY <1>3, <2>3, <2>4, QuotientIsLeast
  <2>6. (p + 2) * avg = p * avg + avg + avg
    BY <1>3, <2>1
  <2>7. i + 1 < (p + 2) * avg
    BY <1>3, <2>1, <2>6
  <2>10. p + 2 \in Nat /\ i + 1 \in Nat
    BY <2>1
  <2>8. (i + 1) \div avg < p + 2
    BY <1>3, <2>10, <2>7, QuotientIsLeast
  <2>9. (i + 1) \div avg \in Nat
    BY <1>6, <2>10
  <2> QED  BY <2>1, <2>5, <2>8, <2>9 DEF p, r
<1>10. \A j \in 1..N : at[j] \in 1..needed
  <2> SUFFICES ASSUME NEW j \in 1..N
               PROVE  (j - 1) \div avg + 1 \in 1..needed
    BY <1>7
  <2>1. j - 1 \in Nat
    BY <1>1
  <2>2. j - 1 < needed * avg
    <3>1. needed * avg \in Nat
      BY <1>1, <1>3
    <3> QED  BY <1>1, <1>5, <3>1
  <2>3. (j - 1) \div avg < needed
    BY <1>1, <1>3, <2>1, <2>2, QuotientIsLeast
  <2>4. (j - 1) \div avg \in Nat
    BY <1>6, <2>1
  <2> QED  BY <1>1, <2>3, <2>4
<1>11. at \in [1..N -> 1..MaxBlockNum]
  <2>1. \A j \in 1..N : at[j] \in 1..MaxBlockNum
    BY <1>1, <1>10
  <2>2. at = [j \in 1..N |-> at[j]]
    BY DEF at
  <2> QED  BY <2>1, <2>2
<1>12. at[1] = 1
  <2>1. 1 \in 1..N /\ 1 - 1 = 0
    BY <1>1
  <2>2. 0 < 1 * avg /\ 1 \in Nat /\ 0 \in Nat
    BY <1>3
  <2>3. 0 \div avg < 1
    BY <1>3, <2>2, QuotientIsLeast
  <2>4. 0 \div avg \in Nat
    BY <1>6
  <2>5. at[1] = 0 \div avg + 1
    BY <1>7, <2>1
  <2> QED  BY <2>3, <2>4, <2>5
<1>13. Dealt(points, at)
  <2>1. ASSUME NEW i \in 1..N, NEW j \in 1..N, i <= j
        PROVE  points[i] <= points[j] /\ at[i] <= at[j]
    <3>1. points[i] <= points[j]
      BY <2>1 DEF InOrder, N
    <3>2. i - 1 \in Nat /\ j - 1 \in Nat /\ i - 1 <= j - 1
      BY <1>1, <2>1
    <3>3. (i - 1) \div avg <= (j - 1) \div avg
          /\ (i - 1) \div avg \in Nat /\ (j - 1) \div avg \in Nat
      BY <1>6, <1>8, <3>2
    <3> QED  BY <1>7, <3>1, <3>3
  <2> QED  BY <1>1, <1>11, <1>12, <2>1 DEF Dealt, N
<1>14. Spread(points, at, avg)
  <2>1. avg \in 1..Cap
    BY <1>1, <1>3
  <2>2. ASSUME NEW j \in 1..N - avg
        PROVE  at[j] < at[j + avg]
    <3>1. j \in 1..N /\ j + avg \in 1..N /\ j - 1 \in Nat /\ (j + avg) - 1 = (j - 1) + avg
      BY <1>1, <1>3
    <3>2. (j - 1) \div avg < ((j - 1) + avg) \div avg
      BY <1>9, <3>1
    <3>3. (j - 1) \div avg \in Nat /\ ((j - 1) + avg) \div avg \in Nat
      BY <1>3, <1>6, <3>1
    <3> QED  BY <1>7, <3>1, <3>2, <3>3
  <2> QED  BY <2>1, <2>2 DEF Spread, N
<1>15. Skips(points, at)
  <2> SUFFICES ASSUME NEW j \in 1..N - 1
               PROVE  ~ (at[j] + 1 < at[j + 1])
    BY DEF Skips, N
  <2>1. j \in 1..N /\ j + 1 \in 1..N /\ j - 1 \in Nat /\ (j + 1) - 1 = (j - 1) + 1
    BY <1>1
  <2>2. ((j - 1) + 1) \div avg <= (j - 1) \div avg + 1
    BY <1>9, <2>1
  <2>4. (j - 1) + 1 \in Nat
    BY <2>1
  <2>3. (j - 1) \div avg \in Nat /\ ((j - 1) + 1) \div avg \in Nat
    BY <1>6, <2>1, <2>4
  <2> QED  BY <1>7, <2>1, <2>2, <2>3
<1>16. /\ Sound(Store(points, at))
       /\ Store(points, at).num = at[N]
       /\ \A b \in 1..MaxBlockNum : Store(points, at).perSize[b] <= avg
       /\ \A x : Stored(Store(points, at), x) = Occurs(points, N, x)
  BY <1>13, <1>14, <1>15, StoreSound DEF N
<1>17. Store(points, at).num \in 1..needed
  <2>1. N \in 1..N
    BY <1>1
  <2> QED  BY <1>10, <1>16, <2>1
<1>18. \A b \in 1..MaxBlockNum : Store(points, at).perSize[b] <= CeilDiv(N, needed)
  <2> SUFFICES ASSUME NEW b \in 1..MaxBlockNum
               PROVE  Store(points, at).perSize[b] <= CeilDiv(N, needed)
    OBVIOUS
  <2>1. Store(points, at).perSize[b] \in 0..Cap
    BY <1>16 DEF Sound, LeafRecords
  <2>2. Store(points, at).perSize[b] <= avg
    BY <1>16
  <2> QED  BY <1>1, <1>2, <1>3, <2>1, <2>2
<1> QED  BY <1>4, <1>16, <1>17, <1>18 DEF N

----------------------------------------------------------------------------
(* Erasing the one point with a key, where the loops of Delete go right.   *)
AloneIn(block, size, k, at) ==
  /\ at \in 1..size /\ block[at] = k
  /\ \A i \in 1..size : block[i] = k => i = at

Closed(block, size, at) ==
  [i \in 1..Cap |->
     IF at = size THEN IF i = at THEN MAX ELSE block[i]
     ELSE IF at <= i /\ i < Cap THEN block[i + 1] ELSE block[i]]

LEMMA BlockLosesPoint ==
  ASSUME NEW block, NEW size, BlockOK(block, size), NEW k \in Key, NEW at,
         AloneIn(block, size, k, at), size = Cap => at = size
  PROVE  /\ BlockOK(Closed(block, size, at), size - 1)
         /\ KeysOf(Closed(block, size, at), size - 1) = KeysOf(block, size) \ {k}
         /\ BlankFrom(block, size) => BlankFrom(Closed(block, size, at), size - 1)
<1> DEFINE c == Closed(block, size, at)
<1>1. /\ Cap \in Nat /\ size \in Nat /\ size <= Cap /\ at \in Nat /\ 1 <= at /\ at <= size
      /\ block \in [1..Cap -> Key \cup {MAX}]
      /\ \A i \in 1..size : i \in 1..Cap /\ block[i] \in Key /\ block[i] \in Int
  BY KeysAreNumbers DEF BlockOK, AloneIn
<1>2. c = [i \in 1..Cap |->
             IF at = size THEN IF i = at THEN MAX ELSE block[i]
             ELSE IF at <= i /\ i < Cap THEN block[i + 1] ELSE block[i]]
  BY DEF Closed
<1> HIDE DEF c
<1>3. c \in [1..Cap -> Key \cup {MAX}]
  <2>1. \A i \in 1..Cap : i < Cap => i + 1 \in 1..Cap
    BY <1>1
  <2> QED  BY <1>1, <1>2, <2>1
<1> DEFINE from(i) == IF i < at THEN i ELSE i + 1
<1>4. ASSUME NEW i \in 1..size - 1
      PROVE  from(i) \in 1..size /\ from(i) # at /\ c[i] = block[from(i)]
  <2>1. i \in 1..Cap /\ i \in Nat /\ i < size
    BY <1>1
  <2>2. CASE i < at
    BY <1>1, <1>2, <2>1, <2>2
  <2>3. CASE ~ (i < at)
    BY <1>1, <1>2, <2>1, <2>3
  <2> QED  BY <2>2, <2>3
<1>5. ASSUME NEW i \in 1..size, i # at
      PROVE  \E j \in 1..size - 1 : from(j) = i
  <2> DEFINE j == IF i < at THEN i ELSE i - 1
  <2>1. j \in 1..size - 1
    BY <1>1, <1>5
  <2>2. from(j) = i
    BY <1>1, <1>5
  <2> QED  BY <2>1, <2>2
<1>6. \A i, j \in 1..size - 1 : i <= j => from(i) <= from(j)
  BY <1>1
<1> HIDE DEF from
<1>7. BlockOK(c, size - 1)
  <2>1. size - 1 \in 0..Cap
    BY <1>1
  <2>2. \A i \in 1..size - 1 : c[i] \in Key
    BY <1>1, <1>4
  <2>3. ASSUME NEW i \in 1..size - 1, NEW j \in 1..size - 1, i <= j
        PROVE  c[i] <= c[j]
    <3>1. from(i) \in 1..size /\ from(j) \in 1..size /\ from(i) <= from(j)
      BY <1>4, <1>6, <2>3
    <3>2. block[from(i)] <= block[from(j)]
      BY <3>1 DEF BlockOK
    <3> QED  BY <1>4, <3>2
  <2> QED  BY <1>3, <2>1, <2>2, <2>3 DEF BlockOK
<1>8. KeysOf(c, size - 1) = KeysOf(block, size) \ {k}
  <2>1. ASSUME NEW x \in KeysOf(c, size - 1)
        PROVE  x \in KeysOf(block, size) \ {k}
    <3>1. PICK i \in 1..size - 1 : x = c[i]
      BY <2>1 DEF KeysOf
    <3>2. from(i) \in 1..size /\ from(i) # at /\ x = block[from(i)]
      BY <1>4, <3>1
    <3> QED  BY <3>2 DEF KeysOf, AloneIn
  <2>2. ASSUME NEW x \in KeysOf(block, size) \ {k}
        PROVE  x \in KeysOf(c, size - 1)
    <3>1. PICK i \in 1..size : x = block[i]
      BY <2>2 DEF KeysOf
    <3>2. i # at
      BY <2>2, <3>1 DEF AloneIn
    <3>3. PICK j \in 1..size - 1 : from(j) = i
      BY <1>5, <3>2
    <3> QED  BY <1>4, <3>1, <3>3 DEF KeysOf
  <2> QED  BY <2>1, <2>2
<1>9. ASSUME BlankFrom(block, size)
      PROVE  BlankFrom(c, size - 1)
  <2> SUFFICES ASSUME NEW i \in 1..Cap, i > size - 1
               PROVE  c[i] = MAX
    BY DEF BlankFrom
  <2>0. \A j \in 1..Cap : j > size => block[j] = MAX
    BY <1>9 DEF BlankFrom
  <2>1. CASE at = size
    BY <1>1, <1>2, <2>0, <2>1
  <2>2. CASE at # size
    <3>1. size < Cap
      BY <1>1, <2>2
    <3>2. CASE i < Cap
      BY <1>1, <1>2, <2>0, <2>2, <3>2
    <3>3. CASE ~ (i < Cap)
      BY <1>1, <1>2, <2>0, <2>2, <3>1, <3>3
    <3> QED  BY <3>2, <3>3
  <2> QED  BY <2>1, <2>2
<1> QED  BY <1>7, <1>8, <1>9 DEF c

LEMMA ClosedCounts ==
  ASSUME NEW block, NEW size, BlockOK(block, size), NEW k \in Key, NEW at,
         AloneIn(block, size, k, at), size = Cap => at = size, NEW x
  PROVE  Occurs(Closed(block, size, at), size - 1, x) + Adds(k, x) = Occurs(block, size, x)
<1> DEFINE c == Closed(block, size, at)
<1>1. /\ Cap \in Nat /\ size \in Nat /\ size <= Cap
      /\ size - 1 \in Nat /\ (size - 1) + 1 = size /\ at \in 1..(size - 1) + 1
      /\ block[at] = k
  BY KeysAreNumbers DEF BlockOK, AloneIn
<1>2. c = [i \in 1..Cap |->
             IF at = size THEN IF i = at THEN MAX ELSE block[i]
             ELSE IF at <= i /\ i < Cap THEN block[i + 1] ELSE block[i]]
  BY DEF Closed
<1> HIDE DEF c
<1>3. PutIn(c, block, size - 1, at)
  <2>1. ASSUME NEW i \in 1..size - 1
        PROVE  /\ i < at => block[i] = c[i]
               /\ at <= i => block[i + 1] = c[i]
    <3>1. i \in 1..Cap /\ i < Cap /\ i < size
      BY <1>1
    <3>2. c[i] = IF at = size THEN IF i = at THEN MAX ELSE block[i]
                 ELSE IF at <= i /\ i < Cap THEN block[i + 1] ELSE block[i]
      BY <1>2, <3>1
    <3> QED  BY <1>1, <3>1, <3>2
  <2> QED  BY <2>1 DEF PutIn
<1>4. Occurs(block, (size - 1) + 1, x) = Occurs(c, size - 1, x) + OneIf(block, at, x)
  BY <1>1, <1>3, OccursPutIn
<1>5. OneIf(block, at, x) = Adds(k, x)
  BY <1>1 DEF OneIf, Adds
<1> QED  BY <1>1, <1>4, <1>5 DEF c

(* One point with the key in the leaf, that is one place.                  *)
LEMMA OnePlace ==
  ASSUME NEW l \in LeafRecords, NEW k, Stored(l, k) = 1,
         NEW b \in 1..l.num, NEW at \in 1..l.perSize[b], l.slots[b][at] = k,
         NEW c \in 1..l.num, NEW i \in 1..l.perSize[c], l.slots[c][i] = k
  PROVE  c = b /\ i = at
<1> DEFINE P == {p \in (1..l.num) \X (1..Cap) :
                   p[2] <= l.perSize[p[1]] /\ l.slots[p[1]][p[2]] = k}
<1>1. /\ l.num \in Nat /\ Cap \in Nat
      /\ \A d \in 1..l.num : l.perSize[d] \in 0..Cap
  BY LeafNumbers, KeysAreNumbers
<1>2. IsFiniteSet(P)
  <2>1. IsFiniteSet(1..l.num) /\ IsFiniteSet(1..Cap)
    <3>1. 1 \in Int /\ l.num \in Int /\ Cap \in Int
      BY <1>1
    <3> QED  BY <3>1, FS_Interval
  <2>2. IsFiniteSet((1..l.num) \X (1..Cap))
    BY <2>1, FS_Product
  <2>3. P \in SUBSET ((1..l.num) \X (1..Cap))
    OBVIOUS
  <2> QED  BY <2>2, <2>3, FS_Subset
<1>3. Cardinality(P) = 1
  BY DEF Stored
<1>4. <<b, at>> \in P /\ <<c, i>> \in P
  BY <1>1
<1> HIDE DEF P
<1>5. PICK p : P = {p}
  BY <1>2, <1>3, FS_Singleton
<1>6. <<b, at>> = <<c, i>>
  BY <1>4, <1>5
<1> QED  BY <1>6

ErasedTimes(block, size, k, at) ==
  Min({Cardinality({i \in at..Cap : \A j \in at..i : block[j] = k}),
       (size - at + 2) \div 2})

LEMMA ErasesOnce ==
  ASSUME NEW block, NEW size, BlockOK(block, size), NEW k \in Key, NEW at,
         AloneIn(block, size, k, at)
  PROVE  ErasedTimes(block, size, k, at) = 1
<1> DEFINE same == {i \in at..Cap : \A j \in at..i : block[j] = k}
           half == (size - at + 2) \div 2
<1>1. /\ Cap \in Nat /\ size \in Nat /\ size <= Cap /\ at \in Nat /\ 1 <= at /\ at <= size
  BY KeysAreNumbers DEF BlockOK, AloneIn
<1>2. IsFiniteSet(same) /\ at \in same
  <2>1. IsFiniteSet(at..Cap)
    BY <1>1, FS_Interval
  <2>2. same \in SUBSET (at..Cap)
    OBVIOUS
  <2>3. at \in at..Cap /\ \A j \in at..at : block[j] = k
    BY <1>1 DEF AloneIn
  <2> QED  BY <2>1, <2>2, <2>3, FS_Subset
<1>3. half \in Nat /\ half >= 1 /\ (at = size => half = 1)
  BY <1>1
<1>4. at # size => same = {at}
  <2> SUFFICES ASSUME at # size, NEW i \in same, i # at
               PROVE  FALSE
    BY <1>2
  <2>1. at + 1 \in at..i /\ at + 1 \in 1..size
    BY <1>1
  <2>2. block[at + 1] = k /\ at + 1 # at
    BY <1>1, <2>1
  <2> QED  BY <2>1, <2>2 DEF AloneIn
<1> HIDE DEF same, half
<1>5. Cardinality(same) \in Nat /\ Cardinality(same) # 0
  BY <1>2, FS_CardinalityType, FS_EmptySet
<1>6. at # size => Cardinality(same) = 1
  BY <1>4, FS_Singleton
<1>7. Min({Cardinality(same), half}) = 1
  BY <1>3, <1>5, <1>6, MinOfTwo
<1> QED  BY <1>7 DEF same, half, ErasedTimes

LEMMA EraseSound ==
  ASSUME NEW l, Sound(l), NEW k \in Key, NEW b, NEW at, Found(l, k),
         b = Search(l, k), at = SearchDataBlock(l.slots[b], k, l.perSize[b]),
         ClearToErase(l, k, b, at)
  PROVE  /\ ~ (at = Cap /\ b < l.num /\ l.perSize[b + 1] > 0)
         /\ Sound(EraseInBlock(l, k, b, at))
         /\ EraseInBlock(l, k, b, at).num = l.num
         /\ \A x : Stored(EraseInBlock(l, k, b, at), x) = IF x = k THEN 0 ELSE Stored(l, x)
<1> DEFINE n     == l.num
           block == l.slots[b]
           size  == l.perSize[b]
           c     == Closed(block, size, at)
           m     == EraseInBlock(l, k, b, at)
<1>1. /\ l \in LeafRecords /\ n \in Nat \ {0} /\ b \in 1..n /\ b \in 1..MaxBlockNum
      /\ BlockOK(block, size) /\ size \in 0..Cap /\ Cap \in Nat
  <2>1. l \in LeafRecords /\ n \in Nat /\ n > 0
    BY LeafNumbers DEF Sound, Found
  <2>2. b \in 1..n
    BY <2>1, SearchLeads
  <2> QED  BY <2>1, <2>2, LeafNumbers, KeysAreNumbers DEF Sound
<1>2. at \in 1..size /\ block[at] = k
  <2>1. at \in 1..size + 1
    BY <1>1, SearchInBlock
  <2>2. at <= size /\ block[at] = k
    BY DEF Found
  <2> QED  BY <1>1, <2>1, <2>2
<1>3. \A d \in 1..n : \A i \in 1..l.perSize[d] : l.slots[d][i] = k => d = b /\ i = at
  <2>1. Stored(l, k) = 1
    BY DEF ClearToErase
  <2> QED  BY <1>1, <1>2, <2>1, OnePlace
<1>4. AloneIn(block, size, k, at)
  BY <1>1, <1>2, <1>3 DEF AloneIn
<1>5. /\ size = Cap => at = size /\ b = n
      /\ at # size - 1
  BY <1>1 DEF ClearToErase
<1>6. ~ (at = Cap /\ b < l.num /\ l.perSize[b + 1] > 0)
  BY <1>1, <1>2, <1>5
<1>7. m = [num |-> n, slotkeys |-> l.slotkeys,
           perSize |-> [l.perSize EXCEPT ![b] = size - 1],
           slots |-> [l.slots EXCEPT ![b] = c]]
  <2> DEFINE t == ErasedTimes(block, size, k, at)
             cleared(u) == [i \in 1..Cap |-> IF at <= i /\ i < at + u THEN MAX ELSE block[i]]
             moved(u) == [i \in 1..Cap |-> IF at <= i /\ i + u <= Cap THEN cleared(u)[i + u]
                                           ELSE cleared(u)[i]]
             made(u) == IF u > 0 /\ at + u <= size - u THEN moved(u) ELSE cleared(u)
             clear == cleared(1)
             down  == moved(1)
             nb == made(1)
  <2>1. m = [l EXCEPT !.perSize[b] = size - 1, !.slots[b] = nb]
    <3>1. t = 1
      BY <1>1, <1>4, ErasesOnce
    <3>2. m = [l EXCEPT !.perSize[b] = size - t, !.slots[b] = made(t)]
      BY DEF EraseInBlock, ErasedTimes
    <3> HIDE DEF t, made, m
    <3> QED  BY <3>1, <3>2
  <2>2. nb = c
    <3>1. CASE at = size
      <4>1. nb = clear
        BY <1>1, <3>1
      <4>2. clear = c
        BY <1>1, <1>2, <3>1 DEF Closed
      <4> QED  BY <4>1, <4>2
    <3>2. CASE at # size
      <4>1. nb = down
        <5>1. at + 1 <= size - 1
          BY <1>1, <1>2, <1>5, <3>2
        <5> HIDE DEF moved, cleared
        <5> QED  BY <5>1
      <4>5. \A i \in 1..Cap :
              /\ down[i] = IF at <= i /\ i + 1 <= Cap THEN clear[i + 1] ELSE clear[i]
              /\ clear[i] = IF at <= i /\ i < at + 1 THEN MAX ELSE block[i]
        OBVIOUS
      <4>6. down = [i \in 1..Cap |-> down[i]]
        OBVIOUS
      <4> HIDE DEF down, clear, c, nb
      <4>2. ASSUME NEW i \in 1..Cap
            PROVE  down[i] = c[i]
        <5>1. c[i] = IF at <= i /\ i < Cap THEN block[i + 1] ELSE block[i]
          BY <3>2 DEF c, Closed
        <5>2. CASE at <= i /\ i < Cap
          <6>1. i + 1 \in 1..Cap /\ ~ (i + 1 < at + 1) /\ i + 1 <= Cap
            BY <1>1, <1>2, <5>2
          <6>2. clear[i + 1] = block[i + 1]
            BY <4>5, <6>1
          <6> QED  BY <4>5, <5>1, <5>2, <6>1, <6>2
        <5>3. CASE ~ (at <= i /\ i < Cap)
          <6>1. ~ (at <= i /\ i + 1 <= Cap)
            BY <1>1, <1>2, <5>3
          <6>2. i # at
            BY <1>1, <1>2, <3>2, <5>3
          <6>3. clear[i] = block[i]
            BY <1>1, <1>2, <4>5, <6>2
          <6> QED  BY <4>5, <5>1, <5>3, <6>1, <6>3
        <5> QED  BY <5>2, <5>3
      <4>3. down = c
        <5>1. c = [i \in 1..Cap |-> c[i]]
          BY DEF c, Closed
        <5> QED  BY <4>2, <4>6, <5>1
      <4> QED  BY <4>1, <4>3
    <3> QED  BY <3>1, <3>2
  <2> HIDE DEF nb, m, c
  <2>3. m = [l EXCEPT !.perSize[b] = size - 1, !.slots[b] = c]
    BY <2>1, <2>2
  <2>4. l = [num |-> l.num, slotkeys |-> l.slotkeys, perSize |-> l.perSize,
             slots |-> l.slots]
    BY <1>1 DEF LeafRecords
  <2> QED  BY <2>3, <2>4
<1> HIDE DEF m
<1>8. /\ BlockOK(c, size - 1)
      /\ KeysOf(c, size - 1) = KeysOf(block, size) \ {k}
      /\ BlankFrom(block, size) => BlankFrom(c, size - 1)
  BY <1>1, <1>4, <1>5, BlockLosesPoint
<1> HIDE DEF c
<1>9. /\ l.perSize \in [1..MaxBlockNum -> 0..Cap]
      /\ l.slots \in [1..MaxBlockNum -> [1..Cap -> Key \cup {MAX}]]
      /\ l.slotkeys \in [1..MaxBlockNum - 1 -> 0..MAX]
      /\ l.num \in 0..MaxBlockNum
  BY <1>1 DEF LeafRecords
<1>10. /\ m.num = n /\ m.slotkeys = l.slotkeys
       /\ m.perSize[b] = size - 1 /\ m.slots[b] = c
       /\ \A a \in 1..n : a # b => m.perSize[a] = l.perSize[a] /\ m.slots[a] = l.slots[a]
  <2>1. \A a \in 1..n : a \in 1..MaxBlockNum
    BY <1>1, LeafNumbers
  <2> QED  BY <1>1, <1>7, <1>9, <2>1
<1>11. m \in LeafRecords
  <2>1. c \in [1..Cap -> Key \cup {MAX}] /\ size - 1 \in 0..Cap
    BY <1>8 DEF BlockOK
  <2> QED  BY <1>1, <1>7, <1>9, <2>1 DEF LeafRecords
<1>16. \A a \in 1..MaxBlockNum : a # b => m.perSize[a] = l.perSize[a] /\ m.slots[a] = l.slots[a]
  BY <1>1, <1>7, <1>9
<1>17. ASSUME NEW x
       PROVE  OccursIn(m, b, x) + Adds(k, x) = OccursIn(l, b, x)
  <2>1. Occurs(c, size - 1, x) + Adds(k, x) = Occurs(block, size, x)
    BY <1>1, <1>4, <1>5, ClosedCounts DEF c
  <2> QED  BY <1>10, <2>1 DEF OccursIn
<1> HIDE DEF size, block, n
<1>18. ASSUME NEW x
       PROVE  Stored(m, x) = IF x = k THEN 0 ELSE Stored(l, x)
  <2>1. /\ n \in Nat /\ n \in b..MaxBlockNum
    BY <1>1, LeafNumbers, KeysAreNumbers DEF n
  <2>2. CountTo(m, n, x) + OccursIn(l, b, x) = CountTo(l, n, x) + OccursIn(m, b, x)
    BY <1>1, <1>11, <1>16, <2>1, CountDiffers DEF DifferAt
  <2>3. Stored(m, x) = CountTo(m, n, x) /\ Stored(l, x) = CountTo(l, n, x)
    BY <1>10, StoredIsCount DEF n
  <2>4. /\ CountTo(m, n, x) \in Nat /\ CountTo(l, n, x) \in Nat
        /\ OccursIn(m, b, x) \in Nat /\ OccursIn(l, b, x) \in Nat
    BY <1>1, <1>11, <2>1, CountIsNumber, BlockNumbers
  <2>5. Stored(m, x) + Adds(k, x) = Stored(l, x)
    <3>1. Adds(k, x) \in Nat
      BY DEF Adds
    <3> QED  BY <1>17, <2>2, <2>3, <2>4, <3>1
  <2>6. Stored(l, k) = 1
    BY DEF ClearToErase
  <2>7. Stored(m, x) \in Nat
    BY <2>3, <2>4
  <2> QED  BY <2>5, <2>6, <2>7 DEF Adds
<1>12. \A a \in 1..m.num : BlockOK(m.slots[a], m.perSize[a])
  BY <1>8, <1>10 DEF Sound, n
<1>13. m.num > 1 => \A a \in 1..m.num : BlankFrom(m.slots[a], m.perSize[a])
  BY <1>8, <1>10 DEF Sound, n, size, block
<1>14. Routed(n, KeysIn(m), SeparatorsOf(m))
  <2> DEFINE K == KeysIn(l)
             sep == SeparatorsOf(l)
  <2>1. Routed(n, K, sep)
    BY <1>1 DEF Sound, n
  <2>2. K = [a \in 1..n |-> KeysOf(l.slots[a], l.perSize[a])]
    BY DEF KeysIn, n
  <2> HIDE DEF K
  <2>3. \A a \in 1..n : a # b => k \notin K[a]
    BY <1>3, <2>2 DEF KeysOf
  <2>4. KeysIn(m) = [K EXCEPT ![b] = @ \ {k}]
    <3>1. KeysIn(m) = [a \in 1..n |-> KeysOf(m.slots[a], m.perSize[a])]
      BY <1>10 DEF KeysIn
    <3>2. \A a \in 1..n : KeysOf(m.slots[a], m.perSize[a])
                            = IF a = b THEN K[a] \ {k} ELSE K[a]
      BY <1>8, <1>10, <2>2 DEF size, block
    <3> QED  BY <2>2, <3>1, <3>2
  <2>5. SeparatorsOf(m) = sep
    BY <1>10 DEF SeparatorsOf, n
  <2> HIDE DEF sep
  <2>6. Routed(n, [K EXCEPT ![b] = @ \ {k}], sep)
    BY <1>1, <2>1, <2>3, TakeFromBlock
  <2> QED  BY <2>4, <2>5, <2>6
<1>15. Sound(m)
  BY <1>10, <1>11, <1>12, <1>13, <1>14 DEF Sound
<1> QED  BY <1>6, <1>10, <1>15, <1>18 DEF m, n

----------------------------------------------------------------------------
(* The first block of a leaf, whatever another leaf has left in it.        *)
FirstBlock(l, k, block) ==
  [l EXCEPT !.num = 1, !.slotkeys[1] = k + One, !.perSize[1] = 1,
            !.slots[1] = [block EXCEPT ![1] = k]]

LEMMA FirstBlockSound ==
  ASSUME NEW l \in LeafRecords, l.num = 0, NEW k \in Key,
         NEW block \in [1..Cap -> Key \cup {MAX}]
  PROVE  /\ Sound(FirstBlock(l, k, block))
         /\ \A x : Stored(FirstBlock(l, k, block), x) = Adds(k, x)
<1> DEFINE first == [block EXCEPT ![1] = k]
           m == [num |-> 1,
                 slotkeys |-> [l.slotkeys EXCEPT ![1] = k + One],
                 perSize  |-> [l.perSize EXCEPT ![1] = 1],
                 slots    |-> [l.slots EXCEPT ![1] = first]]
           K == KeysIn(m)
           sep == SeparatorsOf(m)
<1>1. /\ Cap \in Nat \ {0} /\ MaxBlockNum \in Nat /\ MaxBlockNum >= 2 /\ MAX \in Nat
      /\ k + One \in 0..MAX
  BY KeysAreNumbers
<1>2. /\ l.slotkeys \in [1..MaxBlockNum - 1 -> 0..MAX]
      /\ l.perSize \in [1..MaxBlockNum -> 0..Cap]
      /\ l.slots \in [1..MaxBlockNum -> [1..Cap -> Key \cup {MAX}]]
      /\ l = [num |-> l.num, slotkeys |-> l.slotkeys, perSize |-> l.perSize,
              slots |-> l.slots]
  BY DEF LeafRecords
<1>3. first \in [1..Cap -> Key \cup {MAX}] /\ first[1] = k
  BY <1>1
<1>4. FirstBlock(l, k, block) = m
  <2> HIDE DEF first
  <2> DEFINE l1 == [num |-> 1, slotkeys |-> l.slotkeys, perSize |-> l.perSize,
                    slots |-> l.slots]
             l2 == [num |-> 1, slotkeys |-> [l.slotkeys EXCEPT ![1] = k + One],
                    perSize |-> l.perSize, slots |-> l.slots]
             l3 == [num |-> 1, slotkeys |-> [l.slotkeys EXCEPT ![1] = k + One],
                    perSize |-> [l.perSize EXCEPT ![1] = 1], slots |-> l.slots]
  <2>1. [l EXCEPT !.num = 1] = l1
    BY <1>2
  <2>2. [l1 EXCEPT !.slotkeys[1] = k + One] = l2
    OBVIOUS
  <2>3. [l2 EXCEPT !.perSize[1] = 1] = l3
    OBVIOUS
  <2>4. [l3 EXCEPT !.slots[1] = first] = m
    OBVIOUS
  <2> HIDE DEF l1, l2, l3, m
  <2>5. [l EXCEPT !.num = 1, !.slotkeys[1] = k + One, !.perSize[1] = 1,
                  !.slots[1] = first] = m
    BY <2>1, <2>2, <2>3, <2>4
  <2> QED  BY <2>5 DEF first, FirstBlock
<1> HIDE DEF first
<1>5. m \in LeafRecords
  BY <1>1, <1>2, <1>3 DEF LeafRecords
<1>6. m.num = 1 /\ m.perSize[1] = 1 /\ m.slots[1] = first
  BY <1>1, <1>2
<1> HIDE DEF m
<1>7. BlockOK(first, 1)
  BY <1>1, <1>3, KeysAreNumbers DEF BlockOK
<1>8. \A b \in 1..m.num : BlockOK(m.slots[b], m.perSize[b])
  BY <1>6, <1>7
<1>9. Routed(1, K, sep)
  <2>1. K \in [1..1 -> SUBSET Key]
    <3>1. KeysOf(first, 1) \in SUBSET Key
      BY <1>7 DEF BlockOK, KeysOf
    <3>2. K = [b \in 1..1 |-> KeysOf(m.slots[b], m.perSize[b])]
      BY <1>6 DEF KeysIn
    <3> HIDE DEF K
    <3> QED  BY <1>6, <3>1, <3>2
  <2>2. 1..1 - 1 = {} /\ sep \in [1..1 - 1 -> Int]
    BY <1>6 DEF SeparatorsOf
  <2> HIDE DEF K, sep
  <2>3. Ascending(1, sep) /\ Between(1, K, sep) /\ Spaced(1, sep)
    BY <2>2 DEF Ascending, Between, Spaced
  <2>4. Reached(1, K, sep)
    BY DEF Reached
  <2> QED  BY <2>1, <2>2, <2>3, <2>4 DEF Routed
<1>10. Sound(m)
  BY <1>5, <1>6, <1>8, <1>9 DEF Sound
<1>11. ASSUME NEW x
       PROVE  Stored(m, x) = Adds(k, x)
  <2>1. Stored(m, x) = CountTo(m, 1, x)
    BY <1>6, StoredIsCount
  <2>2. CountTo(m, 0 + 1, x) = CountTo(m, 0, x) + OccursIn(m, 0 + 1, x)
    <3>1. 0 \in Nat /\ 0 + 1 <= MaxBlockNum
      BY <1>1
    <3> QED  BY <1>5, <3>1, CountNext
  <2>3. OccursIn(m, 1, x) = Occurs(first, 1, x)
    BY <1>6 DEF OccursIn
  <2>4. Occurs(first, 0 + 1, x) = Occurs(first, 0, x) + OneIf(first, 0 + 1, x)
    <3>1. 0 \in Nat
      OBVIOUS
    <3> QED  BY <3>1, OccursNext
  <2>5. CountTo(m, 0, x) = 0 /\ Occurs(first, 0, x) = 0
    BY CountInNone, OccursInNone
  <2>6. OneIf(first, 1, x) = Adds(k, x) /\ Adds(k, x) \in Nat
    BY <1>3 DEF OneIf, Adds
  <2>7. 0 + 1 = 1
    OBVIOUS
  <2> QED  BY <2>1, <2>2, <2>3, <2>4, <2>5, <2>6, <2>7
<1> QED  BY <1>4, <1>10, <1>11

(* A full block has nothing behind its points; with it, no block has.      *)
LEMMA BlanksBehind ==
  ASSUME NEW l, Sound(l), NEW b \in 1..l.num, l.perSize[b] = Cap
  PROVE  \A c \in 1..l.num : BlankFrom(l.slots[c], l.perSize[c])
<1>1. l.num \in Nat /\ Cap \in Nat
  BY LeafNumbers, KeysAreNumbers DEF Sound
<1>2. CASE l.num > 1
  BY <1>2 DEF Sound
<1>3. CASE ~ (l.num > 1)
  <2>1. \A c \in 1..l.num : c = b
    BY <1>1, <1>3
  <2>2. BlankFrom(l.slots[b], Cap)
    BY <1>1 DEF BlankFrom
  <2> QED  BY <2>1, <2>2
<1> QED  BY <1>2, <1>3

(* Rebalance and Expand, of a leaf with a full block.                      *)
LEMMA RestoredSound ==
  ASSUME NEW l, Sound(l), KeysApart, NEW b \in 1..l.num, l.perSize[b] = Cap,
         NEW needed \in 1..MaxBlockNum, l.num <= needed
  PROVE  /\ Sound(StoreData(ExtractDataset(l), needed))
         /\ StoreData(ExtractDataset(l), needed).num > 0
         /\ GetDataNum(l) \in Nat /\ GetDataNum(l) <= l.num * Cap
         /\ \A room \in Nat :
              GetDataNum(l) <= room * needed =>
                \A c \in 1..StoreData(ExtractDataset(l), needed).num :
                  StoreData(ExtractDataset(l), needed).perSize[c] <= room
         /\ \A x : Stored(StoreData(ExtractDataset(l), needed), x) = Stored(l, x)
<1> DEFINE q   == ExtractDataset(l)
           cnt == GetDataNum(l)
           m   == StoreData(q, needed)
<1>1. l.num \in Nat \ {0} /\ Cap \in Nat \ {0} /\ needed \in Nat \ {0} /\ MaxBlockNum \in Nat
  BY LeafNumbers, KeysAreNumbers DEF Sound
<1>2. ExtractsTo(l, q, l.num, cnt)
  BY <1>1, BlanksBehind, ExtractDatasetIs
<1> HIDE DEF q, cnt
<1>3. /\ q \in Seq(Key) /\ cnt \in Nat /\ Len(q) = cnt /\ cnt <= l.num * Cap
      /\ cnt >= Cap /\ InOrder(q)
  BY <1>2 DEF ExtractsTo, InOrder
<1>4. l.num * Cap <= needed * Cap
  <2>3. needed - l.num \in Nat /\ needed = l.num + (needed - l.num)
    BY <1>1
  <2>1. PICK e \in Nat : needed = l.num + e
    BY <2>3
  <2>2. needed * Cap = l.num * Cap + e * Cap /\ e * Cap \in Nat /\ l.num * Cap \in Nat
    BY <1>1, <2>1
  <2> QED  BY <2>2
<1>5. Len(q) > 0 /\ Len(q) <= needed * Cap
  <2>1. needed * Cap \in Nat /\ l.num * Cap \in Nat
    BY <1>1
  <2> QED  BY <1>1, <1>3, <1>4, <2>1
<1>6. /\ Sound(m) /\ m.num \in 1..needed
      /\ \A c \in 1..MaxBlockNum : m.perSize[c] <= CeilDiv(cnt, needed)
      /\ \A x : Stored(m, x) = Occurs(q, cnt, x)
  BY <1>3, <1>5, StoreDataSound
<1> HIDE DEF m
<1>7. ASSUME NEW room \in Nat, cnt <= room * needed, NEW c \in 1..m.num
      PROVE  m.perSize[c] <= room
  <2>1. cnt \in Nat \ {0}
    BY <1>1, <1>3
  <2>2. CeilDiv(cnt, needed) \in Nat /\ CeilDiv(cnt, needed) <= room
    BY <1>1, <1>7, <2>1, CeilDivIs
  <2>3. c \in 1..MaxBlockNum /\ m.perSize[c] \in 0..Cap
    BY <1>6, LeafNumbers DEF Sound
  <2>4. m.perSize[c] <= CeilDiv(cnt, needed)
    BY <1>6, <2>3
  <2> QED  BY <1>1, <2>2, <2>3, <2>4
<1>8. m.num > 0
  BY <1>1, <1>6
<1>9. \A x : Stored(m, x) = Stored(l, x)
  BY <1>2, <1>6, StoredIsCount DEF ExtractsTo
<1> QED  BY <1>3, <1>6, <1>7, <1>8, <1>9 DEF m, q, cnt

(* Another try at an insertion.                                            *)
LEMMA InsertWhereSearched ==
  ASSUME NEW l, Sound(l), KeysApart, l.num > 0, NEW k \in Key
  PROVE  /\ Search(l, k) \in 1..l.num
         /\ ~ IsFull(l, Search(l, k)) =>
              /\ Sound(InsertDataBlock(l, k, Search(l, k)))
              /\ InsertDataBlock(l, k, Search(l, k)).num = l.num
              /\ \A x : Stored(InsertDataBlock(l, k, Search(l, k)), x)
                         = Stored(l, x) + Adds(k, x)
<1> DEFINE b == Search(l, k)
<1>1. b \in 1..l.num /\ Leads(l.num, SeparatorsOf(l), k, b)
  BY SearchLeads
<1>2. l.perSize[b] \in 0..Cap /\ Cap \in Nat
  BY <1>1, LeafNumbers, KeysAreNumbers DEF Sound
<1> HIDE DEF b
<1>3. ~ IsFull(l, b) => l.perSize[b] < Cap
  BY <1>2 DEF IsFull
<1>4. ~ IsFull(l, b) => /\ Sound(InsertDataBlock(l, k, b))
                        /\ InsertDataBlock(l, k, b).num = l.num
  BY <1>1, <1>3, InsertDataBlockSound
<1>5. ASSUME ~ IsFull(l, b), NEW x
      PROVE  Stored(InsertDataBlock(l, k, b), x) = Stored(l, x) + Adds(k, x)
  <2>1. l \in LeafRecords /\ b \in 1..MaxBlockNum /\ BlockOK(l.slots[b], l.perSize[b])
    BY <1>1, LeafNumbers DEF Sound
  <2>2. l.num \in b..MaxBlockNum
    BY <1>1, <2>1, LeafNumbers, KeysAreNumbers
  <2>3. CountTo(InsertDataBlock(l, k, b), l.num, x) = CountTo(l, l.num, x) + Adds(k, x)
    BY <1>3, <1>5, <2>1, <2>2, InsertDataBlockCounts
  <2> QED  BY <1>4, <1>5, <2>3, StoredIsCount
<1> QED  BY <1>1, <1>4, <1>5 DEF b

----------------------------------------------------------------------------
(* The leaf of the initial state.                                          *)
LEMMA StepsUp ==
  ASSUME NEW n \in Nat, NEW f, f \in [1..n -> Int],
         \A j \in 1..n - 1 : f[j] <= f[j + 1]
  PROVE  \A i, j \in 1..n : i <= j => f[i] <= f[j]
<1> DEFINE S == {d \in Nat : \A i \in 1..n : i + d <= n => f[i] <= f[i + d]}
<1>1. 0 \in S
  <2> SUFFICES ASSUME NEW i \in 1..n
               PROVE  f[i] <= f[i + 0]
    OBVIOUS
  <2>1. i + 0 = i /\ f[i] \in Int
    OBVIOUS
  <2> QED  BY <2>1
<1>2. ASSUME NEW d \in Nat, d \in S
      PROVE  d + 1 \in S
  <2> SUFFICES ASSUME NEW i \in 1..n, i + (d + 1) <= n
               PROVE  f[i] <= f[i + (d + 1)]
    OBVIOUS
  <2>1. /\ i + d \in 1..n /\ i + d \in 1..n - 1 /\ i + (d + 1) \in 1..n
        /\ (i + d) + 1 = i + (d + 1) /\ i + d <= n
    OBVIOUS
  <2>2. f[i] <= f[i + d]
    BY <1>2, <2>1
  <2>3. f[i + d] <= f[(i + d) + 1]
    BY <2>1
  <2>4. f[i] \in Int /\ f[i + d] \in Int /\ f[i + (d + 1)] \in Int
    BY <2>1
  <2> QED  BY <2>1, <2>2, <2>3, <2>4
<1>3. Nat \subseteq S
  <2> HIDE DEF S
  <2> QED  BY <1>1, <1>2, Induction
<1>4. ASSUME NEW i \in 1..n, NEW j \in 1..n, i <= j
      PROVE  f[i] <= f[j]
  <2>1. j - i \in Nat /\ i + (j - i) = j
    BY <1>4
  <2>2. j - i \in S
    BY <1>3, <2>1
  <2>3. i + (j - i) <= n => f[i] <= f[i + (j - i)]
    BY <2>2
  <2> QED  BY <2>1, <2>3
<1> QED  BY <1>4

LEMMA KeysAreFinite ==
  ASSUME NEW points \in SUBSET Key
  PROVE  Cardinality(points) \in Nat
<1>1. points \in SUBSET Nat /\ MAX \in Nat /\ \A k \in points : k <= MAX
  BY KeysAreNumbers
<1>2. IsFiniteSet(points)
  BY <1>1, FS_BoundedSetOfNaturals
<1> QED  BY <1>2, FS_CardinalityType

LEMMA SortedPoints ==
  ASSUME NEW points \in SUBSET Key, NEW s \in Sortings(points)
  PROVE  InOrder(s) /\ \A j \in 1..Len(s) - 1 : s[j] < s[j + 1]
<1> DEFINE n == Cardinality(points)
<1>1. n \in Nat
  BY KeysAreFinite
<1>2. s \in [1..n -> points] /\ \A j \in 1..n - 1 : s[j] < s[j + 1]
  BY DEF Sortings
<1> HIDE DEF n
<1>3. s \in Seq(Key) /\ Len(s) = n
  BY <1>1, <1>2
<1>4. s \in [1..n -> Int]
  BY <1>2, KeysAreNumbers
<1>5. \A j \in 1..n - 1 : s[j] <= s[j + 1]
  <2> SUFFICES ASSUME NEW j \in 1..n - 1
               PROVE  s[j] <= s[j + 1]
    OBVIOUS
  <2>1. j \in 1..n /\ j + 1 \in 1..n
    BY <1>1
  <2>2. s[j] < s[j + 1] /\ s[j] \in Int /\ s[j + 1] \in Int
    BY <1>2, <1>4, <2>1
  <2> QED  BY <2>2
<1>6. \A i, j \in 1..n : i <= j => s[i] <= s[j]
  BY <1>1, <1>4, <1>5, StepsUp
<1> QED  BY <1>2, <1>3, <1>6 DEF InOrder

LEMMA NewLeafSound == Sound(NewLeaf)
<1>1. 1..0 = {}
  OBVIOUS
<1> QED  BY <1>1, NewLeafIsEmpty DEF Sound

LEMMA PredictedSound ==
  ASSUME NEW points, InOrder(points), \A j \in 1..Len(points) - 1 : points[j] < points[j + 1],
         Len(points) > 0, NEW at \in Predictions(Len(points)), KeysApart
  PROVE  Sound(Store(points, at))
<1> DEFINE N == Len(points)
<1>1. /\ N \in Nat \ {0} /\ points \in [1..N -> Key] /\ Cap \in Nat \ {0}
      /\ MaxBlockNum \in Nat
      /\ \A i, j \in 1..N : i <= j => points[i] <= points[j]
  <2>1. points \in Seq(Key) /\ N \in Nat /\ points \in [1..N -> Key]
    BY DEF InOrder
  <2> QED  BY <2>1, KeysAreNumbers DEF InOrder
<1>2. /\ at \in [1..N -> 1..MaxBlockNum] /\ at[1] = 1
      /\ \A j \in 1..N - 1 : at[j] <= at[j + 1]
      /\ \A j \in 1..N - Cap : at[j] < at[j + Cap]
  BY DEF Predictions
<1>3. \A i, j \in 1..N : i <= j => at[i] <= at[j]
  <2>1. at \in [1..N -> Int]
    BY <1>1, <1>2
  <2> HIDE DEF N
  <2> QED  BY <1>1, <1>2, <2>1, StepsUp
<1>4. Dealt(points, at)
  BY <1>1, <1>2, <1>3 DEF Dealt
<1>5. Spread(points, at, Cap)
  BY <1>1, <1>2 DEF Spread
<1>6. Skips(points, at)
  BY DEF Skips
<1> QED  BY <1>4, <1>5, <1>6, StoreSound

LEMMA MadeSound ==
  ASSUME NEW points, InOrder(points), Len(points) > 0,
         Len(points) <= Cap * MaxBlockNum, KeysApart
  PROVE  Sound(StoreData(points, CalNeededBlockNum(Len(points))))
<1> DEFINE N == Len(points)
           needed == CalNeededBlockNum(N)
<1>1. N \in Nat \ {0} /\ Cap \in Nat \ {0} /\ MaxBlockNum \in Nat \ {0}
  <2>1. N \in Nat
    BY DEF InOrder
  <2> QED  BY <2>1, KeysAreNumbers
<1> HIDE DEF N
<1>2. /\ CeilDiv(N, Cap) \in Nat \ {0} /\ N <= CeilDiv(N, Cap) * Cap
      /\ CeilDiv(N, Cap) <= MaxBlockNum
  <2>1. N <= MaxBlockNum * Cap
    <3>1. MaxBlockNum * Cap = Cap * MaxBlockNum
      BY <1>1
    <3> QED  BY <3>1 DEF N
  <2> QED  BY <1>1, <2>1, CeilDivIs
<1>3. needed = CeilDiv(N, Cap)
  <2>1. CeilDiv(N, Cap) \in Int /\ MaxBlockNum \in Int
    BY <1>1, <1>2
  <2> HIDE DEF needed
  <2>2. Min({CeilDiv(N, Cap), MaxBlockNum}) = CeilDiv(N, Cap)
    BY <1>2, <2>1, MinOfTwo
  <2> QED  BY <2>2 DEF needed, CalNeededBlockNum
<1> HIDE DEF needed
<1>4. needed \in 1..MaxBlockNum /\ N <= needed * Cap
  BY <1>1, <1>2, <1>3
<1> QED  BY <1>4, StoreDataSound DEF needed, N

LEMMA InitSound == ASSUME Init, KeysApart PROVE Sound(leaf)
<1>0. PICK points \in SUBSET Key : \E sorted \in Sortings(points) :
        /\ Len(sorted) <= Cap * MaxBlockNum
        /\ \/ leaf = StoreData(sorted, CalNeededBlockNum(Len(sorted)))
           \/ \E at \in Predictions(Len(sorted)) : leaf = Store(sorted, at)
  BY DEF Init
<1>1. PICK sorted \in Sortings(points) :
        /\ Len(sorted) <= Cap * MaxBlockNum
        /\ \/ leaf = StoreData(sorted, CalNeededBlockNum(Len(sorted)))
           \/ \E at \in Predictions(Len(sorted)) : leaf = Store(sorted, at)
  BY <1>0
<1>2. InOrder(sorted) /\ \A j \in 1..Len(sorted) - 1 : sorted[j] < sorted[j + 1]
  BY SortedPoints
<1>3. Len(sorted) \in Nat
  BY <1>2 DEF InOrder
<1>4. CASE Len(sorted) = 0
  <2>1. \A at : Store(sorted, at) = NewLeaf
    BY <1>4 DEF Store
  <2>2. StoreData(sorted, CalNeededBlockNum(Len(sorted))) = NewLeaf
    BY <2>1 DEF StoreData
  <2>3. leaf = NewLeaf
    BY <1>1, <2>1, <2>2
  <2> QED  BY <2>3, NewLeafSound
<1>5. CASE Len(sorted) # 0
  <2>1. Len(sorted) > 0
    BY <1>3, <1>5
  <2>2. Sound(StoreData(sorted, CalNeededBlockNum(Len(sorted))))
    BY <1>1, <1>2, <2>1, MadeSound
  <2>3. \A at \in Predictions(Len(sorted)) : Sound(Store(sorted, at))
    BY <1>2, <2>1, PredictedSound
  <2> QED  BY <1>1, <2>2, <2>3
<1> QED  BY <1>4, <1>5

----------------------------------------------------------------------------
(* The invariant is kept by every step.                                    *)
LeafInv == Sound(leaf) /\ refused \in BOOLEAN

LEMMA InsertFirstSound ==
  ASSUME LeafInv, NEW k \in Key, InsertFirst(k)
  PROVE  Sound(leaf') /\ \A x : Stored(leaf', x) = Adds(k, x)
<1>1. PICK block \in Recycled :
        leaf' = FirstBlock(leaf, k, block)
  BY DEF InsertFirst, FirstBlock
<1>2. block \in [1..Cap -> Key \cup {MAX}]
  BY RecycledAssumption
<1>3. leaf \in LeafRecords /\ leaf.num = 0
  BY DEF InsertFirst, LeafInv, Sound
<1> QED  BY <1>1, <1>2, <1>3, FirstBlockSound

LEMMA InsertAgainSound ==
  ASSUME NEW l, Sound(l), KeysApart, l.num > 0, NEW k \in Key, InsertAgain(l, k)
  PROVE  /\ Sound(leaf') /\ refused' \in BOOLEAN
         /\ refused' => \E c \in 1..l.num : l.perSize[c] = Cap
         /\ \A x : Stored(leaf', x) = IF refused' THEN Stored(l, x)
                                      ELSE Stored(l, x) + Adds(k, x)
<1> DEFINE b == Search(l, k)
<1>1. /\ b \in 1..l.num
      /\ ~ IsFull(l, b) =>
           /\ Sound(InsertDataBlock(l, k, b))
           /\ \A x : Stored(InsertDataBlock(l, k, b), x) = Stored(l, x) + Adds(k, x)
  BY InsertWhereSearched
<1>2. /\ leaf' = IF IsFull(l, b) THEN l ELSE InsertDataBlock(l, k, b)
      /\ refused' = IsFull(l, b)
  BY DEF InsertAgain
<1>3. IsFull(l, b) \in BOOLEAN /\ (IsFull(l, b) => l.perSize[b] = Cap)
  BY DEF IsFull
<1> HIDE DEF b
<1> QED  BY <1>1, <1>2, <1>3

LEMMA CrowdedLeaf ==
  ASSUME LeafInv, NEW k \in Key, Crowded(k)
  PROVE  /\ Search(leaf, k) \in 1..leaf.num
         /\ leaf.perSize[Search(leaf, k)] = Cap
         /\ leaf.num \in 1..MaxBlockNum
<1>1. Sound(leaf) /\ leaf.num > 0 /\ leaf.perSize[Search(leaf, k)] = Cap
  BY DEF LeafInv, Crowded, IsFull
<1>2. leaf.num \in Nat /\ leaf.num <= MaxBlockNum
  BY <1>1, LeafNumbers DEF Sound
<1>3. Search(leaf, k) \in 1..leaf.num
  BY <1>1, SearchLeads
<1> QED  BY <1>1, <1>2, <1>3, KeysAreNumbers

LEMMA NextSound ==
  ASSUME LeafInv, [Next]_vars, KeysApart, Erasing # "any"
  PROVE  LeafInv'
<1>0. Sound(leaf) /\ refused \in BOOLEAN
  BY DEF LeafInv
<1>1. CASE UNCHANGED vars
  BY <1>1 DEF LeafInv, vars
<1>2. ASSUME NEW k \in Key, InsertFirst(k)
      PROVE  LeafInv'
  <2>1. Sound(leaf')
    BY <1>2, InsertFirstSound
  <2> QED  BY <1>0, <1>2, <2>1 DEF InsertFirst, LeafInv
<1>3. ASSUME NEW k \in Key, InsertHere(k)
      PROVE  LeafInv'
  <2>1. leaf.num > 0 /\ ~ IsFull(leaf, Search(leaf, k))
    BY <1>3 DEF InsertHere
  <2>2. Sound(InsertDataBlock(leaf, k, Search(leaf, k)))
    BY <1>0, <2>1, InsertWhereSearched
  <2> QED  BY <1>0, <1>3, <2>2 DEF InsertHere, LeafInv
<1>4. ASSUME NEW k \in Key, InsertNext(k)
      PROVE  LeafInv'
  <2> DEFINE b == Search(leaf, k)
  <2>1. /\ leaf.num > 0 /\ leaf.perSize[b] = Cap /\ b < leaf.num
        /\ ~ IsFull(leaf, b + 1)
        /\ leaf' = InsertNextBlock(leaf, k, b) /\ UNCHANGED refused
    BY <1>4 DEF InsertNext, IsFull
  <2>2. b \in 1..leaf.num /\ Leads(leaf.num, SeparatorsOf(leaf), k, b)
    BY <1>0, <2>1, SearchLeads
  <2> HIDE DEF b
  <2>3. leaf.num \in Nat /\ \A c \in 1..leaf.num : leaf.perSize[c] \in 0..Cap
    BY <1>0, LeafNumbers DEF Sound
  <2>4. b \in 1..leaf.num - 1 /\ b + 1 \in 1..leaf.num
    BY <2>1, <2>2, <2>3
  <2>5. leaf.perSize[b + 1] < Cap
    <3>1. leaf.perSize[b + 1] \in 0..Cap /\ leaf.perSize[b + 1] # Cap
      BY <2>1, <2>3, <2>4 DEF IsFull
    <3> QED  BY <3>1, KeysAreNumbers
  <2>6. Sound(InsertNextBlock(leaf, k, b))
    BY <1>0, <2>1, <2>2, <2>4, <2>5, InsertNextBlockSound
  <2> QED  BY <1>0, <2>1, <2>6 DEF LeafInv
<1>5. ASSUME NEW k \in Key, InsertRebalance(k)
      PROVE  LeafInv'
  <2>1. Crowded(k) /\ InsertAgain(StoreData(ExtractDataset(leaf), leaf.num), k)
    BY <1>5 DEF InsertRebalance, Rebalance
  <2>2. /\ Search(leaf, k) \in 1..leaf.num /\ leaf.perSize[Search(leaf, k)] = Cap
        /\ leaf.num \in 1..MaxBlockNum /\ leaf.num <= leaf.num
    BY <2>1, CrowdedLeaf
  <2>3. /\ Sound(StoreData(ExtractDataset(leaf), leaf.num))
        /\ StoreData(ExtractDataset(leaf), leaf.num).num > 0
    BY <1>0, <2>2, RestoredSound
  <2> QED  BY <2>1, <2>3, InsertAgainSound DEF LeafInv
<1>6. ASSUME NEW k \in Key, InsertExpand(k)
      PROVE  LeafInv'
  <2>1. Crowded(k) /\ InsertAgain(StoreData(ExtractDataset(leaf), leaf.num + 1), k)
        /\ leaf.num < MaxBlockNum
    BY <1>6 DEF InsertExpand, Expand
  <2>2. /\ Search(leaf, k) \in 1..leaf.num /\ leaf.perSize[Search(leaf, k)] = Cap
        /\ leaf.num \in 1..MaxBlockNum
    BY <2>1, CrowdedLeaf
  <2>3. leaf.num + 1 \in 1..MaxBlockNum /\ leaf.num <= leaf.num + 1
    BY <2>1, <2>2, KeysAreNumbers
  <2>4. /\ Sound(StoreData(ExtractDataset(leaf), leaf.num + 1))
        /\ StoreData(ExtractDataset(leaf), leaf.num + 1).num > 0
    BY <1>0, <2>2, <2>3, RestoredSound
  <2> QED  BY <2>1, <2>4, InsertAgainSound DEF LeafInv
<1>7. ASSUME NEW k \in Key, InsertRefused(k)
      PROVE  LeafInv'
  BY <1>0, <1>7 DEF InsertRefused, LeafInv
<1>8. ASSUME NEW k \in Key, Erase(k)
      PROVE  LeafInv'
  <2> DEFINE b  == Search(leaf, k)
             at == SearchDataBlock(leaf.slots[b], k, leaf.perSize[b])
  <2>1. /\ Found(leaf, k) /\ ClearToErase(leaf, k, b, at)
        /\ leaf' = IF at = Cap /\ b < leaf.num /\ leaf.perSize[b + 1] > 0
                   THEN EraseAtEnd(leaf, b) ELSE EraseInBlock(leaf, k, b, at)
        /\ UNCHANGED refused
    BY <1>8 DEF Erase
  <2>2. /\ ~ (at = Cap /\ b < leaf.num /\ leaf.perSize[b + 1] > 0)
        /\ Sound(EraseInBlock(leaf, k, b, at))
    BY <1>0, <2>1, EraseSound
  <2> HIDE DEF b, at
  <2> QED  BY <1>0, <2>1, <2>2 DEF LeafInv
<1> QED  BY <1>1, <1>2, <1>3, <1>4, <1>5, <1>6, <1>7, <1>8 DEF Next

(* A leaf of a construction or a split is sound, and stays so through      *)
(* every sequence of insertions and erasures that goes on from it.         *)
THEOREM LeafInvariance ==
  ASSUME KeysApart, Erasing # "any" PROVE Spec => []LeafInv
<1>1. Init => LeafInv
  BY InitSound DEF Init, LeafInv
<1>2. LeafInv /\ [Next]_vars => LeafInv'
  BY NextSound
<1> QED  BY <1>1, <1>2, PTL DEF Spec

(* The block count, the separators, the sizes and the slots of a leaf stay *)
(* in their ranges.                                                        *)
THEOREM LeafTypeCorrect ==
  ASSUME KeysApart, Erasing # "any" PROVE Spec => []TypeOK
<1>1. LeafInv => TypeOK
  BY DEF LeafInv, Sound, LeafRecords, TypeOK
<1> QED  BY LeafInvariance, <1>1, PTL

(* An iterator, which walks the blocks in turn, meets the keys in order.   *)
THEOREM LeafKeysInOrder ==
  ASSUME KeysApart, Erasing # "any" PROVE Spec => []KeysInOrder
<1>1. ASSUME LeafInv
      PROVE  KeysInOrder
  <2> DEFINE n == leaf.num
             K == KeysIn(leaf)
             sep == SeparatorsOf(leaf)
  <2> SUFFICES ASSUME NEW b \in 1..n, NEW c \in 1..n,
                      NEW i \in 1..leaf.perSize[b], NEW j \in 1..leaf.perSize[c],
                      b < c \/ (b = c /\ i <= j)
               PROVE  leaf.slots[b][i] <= leaf.slots[c][j]
    BY DEF KeysInOrder
  <2>1. Sound(leaf)
    BY <1>1 DEF LeafInv
  <2>2. n \in Nat
    BY <2>1, LeafNumbers DEF Sound
  <2>3. CASE b = c /\ i <= j
    <3>1. BlockOK(leaf.slots[b], leaf.perSize[b])
      BY <2>1 DEF Sound
    <3> QED  BY <2>3, <3>1 DEF BlockOK
  <2>4. CASE b < c
    <3>1. Routed(n, K, sep) /\ b \in 1..n - 1
      BY <2>1, <2>2, <2>4 DEF Sound
    <3>2. leaf.slots[b][i] \in K[b] /\ leaf.slots[c][j] \in K[c]
      BY DEF KeysIn, KeysOf
    <3> HIDE DEF K, sep
    <3>3. leaf.slots[b][i] <= sep[b]
      BY <2>2, <3>1, <3>2 DEF Routed, Between
    <3>4. sep[b] <= leaf.slots[c][j]
      BY <2>2, <2>4, <3>1, <3>2 DEF Routed, Between
    <3>5. /\ leaf.slots[b][i] \in Int /\ leaf.slots[c][j] \in Int /\ sep[b] \in Int
      BY <3>1, <3>2, KeysAreNumbers DEF Routed
    <3> QED  BY <3>3, <3>4, <3>5
  <2> QED  BY <2>3, <2>4
<1> QED  BY LeafInvariance, <1>1, PTL

(* std::lower_bound over the separators is given sorted ones.              *)
THEOREM LeafSeparatorsSorted ==
  ASSUME KeysApart, Erasing # "any" PROVE Spec => []SeparatorsSorted
<1>1. ASSUME LeafInv
      PROVE  SeparatorsSorted
  <2> DEFINE sep == SeparatorsOf(leaf)
  <2> SUFFICES ASSUME NEW b \in 1..leaf.num - 1, NEW c \in 1..leaf.num - 1, b <= c
               PROVE  sep[b] <= sep[c]
    BY DEF SeparatorsSorted, SeparatorsOf
  <2>1. leaf.num > 0
    BY <1>1, LeafNumbers DEF LeafInv, Sound
  <2>2. Routed(leaf.num, KeysIn(leaf), sep)
    BY <1>1, <2>1 DEF LeafInv, Sound
  <2> HIDE DEF sep
  <2> QED  BY <2>2 DEF Routed, Ascending
<1> QED  BY LeafInvariance, <1>1, PTL

(* Search leads to every point: no insertion, overflow, rebalance or erase *)
(* leaves a point in a block its key is not looked up in.                  *)
THEOREM LeafStoredIsFound ==
  ASSUME KeysApart, Erasing # "any" PROVE Spec => []StoredIsFound
<1>1. ASSUME LeafInv
      PROVE  StoredIsFound
  <2> SUFFICES ASSUME NEW k \in Key, Stored(leaf, k) > 0
               PROVE  Found(leaf, k)
    BY DEF StoredIsFound
  <2> DEFINE n == leaf.num
             K == KeysIn(leaf)
             b == Search(leaf, k)
             P == {p \in (1..n) \X (1..Cap) :
                     p[2] <= leaf.perSize[p[1]] /\ leaf.slots[p[1]][p[2]] = k}
  <2>1. Sound(leaf)
    BY <1>1 DEF LeafInv
  <2>2. n \in Nat /\ \A c \in 1..n : leaf.perSize[c] \in 0..Cap
    BY <2>1, LeafNumbers DEF Sound
  <2>3. PICK p : p \in P
    <3>1. Cardinality(P) # 0
      BY DEF Stored
    <3>2. P # {}
      <4> HIDE DEF P
      <4> QED  BY <3>1, FS_EmptySet
    <3> QED  BY <3>2
  <2>4. /\ p[1] \in 1..n /\ p[2] \in 1..leaf.perSize[p[1]]
        /\ leaf.slots[p[1]][p[2]] = k
    BY <2>2, <2>3
  <2>5. n > 0 /\ k \in K[p[1]]
    <3>1. k \in KeysOf(leaf.slots[p[1]], leaf.perSize[p[1]])
      BY <2>4 DEF KeysOf
    <3> QED  BY <2>2, <2>4, <3>1 DEF KeysIn
  <2>6. b \in 1..n /\ Leads(n, SeparatorsOf(leaf), k, b)
    BY <2>1, <2>5, SearchLeads
  <2>7. Routed(n, K, SeparatorsOf(leaf))
    BY <2>1, <2>5 DEF Sound
  <2>8. k \in K[b]
    <3> HIDE DEF K, b
    <3> QED  BY <2>4, <2>5, <2>6, <2>7 DEF Routed, Reached
  <2>9. k \in KeysOf(leaf.slots[b], leaf.perSize[b])
    <3> HIDE DEF b
    <3> QED  BY <2>6, <2>8 DEF KeysIn
  <2>10. BlockOK(leaf.slots[b], leaf.perSize[b])
    BY <2>1, <2>6 DEF Sound
  <2>11. /\ SearchDataBlock(leaf.slots[b], k, leaf.perSize[b]) \in 1..leaf.perSize[b]
         /\ leaf.slots[b][SearchDataBlock(leaf.slots[b], k, leaf.perSize[b])] = k
    BY <2>9, <2>10, FoundInBlock
  <2>12. leaf.perSize[b] \in Nat
    BY <2>2, <2>6
  <2> QED  BY <2>5, <2>11, <2>12 DEF Found
<1> QED  BY LeafInvariance, <1>1, PTL

(* The invariant that a refused leaf has all its blocks.  The second try   *)
(* that Rebalance and Expand are followed by cannot fail: the points are   *)
(* dealt out evenly, and there is a place left in every block.             *)
RefusedInv == LeafInv /\ RefusedOnlyAtLimit

LEMMA OneBlockMore ==
  ASSUME NEW n \in Nat, NEW c \in Nat \ {0}
  PROVE  (c - 1) * (n + 1) = n * c + c - (n + 1)
<1>1. PICK d \in Nat : c = d + 1
  <2>1. c - 1 \in Nat /\ c = (c - 1) + 1
    OBVIOUS
  <2> QED  BY <2>1
<1>2. d * (n + 1) = d * n + d /\ n * (d + 1) = n * d + n /\ d * n = n * d
  OBVIOUS
<1>3. c - 1 = d /\ d * n \in Nat
  BY <1>1
<1> QED  BY <1>1, <1>2, <1>3

LEMMA NotRefusedAgain ==
  ASSUME NEW l, Sound(l), KeysApart, NEW b \in 1..l.num, l.perSize[b] = Cap,
         NEW needed \in 1..MaxBlockNum, l.num <= needed,
         GetDataNum(l) <= (Cap - 1) * needed,
         NEW k \in Key, InsertAgain(StoreData(ExtractDataset(l), needed), k)
  PROVE  refused' = FALSE
<1> DEFINE m == StoreData(ExtractDataset(l), needed)
           c == Search(m, k)
<1>1. Cap - 1 \in Nat
  BY KeysAreNumbers
<1>2. /\ Sound(m) /\ m.num > 0
      /\ \A d \in 1..m.num : m.perSize[d] <= Cap - 1
  BY <1>1, RestoredSound
<1>3. refused' = IsFull(m, c)
  BY DEF InsertAgain
<1> HIDE DEF m
<1>4. c \in 1..m.num
  BY <1>2, InsertWhereSearched
<1> HIDE DEF c
<1>5. m.perSize[c] # Cap
  <2>1. m.perSize[c] <= Cap - 1 /\ m.perSize[c] \in 0..Cap
    BY <1>2, <1>4, LeafNumbers DEF Sound
  <2> QED  BY <2>1, KeysAreNumbers
<1> QED  BY <1>3, <1>5 DEF IsFull

LEMMA NextRefused ==
  ASSUME RefusedInv, [Next]_vars, KeysApart, Erasing # "any", MaxBlockNum <= Cap
  PROVE  RefusedInv'
<1>0. Sound(leaf) /\ refused \in BOOLEAN /\ (refused => leaf.num = MaxBlockNum)
  BY DEF RefusedInv, LeafInv, RefusedOnlyAtLimit
<1>1. LeafInv'
  BY NextSound DEF RefusedInv
<1>2. CASE UNCHANGED vars
  BY <1>0, <1>1, <1>2 DEF RefusedInv, RefusedOnlyAtLimit, vars
<1>3. ASSUME NEW k \in Key,
             InsertFirst(k) \/ InsertHere(k) \/ InsertNext(k) \/ Erase(k)
      PROVE  refused' = FALSE
  BY <1>0, <1>3 DEF InsertFirst, InsertHere, InsertNext, Erase, Open
<1>4. ASSUME NEW k \in Key, InsertRebalance(k)
      PROVE  refused' = FALSE
  <2>1. /\ Crowded(k) /\ InsertAgain(StoreData(ExtractDataset(leaf), leaf.num), k)
        /\ GetDataNum(leaf) < leaf.num * (Cap - 1)
    BY <1>4 DEF InsertRebalance, Rebalance
  <2>2. /\ Search(leaf, k) \in 1..leaf.num /\ leaf.perSize[Search(leaf, k)] = Cap
        /\ leaf.num \in 1..MaxBlockNum /\ leaf.num <= leaf.num
    BY <2>1, CrowdedLeaf DEF RefusedInv
  <2>3. GetDataNum(leaf) \in Nat
    BY <1>0, <2>2, RestoredSound
  <2>4. GetDataNum(leaf) <= (Cap - 1) * leaf.num
    <3>1. leaf.num \in Nat /\ Cap - 1 \in Nat
      BY <2>2, KeysAreNumbers
    <3>2. leaf.num * (Cap - 1) = (Cap - 1) * leaf.num /\ (Cap - 1) * leaf.num \in Nat
      BY <3>1
    <3> QED  BY <2>1, <2>3, <3>2
  <2> QED  BY <1>0, <2>1, <2>2, <2>4, NotRefusedAgain
<1>5. ASSUME NEW k \in Key, InsertExpand(k)
      PROVE  refused' = FALSE
  <2>1. /\ Crowded(k) /\ InsertAgain(StoreData(ExtractDataset(leaf), leaf.num + 1), k)
        /\ leaf.num < MaxBlockNum
    BY <1>5 DEF InsertExpand, Expand
  <2>2. /\ Search(leaf, k) \in 1..leaf.num /\ leaf.perSize[Search(leaf, k)] = Cap
        /\ leaf.num \in 1..MaxBlockNum
    BY <2>1, CrowdedLeaf DEF RefusedInv
  <2>3. leaf.num + 1 \in 1..MaxBlockNum /\ leaf.num <= leaf.num + 1
    BY <2>1, <2>2, KeysAreNumbers
  <2>4. GetDataNum(leaf) \in Nat /\ GetDataNum(leaf) <= leaf.num * Cap
    BY <1>0, <2>2, <2>3, RestoredSound
  <2>5. GetDataNum(leaf) <= (Cap - 1) * (leaf.num + 1)
    <3>1. leaf.num \in Nat /\ Cap \in Nat \ {0} /\ leaf.num + 1 <= Cap
      BY <2>2, <2>3, KeysAreNumbers
    <3>2. (Cap - 1) * (leaf.num + 1) = leaf.num * Cap + Cap - (leaf.num + 1)
      BY <3>1, OneBlockMore
    <3>3. leaf.num * Cap \in Nat
      BY <3>1
    <3> QED  BY <2>4, <3>1, <3>2, <3>3
  <2> QED  BY <1>0, <2>1, <2>2, <2>3, <2>5, NotRefusedAgain
<1>6. ASSUME NEW k \in Key, InsertRefused(k)
      PROVE  leaf'.num = MaxBlockNum
  BY <1>6 DEF InsertRefused
<1> QED
  <2>1. CASE \E k \in Key : InsertRefused(k)
    BY <1>1, <1>6, <2>1 DEF RefusedInv, RefusedOnlyAtLimit
  <2>2. CASE ~ \E k \in Key : InsertRefused(k)
    <3>1. CASE Next
      <4>1. refused' = FALSE
        BY <1>3, <1>4, <1>5, <2>2, <3>1 DEF Next
      <4> QED  BY <1>1, <4>1 DEF RefusedInv, RefusedOnlyAtLimit
    <3> QED  BY <1>2, <3>1
  <2> QED  BY <2>1, <2>2

(* A leaf refuses a point, and is split for it, only when it cannot have   *)
(* another block, when a block holds as many points as a leaf has blocks   *)
(* or more: 32 points of 8-byte keys and values against 6 blocks.          *)
THEOREM LeafRefusedOnlyAtLimit ==
  ASSUME KeysApart, Erasing # "any", MaxBlockNum <= Cap
  PROVE  Spec => []RefusedOnlyAtLimit
<1>1. Init => RefusedInv
  BY InitSound DEF Init, LeafInv, RefusedInv, RefusedOnlyAtLimit
<1>2. RefusedInv /\ [Next]_vars => RefusedInv'
  BY NextRefused
<1>3. RefusedInv => RefusedOnlyAtLimit
  BY DEF RefusedInv
<1> QED  BY <1>1, <1>2, <1>3, PTL DEF Spec

----------------------------------------------------------------------------
(* The leaf as a bag of keys.                                              *)
LEMMA HeldInserts ==
  ASSUME NEW k \in Key, \A x : Stored(leaf', x) = Stored(leaf, x) + Adds(k, x),
         Sound(leaf)
  PROVE  Keys!Insert(k)
<1>1. \A x : Stored(leaf, x) \in Nat
  <2>1. leaf.num \in Nat
    BY LeafNumbers DEF Sound
  <2> QED  BY <2>1, StoredIsCount, CountIsNumber
<1>2. \A x \in Key : Stored(leaf', x) = IF x = k THEN Stored(leaf, x) + 1 ELSE Stored(leaf, x)
  BY <1>1 DEF Adds
<1>3. HeldKeys' = [HeldKeys EXCEPT ![k] = @ + 1]
  BY <1>2 DEF HeldKeys
<1> QED  BY <1>3 DEF Keys!Insert

LEMMA HeldErases ==
  ASSUME NEW k \in Key, \A x : Stored(leaf', x) = IF x = k THEN 0 ELSE Stored(leaf, x)
  PROVE  Keys!Erase(k)
<1>1. HeldKeys' = [HeldKeys EXCEPT ![k] = 0]
  BY DEF HeldKeys
<1> QED  BY <1>1 DEF Keys!Erase

LEMMA HeldAlike ==
  ASSUME \A x : Stored(leaf', x) = Stored(leaf, x) PROVE UNCHANGED HeldKeys
BY DEF HeldKeys

(* One more point of the key, unless it is refused.                        *)
Given(k) ==
  \A x : Stored(leaf', x) = IF refused' THEN Stored(leaf, x)
                            ELSE Stored(leaf, x) + Adds(k, x)

LEMMA StepKeeps ==
  ASSUME LeafInv, Next, KeysApart, Erasing # "any"
  PROVE  \E k \in Key :
           \/ Given(k)
           \/ ~ refused' /\ \A x : Stored(leaf', x) = IF x = k THEN 0 ELSE Stored(leaf, x)
<1>0. Sound(leaf) /\ refused \in BOOLEAN
  BY DEF LeafInv
<1>2. ASSUME NEW k \in Key, InsertFirst(k)
      PROVE  Given(k)
  <2>1. \A x : Stored(leaf', x) = Adds(k, x)
    BY <1>2, InsertFirstSound
  <2>2. leaf.num = 0 /\ ~ refused'
    BY <1>2 DEF InsertFirst, Open
  <2>3. \A x : Stored(leaf, x) = 0
    BY <2>2, StoredIsCount, CountInNone
  <2>4. \A x : Adds(k, x) \in Nat
    BY DEF Adds
  <2> QED  BY <2>1, <2>2, <2>3, <2>4 DEF Given
<1>3. ASSUME NEW k \in Key, InsertHere(k)
      PROVE  Given(k)
  <2>1. /\ leaf.num > 0 /\ ~ IsFull(leaf, Search(leaf, k)) /\ ~ refused'
        /\ leaf' = InsertDataBlock(leaf, k, Search(leaf, k))
    BY <1>3 DEF InsertHere, Open
  <2>2. \A x : Stored(InsertDataBlock(leaf, k, Search(leaf, k)), x)
                 = Stored(leaf, x) + Adds(k, x)
    BY <1>0, <2>1, InsertWhereSearched
  <2> QED  BY <2>1, <2>2 DEF Given
<1>4. ASSUME NEW k \in Key, InsertNext(k)
      PROVE  Given(k)
  <2> DEFINE b == Search(leaf, k)
  <2>1. /\ leaf.num > 0 /\ leaf.perSize[b] = Cap /\ b < leaf.num
        /\ ~ IsFull(leaf, b + 1) /\ ~ refused'
        /\ leaf' = InsertNextBlock(leaf, k, b)
    BY <1>4 DEF InsertNext, IsFull, Open
  <2>2. b \in 1..leaf.num /\ Leads(leaf.num, SeparatorsOf(leaf), k, b)
    BY <1>0, <2>1, SearchLeads
  <2> HIDE DEF b
  <2>3. leaf.num \in Nat /\ \A c \in 1..leaf.num : leaf.perSize[c] \in 0..Cap
    BY <1>0, LeafNumbers DEF Sound
  <2>4. b \in 1..leaf.num - 1 /\ b + 1 \in 1..leaf.num
    BY <2>1, <2>2, <2>3
  <2>5. leaf.perSize[b + 1] < Cap
    <3>1. leaf.perSize[b + 1] \in 0..Cap /\ leaf.perSize[b + 1] # Cap
      BY <2>1, <2>3, <2>4 DEF IsFull
    <3> QED  BY <3>1, KeysAreNumbers
  <2>6. \A x : Stored(InsertNextBlock(leaf, k, b), x) = Stored(leaf, x) + Adds(k, x)
    BY <1>0, <2>1, <2>2, <2>4, <2>5, InsertNextBlockCounts
  <2> QED  BY <2>1, <2>6 DEF Given
<1>5. ASSUME NEW k \in Key, NEW needed \in 1..MaxBlockNum, leaf.num <= needed,
             Crowded(k), InsertAgain(StoreData(ExtractDataset(leaf), needed), k)
      PROVE  Given(k)
  <2> DEFINE m == StoreData(ExtractDataset(leaf), needed)
  <2>1. Search(leaf, k) \in 1..leaf.num /\ leaf.perSize[Search(leaf, k)] = Cap
    BY <1>5, CrowdedLeaf
  <2>2. Sound(m) /\ m.num > 0 /\ \A x : Stored(m, x) = Stored(leaf, x)
    BY <1>0, <1>5, <2>1, RestoredSound
  <2> HIDE DEF m
  <2>3. \A x : Stored(leaf', x) = IF refused' THEN Stored(m, x)
                                  ELSE Stored(m, x) + Adds(k, x)
    BY <1>5, <2>2, InsertAgainSound DEF m
  <2> QED  BY <2>2, <2>3 DEF Given
<1>6. ASSUME NEW k \in Key, InsertRebalance(k)
      PROVE  Given(k)
  <2>1. Crowded(k) /\ InsertAgain(StoreData(ExtractDataset(leaf), leaf.num), k)
    BY <1>6 DEF InsertRebalance, Rebalance
  <2>2. leaf.num \in 1..MaxBlockNum /\ leaf.num <= leaf.num
    BY <2>1, CrowdedLeaf
  <2> QED  BY <1>5, <2>1, <2>2
<1>7. ASSUME NEW k \in Key, InsertExpand(k)
      PROVE  Given(k)
  <2>1. Crowded(k) /\ InsertAgain(StoreData(ExtractDataset(leaf), leaf.num + 1), k)
        /\ leaf.num < MaxBlockNum
    BY <1>7 DEF InsertExpand, Expand
  <2>2. leaf.num \in 1..MaxBlockNum
    BY <2>1, CrowdedLeaf
  <2>3. leaf.num + 1 \in 1..MaxBlockNum /\ leaf.num <= leaf.num + 1
    BY <2>1, <2>2, KeysAreNumbers
  <2> QED  BY <1>5, <2>1, <2>3
<1>8. ASSUME NEW k \in Key, InsertRefused(k)
      PROVE  Given(k)
  BY <1>8 DEF InsertRefused, Given
<1>9. ASSUME NEW k \in Key, Erase(k)
      PROVE  ~ refused' /\ \A x : Stored(leaf', x) = IF x = k THEN 0 ELSE Stored(leaf, x)
  <2> DEFINE b  == Search(leaf, k)
             at == SearchDataBlock(leaf.slots[b], k, leaf.perSize[b])
  <2>1. /\ Found(leaf, k) /\ ClearToErase(leaf, k, b, at) /\ ~ refused'
        /\ leaf' = IF at = Cap /\ b < leaf.num /\ leaf.perSize[b + 1] > 0
                   THEN EraseAtEnd(leaf, b) ELSE EraseInBlock(leaf, k, b, at)
    BY <1>9 DEF Erase
  <2>2. /\ ~ (at = Cap /\ b < leaf.num /\ leaf.perSize[b + 1] > 0)
        /\ \A x : Stored(EraseInBlock(leaf, k, b, at), x)
                    = IF x = k THEN 0 ELSE Stored(leaf, x)
    BY <1>0, <2>1, EraseSound
  <2> HIDE DEF b, at
  <2> QED  BY <2>1, <2>2
<1>10. PICK k \in Key :
         \/ InsertFirst(k) \/ InsertHere(k) \/ InsertNext(k) \/ InsertRebalance(k)
         \/ InsertExpand(k) \/ InsertRefused(k) \/ Erase(k)
  BY DEF Next
<1> QED  BY <1>2, <1>3, <1>4, <1>6, <1>7, <1>8, <1>9, <1>10

LEMMA NextKeeps ==
  ASSUME LeafInv, [Next]_vars, KeysApart, Erasing # "any"
  PROVE  [Keys!Next]_HeldKeys /\ [refused' => UNCHANGED HeldKeys]_vars
<1>1. CASE UNCHANGED vars
  <2>1. UNCHANGED HeldKeys
    BY <1>1 DEF vars, HeldKeys
  <2> QED  BY <1>1, <2>1
<1>2. CASE Next
  <2>1. PICK k \in Key :
          \/ Given(k)
          \/ ~ refused' /\ \A x : Stored(leaf', x) = IF x = k THEN 0 ELSE Stored(leaf, x)
    BY <1>2, StepKeeps
  <2>2. LeafInv'
    BY <1>2, NextSound
  <2>3. refused' \in BOOLEAN /\ Sound(leaf)
    BY <2>2 DEF LeafInv
  <2>4. CASE Given(k) /\ refused'
    <3>1. UNCHANGED HeldKeys
      BY <2>4, HeldAlike DEF Given
    <3> QED  BY <3>1
  <2>5. CASE Given(k) /\ ~ refused'
    <3>1. Keys!Insert(k)
      BY <2>3, <2>5, HeldInserts DEF Given
    <3> QED  BY <2>5, <3>1 DEF Keys!Next
  <2>6. CASE ~ refused' /\ \A x : Stored(leaf', x) = IF x = k THEN 0 ELSE Stored(leaf, x)
    <3>1. Keys!Erase(k)
      BY <2>6, HeldErases
    <3> QED  BY <2>6, <3>1 DEF Keys!Next
  <2> QED  BY <2>1, <2>3, <2>4, <2>5, <2>6
<1> QED  BY <1>1, <1>2

(* The leaf is a bag of keys, an implementation of KeyStore: an insertion  *)
(* adds one point of its key and disturbs none of the others, whatever is  *)
(* moved, dealt out anew or extracted for it; an erasure takes the points  *)
(* of its key and nothing else; a refused insertion leaves all as it was.  *)
THEOREM LeafKeepsItsKeys ==
  ASSUME KeysApart, Erasing # "any" PROVE Spec => KeepsItsKeys
<1>1. LeafInv => Keys!Init
  <2> SUFFICES ASSUME LeafInv PROVE HeldKeys \in [Key -> Nat]
    BY DEF Keys!Init
  <2>1. leaf.num \in Nat
    BY LeafNumbers DEF LeafInv, Sound
  <2>2. \A x : Stored(leaf, x) \in Nat
    BY <2>1, StoredIsCount, CountIsNumber
  <2> QED  BY <2>2 DEF HeldKeys
<1>2. LeafInv /\ [Next]_vars
        => [Keys!Next]_HeldKeys /\ [refused' => UNCHANGED HeldKeys]_vars
  BY NextKeeps
<1> QED  BY LeafInvariance, <1>1, <1>2, PTL DEF Spec, KeepsItsKeys, Keys!Spec
====
