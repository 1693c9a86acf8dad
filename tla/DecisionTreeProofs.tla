------------------------- MODULE DecisionTreeProofs -------------------------
(***************************************************************************)
(* Proofs about the decision tree for any number of nodes: who is put      *)
(* under the root, what a decision enters, and what PrintTree answers.     *)
(***************************************************************************)
EXTENDS MCPackages, FiniteSetTheorems, SequenceTheorems, WellFoundedInduction, TLAPS

-----------------------------------------------------------------------------
(* A behaviour of the packages is one of each of them: the part that moves  *)
(* follows its module, the others stand still.                             *)

LEMMA InitParts == Init => A!Init /\ O!Init /\ L!Init /\ C!Init /\ T!Init
  BY DEF Init

LEMMA StepParts ==
    [Next]_vars => /\ [A!Next]_aesVars /\ [O!Next]_otelVars /\ [L!Next]_lifeVars
                   /\ [C!Next]_loginVars /\ [T!Next]_treeVars
<1> SUFFICES ASSUME [Next]_vars
             PROVE  /\ [A!Next]_aesVars /\ [O!Next]_otelVars /\ [L!Next]_lifeVars
                    /\ [C!Next]_loginVars /\ [T!Next]_treeVars
  OBVIOUS
<1>1. CASE UNCHANGED vars
  BY <1>1 DEF vars
<1>2. CASE Next
  BY <1>2 DEF Next
<1> QED
  BY <1>1, <1>2

-----------------------------------------------------------------------------
(* DecisionTree.  First what its recursive functions compute: that they     *)
(* exist, and what holds of their values, is shown by a least argument for *)
(* which it would fail.                                                    *)

LEMMA Least ==
    ASSUME NEW S \in SUBSET Nat, S # {}
    PROVE  \E x \in S : \A y \in S : x <= y
<1> DEFINE less == OpToRel(<, Nat)
<1>1. IsWellFoundedOn(less, Nat)
  BY NatLessThanWellFounded
<1>2. \A x, y \in Nat : x < y => <<x, y>> \in less
  BY DEF OpToRel
<1> HIDE DEF less
<1>3. PICK x \in S : \A y \in S : ~ (<<y, x>> \in less)
  BY <1>1, WFMin
<1>4. ASSUME NEW y \in S PROVE x <= y
  <2>1. x \in Nat /\ y \in Nat /\ ~(y < x)
    BY <1>2, <1>3
  <2> QED
    BY <2>1
<1> QED
  BY <1>4

\* Each element once.
Once(q) == \A j, k \in 1..Len(q) : q[j] = q[k] => j = k

\* The function behind Among.
Keeps(f, s, S) ==
    f = [n \in 0..Len(s) |-> IF n = 0 THEN <<>>
                             ELSE IF s[n] \in S THEN Append(f[n - 1], s[n]) ELSE f[n - 1]]

LEMMA KeepsExists == ASSUME NEW X, NEW s \in Seq(X), NEW S PROVE \E f : Keeps(f, s, S)
<1> DEFINE n == Len(s)
           Upto(m, f) ==
               /\ f \in [0..m -> Seq(X)] /\ f[0] = <<>>
               /\ \A k \in 1..m : f[k] = IF s[k] \in S THEN Append(f[k - 1], s[k]) ELSE f[k - 1]
           bad == {m \in 0..n : ~ \E f : Upto(m, f)}
<1>1. n \in Nat /\ \A k \in 1..n : s[k] \in X
  OBVIOUS
<1>2. ASSUME NEW m \in bad, \A k \in bad : m <= k PROVE FALSE
  <2>1. CASE m = 0
    <3>1. Upto(0, [k \in 0..0 |-> <<>>])
      OBVIOUS
    <3> QED
      BY <2>1, <3>1
  <2>2. CASE m # 0
    <3>0. m \in 0..n
      BY <1>2
    <3>1. m - 1 \in 0..n /\ m \in 1..n /\ m - 1 \notin bad
      <4>1. m - 1 \in 0..n /\ m \in 1..n /\ ~(m <= m - 1)
        BY <1>1, <2>2, <3>0
      <4> HIDE DEF bad
      <4> QED
        BY <1>2, <4>1
    <3>2. PICK f : Upto(m - 1, f)
      BY <3>1, Zenon
    <3> DEFINE e == IF s[m] \in S THEN Append(f[m - 1], s[m]) ELSE f[m - 1]
               g == [k \in 0..m |-> IF k = m THEN e ELSE f[k]]
    <3>3. e \in Seq(X)
      <4>1. f[m - 1] \in Seq(X) /\ s[m] \in X
        BY <1>1, <3>1, <3>2
      <4> QED
        BY <4>1
    <3>4. /\ g \in [0..m -> Seq(X)] /\ g[0] = <<>> /\ g[m] = e
          /\ \A k \in 0..m - 1 : g[k] = f[k]
      <4>1. m \in Nat \ {0} /\ f \in [0..m - 1 -> Seq(X)] /\ f[0] = <<>>
        BY <3>1, <3>2
      <4> HIDE DEF e
      <4>2. \A k \in 0..m : k = m \/ k \in 0..m - 1
        BY <4>1
      <4>3. \A k \in 0..m : g[k] \in Seq(X)
        BY <3>3, <4>1, <4>2
      <4>4. g \in [0..m -> Seq(X)]
        BY <4>3, Zenon
      <4> QED
        BY <4>1, <4>4
    <3>5. \A k \in 1..m : g[k] = IF s[k] \in S THEN Append(g[k - 1], s[k]) ELSE g[k - 1]
      <4> HIDE DEF g
      <4> SUFFICES ASSUME NEW k \in 1..m
                   PROVE  g[k] = IF s[k] \in S THEN Append(g[k - 1], s[k]) ELSE g[k - 1]
        OBVIOUS
      <4>1. g[k - 1] = f[k - 1]
        BY <3>1, <3>4
      <4>2. CASE k = m
        BY <3>4, <4>1, <4>2
      <4>3. CASE k # m
        <5>1. k \in 1..m - 1 /\ k \in 0..m - 1
          BY <3>1, <4>3
        <5> QED
          BY <3>2, <3>4, <4>1, <5>1
      <4> QED
        BY <4>2, <4>3
    <3> HIDE DEF g
    <3>6. Upto(m, g)
      BY <3>4, <3>5
    <3> QED
      BY <3>6
  <2> QED
    BY <2>1, <2>2
<1>3. bad = {}
  <2>1. bad \in SUBSET Nat
    BY <1>1
  <2> HIDE DEF bad
  <2> QED
    BY <1>2, <2>1, Least
<1>4. PICK f : Upto(n, f)
  <2>1. n \in 0..n
    BY <1>1
  <2>2. n \notin bad
    BY <1>3
  <2> QED
    BY <2>1, <2>2, Zenon
<1>5. f = [k \in 0..n |-> IF k = 0 THEN <<>>
                          ELSE IF s[k] \in S THEN Append(f[k - 1], s[k]) ELSE f[k - 1]]
  <2>1. f \in [0..n -> Seq(X)] /\ f[0] = <<>>
        /\ \A k \in 1..n : f[k] = IF s[k] \in S THEN Append(f[k - 1], s[k]) ELSE f[k - 1]
    BY <1>4
  <2>2. \A k \in 0..n : f[k] = IF k = 0 THEN <<>>
                               ELSE IF s[k] \in S THEN Append(f[k - 1], s[k]) ELSE f[k - 1]
    <3>1. \A k \in 0..n : k = 0 \/ (k # 0 /\ k \in 1..n)
      BY <1>1
    <3> QED
      BY <2>1, <3>1, Zenon
  <2> QED
    BY <2>1, <2>2
<1> QED
  BY <1>5, Zenon DEF Keeps

\* Among keeps what is in the set and nothing else, and nothing twice that was there
\* once.
LEMMA AmongIs ==
    ASSUME NEW X, NEW s \in Seq(X), NEW S
    PROVE  /\ T!Among(s, S) \in Seq(X)
           /\ \A x : x \in ToSet(T!Among(s, S)) <=> x \in S /\ x \in ToSet(s)
           /\ Once(s) => Once(T!Among(s, S))
<1> DEFINE n == Len(s)
           f == CHOOSE f : Keeps(f, s, S)
           Right(k) ==
               /\ f[k] \in Seq(X)
               /\ \A a \in 1..Len(f[k]) : \E j \in 1..k : f[k][a] = s[j] /\ s[j] \in S
               /\ \A j \in 1..k : s[j] \in S => \E a \in 1..Len(f[k]) : f[k][a] = s[j]
               /\ Once(s) => Once(f[k])
           bad == {k \in 0..n : ~Right(k)}
<1>1. Keeps(f, s, S)
  BY KeepsExists, Zenon
<1>2. T!Among(s, S) = f[n]
  BY Zenon DEF T!Among, Keeps
<1>3. n \in Nat /\ \A k \in 1..n : s[k] \in X
  OBVIOUS
<1> HIDE DEF f
<1>4. /\ f[0] = <<>>
      /\ \A k \in 1..n : f[k] = IF s[k] \in S THEN Append(f[k - 1], s[k]) ELSE f[k - 1]
  <2>1. \A k \in 0..n : f[k] = IF k = 0 THEN <<>>
                               ELSE IF s[k] \in S THEN Append(f[k - 1], s[k]) ELSE f[k - 1]
    BY <1>1, Zenon DEF Keeps
  <2> QED
    BY <1>3, <2>1
<1>5. ASSUME NEW m \in bad, \A k \in bad : m <= k PROVE FALSE
  <2>1. CASE m = 0
    <3>1. Right(0)
      BY <1>4 DEF Once
    <3> QED
      BY <2>1, <3>1
  <2>2. CASE m # 0
    <3>1. m - 1 \in 0..n /\ m \in 1..n /\ Right(m - 1)
      BY <1>3, <1>5, <2>2
    <3>2. m \in Nat /\ s[m] \in X /\ f[m] = IF s[m] \in S THEN Append(f[m - 1], s[m]) ELSE f[m - 1]
      BY <1>3, <1>4, <3>1
    <3> DEFINE q == f[m - 1]
    <3>3. /\ q \in Seq(X)
          /\ \A a \in 1..Len(q) : \E j \in 1..m - 1 : q[a] = s[j] /\ s[j] \in S
          /\ \A j \in 1..m - 1 : s[j] \in S => \E a \in 1..Len(q) : q[a] = s[j]
          /\ Once(s) => Once(q)
      BY <3>1
    <3> HIDE DEF q
    <3>4. CASE s[m] \notin S
      <4>1. f[m] = q
        BY <3>2, <3>4 DEF q
      <4>2. Right(m)
        <5>1. \A j \in 1..m : j = m \/ j \in 1..m - 1
          BY <3>2
        <5>2. \A j \in 1..m - 1 : j \in 1..m
          BY <3>2
        <5>3. \A a \in 1..Len(q) : \E j \in 1..m : q[a] = s[j] /\ s[j] \in S
          BY <3>3, <5>2
        <5>4. \A j \in 1..m : s[j] \in S => \E a \in 1..Len(q) : q[a] = s[j]
          BY <3>3, <3>4, <5>1
        <5> QED
          BY <3>3, <4>1, <5>3, <5>4
      <4> QED
        BY <4>2
    <3>5. CASE s[m] \in S
      <4>1. f[m] = Append(q, s[m])
        BY <3>2, <3>5 DEF q
      <4>2. /\ f[m] \in Seq(X) /\ Len(f[m]) = Len(q) + 1 /\ f[m][Len(q) + 1] = s[m]
            /\ \A a \in 1..Len(q) : f[m][a] = q[a]
        <5>1. q \in Seq(X) /\ s[m] \in X
          BY <3>2, <3>3
        <5> QED
          BY <4>1, <5>1
      <4>3. Len(q) \in Nat
        BY <3>3
      <4>4. \A a \in 1..Len(f[m]) : \E j \in 1..m : f[m][a] = s[j] /\ s[j] \in S
        <5> SUFFICES ASSUME NEW a \in 1..Len(f[m])
                     PROVE  \E j \in 1..m : f[m][a] = s[j] /\ s[j] \in S
          OBVIOUS
        <5>1. CASE a = Len(q) + 1
          <6>1. m \in 1..m
            BY <3>1, <3>2
          <6> QED
            BY <3>5, <4>2, <5>1, <6>1
        <5>2. CASE a # Len(q) + 1
          <6>1. a \in 1..Len(q)
            BY <4>2, <4>3, <5>2
          <6>2. PICK j \in 1..m - 1 : q[a] = s[j] /\ s[j] \in S
            BY <3>3, <6>1
          <6> QED
            BY <3>2, <4>2, <6>1, <6>2
        <5> QED
          BY <5>1, <5>2
      <4>5. \A j \in 1..m : s[j] \in S => \E a \in 1..Len(f[m]) : f[m][a] = s[j]
        <5> SUFFICES ASSUME NEW j \in 1..m, s[j] \in S
                     PROVE  \E a \in 1..Len(f[m]) : f[m][a] = s[j]
          OBVIOUS
        <5>1. CASE j = m
          BY <4>2, <4>3, <5>1
        <5>2. CASE j # m
          <6>1. j \in 1..m - 1
            BY <3>2, <5>2
          <6>2. PICK a \in 1..Len(q) : q[a] = s[j]
            BY <3>3, <6>1
          <6> QED
            BY <4>2, <4>3, <6>2
        <5> QED
          BY <5>1, <5>2
      <4>6. ASSUME Once(s) PROVE Once(f[m])
        <5>1. ASSUME NEW a \in 1..Len(q) PROVE q[a] # s[m]
          <6>1. PICK j \in 1..m - 1 : q[a] = s[j]
            BY <3>3
          <6> QED
            BY <1>3, <3>1, <4>6, <6>1 DEF Once
        <5>2. Once(q)
          BY <3>3, <4>6
        <5> QED
          BY <4>2, <4>3, <5>1, <5>2 DEF Once
      <4>7. Right(m)
        BY <4>2, <4>4, <4>5, <4>6
      <4> QED
        BY <4>7
    <3> QED
      BY <3>4, <3>5
  <2> QED
    BY <2>1, <2>2
<1>6. bad = {}
  <2>1. bad \in SUBSET Nat
    BY <1>3
  <2> HIDE DEF bad
  <2> QED
    BY <1>5, <2>1, Least
<1>7. Right(n)
  BY <1>3, <1>6
<1>8. /\ \A x \in ToSet(f[n]) : x \in S /\ x \in ToSet(s)
      /\ \A x \in ToSet(s) : x \in S => x \in ToSet(f[n])
  <2>1. f[n] \in Seq(X) /\ s \in Seq(X)
    BY <1>7
  <2>2. DOMAIN f[n] = 1..Len(f[n]) /\ DOMAIN s = 1..n
    BY <2>1
  <2> HIDE DEF n
  <2>3. ASSUME NEW x \in ToSet(f[n]) PROVE x \in S /\ x \in ToSet(s)
    <3>1. PICK a \in 1..Len(f[n]) : x = f[n][a]
      BY <2>2 DEF ToSet
    <3>2. PICK j \in 1..n : f[n][a] = s[j] /\ s[j] \in S
      BY <1>7
    <3> QED
      BY <2>2, <3>1, <3>2 DEF ToSet
  <2>4. ASSUME NEW x \in ToSet(s), x \in S PROVE x \in ToSet(f[n])
    <3>1. PICK j \in 1..n : x = s[j]
      BY <2>2 DEF ToSet
    <3>2. PICK a \in 1..Len(f[n]) : f[n][a] = s[j]
      BY <1>7, <2>4, <3>1
    <3> QED
      BY <2>2, <3>1, <3>2 DEF ToSet
  <2> QED
    BY <2>3, <2>4
<1> QED
  BY <1>2, <1>7, <1>8

LEMMA Greatest ==
    ASSUME NEW N \in Nat, NEW S \in SUBSET (0..N), S # {}
    PROVE  \E x \in S : \A y \in S : y <= x
<1> DEFINE D == {d \in 0..N : N - d \in S}
<1>1. D \in SUBSET Nat /\ D # {}
  <2>1. PICK x \in S : TRUE
    OBVIOUS
  <2>2. x \in 0..N /\ N - x \in 0..N /\ N - (N - x) = x
    BY <2>1
  <2>3. N - x \in D
    BY <2>2
  <2>4. D \in SUBSET Nat
    OBVIOUS
  <2> HIDE DEF D
  <2> QED
    BY <2>3, <2>4
<1>2. PICK d \in D : \A e \in D : d <= e
  <2> HIDE DEF D
  <2> QED
    BY <1>1, Least
<1>3. ASSUME NEW y \in S PROVE y <= N - d
  <2>1. N - y \in 0..N /\ N - (N - y) = y /\ d \in 0..N
    OBVIOUS
  <2>2. d <= N - y
    BY <1>2, <2>1
  <2> QED
    BY <2>1, <2>2
<1> QED
  BY <1>3

\* What the program gives, and how far AddNode has come.
Forest ==
    /\ parent \in [T!Id -> T!Id \cup {0}] /\ \A n \in T!Id : parent[n] < n
    /\ exec \in SUBSET {n \in T!Id : \A k \in T!Id : parent[k] # n}
    /\ added \subseteq T!Id

LEMMA TreeSets == \A s : T!ToSet(s) = ToSet(s)
  BY DEF T!ToSet, ToSet

LEMMA TreeConstants == MaxId \in Nat /\ T!Id = 1..MaxId /\ RootId \notin T!Id /\ T!NoParent = 0
  BY PackagesAssumption DEF T!ConstantsOK, T!Id, T!NoParent

\* The children of a node are those that have it for a parent, each once.
LEMMA KidsOf ==
    ASSUME NEW n \in T!Id
    PROVE  /\ T!Kids(n) \in Seq(T!Id) /\ Once(T!Kids(n))
           /\ T!KidSet(n) = {k \in T!Id : parent[k] = n}
           /\ ToSet(T!Kids(n)) = T!KidSet(n)
<1> DEFINE s == [k \in T!Id |-> k]
           S == {k \in T!Id : parent[k] = n}
<1>1. /\ s \in Seq(T!Id) /\ Len(s) = MaxId /\ Once(s)
      /\ \A x : x \in ToSet(s) <=> x \in T!Id
  BY TreeConstants DEF Once, ToSet
<1>2. T!Kids(n) = T!Among(s, S)
  BY TreeConstants DEF T!Kids
<1> HIDE DEF s
<1>3. /\ T!Kids(n) \in Seq(T!Id) /\ Once(T!Kids(n))
      /\ \A x : x \in ToSet(T!Kids(n)) <=> x \in S
  <2> HIDE DEF S
  <2>1. /\ T!Among(s, S) \in Seq(T!Id) /\ Once(T!Among(s, S))
        /\ \A x : x \in ToSet(T!Among(s, S)) <=> x \in S /\ x \in ToSet(s)
    BY <1>1, AmongIs
  <2>2. \A x \in S : x \in T!Id
    BY DEF S
  <2> QED
    BY <1>1, <1>2, <2>1, <2>2
<1>4. ToSet(T!Kids(n)) = S
  BY <1>3
<1> QED
  BY <1>3, <1>4, TreeSets DEF T!KidSet

\* The function behind Below.
Searches(f, p) ==
    f = [n \in T!Id |-> n \in added \ exec /\ \E k \in T!KidSet(n) : k = p \/ f[k]]

LEMMA SearchesExists == ASSUME Forest, NEW p PROVE \E f : Searches(f, p)
<1> DEFINE Value(f, n) == n \in added \ exec /\ \E k \in T!KidSet(n) : k = p \/ f[k]
           From(d, f) == f \in [T!Id -> BOOLEAN]
                         /\ \A n \in T!Id : n > MaxId - d => f[n] = Value(f, n)
           bad == {d \in 0..MaxId : ~ \E f : From(d, f)}
<1>1. MaxId \in Nat /\ T!Id = 1..MaxId
  BY TreeConstants
<1>2. \A n \in T!Id : T!KidSet(n) \subseteq T!Id /\ \A k \in T!KidSet(n) : k > n
  BY KidsOf, <1>1 DEF Forest
<1>3. ASSUME NEW m \in bad, \A d \in bad : m <= d PROVE FALSE
  <2>0. m \in 0..MaxId
    OBVIOUS
  <2>1. CASE m = 0
    <3> DEFINE g == [n \in T!Id |-> FALSE]
    <3>1. From(0, g)
      <4>1. \A n \in T!Id : ~(n > MaxId - 0)
        BY <1>1
      <4>2. g \in [T!Id -> BOOLEAN]
        OBVIOUS
      <4> QED
        BY <4>1, <4>2, Zenon
    <3> QED
      BY <2>1, <3>1
  <2>2. CASE m # 0
    <3>1. m - 1 \in 0..MaxId /\ m - 1 \notin bad
      <4>1. m - 1 \in 0..MaxId /\ ~(m <= m - 1)
        BY <1>1, <2>0, <2>2
      <4> HIDE DEF bad
      <4> QED
        BY <1>3, <4>1
    <3>2. PICK f : From(m - 1, f)
      BY <3>1, Zenon
    <3> DEFINE h == MaxId - m + 1
               v == Value(f, h)
               g == [n \in T!Id |-> IF n = h THEN v ELSE f[n]]
    <3>3. h \in T!Id /\ \A n \in T!Id : n > MaxId - m => n = h \/ n > MaxId - (m - 1)
      BY <1>1, <2>0, <2>2
    <3>4. v \in BOOLEAN
      BY Zenon
    <3> HIDE DEF v
    <3>5. /\ g \in [T!Id -> BOOLEAN] /\ g[h] = v
          /\ \A n \in T!Id : n # h => g[n] = f[n]
      <4>1. f \in [T!Id -> BOOLEAN]
        BY <3>2
      <4> HIDE DEF h
      <4> QED
        BY <3>3, <3>4, <4>1
    <3> HIDE DEF g
    <3>6. ASSUME NEW n \in T!Id, n > MaxId - m PROVE g[n] = Value(g, n)
      <4>1. \A k \in T!KidSet(n) : g[k] = f[k]
        BY <1>1, <1>2, <2>0, <3>5, <3>6
      <4>2. Value(g, n) = Value(f, n)
        BY <4>1, Zenon
      <4>3. CASE n = h
        BY <3>5, <4>2, <4>3, Zenon DEF v
      <4>4. CASE n # h
        <5>1. n > MaxId - (m - 1)
          BY <3>3, <3>6, <4>4
        <5>2. f[n] = Value(f, n)
          BY <3>2, <5>1
        <5> QED
          BY <3>5, <4>2, <4>4, <5>2, Zenon
      <4> QED
        BY <4>3, <4>4
    <3>7. From(m, g)
      BY <3>5, <3>6, Zenon
    <3> QED
      BY <1>3, <3>7, Zenon
  <2> QED
    BY <2>1, <2>2
<1>4. bad = {}
  <2>1. bad \in SUBSET Nat
    BY <1>1
  <2> HIDE DEF bad
  <2> QED
    BY <1>3, <2>1, Least
<1>5. PICK f : From(MaxId, f)
  <2>1. MaxId \in 0..MaxId
    BY <1>1
  <2>2. MaxId \notin bad
    BY <1>4
  <2> QED
    BY <2>1, <2>2, Zenon
<1>6. f \in [T!Id -> BOOLEAN] /\ \A n \in T!Id : f[n] = Value(f, n)
  BY <1>1, <1>5
<1>7. f = [n \in T!Id |-> Value(f, n)]
  BY <1>6
<1> QED
  BY <1>7, Zenon DEF Searches

\* dfsTree finds a node exactly when an added node names it, provided that it is
\* started above every node that could be meant.
LEMMA BelowIs ==
    ASSUME Forest, NEW p \in T!Id, NEW top
    PROVE  /\ parent[p] \notin added /\ ToSet(top) \subseteq T!Id => ~T!Below(p, top)
           /\ /\ parent[p] \in added
              /\ \A t \in added : t < p /\ parent[t] \notin added => t \in ToSet(top)
              => T!Below(p, top)
<1> DEFINE f == CHOOSE f : Searches(f, p)
<1>1. Searches(f, p)
  BY SearchesExists, Zenon
<1>2. T!Below(p, top) <=> \E n \in ToSet(top) : f[n]
  BY TreeSets, Zenon DEF T!Below, Searches
<1> HIDE DEF f
<1>3. \A n \in T!Id : f[n] <=> n \in added \ exec /\ \E k \in T!KidSet(n) : k = p \/ f[k]
  BY <1>1, Zenon DEF Searches
<1>4. MaxId \in Nat /\ T!Id = 1..MaxId
  BY TreeConstants
<1>5. \A n \in T!Id : T!KidSet(n) = {k \in T!Id : parent[k] = n}
  BY KidsOf
<1>6. ASSUME parent[p] \notin added, ToSet(top) \subseteq T!Id PROVE ~T!Below(p, top)
  <2> DEFINE S == {n \in T!Id : f[n]}
  <2>1. S = {}
    <3>1. ASSUME NEW n \in S, \A y \in S : y <= n PROVE FALSE
      <4>1. n \in T!Id /\ n \in added /\ \E k \in T!KidSet(n) : k = p \/ f[k]
        BY <1>3
      <4>2. PICK k \in T!KidSet(n) : k = p \/ f[k]
        BY <4>1
      <4>3. k \in T!Id /\ parent[k] = n /\ n < k
        BY <1>5, <4>1, <4>2 DEF Forest
      <4>4. k # p
        BY <1>6, <4>1, <4>3
      <4>5. k \in S
        BY <4>2, <4>3, <4>4
      <4>6. k <= n
        <5> HIDE DEF S
        <5> QED
          BY <3>1, <4>5
      <4> QED
        BY <1>4, <4>1, <4>3, <4>6
    <3>2. S \in SUBSET (0..MaxId)
      BY <1>4
    <3> HIDE DEF S
    <3> QED
      BY <1>4, <3>1, <3>2, Greatest
  <2> QED
    BY <1>2, <1>6, <2>1
<1>7. ASSUME parent[p] \in added,
             \A t \in added : t < p /\ parent[t] \notin added => t \in ToSet(top)
      PROVE  T!Below(p, top)
  <2> DEFINE S == {n \in added : n < p /\ f[n]}
  <2>1. parent[p] \in S
    <3>1. parent[p] \in T!Id /\ parent[p] < p /\ p \in T!KidSet(parent[p]) /\ parent[p] \notin exec
      BY <1>5, <1>7 DEF Forest
    <3> QED
      BY <1>3, <1>7, <3>1
  <2>2. S \in SUBSET Nat /\ S # {}
    <3>1. S \subseteq 1..MaxId /\ S # {}
      BY <1>4, <2>1, Zenon DEF Forest
    <3> HIDE DEF S
    <3> QED
      BY <1>4, <3>1
  <2>3. PICK n \in S : \A y \in S : n <= y
    <3> HIDE DEF S
    <3> QED
      BY <2>2, Least
  <2>4. n \in T!Id /\ n \in added /\ n < p /\ f[n]
    BY DEF Forest
  <2>5. parent[n] \notin added
    <3> SUFFICES ASSUME parent[n] \in added PROVE FALSE
      OBVIOUS
    <3>1. /\ parent[n] \in T!Id /\ parent[n] < n /\ n \in T!KidSet(parent[n])
          /\ parent[n] \notin exec
      BY <1>5, <2>4 DEF Forest
    <3>2. f[parent[n]] /\ parent[n] < p
      BY <1>3, <1>4, <2>4, <3>1
    <3>3. parent[n] \in S
      BY <3>2
    <3>4. n <= parent[n]
      <4> HIDE DEF S
      <4> QED
        BY <2>3, <3>3
    <3> QED
      BY <1>4, <2>4, <3>1, <3>4
  <2> QED
    BY <1>2, <1>7, <2>4, <2>5
<1> QED
  BY <1>6, <1>7

Node == T!Id \cup {RootId}

\* The root's children are the parentless nodes, each once.
RootsRight ==
    /\ \A n : n \in ToSet(roots) <=> n \in added /\ parent[n] \notin added
    /\ Once(roots)

\* A node has got into the queue as a child of one that said yes.
Given(k) == \E n \in entered : k \in T!KidSet(n)

\* The walk: it starts from nothing, and what is queued is new and was given.
Walked ==
    /\ entered \subseteq visited /\ entered \subseteq added \cup {RootId}
    /\ \A k \in visited \ {RootId} : Given(k)
    /\ treePc = "build" => visited = {}
    /\ treePc = "decide" => /\ Once(queue)
                            /\ \A k \in ToSet(queue) : k \notin visited /\ (k # RootId => Given(k))

TreeInv == T!TypeOK /\ Forest /\ RootsRight /\ Walked

LEMMA TreeFacts ==
    ASSUME TreeInv
    PROVE  /\ queue \in Seq(Node) /\ size \in Nat /\ pos \in Nat /\ Len(queue) \in Nat
           /\ roots \in Seq(T!Id) /\ added \subseteq T!Id /\ entered \subseteq Node
           /\ visited \subseteq Node /\ barred \subseteq Node
           /\ treePc \in {"build", "decide", "print", "done", "refused", "panic"}
           /\ level \in Seq(Node) /\ printed \in Seq(Seq(Node))
           /\ queue # <<>> => Head(queue) \in Node /\ Tail(queue) \in Seq(Node)
<1>1. queue \in Seq(Node)
  BY DEF TreeInv, T!TypeOK, Node
<1>2. queue # <<>> => Head(queue) \in Node /\ Tail(queue) \in Seq(Node)
  BY <1>1
<1> QED
  BY <1>1, <1>2 DEF TreeInv, T!TypeOK, Node

\* The children of any node, and whose they are.
LEMMA KidsFacts ==
    ASSUME TreeInv, NEW n \in Node
    PROVE  /\ T!Kids(n) \in Seq(T!Id) /\ Once(T!Kids(n)) /\ ToSet(T!Kids(n)) = T!KidSet(n)
           /\ T!KidSet(n) \subseteq T!Id /\ n \notin T!KidSet(n)
<1>1. CASE n = RootId
  <2>1. T!Kids(n) = roots /\ T!KidSet(n) = ToSet(roots)
    BY <1>1, TreeSets DEF T!Kids, T!KidSet
  <2>2. ToSet(roots) \subseteq T!Id
    BY TreeFacts DEF TreeInv, RootsRight
  <2> QED
    BY <1>1, <2>1, <2>2, TreeFacts, TreeConstants DEF TreeInv, RootsRight
<1>2. CASE n \in T!Id
  <2>1. parent[n] < n /\ parent[n] # n
    BY <1>2, TreeConstants DEF TreeInv, Forest
  <2> QED
    BY <1>2, <2>1, KidsOf
<1> QED
  BY <1>1, <1>2 DEF Node

LEMMA KidsApart ==
    ASSUME TreeInv, NEW m \in added \cup {RootId}, NEW n \in added \cup {RootId},
           NEW k, k \in T!KidSet(m), k \in T!KidSet(n)
    PROVE  m = n
<1>1. \A a \in added : k \in T!KidSet(a) => parent[k] = a
  BY KidsOf, TreeFacts
<1>2. k \in T!KidSet(RootId) => parent[k] \notin added
  BY TreeSets DEF T!KidSet, T!Kids, TreeInv, RootsRight
<1> QED
  BY <1>1, <1>2

LEMMA InitTree == T!Init => TreeInv
<1> SUFFICES ASSUME T!Init PROVE TreeInv
  OBVIOUS
<1>1. /\ roots = <<>> /\ added = {} /\ root = FALSE /\ treePc = "build" /\ queue = <<>> /\ size = 0
      /\ pos = 0 /\ level = <<>> /\ printed = <<>> /\ entered = {} /\ visited = {} /\ barred = {}
  BY DEF T!Init
<1>2. Forest
  BY <1>1, TreeConstants DEF T!Init, Forest
<1>3. T!TypeOK
  <2>1. <<>> \in Seq(T!Id) /\ <<>> \in Seq(T!Id \cup {RootId})
        /\ <<>> \in Seq(Seq(T!Id \cup {RootId}))
    OBVIOUS
  <2>2. parent \in [T!Id -> T!Id \cup {T!NoParent}] /\ exec \subseteq T!Id
    BY <1>2, TreeConstants DEF Forest
  <2>3. root \in BOOLEAN
    BY <1>1, Zenon
  <2> QED
    BY <1>1, <2>1, <2>2, <2>3 DEF T!TypeOK
<1>4. RootsRight /\ Walked
  BY <1>1 DEF RootsRight, Walked, Once, ToSet
<1> QED
  BY <1>2, <1>3, <1>4 DEF TreeInv

\* AddNode: the nodes named by the new one leave the root, and it goes there itself
\* unless an added node names it, which dfsTree finds out.
LEMMA AddNodeTree == ASSUME TreeInv, NEW p \in T!Id, T!AddNode(p) PROVE TreeInv'
<1> DEFINE S == {k \in T!Id : parent[k] # p \/ p \in exec}
           Others == T!Id \ {p}
           waiting == T!Among(roots, S)
<1>1. /\ treePc = "build" /\ root' = TRUE /\ added' = added \cup {p}
      /\ roots' = IF waiting # <<>> /\ T!Below(p, waiting) THEN T!Among(waiting, Others)
                  ELSE IF p \in ToSet(waiting) THEN waiting ELSE Append(waiting, p)
      /\ UNCHANGED <<parent, exec, treePc, queue, size, pos, level, printed, entered, visited, barred>>
  BY TreeSets, Zenon DEF T!AddNode, T!shape, T!walk, T!output, T!history
<1>2. /\ roots \in Seq(T!Id) /\ added \subseteq T!Id /\ Forest
      /\ \A n : n \in ToSet(roots) <=> n \in added /\ parent[n] \notin added
      /\ Once(roots)
  BY TreeFacts DEF TreeInv, RootsRight
<1> HIDE DEF waiting
<1>3. /\ waiting \in Seq(T!Id) /\ Once(waiting)
      /\ \A n : n \in ToSet(waiting) <=> n \in S /\ n \in ToSet(roots)
  <2> HIDE DEF S
  <2> QED
    BY <1>2, AmongIs DEF waiting
<1>4. \A n : n \in ToSet(waiting) <=> n \in added /\ parent[n] \notin added /\ parent[n] # p
  <2>1. \A n \in T!Id : p \in exec => parent[n] # p
    BY <1>2 DEF Forest
  <2> QED
    BY <1>2, <1>3, <2>1
<1>5. parent[p] < p /\ parent[p] # p /\ \A t \in T!Id : parent[t] < t
  BY <1>2, TreeConstants DEF Forest
<1>6. /\ roots' \in Seq(T!Id) /\ Once(roots')
      /\ \A n : n \in ToSet(roots') <=>
            n \in added \cup {p} /\ parent[n] \notin added /\ parent[n] # p
  <2>1. CASE parent[p] \in added
    <3>1. \A t \in added : t < p /\ parent[t] \notin added => t \in ToSet(waiting)
      BY <1>2, <1>4, <1>5, TreeConstants DEF Forest
    <3>2. T!Below(p, waiting)
      BY <1>2, <2>1, <3>1, BelowIs
    <3>3. waiting # <<>>
      <4>1. \E n \in ToSet(waiting) : TRUE
        BY <3>2, TreeSets DEF T!Below
      <4> QED
        BY <4>1 DEF ToSet
    <3>4. roots' = T!Among(waiting, Others)
      BY <1>1, <3>2, <3>3
    <3>5. /\ roots' \in Seq(T!Id) /\ Once(roots')
          /\ \A n : n \in ToSet(roots') <=> n \in Others /\ n \in ToSet(waiting)
      <4> HIDE DEF Others
      <4> QED
        BY <1>3, <3>4, AmongIs
    <3> QED
      BY <1>2, <1>4, <2>1, <3>5
  <2>2. CASE parent[p] \notin added
    <3>1. ToSet(waiting) \subseteq T!Id
      BY <1>2, <1>4
    <3>2. ~T!Below(p, waiting)
      BY <1>2, <2>2, <3>1, BelowIs
    <3>3. CASE p \in ToSet(waiting)
      <4>1. roots' = waiting
        BY <1>1, <3>2, <3>3
      <4> QED
        BY <1>3, <1>4, <1>5, <2>2, <3>3, <4>1
    <3>4. CASE p \notin ToSet(waiting)
      <4>1. roots' = Append(waiting, p)
        BY <1>1, <3>2, <3>4
      <4>2. /\ roots' \in Seq(T!Id) /\ Len(roots') = Len(waiting) + 1 /\ Len(waiting) \in Nat
            /\ roots'[Len(waiting) + 1] = p /\ \A j \in 1..Len(waiting) : roots'[j] = waiting[j]
            /\ DOMAIN waiting = 1..Len(waiting) /\ DOMAIN roots' = 1..Len(waiting) + 1
        BY <1>3, <4>1
      <4>3. \A n : n \in ToSet(roots') <=> n = p \/ n \in ToSet(waiting)
        <5>1. \A j \in 1..Len(waiting) + 1 : j = Len(waiting) + 1 \/ j \in 1..Len(waiting)
          BY <4>2
        <5>2. Len(waiting) + 1 \in DOMAIN roots' /\ \A j \in DOMAIN waiting : j \in DOMAIN roots'
          BY <4>2
        <5> QED
          BY <4>2, <5>1, <5>2 DEF ToSet
      <4>4. \A j \in 1..Len(waiting) : waiting[j] # p
        BY <3>4, <4>2 DEF ToSet
      <4>5. Once(roots')
        BY <1>3, <4>2, <4>4 DEF Once
      <4> QED
        BY <1>4, <1>5, <2>2, <4>2, <4>3, <4>5
    <3> QED
      BY <3>3, <3>4
  <2> QED
    BY <2>1, <2>2
<1>7. Forest'
  <2>1. T!Id' = T!Id
    BY DEF T!Id
  <2> QED
    BY <1>1, <1>2, <2>1 DEF Forest
<1>8. RootsRight'
  BY <1>1, <1>6 DEF RootsRight
<1>9. T!TypeOK'
  <2>1. root' \in BOOLEAN
    BY <1>1
  <2> QED
    BY <1>1, <1>2, <1>6, <2>1 DEF TreeInv, T!TypeOK
<1>10. Walked'
  <2>1. visited = {} /\ entered = {}
    BY <1>1 DEF TreeInv, Walked
  <2> QED
    BY <1>1, <2>1 DEF Walked
<1> QED
  BY <1>7, <1>8, <1>9, <1>10 DEF TreeInv

\* Outside AddNode the tree stays as it is, and so do its children.
LEMMA TreeStands ==
    ASSUME TreeInv, UNCHANGED <<parent, exec, added, roots>>
    PROVE  /\ Forest' /\ RootsRight' /\ \A n : T!KidSet(n)' = T!KidSet(n)
           /\ \A k : Given(k) /\ entered \subseteq entered' => Given(k)'
<1>1. \A n : T!KidSet(n)' = T!KidSet(n)
  BY TreeSets DEF T!KidSet, T!Kids, T!Id, T!ToSet
<1>2. Forest'
  <2>1. T!Id' = T!Id
    BY DEF T!Id
  <2> QED
    BY <2>1 DEF TreeInv, Forest
<1>3. RootsRight'
  BY DEF TreeInv, RootsRight
<1> QED
  BY <1>1, <1>2, <1>3 DEF Given

LEMMA TreeTyped ==
    ASSUME TreeInv, UNCHANGED <<parent, exec, added, roots>>, root' \in BOOLEAN,
           treePc' \in {"build", "decide", "print", "done", "refused", "panic"},
           queue' \in Seq(Node), size' \in Nat, pos' \in Nat,
           level' \in Seq(Node), printed' \in Seq(Seq(Node)),
           entered' \subseteq Node, visited' \subseteq Node, barred' \subseteq Node
    PROVE  T!TypeOK'
<1>1. T!Id' = T!Id
  BY DEF T!Id
<1> QED
  BY <1>1 DEF TreeInv, T!TypeOK, Node

\* How a walk goes on.
LEMMA AdvanceIs ==
    ASSUME TreeInv, NEW q \in Seq(Node), T!Advance(q)
    PROVE  queue' = q /\ size' \in Nat /\ pos' \in Nat /\ treePc' \in {treePc, "done"}
<1>1. size \in Nat /\ pos \in Nat /\ Len(q) \in Nat
  BY TreeFacts
<1> QED
  BY <1>1 DEF T!Advance

\* The steps that take no decision: before it, beside it, at its end.
LEMMA QuietTree ==
    ASSUME TreeInv, UNCHANGED <<parent, exec, added, roots, entered, visited, barred>>,
           root' \in BOOLEAN, treePc' \in {"build", "decide", "print", "done", "refused", "panic"},
           treePc' = "build" => treePc = "build",
           treePc' = "decide" => visited = {} /\ queue' = <<RootId>>,
           queue' \in Seq(Node), size' \in Nat, pos' \in Nat,
           level' \in Seq(Node), printed' \in Seq(Seq(Node))
    PROVE  TreeInv'
<1>1. T!TypeOK'
  BY TreeFacts, TreeTyped
<1>2. Forest' /\ RootsRight' /\ \A k : Given(k) => Given(k)'
  BY TreeStands
<1>3. Walked'
  <2>1. ASSUME treePc' = "decide" PROVE Once(queue') /\ \A k \in ToSet(queue') : k = RootId
    <3>1. Len(queue') = 1 /\ DOMAIN queue' = 1..1 /\ queue'[1] = RootId
      BY <2>1
    <3> QED
      BY <3>1 DEF Once, ToSet
  <2> QED
    BY <1>2, <2>1 DEF TreeInv, Walked
<1> QED
  BY <1>1, <1>2, <1>3 DEF TreeInv

LEMMA StartTree == ASSUME TreeInv, T!AddOther \/ T!Decision \/ T!PrintTree PROVE TreeInv'
<1>1. /\ UNCHANGED <<parent, exec, added, roots, entered, visited, barred, level, printed>>
      /\ treePc = "build" /\ visited = {}
      /\ treePc' \in {"build", "panic", "refused", "decide", "print"}
      /\ (treePc' = "build" \/ treePc' \in {"panic", "refused", "decide", "print"})
      /\ \/ root' = TRUE /\ UNCHANGED <<treePc, queue, size, pos>>
         \/ root' = root /\ queue' = <<RootId>> /\ size' = 1 /\ pos' = 0 /\ treePc' # "build"
  BY DEF TreeInv, Walked, T!AddOther, T!Decision, T!PrintTree, T!shape, T!tree, T!walk, T!output,
         T!history
<1>2. root' \in BOOLEAN
  <2>1. root \in BOOLEAN
    BY DEF TreeInv, T!TypeOK
  <2> QED
    BY <1>1, <2>1, Zenon
<1>3. queue' \in Seq(Node) /\ size' \in Nat /\ pos' \in Nat
  <2>1. <<RootId>> \in Seq(Node)
    BY DEF Node
  <2>2. queue \in Seq(Node) /\ size \in Nat /\ pos \in Nat
    BY TreeFacts
  <2>3. CASE UNCHANGED <<queue, size, pos>>
    BY <2>2, <2>3
  <2>4. CASE queue' = <<RootId>> /\ size' = 1 /\ pos' = 0
    <3>1. queue' \in Seq(Node)
      BY <2>1, <2>4, Zenon
    <3> QED
      BY <2>4, <3>1
  <2> QED
    BY <1>1, <2>3, <2>4
<1> QED
  BY <1>1, <1>2, <1>3, TreeFacts, QuietTree

\* A visit leaves the queue from some position behind the front on.
Rest(b) == SubSeq(queue, b, Len(queue))

LEMMA RestIs ==
    ASSUME TreeInv, treePc = "decide", queue # <<>>, NEW b \in 2..Len(queue) + 1
    PROVE  /\ Rest(b) \in Seq(Node) /\ Once(Rest(b))
           /\ \A k \in ToSet(Rest(b)) : k \in ToSet(queue) /\ k # Head(queue)
<1> DEFINE q == Rest(b)
<1>1. /\ queue \in Seq(Node) /\ Len(queue) \in Nat /\ Len(queue) > 0 /\ Head(queue) = queue[1]
      /\ Once(queue) /\ DOMAIN queue = 1..Len(queue)
  BY TreeFacts DEF TreeInv, Walked
<1>2. /\ q \in Seq(Node) /\ Len(q) = Len(queue) + 1 - b /\ Len(q) \in Nat
      /\ \A j \in 1..Len(q) : q[j] = queue[b + j - 1]
      /\ DOMAIN q = 1..Len(q)
  BY <1>1 DEF Rest
<1> HIDE DEF q
<1>3. \A j \in 1..Len(q) : b + j - 1 \in 2..Len(queue)
  BY <1>1, <1>2
<1>4. Once(q)
  <2> SUFFICES ASSUME NEW j \in 1..Len(q), NEW k \in 1..Len(q), q[j] = q[k] PROVE j = k
    BY DEF Once
  <2>1. b + j - 1 = b + k - 1
    <3>1. b + j - 1 \in 1..Len(queue) /\ b + k - 1 \in 1..Len(queue)
      BY <1>1, <1>3
    <3>2. queue[b + j - 1] = queue[b + k - 1]
      BY <1>2
    <3> QED
      BY <1>1, <3>1, <3>2 DEF Once
  <2> QED
    BY <1>1, <1>2, <2>1
<1>5. ASSUME NEW k \in ToSet(q) PROVE k \in ToSet(queue) /\ k # Head(queue)
  <2>1. PICK j \in 1..Len(q) : k = q[j]
    BY <1>2 DEF ToSet
  <2> DEFINE c == b + j - 1
  <2>2. c \in 2..Len(queue) /\ k = queue[c]
    BY <1>2, <1>3, <2>1
  <2> HIDE DEF c
  <2>3. c \in 1..Len(queue) /\ 1 \in 1..Len(queue) /\ c # 1
    BY <1>1, <2>2
  <2> QED
    BY <1>1, <2>2, <2>3 DEF Once, ToSet
<1> QED
  BY <1>2, <1>4, <1>5 DEF q

LEMMA TailIs ==
    ASSUME TreeInv, treePc = "decide", queue # <<>>
    PROVE  /\ Tail(queue) \in Seq(Node) /\ Once(Tail(queue))
           /\ \A k \in ToSet(Tail(queue)) : k \in ToSet(queue) /\ k # Head(queue)
<1>1. Tail(queue) = Rest(2) /\ 2 \in 2..Len(queue) + 1
  BY TreeFacts DEF Rest
<1> QED
  BY <1>1, RestIs

\* What a visit does to the walk, given the queue it leaves: the rest of the level,
\* and the children of the node if its rule said yes.
LEMMA VisitTree ==
    ASSUME TreeInv, NEW n \in Node, T!Visiting(n), NEW q \in Seq(Node), Once(q),
           \A k \in ToSet(q) : (k \in ToSet(queue) /\ k # n) \/ (k \in T!KidSet(n) /\ n \in entered'),
           entered' \in {entered, entered \cup {n}}, entered' \subseteq added \cup {RootId},
           T!Advance(q), barred' \subseteq Node,
           UNCHANGED <<parent, exec, added, roots, root, level, printed>>
    PROVE  TreeInv'
<1>1. treePc = "decide" /\ queue # <<>> /\ n = Head(queue) /\ visited' = visited \cup {n}
  BY DEF T!Visiting
<1>2. queue' = q /\ size' \in Nat /\ pos' \in Nat /\ treePc' \in {"decide", "done"}
  BY <1>1, AdvanceIs
<1>3. n \in ToSet(queue) /\ n \notin visited /\ (n # RootId => Given(n))
  <2>1. n \in ToSet(queue)
    BY <1>1, TreeFacts DEF ToSet
  <2> QED
    BY <1>1, <2>1 DEF TreeInv, Walked
<1>4. /\ Forest' /\ RootsRight' /\ \A k : T!KidSet(k)' = T!KidSet(k)
      /\ \A k : Given(k) => Given(k)'
  BY TreeStands
<1>5. T!TypeOK'
  <2>1. root' \in BOOLEAN /\ entered' \subseteq Node /\ visited' \subseteq Node
    BY <1>1, TreeFacts DEF TreeInv, T!TypeOK
  <2> QED
    BY <1>2, <2>1, TreeFacts, TreeTyped
<1>6. \A k \in visited' \ {RootId} : Given(k)'
  BY <1>1, <1>3, <1>4 DEF TreeInv, Walked
<1>7. ASSUME NEW k \in ToSet(q) PROVE k \notin visited' /\ (k # RootId => Given(k)')
  <2>1. CASE k \in ToSet(queue) /\ k # n
    BY <1>1, <1>4, <2>1 DEF TreeInv, Walked
  <2>2. CASE k \in T!KidSet(n) /\ n \in entered'
    <3>1. Given(k)'
      BY <1>4, <2>2 DEF Given
    <3>2. k # n /\ k # RootId
      BY <2>2, KidsFacts, TreeConstants
    <3>3. k \notin visited
      <4> SUFFICES ASSUME k \in visited PROVE FALSE
        OBVIOUS
      <4>1. PICK m \in entered : k \in T!KidSet(m)
        BY <3>2 DEF TreeInv, Walked, Given
      <4>2. m \in visited /\ m \in added \cup {RootId} /\ n \in added \cup {RootId}
        BY <2>2 DEF TreeInv, Walked
      <4>3. m = n
        BY <2>2, <4>1, <4>2, KidsApart
      <4> QED
        BY <1>3, <4>2, <4>3
    <3> QED
      BY <1>1, <3>1, <3>2, <3>3
  <2> QED
    BY <2>1, <2>2
<1>8. Walked'
  BY <1>1, <1>2, <1>6, <1>7 DEF TreeInv, Walked
<1> QED
  BY <1>4, <1>5, <1>8 DEF TreeInv

LEMMA SkipTree == ASSUME TreeInv, NEW n \in Node, T!Skip(n) PROVE TreeInv'
<1>1. /\ T!Visiting(n) /\ T!Advance(Tail(queue)) /\ treePc = "decide" /\ queue # <<>> /\ n = Head(queue)
      /\ UNCHANGED <<parent, exec, added, roots, root, level, printed, entered, barred>>
  BY DEF T!Skip, T!Visiting, T!shape, T!tree, T!output
<1>2. /\ Tail(queue) \in Seq(Node) /\ Once(Tail(queue))
      /\ \A k \in ToSet(Tail(queue)) : k \in ToSet(queue) /\ k # n
  BY <1>1, TailIs
<1>3. entered' \subseteq added \cup {RootId} /\ barred' \subseteq Node
  BY <1>1, TreeFacts DEF TreeInv, Walked
<1> QED
  BY <1>1, <1>2, <1>3, VisitTree

LEMMA EnterTree == ASSUME TreeInv, NEW n \in Node, T!Enter(n) PROVE TreeInv'
<1> DEFINE e == T!EarlyExit
           q == e \o T!Kids(n)
<1>1. /\ T!Visiting(n) /\ T!Advance(q) /\ treePc = "decide" /\ queue # <<>> /\ n = Head(queue)
      /\ n \in added \cup {RootId} /\ Len(queue) >= size - 1 - pos
      /\ entered' = entered \cup {n} /\ barred' = barred \cup (T!Siblings(n) \ visited')
      /\ UNCHANGED <<parent, exec, added, roots, root, level, printed>>
  BY DEF T!Enter, T!Visiting, T!shape, T!tree, T!output
<1>2. /\ e \in Seq(Node) /\ Once(e) /\ \A k \in ToSet(e) : k \in ToSet(queue) /\ k # n
  <2>1. CASE pos + 1 < size
    <3>1. e = Rest(size - pos)
      BY <2>1 DEF T!EarlyExit, Rest
    <3>2. size - pos \in 2..Len(queue) + 1
      BY <1>1, <2>1, TreeFacts
    <3> HIDE DEF e
    <3> QED
      BY <1>1, <3>1, <3>2, RestIs
  <2>2. CASE ~(pos + 1 < size)
    <3>1. e = Tail(queue)
      BY <2>2 DEF T!EarlyExit
    <3> HIDE DEF e
    <3> QED
      BY <1>1, <3>1, TailIs
  <2> QED
    BY <2>1, <2>2
<1> HIDE DEF e
<1>3. /\ T!Kids(n) \in Seq(Node) /\ T!Kids(n) \in Seq(T!Id) /\ Once(T!Kids(n))
      /\ ToSet(T!Kids(n)) = T!KidSet(n)
      /\ \A k \in T!KidSet(n) : k \notin ToSet(queue) /\ k # RootId
  <2>1. /\ T!Kids(n) \in Seq(T!Id) /\ Once(T!Kids(n)) /\ ToSet(T!Kids(n)) = T!KidSet(n)
        /\ T!KidSet(n) \subseteq T!Id
    BY KidsFacts
  <2>2. T!Kids(n) \in Seq(Node)
    BY <2>1 DEF Node
  <2>3. ASSUME NEW k \in T!KidSet(n), k \in ToSet(queue) PROVE FALSE
    <3>1. k # RootId /\ Given(k)
      BY <1>1, <2>1, <2>3, TreeConstants DEF TreeInv, Walked
    <3>2. PICK m \in entered : k \in T!KidSet(m)
      BY <3>1 DEF Given
    <3>3. m \in visited /\ m \in added \cup {RootId}
      BY DEF TreeInv, Walked
    <3>4. m = n
      BY <1>1, <3>2, <3>3, KidsApart
    <3>5. n \in ToSet(queue)
      BY <1>1, TreeFacts DEF ToSet
    <3> QED
      BY <1>1, <3>3, <3>4, <3>5 DEF TreeInv, Walked
  <2> QED
    BY <2>1, <2>2, <2>3, TreeConstants
<1> DEFINE c == T!Kids(n)
<1>4. /\ q \in Seq(Node) /\ Once(q) /\ \A k \in ToSet(q) : k \in ToSet(e) \/ k \in ToSet(c)
  <2> HIDE DEF c
  <2>1. e \in Seq(Node) /\ c \in Seq(Node) /\ q = e \o c
    BY <1>2, <1>3 DEF c
  <2> HIDE DEF q
  <2>2. /\ q \in Seq(Node) /\ Len(q) = Len(e) + Len(c) /\ Len(e) \in Nat /\ Len(c) \in Nat
        /\ \A j \in 1..Len(e) : q[j] = e[j]
        /\ \A j \in Len(e) + 1..Len(q) : q[j] = c[j - Len(e)]
        /\ DOMAIN q = 1..Len(q) /\ DOMAIN e = 1..Len(e) /\ DOMAIN c = 1..Len(c)
    BY <2>1
  <2>3. \A j \in 1..Len(q) :
           \/ j \in 1..Len(e) /\ q[j] = e[j]
           \/ j > Len(e) /\ j - Len(e) \in 1..Len(c) /\ q[j] = c[j - Len(e)]
    BY <2>2
  <2>4. \A k \in ToSet(q) : k \in ToSet(e) \/ k \in ToSet(c)
    BY <2>2, <2>3 DEF ToSet
  <2>5. \A a \in 1..Len(e), b \in 1..Len(c) : e[a] # c[b]
    <3>1. \A a \in 1..Len(e) : e[a] \in ToSet(queue)
      BY <1>2, <2>2 DEF ToSet
    <3>2. \A b \in 1..Len(c) : c[b] \notin ToSet(queue)
      BY <1>3, <2>2 DEF ToSet, c
    <3> QED
      BY <3>1, <3>2
  <2>6. Once(q)
    <3> SUFFICES ASSUME NEW j \in 1..Len(q), NEW k \in 1..Len(q), q[j] = q[k] PROVE j = k
      BY DEF Once
    <3>1. CASE j \in 1..Len(e) /\ k \in 1..Len(e)
      BY <1>2, <2>2, <3>1 DEF Once
    <3>2. CASE j > Len(e) /\ k > Len(e)
      <4>1. /\ j - Len(e) \in 1..Len(c) /\ k - Len(e) \in 1..Len(c)
            /\ c[j - Len(e)] = c[k - Len(e)]
        BY <2>2, <2>3, <3>2
      <4>2. j - Len(e) = k - Len(e)
        BY <1>3, <4>1 DEF Once, c
      <4> QED
        BY <2>2, <4>2
    <3> QED
      BY <2>2, <2>3, <2>5, <3>1, <3>2
  <2> QED
    BY <2>2, <2>4, <2>6
<1>5. \A k \in ToSet(q) : (k \in ToSet(queue) /\ k # n) \/ (k \in T!KidSet(n) /\ n \in entered')
  BY <1>1, <1>2, <1>3, <1>4
<1> HIDE DEF q, c
<1>6. barred' \subseteq Node
  <2>1. T!Siblings(n) \subseteq Node
    <3>1. \A p \in Node : T!KidSet(p) \subseteq Node
      BY KidsFacts DEF Node
    <3> QED
      BY <3>1 DEF T!Siblings, Node
  <2> QED
    BY <1>1, <2>1, TreeFacts
<1>7. entered' \subseteq added \cup {RootId} /\ entered' \in {entered, entered \cup {n}}
  BY <1>1 DEF TreeInv, Walked
<1> QED
  BY <1>1, <1>4, <1>5, <1>6, <1>7, VisitTree

LEMMA DoTree == ASSUME TreeInv, NEW n \in Node, T!Do(n) PROVE TreeInv'
<1>1. /\ treePc = "decide" /\ queue # <<>> /\ n = Head(queue) /\ visited' = visited \cup {n}
      /\ treePc' = "done"
      /\ UNCHANGED <<parent, exec, added, roots, root, queue, size, pos, level, printed, entered, barred>>
  BY DEF T!Do, T!Visiting, T!shape, T!tree, T!walk, T!output
<1>2. n # RootId => Given(n)
  <2>1. n \in ToSet(queue)
    BY <1>1, TreeFacts DEF ToSet
  <2> QED
    BY <1>1, <2>1 DEF TreeInv, Walked
<1>3. Forest' /\ RootsRight' /\ \A k : Given(k) => Given(k)'
  BY <1>1, TreeStands
<1>4. T!TypeOK'
  <2>1. root' \in BOOLEAN /\ visited' \subseteq Node
    BY <1>1, TreeFacts DEF TreeInv, T!TypeOK
  <2> QED
    BY <1>1, <2>1, TreeFacts, TreeTyped
<1>5. Walked'
  BY <1>1, <1>2, <1>3 DEF TreeInv, Walked
<1> QED
  BY <1>3, <1>4, <1>5 DEF TreeInv

LEMMA NilFrontTree == ASSUME TreeInv, T!NilFront PROVE TreeInv'
<1>1. /\ treePc' = "panic"
      /\ UNCHANGED <<parent, exec, added, roots, root, queue, size, pos, level, printed, entered, visited, barred>>
  BY DEF T!NilFront, T!shape, T!tree, T!walk, T!output, T!history
<1>2. root' \in BOOLEAN
  BY <1>1 DEF TreeInv, T!TypeOK
<1> QED
  BY <1>1, <1>2, TreeFacts, QuietTree

LEMMA PrintingTree ==
    ASSUME TreeInv, NEW n \in Node, T!PrintNode(n) \/ T!PrintUnknown(n) PROVE TreeInv'
<1>1. /\ treePc = "print" /\ queue # <<>> /\ n = Head(queue)
      /\ UNCHANGED <<parent, exec, added, roots, root, entered, visited, barred>>
      /\ T!Advance(Tail(queue) \o T!Kids(n)) \/ T!Advance(queue)
  BY DEF T!PrintNode, T!PrintUnknown, T!shape, T!tree, T!history
<1>2. queue' \in Seq(Node) /\ size' \in Nat /\ pos' \in Nat /\ treePc' \in {"print", "done"}
  <2>1. Tail(queue) \o T!Kids(n) \in Seq(Node) /\ queue \in Seq(Node)
    <3>1. T!Kids(n) \in Seq(T!Id)
      BY KidsFacts
    <3>2. T!Kids(n) \in Seq(Node)
      BY <3>1 DEF Node
    <3> QED
      BY <1>1, <3>2, TreeFacts
  <2> QED
    BY <1>1, <2>1, AdvanceIs
<1>3. level' \in Seq(Node) /\ printed' \in Seq(Seq(Node))
  <2>1. /\ level \in Seq(Node) /\ printed \in Seq(Seq(Node)) /\ <<>> \in Seq(Node)
        /\ Append(level, n) \in Seq(Node)
    BY TreeFacts
  <2>2. Append(printed, Append(level, n)) \in Seq(Seq(Node)) /\ Append(printed, level) \in Seq(Seq(Node))
    BY <2>1
  <2>3. level' \in {level, <<>>, Append(level, n)}
        /\ printed' \in {printed, Append(printed, level), Append(printed, Append(level, n))}
    BY DEF T!PrintNode, T!PrintUnknown, T!output
  <2> QED
    BY <2>1, <2>2, <2>3
<1>4. root' \in BOOLEAN
  BY <1>1 DEF TreeInv, T!TypeOK
<1> QED
  BY <1>1, <1>2, <1>3, <1>4, QuietTree

LEMMA NextTree == TreeInv /\ [T!Next]_treeVars => TreeInv'
<1> SUFFICES ASSUME TreeInv, [T!Next]_treeVars PROVE TreeInv'
  OBVIOUS
<1>1. CASE UNCHANGED treeVars
  <2>1. UNCHANGED <<parent, exec, root, added, roots, treePc, queue, size, pos, level, printed,
                    entered, visited, barred>>
    BY <1>1 DEF treeVars
  <2>2. root' \in BOOLEAN
    BY <2>1 DEF TreeInv, T!TypeOK
  <2>3. T!TypeOK'
    BY <2>1, <2>2, TreeFacts, TreeTyped
  <2>4. Forest' /\ RootsRight' /\ \A k : Given(k) => Given(k)'
    BY <2>1, TreeStands
  <2>5. Walked'
    BY <2>1, <2>4 DEF TreeInv, Walked
  <2> QED
    BY <2>3, <2>4, <2>5 DEF TreeInv
<1>2. CASE T!Next
  <2>1. CASE T!Walk
    BY <2>1, EnterTree, SkipTree, DoTree, NilFrontTree, PrintingTree DEF T!Walk, Node
  <2> QED
    BY <1>2, <2>1, AddNodeTree, StartTree DEF T!Next
<1> QED
  BY <1>1, <1>2

LEMMA TreeKept == FairSpec => []TreeInv
<1>1. Init => TreeInv
  BY InitParts, InitTree
<1>2. TreeInv /\ [Next]_vars => TreeInv'
  BY StepParts, NextTree
<1> QED
  BY <1>1, <1>2, PTL DEF FairSpec

\* For any forest and any order in which its nodes are added, again or not at all:
\* the root's children are the nodes that no added decision node names, each once.
THEOREM RootsAreRight == FairSpec => []RootsAreParentless
<1>1. TreeInv => RootsAreParentless
  <2> SUFFICES ASSUME TreeInv PROVE T!RootsAreParentless
    BY DEF RootsAreParentless
  <2>1. DOMAIN roots = 1..Len(roots)
    BY TreeFacts
  <2>2. T!ToSet(roots) = {n \in added : parent[n] \notin added}
    BY TreeSets DEF TreeInv, RootsRight
  <2> QED
    BY <2>1, <2>2 DEF T!RootsAreParentless, TreeInv, RootsRight, Once
<1> QED
  BY TreeKept, <1>1, PTL

\* Whatever the rules answer: a decision looks at nothing but the root and children
\* of nodes that said yes, and at nothing twice.
THEOREM DecisionStaysBelow == FairSpec => []OnlyBelowEntered
<1>1. TreeInv => OnlyBelowEntered
  <2> SUFFICES ASSUME TreeInv PROVE T!OnlyBelowEntered
    BY DEF OnlyBelowEntered
  <2>1. DOMAIN queue = 1..Len(queue)
    BY TreeFacts
  <2>2. \A k \in visited \ {RootId} : \E n \in entered : k \in T!KidSet(n)
    BY DEF TreeInv, Walked, Given
  <2>3. ASSUME treePc = "decide"
        PROVE  /\ T!ToSet(queue) \cap visited = {}
               /\ \A j, k \in DOMAIN queue : queue[j] = queue[k] => j = k
    BY <2>1, <2>3, TreeSets DEF TreeInv, Walked, Once
  <2> QED
    BY <2>2, <2>3 DEF T!OnlyBelowEntered
<1> QED
  BY TreeKept, <1>1, PTL

-----------------------------------------------------------------------------
(* PrintTree.                                                              *)

\* The function behind Depth.
Measures(f) == f = [n \in T!Id |-> IF parent[n] \in added THEN 1 + f[parent[n]] ELSE 1]

LEMMA MeasuresExists == ASSUME Forest PROVE \E f : Measures(f)
<1> DEFINE Value(f, n) == IF parent[n] \in added THEN 1 + f[parent[n]] ELSE 1
           Upto(m, f) == f \in [T!Id -> Nat \ {0}] /\ \A n \in T!Id : n <= m => f[n] = Value(f, n)
           bad == {m \in 0..MaxId : ~ \E f : Upto(m, f)}
<1>1. MaxId \in Nat /\ T!Id = 1..MaxId
  BY TreeConstants
<1>2. \A n \in T!Id : parent[n] < n /\ (parent[n] \in added => parent[n] \in T!Id)
  BY DEF Forest
<1>3. ASSUME NEW m \in bad, \A d \in bad : m <= d PROVE FALSE
  <2>0. m \in 0..MaxId
    OBVIOUS
  <2>1. CASE m = 0
    <3> DEFINE g == [n \in T!Id |-> 1]
    <3>1. Upto(0, g)
      <4>1. \A n \in T!Id : ~(n <= 0)
        BY <1>1
      <4>2. g \in [T!Id -> Nat \ {0}]
        OBVIOUS
      <4> QED
        BY <4>1, <4>2, Zenon
    <3> QED
      BY <2>1, <3>1
  <2>2. CASE m # 0
    <3>1. m - 1 \in 0..MaxId /\ m - 1 \notin bad /\ m \in T!Id
      <4>1. m - 1 \in 0..MaxId /\ ~(m <= m - 1) /\ m \in T!Id
        BY <1>1, <2>0, <2>2
      <4> HIDE DEF bad
      <4> QED
        BY <1>3, <4>1
    <3>2. PICK f : Upto(m - 1, f)
      BY <3>1, Zenon
    <3> DEFINE v == Value(f, m)
               g == [n \in T!Id |-> IF n = m THEN v ELSE f[n]]
    <3>3. v \in Nat \ {0}
      <4>1. parent[m] \in added => f[parent[m]] \in Nat \ {0}
        BY <1>2, <3>1, <3>2
      <4>2. CASE parent[m] \in added
        <5>1. v = 1 + f[parent[m]]
          BY <4>2
        <5> HIDE DEF v
        <5> QED
          BY <4>1, <4>2, <5>1
      <4>3. CASE parent[m] \notin added
        BY <4>3
      <4> QED
        BY <4>2, <4>3
    <3> HIDE DEF v
    <3>4. /\ g \in [T!Id -> Nat \ {0}] /\ g[m] = v
          /\ \A n \in T!Id : n # m => g[n] = f[n]
      BY <3>1, <3>2, <3>3
    <3> HIDE DEF g
    <3>5. ASSUME NEW n \in T!Id, n <= m PROVE g[n] = Value(g, n)
      <4>1. parent[n] \in added => g[parent[n]] = f[parent[n]]
        BY <1>1, <1>2, <3>1, <3>4, <3>5
      <4>2. Value(g, n) = Value(f, n)
        BY <4>1, Zenon
      <4>3. CASE n = m
        BY <3>4, <4>2, <4>3, Zenon DEF v
      <4>4. CASE n # m
        <5>1. n <= m - 1
          BY <1>1, <2>0, <3>5, <4>4
        <5>2. f[n] = Value(f, n)
          BY <3>2, <5>1
        <5> QED
          BY <3>4, <4>2, <4>4, <5>2, Zenon
      <4> QED
        BY <4>3, <4>4
    <3>6. Upto(m, g)
      BY <3>4, <3>5, Zenon
    <3> QED
      BY <1>3, <3>6, Zenon
  <2> QED
    BY <2>1, <2>2
<1>4. bad = {}
  <2>1. bad \in SUBSET Nat
    BY <1>1
  <2> HIDE DEF bad
  <2> QED
    BY <1>3, <2>1, Least
<1>5. PICK f : Upto(MaxId, f)
  <2>1. MaxId \in 0..MaxId
    BY <1>1
  <2>2. MaxId \notin bad
    BY <1>4
  <2> QED
    BY <2>1, <2>2, Zenon
<1>6. f \in [T!Id -> Nat \ {0}] /\ \A n \in T!Id : f[n] = Value(f, n)
  BY <1>1, <1>5
<1>7. f = [n \in T!Id |-> Value(f, n)]
  BY <1>6
<1> QED
  BY <1>7, Zenon DEF Measures

LEMMA DepthIs ==
    ASSUME Forest
    PROVE  \A n \in T!Id : /\ T!Depth[n] \in Nat \ {0}
                           /\ T!Depth[n] = IF parent[n] \in added THEN 1 + T!Depth[parent[n]] ELSE 1
<1> DEFINE f == T!Depth
<1>1. Measures(f)
  BY MeasuresExists, Zenon DEF T!Depth, Measures
<1> HIDE DEF f
<1>2. \A n \in T!Id : f[n] = IF parent[n] \in added THEN 1 + f[parent[n]] ELSE 1
  BY <1>1, Zenon DEF Measures
<1>3. MaxId \in Nat /\ T!Id = 1..MaxId
  BY TreeConstants
<1> DEFINE bad == {n \in T!Id : f[n] \notin Nat \ {0}}
<1>4. ASSUME NEW n \in bad, \A k \in bad : n <= k PROVE FALSE
  <2>1. n \in T!Id /\ f[n] \notin Nat \ {0}
    OBVIOUS
  <2>2. parent[n] \in added
    BY <1>2, <2>1
  <2>3. parent[n] \in T!Id /\ parent[n] < n
    BY <2>1, <2>2 DEF Forest
  <2>4. parent[n] \notin bad
    <3>1. ~(n <= parent[n])
      BY <1>3, <2>1, <2>3
    <3> HIDE DEF bad
    <3> QED
      BY <1>4, <3>1
  <2> QED
    BY <1>2, <2>1, <2>2, <2>3, <2>4
<1>5. bad = {}
  <2>1. bad \in SUBSET Nat
    BY <1>3
  <2> HIDE DEF bad
  <2> QED
    BY <1>4, <2>1, Least
<1> QED
  BY <1>2, <1>5 DEF f

\* What the tree holds at a depth, with the children that were never added.
At(d) == IF d = 0 THEN {RootId}
         ELSE {n \in T!Id : T!Depth[n] = d /\ (n \in added \/ parent[n] \in added)}

\* A level consists of the children of the one above it.
LEMMA NextLevel ==
    ASSUME TreeInv, NEW d \in Nat
    PROVE  /\ \A n \in At(d) \cap (added \cup {RootId}) : T!KidSet(n) \subseteq At(d + 1)
           /\ \A k \in At(d + 1) : \E n \in At(d) : k \in T!KidSet(n)
           /\ At(d) \cap At(d + 1) = {} /\ At(d) \subseteq Node
<1>1. /\ \A n \in T!Id : T!KidSet(n) = {k \in T!Id : parent[k] = n}
      /\ \A k : k \in T!KidSet(RootId) <=> k \in added /\ parent[k] \notin added
  BY KidsOf, TreeSets DEF T!KidSet, T!Kids, TreeInv, RootsRight
<1>2. \A n \in T!Id : /\ T!Depth[n] \in Nat \ {0}
                      /\ T!Depth[n] = IF parent[n] \in added THEN 1 + T!Depth[parent[n]] ELSE 1
  BY DepthIs DEF TreeInv
<1>3. added \subseteq T!Id /\ RootId \notin T!Id /\ \A n \in T!Id : parent[n] \in T!Id \cup {0}
  BY TreeFacts, TreeConstants DEF TreeInv, Forest
<1>4. At(d + 1) = {n \in T!Id : T!Depth[n] = d + 1 /\ (n \in added \/ parent[n] \in added)}
  BY DEF At
<1>5. CASE d = 0
  <2>1. At(d) = {RootId}
    BY <1>5 DEF At
  <2>2. \A k : k \in T!KidSet(RootId) => k \in At(d + 1)
    BY <1>1, <1>2, <1>3, <1>4, <1>5
  <2>3. ASSUME NEW k \in At(d + 1) PROVE k \in T!KidSet(RootId)
    <3>1. k \in T!Id /\ T!Depth[k] = 1 /\ (k \in added \/ parent[k] \in added)
      BY <1>4, <1>5
    <3>2. parent[k] \notin added
      <4> SUFFICES ASSUME parent[k] \in added PROVE FALSE
        OBVIOUS
      <4>1. parent[k] \in T!Id
        BY <1>3
      <4> QED
        BY <1>2, <3>1, <4>1
    <3> QED
      BY <1>1, <3>1, <3>2
  <2> QED
    BY <1>3, <1>4, <2>1, <2>2, <2>3 DEF Node
<1>6. CASE d # 0
  <2>1. At(d) = {n \in T!Id : T!Depth[n] = d /\ (n \in added \/ parent[n] \in added)}
    BY <1>6 DEF At
  <2>2. ASSUME NEW n \in At(d), n \in added \cup {RootId}, NEW k \in T!KidSet(n) PROVE k \in At(d + 1)
    <3>1. n \in T!Id /\ n \in added /\ T!Depth[n] = d
      BY <1>3, <2>1, <2>2
    <3>2. k \in T!Id /\ parent[k] = n
      BY <1>1, <2>2, <3>1
    <3> QED
      BY <1>2, <1>4, <3>1, <3>2
  <2>3. ASSUME NEW k \in At(d + 1) PROVE \E n \in At(d) : k \in T!KidSet(n)
    <3>1. k \in T!Id /\ T!Depth[k] = d + 1 /\ (k \in added \/ parent[k] \in added)
      BY <1>4
    <3>2. parent[k] \in added
      BY <1>2, <1>6, <3>1
    <3>3. parent[k] \in T!Id /\ T!Depth[parent[k]] = d
      <4>1. parent[k] \in T!Id
        BY <1>3, <3>2
      <4>2. T!Depth[parent[k]] \in Nat /\ d + 1 = 1 + T!Depth[parent[k]]
        BY <1>2, <3>1, <3>2, <4>1
      <4> QED
        BY <4>1, <4>2
    <3>4. parent[k] \in At(d) /\ k \in T!KidSet(parent[k])
      BY <1>1, <2>1, <3>1, <3>2, <3>3
    <3> QED
      BY <3>4
  <2>4. At(d) \cap At(d + 1) = {}
    <3>1. d # d + 1
      OBVIOUS
    <3> QED
      BY <1>4, <2>1, <3>1
  <2> QED
    BY <2>1, <2>2, <2>3, <2>4 DEF Node
<1> QED
  BY <1>5, <1>6

\* Below an empty level there is nothing.
LEMMA NoDeeper ==
    ASSUME TreeInv, NEW d \in Nat \ {0}, At(d) = {}, NEW n \in added
    PROVE  T!Depth[n] < d
<1>1. \A k \in T!Id : /\ T!Depth[k] \in Nat \ {0}
                      /\ T!Depth[k] = IF parent[k] \in added THEN 1 + T!Depth[parent[k]] ELSE 1
  BY DepthIs DEF TreeInv
<1>2. /\ added \subseteq T!Id /\ T!Id \subseteq Nat
      /\ \A k \in T!Id : parent[k] < k
  BY TreeFacts, TreeConstants DEF TreeInv, Forest
<1>3. \A k \in added : T!Depth[k] # d
  BY <1>2 DEF At
<1> DEFINE deep == {k \in added : T!Depth[k] > d}
<1>4. ASSUME NEW k \in deep, \A j \in deep : k <= j PROVE FALSE
  <2>1. k \in added /\ k \in T!Id /\ T!Depth[k] > d
    BY <1>2
  <2>2. parent[k] \in added
    BY <1>1, <2>1
  <2>3. parent[k] \in T!Id /\ T!Depth[parent[k]] \in Nat /\ T!Depth[k] = 1 + T!Depth[parent[k]]
    BY <1>1, <1>2, <2>1, <2>2
  <2>4. T!Depth[parent[k]] > d
    <3>1. T!Depth[parent[k]] >= d
      BY <2>1, <2>3
    <3> QED
      BY <1>3, <2>2, <2>3, <3>1
  <2>5. parent[k] \in deep
    BY <2>2, <2>4
  <2>6. ~(k <= parent[k])
    <3>1. k \in Nat /\ parent[k] \in Nat /\ parent[k] < k
      BY <1>2, <2>1, <2>3
    <3> QED
      BY <3>1
  <2> HIDE DEF deep
  <2> QED
    BY <1>4, <2>5, <2>6
<1>5. deep = {}
  <2>1. deep \in SUBSET Nat
    BY <1>2
  <2> HIDE DEF deep
  <2> QED
    BY <1>4, <2>1, Least
<1> QED
  BY <1>1, <1>2, <1>3, <1>5

\* The levels written down are those of the tree, each node once, all of them added.
LevelsRight ==
    \A d \in 1..Len(printed) :
        /\ ToSet(printed[d]) = At(d - 1) /\ Once(printed[d])
        /\ ToSet(printed[d]) \subseteq added \cup {RootId}

\* In the middle of a level: the front of the queue holds what is still to come of
\* it, and behind are the children of the nodes that have been.
InFront(n) == \E j \in 1..size - pos : queue[j] = n
Behind(n) == \E j \in size - pos + 1..Len(queue) : queue[j] = n

MidLevel ==
    /\ pos < size /\ Len(level) = pos /\ size - pos <= Len(queue)
    /\ Once(level) /\ Once(queue) /\ ToSet(level) \subseteq added \cup {RootId}
    /\ \A n : n \in At(Len(printed)) <=> n \in ToSet(level) \/ InFront(n)
    /\ \A n \in ToSet(level) : ~InFront(n)
    /\ \A n : Behind(n) <=> \E m \in ToSet(level) : n \in T!KidSet(m)

\* A child nobody added stays at the front for good.
Stuck == queue # <<>> /\ Head(queue) \notin T!Known

PrintInv ==
    /\ treePc \in {"build", "decide", "refused", "panic"} => printed = <<>> /\ level = <<>>
    /\ treePc = "print" => Stuck \/ (LevelsRight /\ MidLevel)
    /\ treePc = "done" /\ printed # <<>> => LevelsRight /\ At(Len(printed)) = {}

\* The queue after the node at its front, one of f, has made way for its children.
MadeWay(f, c, q) ==
    /\ q \in Seq(Node) /\ Once(q) /\ f - 1 <= Len(q) /\ Len(q) \in Nat
    /\ \A x : (\E j \in 1..f - 1 : q[j] = x) <=> (\E j \in 2..f : queue[j] = x)
    /\ \A x : (\E j \in f..Len(q) : q[j] = x)
              <=> x \in ToSet(c) \/ (\E j \in f + 1..Len(queue) : queue[j] = x)

LEMMA PrintedQueue ==
    ASSUME TreeInv, queue # <<>>, Once(queue), NEW f \in 1..Len(queue),
           NEW c \in Seq(Node), Once(c), \A x \in ToSet(c) : x \notin ToSet(queue),
           NEW q, q = Tail(queue) \o c
    PROVE  MadeWay(f, c, q)
<1> DEFINE n == Len(queue)
<1>1. queue \in Seq(Node) /\ n \in Nat /\ n > 0 /\ f \in 1..n /\ Len(c) \in Nat
      /\ DOMAIN queue = 1..n /\ DOMAIN c = 1..Len(c)
  BY TreeFacts
<1>2. /\ q \in Seq(Node) /\ Len(q) = n - 1 + Len(c) /\ Len(q) \in Nat
      /\ \A j \in 1..n - 1 : q[j] = queue[j + 1]
      /\ \A j \in n..Len(q) : q[j] = c[j - n + 1]
  <2>1. /\ Tail(queue) \in Seq(Node) /\ Len(Tail(queue)) = n - 1
        /\ \A j \in 1..n - 1 : Tail(queue)[j] = queue[j + 1]
    BY <1>1
  <2> DEFINE t == Tail(queue)
  <2> HIDE DEF t, n
  <2>2. /\ q \in Seq(Node) /\ Len(q) = Len(t) + Len(c) /\ Len(q) \in Nat
        /\ \A j \in 1..Len(t) : q[j] = t[j]
        /\ \A j \in Len(t) + 1..Len(q) : q[j] = c[j - Len(t)]
    BY <2>1 DEF t
  <2>3. Len(t) = n - 1 /\ n - 1 + 1 = n /\ \A j \in Int : j - (n - 1) = j - n + 1
    BY <1>1, <2>1 DEF t
  <2>4. \A j \in 1..n - 1 : q[j] = queue[j + 1]
    BY <2>1, <2>2, <2>3 DEF t
  <2>5. \A j \in n..Len(q) : q[j] = c[j - n + 1]
    BY <1>1, <2>2, <2>3
  <2> QED
    BY <2>2, <2>3, <2>4, <2>5
<1> HIDE DEF n
<1>3. Once(q)
  <2> SUFFICES ASSUME NEW j \in 1..Len(q), NEW k \in 1..Len(q), q[j] = q[k] PROVE j = k
    BY DEF Once
  <2>1. \A a \in 1..Len(q) : \/ a \in 1..n - 1 /\ q[a] = queue[a + 1] /\ a + 1 \in 1..n
                             \/ a \in n..Len(q) /\ q[a] = c[a - n + 1] /\ a - n + 1 \in 1..Len(c)
    BY <1>1, <1>2
  <2>2. \A a \in 1..n, b \in 1..Len(c) : queue[a] # c[b]
    BY <1>1 DEF ToSet
  <2>3. CASE j \in 1..n - 1 /\ k \in 1..n - 1
    <3>1. j + 1 = k + 1
      BY <1>1, <1>2, <2>3 DEF Once, n
    <3> QED
      BY <1>1, <2>3, <3>1
  <2>4. CASE j \in n..Len(q) /\ k \in n..Len(q)
    <3>1. j - n + 1 \in 1..Len(c) /\ k - n + 1 \in 1..Len(c) /\ c[j - n + 1] = c[k - n + 1]
      BY <1>1, <1>2, <2>4
    <3>2. j - n + 1 = k - n + 1
      BY <3>1 DEF Once
    <3> QED
      BY <1>1, <1>2, <2>4, <3>2
  <2> QED
    BY <2>1, <2>2, <2>3, <2>4
<1>4. f - 1 <= Len(q) /\ f \in Nat
  BY <1>1, <1>2
<1>5. ASSUME NEW x PROVE (\E j \in 1..f - 1 : q[j] = x) <=> (\E j \in 2..f : queue[j] = x)
  <2>1. ASSUME NEW j \in 1..f - 1 PROVE j + 1 \in 2..f /\ q[j] = queue[j + 1]
    BY <1>1, <1>2
  <2>2. ASSUME NEW j \in 2..f PROVE j - 1 \in 1..f - 1 /\ q[j - 1] = queue[j]
    <3>1. j - 1 \in 1..f - 1 /\ j - 1 \in 1..n - 1 /\ j - 1 + 1 = j
      BY <1>1
    <3> QED
      BY <1>2, <3>1
  <2> QED
    BY <2>1, <2>2
<1>6. ASSUME NEW x
      PROVE  (\E j \in f..Len(q) : q[j] = x)
             <=> x \in ToSet(c) \/ (\E j \in f + 1..n : queue[j] = x)
  <2>1. ASSUME NEW j \in f..Len(q)
        PROVE  \/ j + 1 \in f + 1..n /\ q[j] = queue[j + 1]
               \/ q[j] \in ToSet(c)
    <3>1. CASE j \in 1..n - 1
      BY <1>1, <1>2, <3>1
    <3>2. CASE j \notin 1..n - 1
      <4>1. j \in n..Len(q) /\ j - n + 1 \in 1..Len(c)
        BY <1>1, <1>2, <3>2
      <4> QED
        BY <1>1, <1>2, <4>1 DEF ToSet
    <3> QED
      BY <3>1, <3>2
  <2>2. ASSUME NEW j \in f + 1..n PROVE j - 1 \in f..Len(q) /\ q[j - 1] = queue[j]
    <3>1. j - 1 \in f..Len(q) /\ j - 1 \in 1..n - 1 /\ j - 1 + 1 = j
      BY <1>1, <1>2
    <3> QED
      BY <1>2, <3>1
  <2>3. ASSUME x \in ToSet(c) PROVE \E j \in f..Len(q) : q[j] = x
    <3>1. PICK k \in 1..Len(c) : c[k] = x
      BY <1>1, <2>3 DEF ToSet
    <3> DEFINE j == n - 1 + k
    <3>2. j \in n..Len(q) /\ j \in f..Len(q) /\ j - n + 1 = k
      BY <1>1, <1>2
    <3> HIDE DEF j
    <3>3. q[j] = x
      BY <1>2, <3>1, <3>2
    <3> QED
      BY <3>2, <3>3
  <2> QED
    BY <2>1, <2>2, <2>3
<1> QED
  BY <1>2, <1>3, <1>4, <1>5, <1>6 DEF n, MadeWay

\* One node is printed.
LEMMA PrintNodeStep ==
    ASSUME TreeInv, PrintInv, NEW n \in Node, T!PrintNode(n) PROVE PrintInv'
<1> DEFINE c == T!Kids(n)
           q == Tail(queue) \o c
           d == Len(printed)
           front == size - pos
           done == Append(level, n)
<1>1. /\ treePc = "print" /\ queue # <<>> /\ n = Head(queue) /\ n \in added \cup {RootId}
      /\ T!Advance(q) /\ UNCHANGED <<parent, exec, added, roots, entered, visited, barred>>
      /\ \/ pos + 1 < size /\ level' = done /\ UNCHANGED printed
         \/ ~(pos + 1 < size) /\ level' = <<>> /\ printed' = Append(printed, done)
      /\ LevelsRight /\ MidLevel
  BY DEF T!PrintNode, T!Known, T!shape, T!tree, T!history, PrintInv, Stuck
<1>2. /\ size \in Nat /\ pos \in Nat /\ front \in Nat \ {0} /\ front \in 1..Len(queue) /\ d \in Nat
      /\ DOMAIN queue = 1..Len(queue) /\ DOMAIN level = 1..Len(level) /\ n = queue[1]
      /\ level \in Seq(Node) /\ Len(level) = pos /\ printed \in Seq(Seq(Node))
  BY <1>1, TreeFacts DEF MidLevel
<1>3. InFront(n) /\ n \notin ToSet(level) /\ n \in At(d)
  BY <1>1, <1>2 DEF MidLevel, InFront
<1>4. /\ c \in Seq(Node) /\ Once(c) /\ ToSet(c) = T!KidSet(n) /\ T!KidSet(n) \subseteq At(d + 1)
  <2>1. c \in Seq(Node)
    BY KidsFacts DEF Node
  <2> QED
    BY <1>1, <1>2, <1>3, <2>1, KidsFacts, NextLevel
<1>5. ASSUME NEW x \in ToSet(c) PROVE x \notin ToSet(queue)
  <2>1. ~InFront(x)
    <3>1. x \in At(d + 1) /\ x \notin At(d)
      BY <1>2, <1>4, <1>5, NextLevel
    <3> QED
      BY <1>1, <3>1 DEF MidLevel
  <2>2. ~Behind(x)
    <3> SUFFICES ASSUME Behind(x) PROVE FALSE
      OBVIOUS
    <3>1. PICK m \in ToSet(level) : x \in T!KidSet(m)
      BY <1>1 DEF MidLevel
    <3>2. m \in added \cup {RootId} /\ m # n
      BY <1>1, <1>3 DEF MidLevel
    <3> QED
      BY <1>1, <1>4, <1>5, <3>1, <3>2, KidsApart
  <2>3. \A j \in 1..Len(queue) : j \in 1..front \/ j \in front + 1..Len(queue)
    BY <1>2
  <2> QED
    BY <1>2, <2>1, <2>2, <2>3 DEF InFront, Behind, ToSet
<1>6. /\ q \in Seq(Node) /\ Once(q) /\ front - 1 <= Len(q) /\ Len(q) \in Nat
      /\ \A x : (\E j \in 1..front - 1 : q[j] = x) <=> (\E j \in 2..front : queue[j] = x)
      /\ \A x : (\E j \in front..Len(q) : q[j] = x) <=> x \in T!KidSet(n) \/ Behind(x)
  <2> HIDE DEF q, c
  <2>1. q = Tail(queue) \o c /\ Once(queue)
    BY <1>1 DEF q, MidLevel
  <2> HIDE DEF front
  <2>2. MadeWay(front, c, q)
    <3>1. \A x \in ToSet(c) : x \notin ToSet(queue)
      BY <1>5
    <3>2. front \in 1..Len(queue) /\ queue # <<>> /\ c \in Seq(Node) /\ Once(c)
      BY <1>1, <1>2, <1>4
    <3> QED
      BY <2>1, <3>1, <3>2, PrintedQueue
  <2> QED
    BY <1>4, <2>2 DEF MadeWay, Behind, front
<1> HIDE DEF q, c
<1>7. /\ done \in Seq(Node) /\ Len(done) = pos + 1 /\ Once(done)
      /\ \A x : x \in ToSet(done) <=> x = n \/ x \in ToSet(level)
  <2>1. /\ done \in Seq(Node) /\ Len(done) = pos + 1 /\ done[pos + 1] = n
        /\ \A j \in 1..pos : done[j] = level[j]
        /\ DOMAIN done = 1..pos + 1
    BY <1>2
  <2> HIDE DEF done
  <2>2. \A j \in 1..pos + 1 : j = pos + 1 \/ j \in 1..pos
    BY <1>2
  <2>3. pos + 1 \in 1..pos + 1 /\ \A j \in 1..pos : j \in 1..pos + 1
    BY <1>2
  <2>4. \A x : x \in ToSet(done) <=> x = n \/ x \in ToSet(level)
    <3>1. /\ \A x : x \in ToSet(done) <=> \E j \in 1..pos + 1 : done[j] = x
          /\ \A x : x \in ToSet(level) <=> \E j \in 1..pos : level[j] = x
      BY <1>2, <2>1 DEF ToSet
    <3> QED
      BY <2>1, <2>2, <2>3, <3>1, Zenon
  <2>5. \A j \in 1..pos : level[j] # n
    BY <1>2, <1>3 DEF ToSet
  <2>6. Once(done)
    BY <1>1, <1>2, <2>1, <2>2, <2>5 DEF Once, MidLevel
  <2> QED
    BY <2>1, <2>4, <2>6
<1> HIDE DEF done
<1>8. /\ \A x : T!KidSet(x)' = T!KidSet(x)
      /\ \A e : At(e)' = At(e)
      /\ At(Len(printed))' = At(Len(printed'))
  <2>1. \A x : T!KidSet(x)' = T!KidSet(x)
    BY <1>1, TreeStands
  <2>2. T!Depth' = T!Depth
    BY <1>1 DEF T!Depth, T!Id
  <2>3. \A e : At(e)' = At(e)
    BY <1>1, <2>2 DEF At, T!Id
  <2>4. At(Len(printed))' = At(Len(printed'))
    BY <1>1, <2>2 DEF At, T!Id
  <2> QED
    BY <2>1, <2>3, <2>4
<1>9. /\ \A j \in 1..front : j = 1 \/ j \in 2..front
      /\ 1 \in 1..front /\ \A j \in 2..front : j \in 1..front
  BY <1>2
<1>10. CASE pos + 1 < size
  <2>1. /\ queue' = q /\ pos' = pos + 1 /\ size' = size /\ treePc' = "print"
        /\ level' = done /\ printed' = printed
    BY <1>1, <1>10 DEF T!Advance
  <2>2. /\ size' - pos' = front - 1 /\ pos' < size' /\ size' - pos' + 1 = front
    BY <1>2, <1>10, <2>1
  <2>3. \A x : InFront(x)' <=> \E j \in 2..front : queue[j] = x
    BY <1>6, <2>1, <2>2 DEF InFront
  <2>4. \A x : InFront(x) <=> x = n \/ InFront(x)'
    <3>1. \A x : InFront(x) <=> \E j \in 1..front : queue[j] = x
      BY DEF InFront
    <3> HIDE DEF front
    <3> QED
      BY <1>2, <1>9, <2>3, <3>1
  <2>5. \A x : Behind(x)' <=> x \in T!KidSet(n) \/ Behind(x)
    BY <1>6, <2>1, <2>2 DEF Behind
  <2>6. ~InFront(n)'
    <3>1. \A j \in 2..front : queue[j] # queue[1]
      <4>1. \A j \in 2..front : j \in 1..Len(queue) /\ 1 \in 1..Len(queue) /\ j # 1
        BY <1>2
      <4> QED
        BY <1>1, <4>1 DEF MidLevel, Once
    <3> QED
      BY <1>2, <2>3, <3>1
  <2>7. \A x \in ToSet(done) : ~InFront(x)'
    BY <1>1, <1>7, <2>4, <2>6 DEF MidLevel
  <2>8. \A x : x \in At(d) <=> x \in ToSet(done) \/ InFront(x)'
    BY <1>1, <1>7, <2>4 DEF MidLevel
  <2>9. \A x : Behind(x)' <=> \E m \in ToSet(done) : x \in T!KidSet(m)
    BY <1>1, <1>7, <2>5 DEF MidLevel
  <2>10. ToSet(done) \subseteq added \cup {RootId}
    BY <1>1, <1>7 DEF MidLevel
  <2>11. MidLevel'
    <3>1. Len(queue') = Len(q) /\ front - 1 <= Len(q) /\ Len(level') = pos'
      BY <1>6, <1>7, <2>1
    <3>2. ToSet(level)' = ToSet(done) /\ Once(level)' /\ Once(queue)'
      BY <1>6, <1>7, <2>1 DEF Once
    <3>3. At(Len(printed))' = At(d)
      BY <1>8, <2>1
    <3> QED
      BY <1>1, <1>8, <2>2, <2>7, <2>8, <2>9, <2>10, <3>1, <3>2, <3>3 DEF MidLevel
  <2>12. LevelsRight'
    BY <1>1, <1>8, <2>1 DEF LevelsRight, Once
  <2> QED
    BY <2>1, <2>11, <2>12 DEF PrintInv
<1>11. CASE ~(pos + 1 < size)
  <2>1. /\ queue' = q /\ pos' = 0 /\ size' = Len(q)
        /\ treePc' = IF q = <<>> THEN "done" ELSE "print"
        /\ level' = <<>> /\ printed' = Append(printed, done) /\ front = 1
    <3>1. front = 1
      BY <1>1, <1>2, <1>11 DEF MidLevel
    <3> QED
      BY <1>1, <1>11, <3>1 DEF T!Advance
  <2>2. \A x : x \in At(d) <=> x \in ToSet(done)
    <3>1. \A x : InFront(x) <=> x = n
      BY <1>2, <2>1 DEF InFront
    <3> QED
      BY <1>1, <1>7, <3>1 DEF MidLevel
  <2>3. ToSet(done) \subseteq added \cup {RootId}
    BY <1>1, <1>7 DEF MidLevel
  <2>4. /\ Len(printed') = d + 1 /\ printed'[d + 1] = done
        /\ \A e \in 1..d : printed'[e] = printed[e]
    BY <1>2, <2>1
  <2>5. LevelsRight'
    <3> SUFFICES ASSUME NEW e \in 1..d + 1
                 PROVE  /\ ToSet(printed'[e]) = At(e - 1) /\ Once(printed'[e])
                        /\ ToSet(printed'[e]) \subseteq added \cup {RootId}
      <4>1. \A e : At(e)' = At(e)
        BY <1>8
      <4> QED
        BY <1>1, <2>4, <4>1 DEF LevelsRight, Once
    <3>1. CASE e = d + 1
      <4>1. e - 1 = d
        BY <1>2, <3>1
      <4>2. ToSet(done) = At(d)
        BY <2>2
      <4> QED
        BY <1>7, <2>3, <2>4, <3>1, <4>1, <4>2
    <3>2. CASE e # d + 1
      <4>1. e \in 1..d
        BY <1>2, <3>2
      <4> QED
        BY <1>1, <2>4, <4>1 DEF LevelsRight
    <3> QED
      BY <3>1, <3>2
  <2>6. \A x : (\E j \in 1..Len(q) : q[j] = x) <=> x \in At(d + 1)
    <3>1. \A x : (\E j \in 1..Len(q) : q[j] = x) <=> \E m \in ToSet(done) : x \in T!KidSet(m)
      BY <1>1, <1>6, <1>7, <2>1 DEF MidLevel
    <3>2. \A x : x \in At(d + 1) <=> \E m \in ToSet(done) : x \in T!KidSet(m)
      BY <1>2, <2>2, <2>3, NextLevel
    <3> QED
      BY <3>1, <3>2
  <2>7. CASE q = <<>>
    <3>1. Len(q) = 0
      BY <2>7
    <3>2. At(d + 1) = {}
      BY <2>6, <3>1
    <3>3. At(Len(printed))' = At(d + 1)
      BY <1>8, <2>4
    <3> QED
      BY <2>1, <2>5, <2>7, <3>2, <3>3 DEF PrintInv
  <2>8. CASE q # <<>>
    <3>1. Len(q) > 0
      BY <1>6, <2>8
    <3>2. ToSet(level)' = {} /\ Once(level)' /\ Len(level)' = 0
      BY <2>1 DEF ToSet, Once
    <3>3. \A x : InFront(x)' <=> x \in At(d + 1)
      <4>1. size' - pos' = Len(q)
        BY <1>6, <2>1
      <4> QED
        BY <2>1, <2>6, <4>1 DEF InFront
    <3>4. \A x : ~Behind(x)'
      <4>1. \A j \in size' - pos' + 1..Len(queue') : FALSE
        BY <1>6, <2>1
      <4> QED
        BY <4>1 DEF Behind
    <3>5. At(Len(printed))' = At(d + 1)
      BY <1>8, <2>4
    <3>6. Once(queue)' /\ size' - pos' <= Len(queue') /\ pos' < size'
      BY <1>6, <2>1, <3>1 DEF Once
    <3>7. MidLevel'
      BY <2>1, <3>2, <3>3, <3>4, <3>5, <3>6 DEF MidLevel
    <3> QED
      BY <2>1, <2>5, <2>8, <3>7 DEF PrintInv
  <2> QED
    BY <2>7, <2>8
<1> QED
  BY <1>10, <1>11

\* Nothing that is not being printed has levels, and printing begins with the root.
LEMMA NotPrinting ==
    ASSUME TreeInv, PrintInv, UNCHANGED <<level, printed>>, treePc # "print", treePc # "done",
           treePc' \in {"build", "decide", "refused", "panic", "done"}
    PROVE  PrintInv'
<1>1. treePc \in {"build", "decide", "refused", "panic"}
  BY TreeFacts
<1>2. printed' = <<>> /\ level' = <<>>
  BY <1>1 DEF PrintInv
<1> QED
  BY <1>2 DEF PrintInv

LEMMA BeginPrinting == ASSUME TreeInv, PrintInv, T!PrintTree PROVE PrintInv'
<1>1. /\ queue' = <<RootId>> /\ size' = 1 /\ pos' = 0 /\ treePc' = "print"
      /\ level' = <<>> /\ printed' = <<>>
  BY DEF T!PrintTree, T!output, PrintInv
<1>2. /\ ToSet(level)' = {} /\ Once(level)' /\ Len(level)' = 0 /\ Len(printed)' = 0
      /\ Len(queue') = 1 /\ queue'[1] = RootId
  BY <1>1 DEF ToSet, Once
<1>3. LevelsRight'
  BY <1>2 DEF LevelsRight
<1>4. At(Len(printed))' = {RootId}
  BY <1>2 DEF At
<1>5. \A n : InFront(n)' <=> n = RootId
  BY <1>1, <1>2 DEF InFront
<1>6. \A n : ~Behind(n)'
  BY <1>1, <1>2 DEF Behind
<1>7. MidLevel'
  BY <1>1, <1>2, <1>4, <1>5, <1>6 DEF MidLevel, Once
<1> QED
  BY <1>1, <1>3, <1>7 DEF PrintInv

LEMMA PrintUnknownStep ==
    ASSUME TreeInv, PrintInv, NEW n \in Node, T!PrintUnknown(n) PROVE PrintInv'
<1>1. /\ treePc = "print" /\ queue # <<>> /\ n = Head(queue) /\ n \notin T!Known
      /\ T!Advance(queue) /\ UNCHANGED <<root, added>>
  BY DEF T!PrintUnknown, T!tree
<1>2. queue' = queue /\ treePc' = "print"
  BY <1>1 DEF T!Advance
<1>3. Stuck'
  BY <1>1, <1>2 DEF Stuck, T!Known
<1> QED
  BY <1>2, <1>3 DEF PrintInv

LEMMA NextPrint == TreeInv /\ PrintInv /\ [T!Next]_treeVars => PrintInv'
<1> SUFFICES ASSUME TreeInv, PrintInv, [T!Next]_treeVars PROVE PrintInv'
  OBVIOUS
<1>1. CASE UNCHANGED treeVars
  <2>1. UNCHANGED <<parent, exec, root, added, roots, treePc, queue, size, pos, level, printed>>
    BY <1>1 DEF treeVars
  <2>2. /\ \A x : T!KidSet(x)' = T!KidSet(x)
        /\ \A e : At(e)' = At(e)
        /\ At(Len(printed))' = At(Len(printed))
    <3>1. T!Depth' = T!Depth
      BY <2>1 DEF T!Depth, T!Id
    <3> QED
      BY <2>1, <3>1, TreeStands DEF At, T!Id
  <2>3. Stuck => Stuck'
    BY <2>1 DEF Stuck, T!Known
  <2>4. LevelsRight => LevelsRight'
    BY <2>1, <2>2 DEF LevelsRight, Once
  <2>5. MidLevel => MidLevel'
    <3>1. \A n : (InFront(n)' <=> InFront(n)) /\ (Behind(n)' <=> Behind(n))
      BY <2>1 DEF InFront, Behind
    <3> QED
      BY <2>1, <2>2, <3>1 DEF MidLevel, Once
  <2> QED
    BY <2>1, <2>2, <2>3, <2>4, <2>5 DEF PrintInv
<1>2. CASE T!Next
  <2>1. ASSUME NEW p \in T!Id, T!AddNode(p) PROVE PrintInv'
    <3>1. treePc = "build" /\ UNCHANGED <<treePc, level, printed>>
      BY <2>1 DEF T!AddNode, T!output
    <3> QED
      BY <3>1, NotPrinting
  <2>2. CASE T!AddOther \/ T!Decision
    <3>1. /\ treePc = "build" /\ UNCHANGED <<level, printed>>
          /\ treePc' \in {"build", "decide", "refused", "panic"}
      BY <2>2 DEF T!AddOther, T!Decision, T!output
    <3> QED
      BY <3>1, NotPrinting
  <2>3. CASE T!NilFront \/ \E n \in Node : T!Enter(n) \/ T!Skip(n) \/ T!Do(n)
    <3>1. treePc = "decide" /\ UNCHANGED <<level, printed>>
      BY <2>3 DEF T!NilFront, T!Enter, T!Skip, T!Do, T!Visiting, T!output
    <3>2. treePc' \in {"decide", "done", "panic"}
      BY <2>3, <3>1 DEF T!NilFront, T!Enter, T!Skip, T!Do, T!Advance
    <3> QED
      BY <3>1, <3>2, NotPrinting
  <2> QED
    BY <1>2, <2>1, <2>2, <2>3, BeginPrinting, PrintNodeStep, PrintUnknownStep
    DEF T!Next, T!Walk, Node
<1> QED
  BY <1>1, <1>2

LEMMA PrintKept == FairSpec => [](TreeInv /\ PrintInv)
<1>1. Init => TreeInv /\ PrintInv
  <2>1. T!Init => PrintInv
    BY DEF T!Init, PrintInv
  <2> QED
    BY <2>1, InitParts, InitTree
<1>2. TreeInv /\ PrintInv /\ [Next]_vars => (TreeInv /\ PrintInv)'
  BY StepParts, NextTree, NextPrint
<1> QED
  BY <1>1, <1>2, PTL DEF FairSpec

\* A list that has each element once is as long as its set is large.
LEMMA OnceCounts ==
    ASSUME NEW X, NEW s \in Seq(X), Once(s)
    PROVE  Cardinality(ToSet(s)) = Len(s)
<1>1. s \in Bijection(1..Len(s), ToSet(s))
  <2>1. DOMAIN s = 1..Len(s) /\ s \in [1..Len(s) -> ToSet(s)]
    BY DEF ToSet
  <2>2. \A y \in ToSet(s) : \E j \in 1..Len(s) : s[j] = y
    BY <2>1 DEF ToSet
  <2> QED
    BY <2>1, <2>2 DEF Once, Bijection, Injection, Surjection, IsInjective
<1>2. ExistsBijection(1..Len(s), ToSet(s))
  BY <1>1 DEF ExistsBijection
<1> QED
  BY <1>2, FS_CountingElements

\* When printing has come to its end, it has answered the levels of the tree: every
\* added node at its depth, once, however deep the tree and in whatever order it
\* was put together.
THEOREM LevelsArePrinted == FairSpec => []PrintsTheLevels
<1>1. TreeInv /\ PrintInv => PrintsTheLevels
  <2> SUFFICES ASSUME TreeInv, PrintInv, treePc = "done", printed # <<>>
               PROVE  /\ Head(printed) = <<RootId>>
                      /\ \A d \in 1..Len(printed) - 1 :
                            /\ T!ToSet(printed[d + 1]) = {n \in added : T!Depth[n] = d}
                            /\ Len(printed[d + 1]) = T!Cardinality(T!ToSet(printed[d + 1]))
                      /\ \A n \in added : T!Depth[n] < Len(printed)
    BY DEF PrintsTheLevels, T!PrintsTheLevels
  <2>1. LevelsRight /\ At(Len(printed)) = {}
    BY DEF PrintInv
  <2>2. /\ printed \in Seq(Seq(Node)) /\ Len(printed) \in Nat \ {0} /\ Head(printed) = printed[1]
        /\ \A d \in 1..Len(printed) : printed[d] \in Seq(Node)
    BY TreeFacts
  <2>3. printed[1] = <<RootId>>
    <3> DEFINE s == printed[1]
    <3>1. s \in Seq(Node) /\ ToSet(s) = {RootId} /\ Once(s)
      <4>1. 1 \in 1..Len(printed) /\ 1 - 1 = 0
        BY <2>2
      <4> QED
        BY <2>1, <2>2, <4>1 DEF LevelsRight, At
    <3> HIDE DEF s
    <3>2. Len(s) \in Nat /\ DOMAIN s = 1..Len(s) /\ \A j \in 1..Len(s) : s[j] = RootId
      BY <3>1 DEF ToSet
    <3>3. Len(s) = 1
      <4>1. 1 \in 1..Len(s)
        BY <3>1, <3>2 DEF ToSet
      <4>2. \A j \in 1..Len(s) : j = 1
        BY <3>1, <3>2, <4>1 DEF Once
      <4>3. Len(s) \in 1..Len(s)
        BY <3>2, <4>1
      <4> QED
        BY <4>2, <4>3
    <3>4. s = <<RootId>>
      BY <3>1, <3>2, <3>3
    <3> QED
      BY <3>4 DEF s
  <2>4. ASSUME NEW d \in 1..Len(printed) - 1
        PROVE  /\ T!ToSet(printed[d + 1]) = {n \in added : T!Depth[n] = d}
               /\ Len(printed[d + 1]) = T!Cardinality(T!ToSet(printed[d + 1]))
    <3> DEFINE s == printed[d + 1]
    <3>1. d + 1 \in 1..Len(printed) /\ (d + 1) - 1 = d /\ d # 0
      BY <2>2
    <3>2. s \in Seq(Node) /\ ToSet(s) = At(d) /\ Once(s) /\ ToSet(s) \subseteq added \cup {RootId}
      BY <2>1, <2>2, <3>1 DEF LevelsRight
    <3> HIDE DEF s
    <3>3. At(d) = {n \in T!Id : T!Depth[n] = d /\ (n \in added \/ parent[n] \in added)}
      BY <3>1 DEF At
    <3>4. ToSet(s) = {n \in added : T!Depth[n] = d}
      <4>1. RootId \notin T!Id /\ added \subseteq T!Id
        BY TreeConstants, TreeFacts
      <4> QED
        BY <3>2, <3>3, <4>1
    <3>5. Cardinality(ToSet(s)) = Len(s)
      BY <3>2, OnceCounts
    <3>6. \A S : T!Cardinality(S) = Cardinality(S)
      BY DEF T!Cardinality, Cardinality
    <3> QED
      BY <3>4, <3>5, <3>6, TreeSets DEF s
  <2>5. \A n \in added : T!Depth[n] < Len(printed)
    BY <2>1, <2>2, NoDeeper
  <2> QED
    BY <2>2, <2>3, <2>4, <2>5
<1> QED
  BY PrintKept, <1>1, PTL
=============================================================================
