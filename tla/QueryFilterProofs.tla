-------------------------- MODULE QueryFilterProofs --------------------------
(* QueryFilter for every schema and every filter: the tree of a filter means  *)
(* what the filter says, and the WHERE clause and the predicate in memory     *)
(* together find the rows that match.                                         *)
EXTENDS QueryFilter, WellFoundedInduction, TLAPS

-----------------------------------------------------------------------------
(* Induction and recursion along a measure                                 *)

\* The least of some natural numbers.
LEMMA Least ==
    ASSUME NEW S \in SUBSET Nat, S # {}
    PROVE  \E i \in S : \A j \in S : i <= j
<1>1. \E R : IsWellFoundedOn(R, Nat) /\ \A i, j \in Nat : <<j, i>> \in R <=> j < i
  <2>1. IsWellFoundedOn(OpToRel(<, Nat), Nat)
    BY NatLessThanWellFounded
  <2>2. \A i, j \in Nat : <<j, i>> \in OpToRel(<, Nat) <=> j < i
    BY DEF OpToRel
  <2> QED
    BY <2>1, <2>2
<1>2. PICK R : IsWellFoundedOn(R, Nat) /\ \A i, j \in Nat : <<j, i>> \in R <=> j < i
  BY <1>1
<1>3. PICK i \in S : \A j \in S : ~ (<<j, i>> \in R)
  BY <1>2, WFMin
<1>4. \A j \in S : i \in Nat /\ j \in Nat /\ ~ (j < i)
  BY <1>2, <1>3
<1> QED
  BY <1>4

\* A set that has every element whose smaller elements it has, has them all.
LEMMA Induction ==
    ASSUME NEW S, NEW m \in [S -> Nat], NEW Good,
           \A x \in S : (\A y \in S : m[y] < m[x] => y \in Good) => x \in Good
    PROVE  \A x \in S : x \in Good
<1> DEFINE Bad == {m[x] : x \in S \ Good}
<1> SUFFICES ASSUME \E x \in S : x \notin Good PROVE FALSE
  OBVIOUS
<1>1. Bad \in SUBSET Nat /\ Bad # {}
  OBVIOUS
<1>2. PICK k \in Bad : \A j \in Bad : k <= j
  <2> HIDE DEF Bad
  <2> QED
    BY <1>1, Least
<1>3. PICK x \in S \ Good : k = m[x]
  BY <1>2
<1>4. \A y \in S : m[y] < m[x] => y \in Good
  <2> SUFFICES ASSUME NEW y \in S, m[y] < m[x], y \notin Good PROVE FALSE
    OBVIOUS
  <2>1. m[y] \in Bad
    OBVIOUS
  <2>2. m[x] <= m[y]
    BY <1>2, <1>3, <2>1
  <2>3. m[x] \in Nat /\ m[y] \in Nat
    OBVIOUS
  <2> QED
    BY <2>2, <2>3
<1> QED
  BY <1>3, <1>4

\* next makes of a function on S another, whose value at an argument depends on
\* those of smaller arguments only.
Descends(S, F, next, b, m) ==
    /\ b \in Nat /\ m \in [S -> 0 .. b]
    /\ F # {} /\ next \in [F -> F] /\ \A f \in F : f = [x \in S |-> f[x]]
    /\ \A f, g \in F : \A x \in S :
            (\A y \in S : m[y] < m[x] => f[y] = g[y]) => next[f][x] = next[g][x]

\* Such a recursive definition has a solution.
LEMMA Recursion ==
    ASSUME NEW S, NEW F, NEW next, NEW b, NEW m, Descends(S, F, next, b, m)
    PROVE  \E f \in F : next[f] = f
<1> USE DEF Descends
<1> DEFINE Up(k) == \E f \in F : \A x \in S : m[x] < k => next[f][x] = f[x]
           Bad == {k \in Nat : ~Up(k)}
<1>1. Bad = {}
  <2> SUFFICES ASSUME Bad # {} PROVE FALSE
    OBVIOUS
  <2>1. Bad \in SUBSET Nat
    OBVIOUS
  <2>2. PICK k \in Bad : \A j \in Bad : k <= j
    <3> HIDE DEF Bad
    <3> QED
      BY <2>1, Least
  <2>3. k \in Nat /\ ~Up(k)
    OBVIOUS
  <2>4. k # 0
    <3>1. \A x \in S : ~(m[x] < 0)
      OBVIOUS
    <3> QED
      BY <2>3, <3>1
  <2>5. k - 1 \in Nat /\ k - 1 \notin Bad
    <3>1. k - 1 \in Nat /\ ~(k <= k - 1)
      BY <2>3, <2>4
    <3> HIDE DEF Bad
    <3> QED
      BY <2>2, <3>1
  <2>6. PICK f \in F : \A x \in S : m[x] < k - 1 => next[f][x] = f[x]
    BY <2>5
  <2>7. next[f] \in F
    OBVIOUS
  <2>8. \A x \in S : m[x] < k => next[next[f]][x] = next[f][x]
    <3> SUFFICES ASSUME NEW x \in S, m[x] < k PROVE next[next[f]][x] = next[f][x]
      OBVIOUS
    <3>1. \A y \in S : m[y] < m[x] => next[f][y] = f[y]
      <4> SUFFICES ASSUME NEW y \in S, m[y] < m[x] PROVE next[f][y] = f[y]
        OBVIOUS
      <4>1. m[x] \in Nat /\ m[y] \in Nat
        OBVIOUS
      <4>2. m[y] < k - 1
        BY <2>3, <4>1
      <4> QED
        BY <2>6, <4>2
    <3> QED
      BY <2>7, <3>1
  <2> QED
    BY <2>3, <2>7, <2>8
<1>2. Up(b + 1)
  <2>1. b + 1 \in Nat /\ b + 1 \notin Bad
    <3> HIDE DEF Bad
    <3> QED
      BY <1>1
  <2> QED
    BY <2>1
<1>3. PICK f \in F : \A x \in S : m[x] < b + 1 => next[f][x] = f[x]
  BY <1>2
<1>4. \A x \in S : next[f][x] = f[x]
  BY <1>3
<1>5. next[f] \in F
  OBVIOUS
<1>6. next[f] = [x \in S |-> next[f][x]] /\ f = [x \in S |-> f[x]]
  BY <1>5
<1> QED
  BY <1>4, <1>6

-----------------------------------------------------------------------------
(* Trees                                                                   *)

\* Every node is a leaf or is above two others.
Above(t, rank, n) ==
    \/ \E f \in Field : t[n] = Leaf(f)
    \/ \E o \in {"AND", "OR"}, l, r \in DOMAIN t :
        t[n] = Logical(o, l, r) /\ rank[l] < rank[n] /\ rank[r] < rank[n]

Tree(t) ==
    \E b \in Nat : \E rank \in [DOMAIN t -> 0 .. b] : \A n \in DOMAIN t : Above(t, rank, n)

\* What the definitions over trees look at.
LEMMA NodeFields ==
    /\ \A f : Leaf(f).op = "cmp" /\ Leaf(f).field = f
    /\ \A o, l, r : /\ Logical(o, l, r).op = o
                    /\ Logical(o, l, r).left = l /\ Logical(o, l, r).right = r
BY DEF Leaf, Logical

LEMMA TreeNodes ==
    ASSUME NEW t, Tree(t), NEW n \in DOMAIN t
    PROVE  \/ t[n].op = "cmp" /\ t[n].field \in Field
           \/ t[n].op \in {"AND", "OR"} /\ t[n].left \in DOMAIN t /\ t[n].right \in DOMAIN t
<1>1. PICK b \in Nat : \E rank \in [DOMAIN t -> 0 .. b] : Above(t, rank, n)
  BY DEF Tree
<1> QED
  BY <1>1, NodeFields DEF Above

\* A set of nodes that has the leaves, and every node whose sides it has, has
\* them all.
LEMMA TreeInduction ==
    ASSUME NEW t, Tree(t), NEW Good,
           \A n \in DOMAIN t : t[n].op = "cmp" /\ t[n].field \in Field => n \in Good,
           \A n \in DOMAIN t :
              /\ t[n].op \in {"AND", "OR"}
              /\ t[n].left \in DOMAIN t \cap Good /\ t[n].right \in DOMAIN t \cap Good
              => n \in Good
    PROVE  \A n \in DOMAIN t : n \in Good
<1>1. PICK b \in Nat : \E rank \in [DOMAIN t -> 0 .. b] :
                  \A n \in DOMAIN t : Above(t, rank, n)
  BY DEF Tree
<1>a. PICK rank \in [DOMAIN t -> 0 .. b] : \A n \in DOMAIN t : Above(t, rank, n)
  BY <1>1
<1>2. ASSUME NEW n \in DOMAIN t, \A k \in DOMAIN t : rank[k] < rank[n] => k \in Good
      PROVE  n \in Good
  <2>1. Above(t, rank, n)
    BY <1>a
  <2>2. CASE \E f \in Field : t[n] = Leaf(f)
    BY <2>2, NodeFields
  <2>3. CASE \E o \in {"AND", "OR"}, l, r \in DOMAIN t :
                t[n] = Logical(o, l, r) /\ rank[l] < rank[n] /\ rank[r] < rank[n]
    BY <1>2, <2>3, NodeFields
  <2> QED
    BY <2>1, <2>2, <2>3 DEF Above
<1>3. rank \in [DOMAIN t -> Nat]
  OBVIOUS
<1> QED
  BY <1>2, <1>3, Induction

\* A definition over the nodes of a tree has a solution.
Folds(t, V, leaf, join) ==
    Tree(t) /\ leaf \in [DOMAIN t -> V] /\ join \in [DOMAIN t -> [V -> [V -> V]]]

LEMMA Fold ==
    ASSUME NEW t, NEW V, NEW leaf, NEW join, Folds(t, V, leaf, join)
    PROVE  \E f \in [DOMAIN t -> V] :
              f = [n \in DOMAIN t |-> IF t[n].op = "cmp" THEN leaf[n]
                                     ELSE join[n][f[t[n].left]][f[t[n].right]]]
<1> USE DEF Folds
<1> DEFINE S == DOMAIN t
           F == [S -> V]
           step(f) == [n \in S |-> IF t[n].op = "cmp" THEN leaf[n]
                                  ELSE join[n][f[t[n].left]][f[t[n].right]]]
           next == [f \in F |-> step(f)]
<1>1. PICK b \in Nat : \E rank \in [S -> 0 .. b] : \A n \in S : Above(t, rank, n)
  BY DEF Tree
<1>a. PICK rank \in [S -> 0 .. b] : \A n \in S : Above(t, rank, n)
  BY <1>1
<1>2. \A f \in F : step(f) \in F
  <2> SUFFICES ASSUME NEW f \in F, NEW n \in S, t[n].op # "cmp"
               PROVE  join[n][f[t[n].left]][f[t[n].right]] \in V
    OBVIOUS
  <2>1. t[n].left \in S /\ t[n].right \in S
    BY TreeNodes
  <2> QED
    BY <2>1
<1>3. next \in [F -> F] /\ \A f \in F : next[f] = step(f)
  BY <1>2
<1>4. F # {}
  <2>1. leaf \in F
    OBVIOUS
  <2> QED
    BY <2>1
<1>5. ASSUME NEW f \in F, NEW g \in F, NEW n \in S,
             \A k \in S : rank[k] < rank[n] => f[k] = g[k]
      PROVE  next[f][n] = next[g][n]
  <2>1. next[f][n] = step(f)[n] /\ next[g][n] = step(g)[n]
    BY <1>3
  <2>2. Above(t, rank, n)
    BY <1>a
  <2>3. CASE \E x \in Field : t[n] = Leaf(x)
    BY <2>1, <2>3, NodeFields
  <2>4. CASE \E o \in {"AND", "OR"}, l, r \in DOMAIN t :
                t[n] = Logical(o, l, r) /\ rank[l] < rank[n] /\ rank[r] < rank[n]
    <3>1. f[t[n].left] = g[t[n].left] /\ f[t[n].right] = g[t[n].right]
      BY <1>5, <2>4, NodeFields
    <3> QED
      BY <2>1, <3>1
  <2> QED
    BY <2>2, <2>3, <2>4 DEF Above
<1>6. \E f \in F : next[f] = f
  <2> HIDE DEF next, F, S, step
  <2>1. \A f \in F : f = [n \in S |-> f[n]]
    BY DEF F
  <2>2. \A f, g \in F : \A n \in S :
            (\A k \in S : rank[k] < rank[n] => f[k] = g[k]) => next[f][n] = next[g][n]
    BY <1>5
  <2>3. next \in [F -> F]
    BY <1>3
  <2>4. Descends(S, F, next, b, rank)
    BY <1>a, <1>4, <2>1, <2>2, <2>3 DEF Descends
  <2> QED
    BY <2>4, Recursion
<1> QED
  BY <1>3, <1>6

LEMMA LeavesIs ==
    ASSUME NEW t, Tree(t)
    PROVE  \A n \in DOMAIN t :
              Leaves(t)[n] = IF t[n].op = "cmp" THEN {t[n].field}
                             ELSE Leaves(t)[t[n].left] \cup Leaves(t)[t[n].right]
<1> DEFINE Is(f) == f = [n \in DOMAIN t |-> IF t[n].op = "cmp" THEN {t[n].field}
                                           ELSE f[t[n].left] \cup f[t[n].right]]
           c == CHOOSE f : Is(f)
           V == SUBSET {t[n].field : n \in DOMAIN t}
           leaf == [n \in DOMAIN t |-> {t[n].field}]
           join == [n \in DOMAIN t |-> [a \in V |-> [b \in V |-> a \cup b]]]
<1>1. \E f \in [DOMAIN t -> V] :
          f = [n \in DOMAIN t |-> IF t[n].op = "cmp" THEN leaf[n]
                                 ELSE join[n][f[t[n].left]][f[t[n].right]]]
  <2>1. leaf \in [DOMAIN t -> V] /\ join \in [DOMAIN t -> [V -> [V -> V]]]
    OBVIOUS
  <2> HIDE DEF leaf, join, V
  <2>2. Folds(t, V, leaf, join)
    BY <2>1 DEF Folds
  <2> QED
    BY <2>2, Fold
<1>2. PICK w \in [DOMAIN t -> V] :
          w = [n \in DOMAIN t |-> IF t[n].op = "cmp" THEN leaf[n]
                                 ELSE join[n][w[t[n].left]][w[t[n].right]]]
  BY <1>1
<1>3. Is(w)
  <2> SUFFICES ASSUME NEW n \in DOMAIN t
               PROVE  w[n] = IF t[n].op = "cmp" THEN {t[n].field}
                             ELSE w[t[n].left] \cup w[t[n].right]
    BY <1>2
  <2>1. t[n].op # "cmp" =>
            join[n][w[t[n].left]][w[t[n].right]] = w[t[n].left] \cup w[t[n].right]
    BY TreeNodes
  <2> QED
    BY <1>2, <2>1
<1>4. Is(c)
  BY <1>3, Zenon
<1>5. Leaves(t) = c
  BY Zenon DEF Leaves
<1> HIDE DEF c
<1> QED
  BY <1>4, <1>5

LEMMA HoldsIs ==
    ASSUME NEW t, Tree(t), NEW row \in Row
    PROVE  \A n \in DOMAIN t :
              /\ t[n].op = "cmp" => (Holds(t, row)[n] <=> row[t[n].field])
              /\ t[n].op = "AND" =>
                    (Holds(t, row)[n] <=> Holds(t, row)[t[n].left] /\ Holds(t, row)[t[n].right])
              /\ t[n].op = "OR" =>
                    (Holds(t, row)[n] <=> Holds(t, row)[t[n].left] \/ Holds(t, row)[t[n].right])
<1> DEFINE Is(f) == f = [n \in DOMAIN t |->
                            \/ t[n].op = "cmp" /\ row[t[n].field]
                            \/ t[n].op = "AND" /\ f[t[n].left] /\ f[t[n].right]
                            \/ t[n].op = "OR" /\ (f[t[n].left] \/ f[t[n].right])]
           c == CHOOSE f : Is(f)
           leaf == [n \in DOMAIN t |-> t[n].op = "cmp" /\ row[t[n].field]]
           join == [n \in DOMAIN t |-> [a \in BOOLEAN |-> [b \in BOOLEAN |->
                        (t[n].op = "AND" /\ a /\ b) \/ (t[n].op = "OR" /\ (a \/ b))]]]
<1>1. \E f \in [DOMAIN t -> BOOLEAN] :
          f = [n \in DOMAIN t |-> IF t[n].op = "cmp" THEN leaf[n]
                                 ELSE join[n][f[t[n].left]][f[t[n].right]]]
  <2>1. leaf \in [DOMAIN t -> BOOLEAN]
    OBVIOUS
  <2>2. join \in [DOMAIN t -> [BOOLEAN -> [BOOLEAN -> BOOLEAN]]]
    OBVIOUS
  <2> HIDE DEF leaf, join
  <2>3. Folds(t, BOOLEAN, leaf, join)
    BY <2>1, <2>2 DEF Folds
  <2> QED
    BY <2>3, Fold
<1>2. PICK w \in [DOMAIN t -> BOOLEAN] :
          w = [n \in DOMAIN t |-> IF t[n].op = "cmp" THEN leaf[n]
                                 ELSE join[n][w[t[n].left]][w[t[n].right]]]
  BY <1>1
<1>3. Is(w)
  <2> SUFFICES ASSUME NEW n \in DOMAIN t
               PROVE  w[n] = \/ t[n].op = "cmp" /\ row[t[n].field]
                             \/ t[n].op = "AND" /\ w[t[n].left] /\ w[t[n].right]
                             \/ t[n].op = "OR" /\ (w[t[n].left] \/ w[t[n].right])
    BY <1>2
  <2>1. CASE t[n].op = "cmp"
    BY <1>2, <2>1
  <2>2. CASE t[n].op \in {"AND", "OR"}
    <3>1. w[t[n].left] \in BOOLEAN /\ w[t[n].right] \in BOOLEAN
      BY <2>2, TreeNodes
    <3>2. w[n] = join[n][w[t[n].left]][w[t[n].right]]
      BY <1>2, <2>2
    <3> QED
      BY <2>2, <3>1, <3>2
  <2> QED
    BY <2>1, <2>2, TreeNodes
<1>4. Is(c)
  BY <1>3, Zenon
<1>5. Holds(t, row) = c
  BY Zenon DEF Holds
<1> HIDE DEF c
<1>6. ASSUME NEW n \in DOMAIN t
      PROVE  c[n] = \/ t[n].op = "cmp" /\ row[t[n].field]
                    \/ t[n].op = "AND" /\ c[t[n].left] /\ c[t[n].right]
                    \/ t[n].op = "OR" /\ (c[t[n].left] \/ c[t[n].right])
  BY <1>4
<1>7. ASSUME NEW n \in DOMAIN t
      PROVE  /\ t[n].op = "cmp" => (c[n] <=> row[t[n].field])
             /\ t[n].op = "AND" => (c[n] <=> c[t[n].left] /\ c[t[n].right])
             /\ t[n].op = "OR" => (c[n] <=> c[t[n].left] \/ c[t[n].right])
  <2>1. "cmp" # "AND" /\ "cmp" # "OR" /\ "AND" # "OR"
    OBVIOUS
  <2> QED
    BY <1>6, <2>1, Zenon
<1> QED
  BY <1>5, <1>7, Zenon

LEMMA EvalIs ==
    ASSUME NEW t, Tree(t), NEW row \in Row
    PROVE  \A n \in DOMAIN t :
              /\ t[n].op = "cmp" => (evalNode(t, row)[n] <=> (Level[t[n].field] = "mem" => row[t[n].field]))
              /\ t[n].op = "AND" =>
                    (evalNode(t, row)[n] <=> evalNode(t, row)[t[n].left] /\ evalNode(t, row)[t[n].right])
              /\ t[n].op = "OR" =>
                    (evalNode(t, row)[n] <=> evalNode(t, row)[t[n].left] \/ evalNode(t, row)[t[n].right])
<1> DEFINE Is(f) == f = [n \in DOMAIN t |->
                            \/ t[n].op = "cmp" /\ (Level[t[n].field] = "mem" => row[t[n].field])
                            \/ t[n].op = "AND" /\ f[t[n].left] /\ f[t[n].right]
                            \/ t[n].op = "OR" /\ (f[t[n].left] \/ f[t[n].right])]
           c == CHOOSE f : Is(f)
           leaf == [n \in DOMAIN t |->
                        t[n].op = "cmp" /\ (Level[t[n].field] = "mem" => row[t[n].field])]
           join == [n \in DOMAIN t |-> [a \in BOOLEAN |-> [b \in BOOLEAN |->
                        (t[n].op = "AND" /\ a /\ b) \/ (t[n].op = "OR" /\ (a \/ b))]]]
<1>1. \E f \in [DOMAIN t -> BOOLEAN] :
          f = [n \in DOMAIN t |-> IF t[n].op = "cmp" THEN leaf[n]
                                 ELSE join[n][f[t[n].left]][f[t[n].right]]]
  <2>1. leaf \in [DOMAIN t -> BOOLEAN]
    OBVIOUS
  <2>2. join \in [DOMAIN t -> [BOOLEAN -> [BOOLEAN -> BOOLEAN]]]
    OBVIOUS
  <2> HIDE DEF leaf, join
  <2>3. Folds(t, BOOLEAN, leaf, join)
    BY <2>1, <2>2 DEF Folds
  <2> QED
    BY <2>3, Fold
<1>2. PICK w \in [DOMAIN t -> BOOLEAN] :
          w = [n \in DOMAIN t |-> IF t[n].op = "cmp" THEN leaf[n]
                                 ELSE join[n][w[t[n].left]][w[t[n].right]]]
  BY <1>1
<1>3. Is(w)
  <2> SUFFICES ASSUME NEW n \in DOMAIN t
               PROVE  w[n] = \/ t[n].op = "cmp" /\ (Level[t[n].field] = "mem" => row[t[n].field])
                             \/ t[n].op = "AND" /\ w[t[n].left] /\ w[t[n].right]
                             \/ t[n].op = "OR" /\ (w[t[n].left] \/ w[t[n].right])
    BY <1>2
  <2>1. CASE t[n].op = "cmp"
    BY <1>2, <2>1
  <2>2. CASE t[n].op \in {"AND", "OR"}
    <3>1. w[t[n].left] \in BOOLEAN /\ w[t[n].right] \in BOOLEAN
      BY <2>2, TreeNodes
    <3>2. w[n] = join[n][w[t[n].left]][w[t[n].right]]
      BY <1>2, <2>2
    <3> QED
      BY <2>2, <3>1, <3>2
  <2> QED
    BY <2>1, <2>2, TreeNodes
<1>4. Is(c)
  BY <1>3, Zenon
<1>5. evalNode(t, row) = c
  BY Zenon DEF evalNode
<1> HIDE DEF c
<1>6. ASSUME NEW n \in DOMAIN t
      PROVE  c[n] = \/ t[n].op = "cmp" /\ (Level[t[n].field] = "mem" => row[t[n].field])
                    \/ t[n].op = "AND" /\ c[t[n].left] /\ c[t[n].right]
                    \/ t[n].op = "OR" /\ (c[t[n].left] \/ c[t[n].right])
  BY <1>4
<1>7. ASSUME NEW n \in DOMAIN t
      PROVE  /\ t[n].op = "cmp" => (c[n] <=> (Level[t[n].field] = "mem" => row[t[n].field]))
             /\ t[n].op = "AND" => (c[n] <=> c[t[n].left] /\ c[t[n].right])
             /\ t[n].op = "OR" => (c[n] <=> c[t[n].left] \/ c[t[n].right])
  <2>1. "cmp" # "AND" /\ "cmp" # "OR" /\ "AND" # "OR"
    OBVIOUS
  <2> QED
    BY <1>6, <2>1, Zenon
<1> QED
  BY <1>5, <1>7, Zenon

Pure(t, n) == Pushable(t, n) \/ \A f \in Leaves(t)[n] : Level[f] = "mem"

LEMMA SeparableIs ==
    ASSUME NEW t, Tree(t)
    PROVE  \A n \in DOMAIN t :
              /\ t[n].op = "cmp" => (Separable(t)[n] <=> Level[t[n].field] # "bad")
              /\ t[n].op = "AND" =>
                    (Separable(t)[n] <=> Separable(t)[t[n].left] /\ Separable(t)[t[n].right])
              /\ t[n].op = "OR" =>
                    (Separable(t)[n] <=> Pure(t, n))
<1> DEFINE Is(g) == g = [n \in DOMAIN t |->
                            \/ t[n].op = "OR" /\ Pure(t, n)
                            \/ t[n].op = "AND" /\ g[t[n].left] /\ g[t[n].right]
                            \/ t[n].op = "cmp" /\ Level[t[n].field] # "bad"]
           c == CHOOSE g : Is(g)
           leaf == [n \in DOMAIN t |-> t[n].op = "cmp" /\ Level[t[n].field] # "bad"]
           join == [n \in DOMAIN t |-> [a \in BOOLEAN |-> [b \in BOOLEAN |->
                        (t[n].op = "AND" /\ a /\ b) \/ (t[n].op = "OR" /\ Pure(t, n))]]]
<1>1. \E f \in [DOMAIN t -> BOOLEAN] :
          f = [n \in DOMAIN t |-> IF t[n].op = "cmp" THEN leaf[n]
                                 ELSE join[n][f[t[n].left]][f[t[n].right]]]
  <2>1. leaf \in [DOMAIN t -> BOOLEAN]
    OBVIOUS
  <2>2. join \in [DOMAIN t -> [BOOLEAN -> [BOOLEAN -> BOOLEAN]]]
    OBVIOUS
  <2> HIDE DEF leaf, join
  <2>3. Folds(t, BOOLEAN, leaf, join)
    BY <2>1, <2>2 DEF Folds
  <2> QED
    BY <2>3, Fold
<1>2. PICK w \in [DOMAIN t -> BOOLEAN] :
          w = [n \in DOMAIN t |-> IF t[n].op = "cmp" THEN leaf[n]
                                 ELSE join[n][w[t[n].left]][w[t[n].right]]]
  BY <1>1
<1>3. Is(w)
  <2> SUFFICES ASSUME NEW n \in DOMAIN t
               PROVE  w[n] = \/ t[n].op = "OR" /\ Pure(t, n)
                             \/ t[n].op = "AND" /\ w[t[n].left] /\ w[t[n].right]
                             \/ t[n].op = "cmp" /\ Level[t[n].field] # "bad"
    BY <1>2
  <2>1. CASE t[n].op = "cmp"
    BY <1>2, <2>1
  <2>2. CASE t[n].op \in {"AND", "OR"}
    <3>1. w[t[n].left] \in BOOLEAN /\ w[t[n].right] \in BOOLEAN
      BY <2>2, TreeNodes
    <3>2. w[n] = join[n][w[t[n].left]][w[t[n].right]]
      BY <1>2, <2>2
    <3> QED
      BY <2>2, <3>1, <3>2
  <2> QED
    BY <2>1, <2>2, TreeNodes
<1>4. Is(c)
  BY <1>3, Zenon
<1>5. Separable(t) = c
  BY Zenon DEF Separable, Pure
<1> HIDE DEF c
<1>6. ASSUME NEW n \in DOMAIN t
      PROVE  c[n] = \/ t[n].op = "OR" /\ Pure(t, n)
                    \/ t[n].op = "AND" /\ c[t[n].left] /\ c[t[n].right]
                    \/ t[n].op = "cmp" /\ Level[t[n].field] # "bad"
  BY <1>4
<1>7. ASSUME NEW n \in DOMAIN t
      PROVE  /\ t[n].op = "cmp" => (c[n] <=> Level[t[n].field] # "bad")
             /\ t[n].op = "AND" => (c[n] <=> c[t[n].left] /\ c[t[n].right])
             /\ t[n].op = "OR" => (c[n] <=> Pure(t, n))
  <2>1. "cmp" # "AND" /\ "cmp" # "OR" /\ "AND" # "OR"
    OBVIOUS
  <2> QED
    BY <1>6, <2>1, Zenon
<1> QED
  BY <1>5, <1>7, Zenon

LEMMA CondsIs ==
    ASSUME NEW t, Tree(t)
    PROVE  \A n \in DOMAIN t :
              collectDBConds(t)[n] =
                  IF t[n].op = "AND"
                  THEN collectDBConds(t)[t[n].left] \cup collectDBConds(t)[t[n].right]
                  ELSE IF Pushable(t, n) THEN {n} ELSE {}
<1> DEFINE Is(f) == f = [n \in DOMAIN t |-> IF t[n].op = "AND" THEN f[t[n].left] \cup f[t[n].right]
                                           ELSE IF Pushable(t, n) THEN {n} ELSE {}]
           c == CHOOSE f : Is(f)
           V == SUBSET DOMAIN t
           leaf == [n \in DOMAIN t |-> IF Pushable(t, n) THEN {n} ELSE {}]
           join == [n \in DOMAIN t |-> [a \in V |-> [b \in V |->
                        IF t[n].op = "AND" THEN a \cup b ELSE leaf[n]]]]
<1>1. \E f \in [DOMAIN t -> V] :
          f = [n \in DOMAIN t |-> IF t[n].op = "cmp" THEN leaf[n]
                                 ELSE join[n][f[t[n].left]][f[t[n].right]]]
  <2>1. leaf \in [DOMAIN t -> V] /\ join \in [DOMAIN t -> [V -> [V -> V]]]
    <3>1. leaf \in [DOMAIN t -> V]
      OBVIOUS
    <3>2. \A n \in DOMAIN t : leaf[n] \in V
      BY <3>1
    <3> HIDE DEF leaf
    <3> QED
      BY <3>1, <3>2
  <2> HIDE DEF leaf, join, V
  <2>2. Folds(t, V, leaf, join)
    BY <2>1 DEF Folds
  <2> QED
    BY <2>2, Fold
<1>2. PICK w \in [DOMAIN t -> V] :
          w = [n \in DOMAIN t |-> IF t[n].op = "cmp" THEN leaf[n]
                                 ELSE join[n][w[t[n].left]][w[t[n].right]]]
  BY <1>1
<1>3. Is(w)
  <2> SUFFICES ASSUME NEW n \in DOMAIN t
               PROVE  w[n] = IF t[n].op = "AND" THEN w[t[n].left] \cup w[t[n].right]
                             ELSE IF Pushable(t, n) THEN {n} ELSE {}
    BY <1>2
  <2>1. t[n].op # "cmp" => w[t[n].left] \in V /\ w[t[n].right] \in V
    BY TreeNodes
  <2>2. t[n].op # "cmp" =>
            join[n][w[t[n].left]][w[t[n].right]] =
                IF t[n].op = "AND" THEN w[t[n].left] \cup w[t[n].right] ELSE leaf[n]
    <3> HIDE DEF V, leaf
    <3> QED
      BY <2>1
  <2> QED
    BY <1>2, <2>2
<1>4. Is(c)
  BY <1>3, Zenon
<1>5. collectDBConds(t) = c
  BY Zenon DEF collectDBConds
<1> HIDE DEF c
<1> QED
  BY <1>4, <1>5

-----------------------------------------------------------------------------
(* The two halves of a filter                                              *)

\* All of these at a comparison, at an AND and at an OR.
AtLeaf(t, row, n) ==
    /\ Leaves(t)[n] = {t[n].field}
    /\ Holds(t, row)[n] <=> row[t[n].field]
    /\ evalNode(t, row)[n] <=> (Level[t[n].field] = "mem" => row[t[n].field])
    /\ Separable(t)[n] <=> Level[t[n].field] # "bad"
    /\ collectDBConds(t)[n] = IF Level[t[n].field] = "db" THEN {n} ELSE {}

AtAnd(t, row, n, l, r) ==
    /\ Leaves(t)[n] = Leaves(t)[l] \cup Leaves(t)[r]
    /\ Holds(t, row)[n] <=> Holds(t, row)[l] /\ Holds(t, row)[r]
    /\ evalNode(t, row)[n] <=> evalNode(t, row)[l] /\ evalNode(t, row)[r]
    /\ Separable(t)[n] <=> Separable(t)[l] /\ Separable(t)[r]
    /\ collectDBConds(t)[n] = collectDBConds(t)[l] \cup collectDBConds(t)[r]

AtOr(t, row, n, l, r) ==
    /\ Leaves(t)[n] = Leaves(t)[l] \cup Leaves(t)[r]
    /\ Holds(t, row)[n] <=> Holds(t, row)[l] \/ Holds(t, row)[r]
    /\ evalNode(t, row)[n] <=> evalNode(t, row)[l] \/ evalNode(t, row)[r]
    /\ Separable(t)[n] <=> Pure(t, n)
    /\ collectDBConds(t)[n] = IF Pushable(t, n) THEN {n} ELSE {}

LEMMA Unfolded ==
    ASSUME NEW t, Tree(t), NEW row \in Row, NEW n \in DOMAIN t
    PROVE  /\ t[n].op = "cmp" => AtLeaf(t, row, n)
           /\ t[n].op = "AND" => AtAnd(t, row, n, t[n].left, t[n].right)
           /\ t[n].op = "OR" => AtOr(t, row, n, t[n].left, t[n].right)
<1>1. ASSUME t[n].op = "cmp" PROVE AtLeaf(t, row, n)
  <2>1. Leaves(t)[n] = {t[n].field}
    BY <1>1, LeavesIs
  <2>2. Holds(t, row)[n] <=> row[t[n].field]
    BY <1>1, HoldsIs
  <2>3. evalNode(t, row)[n] <=> (Level[t[n].field] = "mem" => row[t[n].field])
    BY <1>1, EvalIs
  <2>4. Separable(t)[n] <=> Level[t[n].field] # "bad"
    BY <1>1, SeparableIs
  <2>5. collectDBConds(t)[n] = IF Pushable(t, n) THEN {n} ELSE {}
    BY <1>1, CondsIs
  <2>6. Pushable(t, n) <=> Level[t[n].field] = "db"
    BY <2>1 DEF Pushable
  <2> QED
    BY <2>1, <2>2, <2>3, <2>4, <2>5, <2>6 DEF AtLeaf
<1>2. ASSUME t[n].op \in {"AND", "OR"}
      PROVE  Leaves(t)[n] = Leaves(t)[t[n].left] \cup Leaves(t)[t[n].right]
  BY <1>2, LeavesIs
<1>3. ASSUME t[n].op = "AND" PROVE AtAnd(t, row, n, t[n].left, t[n].right)
  <2>1. Holds(t, row)[n] <=> Holds(t, row)[t[n].left] /\ Holds(t, row)[t[n].right]
    BY <1>3, HoldsIs
  <2>2. evalNode(t, row)[n] <=> evalNode(t, row)[t[n].left] /\ evalNode(t, row)[t[n].right]
    BY <1>3, EvalIs
  <2>3. Separable(t)[n] <=> Separable(t)[t[n].left] /\ Separable(t)[t[n].right]
    BY <1>3, SeparableIs
  <2>4. collectDBConds(t)[n] =
            collectDBConds(t)[t[n].left] \cup collectDBConds(t)[t[n].right]
    BY <1>3, CondsIs
  <2> QED
    BY <1>2, <1>3, <2>1, <2>2, <2>3, <2>4 DEF AtAnd
<1>4. ASSUME t[n].op = "OR" PROVE AtOr(t, row, n, t[n].left, t[n].right)
  <2>1. Holds(t, row)[n] <=> Holds(t, row)[t[n].left] \/ Holds(t, row)[t[n].right]
    BY <1>4, HoldsIs
  <2>2. evalNode(t, row)[n] <=> evalNode(t, row)[t[n].left] \/ evalNode(t, row)[t[n].right]
    BY <1>4, EvalIs
  <2>3. Separable(t)[n] <=> Pure(t, n)
    BY <1>4, SeparableIs
  <2>4. collectDBConds(t)[n] = IF Pushable(t, n) THEN {n} ELSE {}
    BY <1>4, CondsIs
  <2> QED
    BY <1>2, <1>4, <2>1, <2>2, <2>3, <2>4 DEF AtOr
<1> QED
  BY <1>1, <1>3, <1>4

\* A predicate without a FilterFn lets every row pass.
LEMMA NoMem ==
    ASSUME NEW t, Tree(t), NEW row \in Row
    PROVE  \A n \in DOMAIN t :
              (\A f \in Leaves(t)[n] : Level[f] # "mem") => evalNode(t, row)[n]
<1> DEFINE Good == {n \in DOMAIN t :
                        (\A f \in Leaves(t)[n] : Level[f] # "mem") => evalNode(t, row)[n]}
<1>1. ASSUME NEW n \in DOMAIN t, t[n].op = "cmp" PROVE n \in Good
  <2>1. AtLeaf(t, row, n)
    BY <1>1, Unfolded
  <2> QED
    BY <2>1 DEF AtLeaf
<1>2. ASSUME NEW n \in DOMAIN t, t[n].op \in {"AND", "OR"},
             t[n].left \in DOMAIN t \cap Good, t[n].right \in DOMAIN t \cap Good
      PROVE  n \in Good
  <2>1. \/ AtAnd(t, row, n, t[n].left, t[n].right)
        \/ AtOr(t, row, n, t[n].left, t[n].right)
    BY <1>2, Unfolded
  <2> QED
    BY <1>2, <2>1 DEF AtAnd, AtOr
<1>3. \A n \in DOMAIN t : n \in Good
  <2> HIDE DEF Good
  <2> QED
    BY <1>1, <1>2, TreeInduction
<1> QED
  BY <1>3

\* One of FilterFns only says what the filter says.
LEMMA AllMem ==
    ASSUME NEW t, Tree(t), NEW row \in Row
    PROVE  \A n \in DOMAIN t :
              (\A f \in Leaves(t)[n] : Level[f] = "mem") =>
                  (evalNode(t, row)[n] <=> Holds(t, row)[n])
<1> DEFINE Good == {n \in DOMAIN t :
                        (\A f \in Leaves(t)[n] : Level[f] = "mem") =>
                            (evalNode(t, row)[n] <=> Holds(t, row)[n])}
<1>1. ASSUME NEW n \in DOMAIN t, t[n].op = "cmp" PROVE n \in Good
  <2>1. AtLeaf(t, row, n)
    BY <1>1, Unfolded
  <2> QED
    BY <2>1 DEF AtLeaf
<1>2. ASSUME NEW n \in DOMAIN t, t[n].op \in {"AND", "OR"},
             t[n].left \in DOMAIN t \cap Good, t[n].right \in DOMAIN t \cap Good
      PROVE  n \in Good
  <2>1. \/ AtAnd(t, row, n, t[n].left, t[n].right)
        \/ AtOr(t, row, n, t[n].left, t[n].right)
    BY <1>2, Unfolded
  <2> QED
    BY <1>2, <2>1 DEF AtAnd, AtOr
<1>3. \A n \in DOMAIN t : n \in Good
  <2> HIDE DEF Good
  <2> QED
    BY <1>1, <1>2, TreeInduction
<1> QED
  BY <1>3

\* A row that matches satisfies the conditions and passes the predicate.
LEMMA HoldsPasses ==
    ASSUME NEW t, Tree(t), NEW row \in Row
    PROVE  \A n \in DOMAIN t : Holds(t, row)[n] =>
              evalNode(t, row)[n] /\ \A c \in collectDBConds(t)[n] : Holds(t, row)[c]
<1> DEFINE Good == {n \in DOMAIN t : Holds(t, row)[n] =>
                        /\ evalNode(t, row)[n]
                        /\ \A c \in collectDBConds(t)[n] : Holds(t, row)[c]}
<1>1. ASSUME NEW n \in DOMAIN t, t[n].op = "cmp" PROVE n \in Good
  <2>1. AtLeaf(t, row, n)
    BY <1>1, Unfolded
  <2> QED
    BY <2>1 DEF AtLeaf
<1>2. ASSUME NEW n \in DOMAIN t, t[n].op \in {"AND", "OR"},
             t[n].left \in DOMAIN t \cap Good, t[n].right \in DOMAIN t \cap Good
      PROVE  n \in Good
  <2> SUFFICES ASSUME Holds(t, row)[n]
               PROVE  /\ evalNode(t, row)[n]
                      /\ \A c \in collectDBConds(t)[n] : Holds(t, row)[c]
    OBVIOUS
  <2>1. CASE t[n].op = "AND"
    <3>1. AtAnd(t, row, n, t[n].left, t[n].right)
      BY <2>1, Unfolded
    <3> QED
      BY <1>2, <3>1 DEF AtAnd
  <2>2. CASE t[n].op = "OR"
    <3>1. AtOr(t, row, n, t[n].left, t[n].right)
      BY <2>2, Unfolded
    <3> QED
      BY <1>2, <3>1 DEF AtOr
  <2> QED
    BY <1>2, <2>1, <2>2
<1>3. \A n \in DOMAIN t : n \in Good
  <2> HIDE DEF Good
  <2> QED
    BY <1>1, <1>2, TreeInduction
<1> QED
  BY <1>3

\* A row that satisfies the conditions and passes the predicate matches, if no
\* OR mixes the two.
LEMMA PassesHolds ==
    ASSUME NEW t, Tree(t), NEW row \in Row
    PROVE  \A n \in DOMAIN t :
              /\ Separable(t)[n] /\ \A f \in Leaves(t)[n] : Level[f] # "unknown"
              /\ evalNode(t, row)[n] /\ \A c \in collectDBConds(t)[n] : Holds(t, row)[c]
              => Holds(t, row)[n]
<1> DEFINE Good == {n \in DOMAIN t :
              /\ Separable(t)[n] /\ \A f \in Leaves(t)[n] : Level[f] # "unknown"
              /\ evalNode(t, row)[n] /\ \A c \in collectDBConds(t)[n] : Holds(t, row)[c]
              => Holds(t, row)[n]}
<1>1. ASSUME NEW n \in DOMAIN t, t[n].op = "cmp", t[n].field \in Field PROVE n \in Good
  <2> SUFFICES ASSUME Separable(t)[n], \A f \in Leaves(t)[n] : Level[f] # "unknown",
                      evalNode(t, row)[n],
                      \A c \in collectDBConds(t)[n] : Holds(t, row)[c]
               PROVE  Holds(t, row)[n]
    OBVIOUS
  <2>1. AtLeaf(t, row, n)
    BY <1>1, Unfolded
  <2>2. Level[t[n].field] \in {"db", "mem"}
    BY <1>1, <2>1, SchemaAssumption DEF Levels, AtLeaf
  <2>3. CASE Level[t[n].field] = "db"
    BY <2>1, <2>3 DEF AtLeaf
  <2>4. CASE Level[t[n].field] = "mem"
    BY <2>1, <2>4 DEF AtLeaf
  <2> QED
    BY <2>2, <2>3, <2>4
<1>2. ASSUME NEW n \in DOMAIN t, t[n].op \in {"AND", "OR"},
             t[n].left \in DOMAIN t \cap Good, t[n].right \in DOMAIN t \cap Good
      PROVE  n \in Good
  <2> SUFFICES ASSUME Separable(t)[n], \A f \in Leaves(t)[n] : Level[f] # "unknown",
                      evalNode(t, row)[n],
                      \A c \in collectDBConds(t)[n] : Holds(t, row)[c]
               PROVE  Holds(t, row)[n]
    OBVIOUS
  <2>1. CASE t[n].op = "AND"
    <3>1. AtAnd(t, row, n, t[n].left, t[n].right)
      BY <2>1, Unfolded
    <3> QED
      BY <1>2, <3>1 DEF AtAnd
  <2>2. CASE t[n].op = "OR" /\ Pushable(t, n)
    <3>1. collectDBConds(t)[n] = {n}
      BY <2>2, Unfolded DEF AtOr
    <3> QED
      BY <3>1
  <2>3. CASE t[n].op = "OR" /\ \A f \in Leaves(t)[n] : Level[f] = "mem"
    BY <2>3, AllMem
  <2>4. t[n].op = "OR" => Pure(t, n)
    BY Unfolded DEF AtOr
  <2> QED
    BY <1>2, <2>1, <2>2, <2>3, <2>4 DEF Pure
<1>3. \A n \in DOMAIN t : n \in Good
  <2> HIDE DEF Good
  <2> QED
    BY <1>1, <1>2, TreeInduction
<1> QED
  BY <1>3

-----------------------------------------------------------------------------
(* What the parser returns                                                 *)

Nodes(w) ==
    {Leaf(f) : f \in Field} \cup
    {Logical(o, l, r) : o \in {"AND", "OR"}, l \in 1 .. Len(w), r \in 1 .. Len(w)}

Trees(w) == UNION {[D -> Nodes(w)] : D \in SUBSET (1 .. Len(w))}

\* A tree of the tokens from i up to before j.
TreeAt(w, t, i, j) ==
    /\ DOMAIN t \subseteq i .. j - 1 /\ Tree(t)
    /\ \A n \in DOMAIN t : t[n].op = "cmp" => t[n].field = w[n]

Results(w) ==
    {Failure} \cup {Parsed(n, j, t) : n \in 1 .. Len(w), j \in 1 .. Len(w) + 1, t \in Trees(w)}

\* The results of a call at i.
Outcomes(w, i) ==
    {r \in Results(w) : r.ok => /\ r.at > i /\ r.node \in DOMAIN r.tree
                               /\ TreeAt(w, r.tree, i, r.at)}

LEMMA ParsedFields ==
    /\ \A n, i, t : /\ Parsed(n, i, t).ok = TRUE /\ Parsed(n, i, t).node = n
                    /\ Parsed(n, i, t).at = i /\ Parsed(n, i, t).tree = t
    /\ Failure.ok = FALSE
BY DEF Parsed, Failure

LEMMA ResultFields ==
    ASSUME NEW w, NEW r \in Results(w)
    PROVE  \/ r = Failure /\ ~r.ok
           \/ /\ r.ok /\ r = Parsed(r.node, r.at, r.tree)
              /\ r.node \in 1 .. Len(w) /\ r.at \in 1 .. Len(w) + 1 /\ r.tree \in Trees(w)
BY ParsedFields DEF Results

LEMMA ParsedIn ==
    ASSUME NEW w, NEW n \in 1 .. Len(w), NEW j \in 1 .. Len(w) + 1, NEW t \in Trees(w)
    PROVE  Parsed(n, j, t) \in Results(w)
BY DEF Results

LEMMA TokenAt ==
    ASSUME NEW w \in Seq(Token), NEW i \in 1 .. Len(w) + 1
    PROVE  /\ Len(w) \in Nat
           /\ Peek(w, i) \in Field => i \in 1 .. Len(w) /\ w[i] \in Field /\ Peek(w, i) = w[i]
           /\ Peek(w, i) \in Punctuation => i \in 1 .. Len(w) /\ w[i] = Peek(w, i)
           /\ Peek(w, i) = "EOF" <=> i = Len(w) + 1
           /\ i <= Len(w) => Peek(w, i) = w[i] /\ w[i] \in Token
<1>1. Len(w) \in Nat /\ \A k \in 1 .. Len(w) : w[k] \in Token
  OBVIOUS
<1>2. "EOF" \notin Field /\ "EOF" \notin Punctuation /\ Field \cap Punctuation = {}
  BY SchemaAssumption DEF Punctuation
<1> QED
  BY <1>1, <1>2 DEF Peek, Token

LEMMA ComparisonOutcome ==
    ASSUME NEW w \in Seq(Token), NEW i \in 1 .. Len(w) + 1
    PROVE  ParseComparison(w, i) \in Outcomes(w, i)
<1>1. CASE Peek(w, i) \notin Field
  BY <1>1, ParsedFields DEF ParseComparison, Outcomes, Results
<1>2. CASE Peek(w, i) \in Field
  <2> DEFINE t == [n \in {i} |-> Leaf(w[i])]
  <2>1. i \in 1 .. Len(w) /\ w[i] \in Field /\ Len(w) \in Nat
    BY <1>2, TokenAt
  <2>2. Tree(t)
    <3>1. [n \in {i} |-> 0] \in [DOMAIN t -> 0 .. 0]
      OBVIOUS
    <3>2. \A n \in DOMAIN t : Above(t, [k \in {i} |-> 0], n)
      BY <2>1 DEF Above
    <3> QED
      BY <3>1, <3>2 DEF Tree
  <2>3. t \in Trees(w)
    <3>1. Leaf(w[i]) \in Nodes(w)
      BY <2>1 DEF Nodes
    <3>2. t \in [{i} -> Nodes(w)] /\ {i} \in SUBSET (1 .. Len(w))
      BY <2>1, <3>1
    <3> QED
      BY <3>2 DEF Trees
  <2>4. TreeAt(w, t, i, i + 1)
    BY <2>1, <2>2, NodeFields DEF TreeAt
  <2>5. ParseComparison(w, i) = Parsed(i, i + 1, t)
    BY <1>2 DEF ParseComparison
  <2>6. i \in DOMAIN t
    OBVIOUS
  <2>7. Parsed(i, i + 1, t) \in Results(w)
    <3>1. i + 1 \in 1 .. Len(w) + 1
      BY <2>1
    <3> HIDE DEF t
    <3> QED
      BY <2>1, <2>3, <3>1, ParsedIn
  <2> HIDE DEF t
  <2> QED
    BY <2>1, <2>4, <2>5, <2>6, <2>7, ParsedFields DEF Outcomes
<1> QED
  BY <1>1, <1>2

\* The tree of a connective.
LEMMA JoinOutcome ==
    ASSUME NEW w \in Seq(Token), NEW i \in 1 .. Len(w) + 1, NEW o \in {"AND", "OR"},
           NEW l \in Outcomes(w, i), l.ok, l.at <= Len(w),
           NEW r \in Outcomes(w, l.at + 1), r.ok
    PROVE  /\ Join(o, l, r) \in Outcomes(w, i)
           /\ Join(o, l, r).ok /\ Join(o, l, r).at = r.at /\ Join(o, l, r).node = l.at
           /\ Join(o, l, r).tree[l.at] = Logical(o, l.node, r.node)
           /\ \A n \in DOMAIN l.tree :
                n \in DOMAIN Join(o, l, r).tree /\ Join(o, l, r).tree[n] = l.tree[n]
           /\ \A n \in DOMAIN r.tree :
                n \in DOMAIN Join(o, l, r).tree /\ Join(o, l, r).tree[n] = r.tree[n]
<1> DEFINE D == DOMAIN l.tree \cup DOMAIN r.tree \cup {l.at}
           t == [n \in D |-> IF n = l.at THEN Logical(o, l.node, r.node)
                             ELSE IF n \in DOMAIN l.tree THEN l.tree[n] ELSE r.tree[n]]
<1>0. l \in Results(w) /\ r \in Results(w)
  BY DEF Outcomes
<1>1. /\ l.node \in 1 .. Len(w) /\ l.at \in 1 .. Len(w) + 1 /\ l.tree \in Trees(w)
      /\ r.node \in 1 .. Len(w) /\ r.at \in 1 .. Len(w) + 1 /\ r.tree \in Trees(w)
  BY <1>0, ResultFields
<1>2. /\ l.at > i /\ l.node \in DOMAIN l.tree /\ TreeAt(w, l.tree, i, l.at)
      /\ r.at > l.at + 1 /\ r.node \in DOMAIN r.tree /\ TreeAt(w, r.tree, l.at + 1, r.at)
  BY DEF Outcomes
<1>3. Join(o, l, r) = Parsed(l.at, r.at, t)
  BY DEF Join
<1>4. Len(w) \in Nat /\ i \in Nat /\ l.at \in 1 .. Len(w) /\ r.at \in 1 .. Len(w) + 1
  BY <1>1
<1>5. DOMAIN l.tree \subseteq i .. l.at - 1 /\ DOMAIN r.tree \subseteq l.at + 1 .. r.at - 1
  BY <1>2 DEF TreeAt
<1>6. /\ \A n \in DOMAIN l.tree : n # l.at
      /\ \A n \in DOMAIN r.tree : n # l.at /\ n \notin DOMAIN l.tree
  BY <1>4, <1>5
<1>7. /\ DOMAIN t = D /\ t[l.at] = Logical(o, l.node, r.node)
      /\ \A n \in DOMAIN l.tree : t[n] = l.tree[n]
      /\ \A n \in DOMAIN r.tree : t[n] = r.tree[n]
  BY <1>6
<1>8. Tree(t)
  <2>1. PICK bl \in Nat : \E rank \in [DOMAIN l.tree -> 0 .. bl] :
                \A n \in DOMAIN l.tree : Above(l.tree, rank, n)
    BY <1>2 DEF TreeAt, Tree
  <2>2. PICK rl \in [DOMAIN l.tree -> 0 .. bl] :
                \A n \in DOMAIN l.tree : Above(l.tree, rl, n)
    BY <2>1
  <2>3. PICK br \in Nat : \E rank \in [DOMAIN r.tree -> 0 .. br] :
                \A n \in DOMAIN r.tree : Above(r.tree, rank, n)
    BY <1>2 DEF TreeAt, Tree
  <2>4. PICK rr \in [DOMAIN r.tree -> 0 .. br] :
                \A n \in DOMAIN r.tree : Above(r.tree, rr, n)
    BY <2>3
  <2> DEFINE b == bl + br + 1
             rank == [n \in D |-> IF n = l.at THEN b
                                  ELSE IF n \in DOMAIN l.tree THEN rl[n] ELSE rr[n]]
  <2>5. b \in Nat /\ rank \in [D -> 0 .. b]
    OBVIOUS
  <2>6. /\ rank[l.at] = b
        /\ \A n \in DOMAIN l.tree : rank[n] = rl[n] /\ rl[n] < b
        /\ \A n \in DOMAIN r.tree : rank[n] = rr[n] /\ rr[n] < b
    BY <1>6
  <2>7. ASSUME NEW n \in D PROVE Above(t, rank, n)
    <3> HIDE DEF rank, b, t
    <3>1. CASE n = l.at
      BY <1>2, <1>7, <2>6, <3>1 DEF Above
    <3>2. CASE n \in DOMAIN l.tree
      <4>1. Above(l.tree, rl, n) /\ DOMAIN l.tree \subseteq DOMAIN t
        BY <1>7, <2>2, <3>2
      <4> QED
        BY <1>7, <2>6, <3>2, <4>1 DEF Above
    <3>3. CASE n \in DOMAIN r.tree
      <4>1. Above(r.tree, rr, n) /\ DOMAIN r.tree \subseteq DOMAIN t
        BY <1>7, <2>4, <3>3
      <4> QED
        BY <1>7, <2>6, <3>3, <4>1 DEF Above
    <3> QED
      BY <3>1, <3>2, <3>3
  <2> HIDE DEF rank, b, t
  <2>8. DOMAIN t = D
    BY <1>7
  <2> QED
    BY <2>5, <2>7, <2>8 DEF Tree
<1>9. t \in Trees(w)
  <2>1. Logical(o, l.node, r.node) \in Nodes(w)
    BY <1>1 DEF Nodes
  <2>2. /\ DOMAIN l.tree \subseteq 1 .. Len(w) /\ \A n \in DOMAIN l.tree : l.tree[n] \in Nodes(w)
        /\ DOMAIN r.tree \subseteq 1 .. Len(w) /\ \A n \in DOMAIN r.tree : r.tree[n] \in Nodes(w)
    BY <1>1 DEF Trees
  <2>3. D \in SUBSET (1 .. Len(w))
    BY <1>4, <2>2
  <2>4. t \in [D -> Nodes(w)]
    BY <2>1, <2>2
  <2> QED
    BY <2>3, <2>4 DEF Trees
<1>10. TreeAt(w, t, i, r.at)
  <2>1. D \subseteq i .. r.at - 1
    BY <1>2, <1>4, <1>5
  <2>2. t[l.at].op # "cmp"
    BY <1>7, NodeFields
  <2>3. \A n \in D : t[n].op = "cmp" => t[n].field = w[n]
    BY <1>2, <1>7, <2>2 DEF TreeAt
  <2> QED
    BY <1>7, <1>8, <2>1, <2>3 DEF TreeAt
<1>11. Parsed(l.at, r.at, t) \in Results(w)
  <2> HIDE DEF t
  <2> QED
    BY <1>4, <1>9, ParsedIn
<1>12. l.at \in DOMAIN t /\ r.at > i
  BY <1>2, <1>4, <1>7
<1> HIDE DEF t
<1>13. Parsed(l.at, r.at, t) \in Outcomes(w, i)
  BY <1>10, <1>11, <1>12, ParsedFields DEF Outcomes
<1> QED
  BY <1>3, <1>7, <1>13, ParsedFields

LEMMA RoundOutcome ==
    ASSUME NEW w \in Seq(Token), NEW i \in 1 .. Len(w) + 1, NEW o \in {"AND", "OR"},
           NEW sep \in Punctuation, NEW l \in Outcomes(w, i), NEW right,
           l.ok /\ Peek(w, l.at) = sep => right \in Outcomes(w, l.at + 1)
    PROVE  Round(w, o, l, sep, right) \in Outcomes(w, i)
<1>1. CASE ~l.ok \/ Peek(w, l.at) # sep
  BY <1>1 DEF Round
<1>2. CASE l.ok /\ Peek(w, l.at) = sep /\ ~right.ok
  <2>1. Failure \in Outcomes(w, i)
    BY ParsedFields DEF Outcomes, Results
  <2> QED
    BY <1>2, <2>1 DEF Round
<1>3. CASE l.ok /\ Peek(w, l.at) = sep /\ right.ok
  <2>1. l.at \in 1 .. Len(w) + 1
    BY <1>3, ResultFields DEF Outcomes
  <2>2. l.at <= Len(w)
    BY <1>3, <2>1, TokenAt
  <2>3. Join(o, l, right) \in Outcomes(w, i)
    BY <1>3, <2>2, JoinOutcome
  <2> QED
    BY <1>3, <2>3 DEF Round
<1> QED
  BY <1>1, <1>2, <1>3

\* Tables of what parseOr and parseAnd return.
Parses(w) ==
    {f \in [LoopStates(w) -> Results(w)] : \A c \in LoopStates(w) : f[c] \in Outcomes(w, c[2])}

\* A call of the parser, in terms of other calls.
ParserStep(w, f, c) ==
    IF c[1] = "or"
    THEN IF c[3] = 0 THEN ParseAnd(w, f, c[2]) ELSE OrLoop(w, f, f[<<c[1], c[2], c[3] - 1>>])
    ELSE IF c[3] = 0 THEN ParsePrimary(w, f, c[2]) ELSE AndLoop(w, f, f[<<c[1], c[2], c[3] - 1>>])

LEMMA CallsOutcome ==
    ASSUME NEW w \in Seq(Token), NEW f \in Parses(w), NEW i \in 1 .. Len(w) + 1
    PROVE  /\ ParseOr(w, f, i) \in Outcomes(w, i)
           /\ ParseAnd(w, f, i) \in Outcomes(w, i)
<1>1. Len(w) \in 0 .. Len(w)
  OBVIOUS
<1>2. <<"or", i, Len(w)>> \in LoopStates(w) /\ <<"and", i, Len(w)>> \in LoopStates(w)
  BY <1>1 DEF LoopStates
<1>3. <<"or", i, Len(w)>>[2] = i /\ <<"and", i, Len(w)>>[2] = i
  OBVIOUS
<1> QED
  BY <1>2, <1>3 DEF Parses, ParseOr, ParseAnd

LEMMA PrimaryOutcome ==
    ASSUME NEW w \in Seq(Token), NEW f \in Parses(w), NEW i \in 1 .. Len(w) + 1
    PROVE  ParsePrimary(w, f, i) \in Outcomes(w, i)
<1> DEFINE r == ParseOr(w, f, i + 1)
<1>1. CASE Peek(w, i) # "LPAREN"
  BY <1>1, ComparisonOutcome DEF ParsePrimary
<1>2. CASE Peek(w, i) = "LPAREN" /\ ~(r.ok /\ Peek(w, r.at) = "RPAREN")
  <2>1. ParsePrimary(w, f, i) = Failure
    BY <1>2 DEF ParsePrimary
  <2> QED
    BY <2>1, ParsedFields DEF Outcomes, Results
<1>3. CASE Peek(w, i) = "LPAREN" /\ r.ok /\ Peek(w, r.at) = "RPAREN"
  <2>1. i \in 1 .. Len(w) /\ Len(w) \in Nat
    BY <1>3, TokenAt DEF Punctuation
  <2>2. i + 1 \in 1 .. Len(w) + 1
    BY <2>1
  <2>3. r \in Outcomes(w, i + 1)
    BY <2>2, CallsOutcome
  <2>4. ParsePrimary(w, f, i) = Parsed(r.node, r.at + 1, r.tree)
    BY <1>3 DEF ParsePrimary
  <2> HIDE DEF r
  <2>5. /\ r.node \in 1 .. Len(w) /\ r.at \in 1 .. Len(w) + 1 /\ r.tree \in Trees(w)
        /\ r.at > i + 1 /\ r.node \in DOMAIN r.tree /\ TreeAt(w, r.tree, i + 1, r.at)
    BY <1>3, <2>3, ResultFields DEF Outcomes
  <2>6. r.at \in 1 .. Len(w)
    BY <1>3, <2>5, TokenAt DEF Punctuation
  <2>7. TreeAt(w, r.tree, i, r.at + 1)
    <3>1. i + 1 .. r.at - 1 \subseteq i .. (r.at + 1) - 1
      BY <2>1, <2>6
    <3> QED
      BY <2>5, <3>1 DEF TreeAt
  <2>8. Parsed(r.node, r.at + 1, r.tree) \in Results(w)
    <3>1. r.at + 1 \in 1 .. Len(w) + 1
      BY <2>1, <2>6
    <3> QED
      BY <2>5, <3>1, ParsedIn
  <2>9. r.at + 1 > i
    BY <2>1, <2>5
  <2> QED
    BY <2>4, <2>5, <2>7, <2>8, <2>9, ParsedFields DEF Outcomes
<1> QED
  BY <1>1, <1>2, <1>3

\* The position after a separator.
LEMMA AfterSeparator ==
    ASSUME NEW w \in Seq(Token), NEW i \in 1 .. Len(w) + 1, NEW l \in Outcomes(w, i),
           l.ok, Peek(w, l.at) \in Punctuation
    PROVE  l.at \in 1 .. Len(w) /\ l.at > i /\ l.at + 1 \in 1 .. Len(w) + 1
<1>1. l.at \in 1 .. Len(w) + 1 /\ l.at > i
  BY ResultFields DEF Outcomes
<1>2. l.at \in 1 .. Len(w) /\ Len(w) \in Nat
  BY <1>1, TokenAt
<1> QED
  BY <1>1, <1>2

LEMMA StateBefore ==
    ASSUME NEW w \in Seq(Token), NEW c \in LoopStates(w), c[3] # 0
    PROVE  /\ <<c[1], c[2], c[3] - 1>> \in LoopStates(w)
           /\ <<c[1], c[2], c[3] - 1>>[2] = c[2]
           /\ c[1] \in {"or", "and"} /\ c[2] \in 1 .. Len(w) + 1 /\ c[3] \in 0 .. Len(w)
<1>1. c[3] - 1 \in 0 .. Len(w)
  BY DEF LoopStates
<1> QED
  BY <1>1 DEF LoopStates

LEMMA StepOutcome ==
    ASSUME NEW w \in Seq(Token), NEW f \in Parses(w), NEW c \in LoopStates(w)
    PROVE  ParserStep(w, f, c) \in Outcomes(w, c[2])
<1> DEFINE before == f[<<c[1], c[2], c[3] - 1>>]
<1>0. c[2] \in 1 .. Len(w) + 1 /\ c[1] \in {"or", "and"}
  BY DEF LoopStates
<1>1. CASE c[3] = 0
  BY <1>0, <1>1, CallsOutcome, PrimaryOutcome DEF ParserStep
<1>2. CASE c[3] # 0 /\ c[1] = "or"
  <2>1. before \in Outcomes(w, c[2])
    BY <1>2, StateBefore DEF Parses
  <2> HIDE DEF before
  <2>2. ASSUME before.ok, Peek(w, before.at) = "COMMA"
        PROVE  ParseAnd(w, f, before.at + 1) \in Outcomes(w, before.at + 1)
    BY <1>0, <2>1, <2>2, AfterSeparator, CallsOutcome DEF Punctuation
  <2>3. OrLoop(w, f, before) \in Outcomes(w, c[2])
    BY <1>0, <2>1, <2>2, RoundOutcome, "COMMA" \in Punctuation DEF OrLoop, Punctuation
  <2> QED
    BY <1>2, <2>3 DEF ParserStep, before
<1>3. CASE c[3] # 0 /\ c[1] # "or"
  <2>1. before \in Outcomes(w, c[2])
    BY <1>3, StateBefore DEF Parses
  <2> HIDE DEF before
  <2>2. ASSUME before.ok, Peek(w, before.at) = "SEMI"
        PROVE  ParsePrimary(w, f, before.at + 1) \in Outcomes(w, before.at + 1)
    BY <1>0, <2>1, <2>2, AfterSeparator, PrimaryOutcome DEF Punctuation
  <2>3. AndLoop(w, f, before) \in Outcomes(w, c[2])
    BY <1>0, <2>1, <2>2, RoundOutcome, "SEMI" \in Punctuation DEF AndLoop, Punctuation
  <2> QED
    BY <1>3, <2>3 DEF ParserStep, before
<1> QED
  BY <1>1, <1>2, <1>3

\* The calls a call depends on are at a later position, or they are parseAnd
\* for a parseOr, or the same call a round earlier.
Weight(w) ==
    [c \in LoopStates(w) |->
        (Len(w) + 1 - c[2]) * (2 * Len(w) + 2) + (IF c[1] = "or" THEN Len(w) + 1 ELSE 0) + c[3]]

LEMMA Lexicographic ==
    ASSUME NEW b \in Nat, NEW p \in Nat, NEW q \in Nat, p < q,
           NEW x \in Nat, NEW y \in Nat, x < b
    PROVE  p * b + x < q * b + y
<1> DEFINE d == q - p - 1
<1>1. d \in Nat /\ q = p + 1 + d
  OBVIOUS
<1> HIDE DEF d
<1>2. d * b \in Nat /\ p * b \in Nat
  BY <1>1
<1>3. q * b = p * b + b + d * b
  BY <1>1
<1> QED
  BY <1>2, <1>3

LEMMA Weights ==
    ASSUME NEW w \in Seq(Token)
    PROVE  /\ Weight(w) \in [LoopStates(w) -> 0 .. (Len(w) + 2) * (2 * Len(w) + 2)]
           /\ \A c \in LoopStates(w) :
                c[3] # 0 => Weight(w)[<<c[1], c[2], c[3] - 1>>] < Weight(w)[c]
           /\ \A i \in 1 .. Len(w) + 1 :
                Weight(w)[<<"and", i, Len(w)>>] < Weight(w)[<<"or", i, 0>>]
           /\ \A c, d \in LoopStates(w) : c[2] < d[2] => Weight(w)[d] < Weight(w)[c]
<1> DEFINE b == 2 * Len(w) + 2
           low(c) == (IF c[1] = "or" THEN Len(w) + 1 ELSE 0) + c[3]
           high(c) == Len(w) + 1 - c[2]
<1>0. Len(w) \in Nat /\ b \in Nat
  OBVIOUS
<1>1. \A c \in LoopStates(w) :
          /\ c[1] \in {"or", "and"} /\ c[2] \in 1 .. Len(w) + 1 /\ c[3] \in 0 .. Len(w)
          /\ high(c) \in 0 .. Len(w) /\ low(c) \in Nat /\ low(c) < b
  BY <1>0 DEF LoopStates
<1>2. \A c \in LoopStates(w) : Weight(w)[c] = high(c) * b + low(c)
  BY <1>0, <1>1 DEF Weight
<1>3. ASSUME NEW c \in LoopStates(w)
      PROVE  high(c) * b + low(c) \in 0 .. (Len(w) + 2) * (2 * Len(w) + 2)
  <2> HIDE DEF high, low, b
  <2>1. high(c) \in Nat /\ high(c) < Len(w) + 2 /\ low(c) \in Nat /\ low(c) < b
    BY <1>0, <1>1
  <2>2. high(c) * b + low(c) < (Len(w) + 2) * b + 0
    BY <1>0, <2>1, Lexicographic
  <2>3. high(c) * b \in Nat /\ (Len(w) + 2) * b \in Nat
    BY <1>0, <2>1
  <2>4. high(c) * b + low(c) \in 0 .. (Len(w) + 2) * b
    BY <2>1, <2>2, <2>3
  <2> QED
    BY <2>4 DEF b
<1>4. DOMAIN Weight(w) = LoopStates(w) /\ Weight(w) = [c \in LoopStates(w) |-> Weight(w)[c]]
  BY DEF Weight
<1>5. ASSUME NEW c \in LoopStates(w), c[3] # 0
      PROVE  Weight(w)[<<c[1], c[2], c[3] - 1>>] < Weight(w)[c]
  <2> DEFINE d == <<c[1], c[2], c[3] - 1>>
  <2>1. d \in LoopStates(w)
    BY <1>5, StateBefore
  <2>2. high(d) = high(c) /\ low(d) = low(c) - 1
    BY <1>0, <1>1, <1>5
  <2>3. Weight(w)[d] = high(d) * b + low(d) /\ Weight(w)[c] = high(c) * b + low(c)
    BY <1>2, <2>1
  <2>4. high(c) * b \in Nat /\ low(c) \in Nat
    BY <1>0, <1>1
  <2> HIDE DEF high, low, d, b
  <2>5. Weight(w)[d] < Weight(w)[c]
    BY <2>2, <2>3, <2>4
  <2> QED
    BY <2>5 DEF d
<1>6. ASSUME NEW i \in 1 .. Len(w) + 1
      PROVE  Weight(w)[<<"and", i, Len(w)>>] < Weight(w)[<<"or", i, 0>>]
  <2> DEFINE c == <<"or", i, 0>>
             d == <<"and", i, Len(w)>>
  <2>1. c \in LoopStates(w) /\ d \in LoopStates(w)
    BY <1>0 DEF LoopStates
  <2>2. high(d) = high(c) /\ low(d) = Len(w) /\ low(c) = Len(w) + 1
    BY <1>0
  <2>3. Weight(w)[d] = high(d) * b + low(d) /\ Weight(w)[c] = high(c) * b + low(c)
    BY <1>2, <2>1
  <2>4. high(c) * b \in Nat
    BY <1>0, <1>1, <2>1
  <2> HIDE DEF high, low, c, d, b
  <2>5. Weight(w)[d] < Weight(w)[c]
    BY <1>0, <2>2, <2>3, <2>4
  <2> QED
    BY <2>5 DEF c, d
<1>7. ASSUME NEW c \in LoopStates(w), NEW d \in LoopStates(w), c[2] < d[2]
      PROVE  Weight(w)[d] < Weight(w)[c]
  <2>1. high(d) < high(c)
    BY <1>0, <1>1, <1>7
  <2>2. high(c) \in Nat /\ high(d) \in Nat /\ low(c) \in Nat /\ low(d) \in Nat /\ low(d) < b
    BY <1>1
  <2> HIDE DEF high, low, b
  <2> QED
    BY <1>0, <1>2, <2>1, <2>2, Lexicographic
<1>8. Weight(w) \in [LoopStates(w) -> 0 .. (Len(w) + 2) * (2 * Len(w) + 2)]
  <2> HIDE DEF high, low, b
  <2> QED
    BY <1>2, <1>3, <1>4
<1> QED
  BY <1>5, <1>6, <1>7, <1>8

LEMMA StepDepends ==
    ASSUME NEW w \in Seq(Token), NEW f \in Parses(w), NEW g, NEW c \in LoopStates(w),
           \A d \in LoopStates(w) : Weight(w)[d] < Weight(w)[c] => g[d] = f[d]
    PROVE  ParserStep(w, g, c) = ParserStep(w, f, c)
<1> DEFINE i == c[2]
           prior == <<c[1], c[2], c[3] - 1>>
<1>0. Len(w) \in Nat /\ i \in 1 .. Len(w) + 1 /\ c[1] \in {"or", "and"} /\ c[3] \in 0 .. Len(w)
  BY DEF LoopStates
<1>1. ASSUME NEW j \in 1 .. Len(w) + 1, j > i
      PROVE  ParseOr(w, g, j) = ParseOr(w, f, j) /\ ParseAnd(w, g, j) = ParseAnd(w, f, j)
  <2> DEFINE d == <<"or", j, Len(w)>>
             e == <<"and", j, Len(w)>>
  <2>1. d \in LoopStates(w) /\ d[2] = j /\ e \in LoopStates(w) /\ e[2] = j
    BY <1>0 DEF LoopStates
  <2> HIDE DEF d, e
  <2>2. Weight(w)[d] < Weight(w)[c] /\ Weight(w)[e] < Weight(w)[c]
    BY <1>0, <1>1, <2>1, Weights
  <2>3. g[d] = f[d] /\ g[e] = f[e]
    BY <2>1, <2>2
  <2> QED
    BY <2>3 DEF ParseOr, ParseAnd, d, e
<1>2. ASSUME NEW j \in 1 .. Len(w) + 1, j >= i
      PROVE  ParsePrimary(w, g, j) = ParsePrimary(w, f, j)
  <2>1. CASE Peek(w, j) # "LPAREN"
    BY <2>1 DEF ParsePrimary
  <2>2. CASE Peek(w, j) = "LPAREN"
    <3>1. j \in 1 .. Len(w)
      BY <2>2, TokenAt DEF Punctuation
    <3>2. j + 1 \in 1 .. Len(w) + 1 /\ j + 1 > i
      BY <1>0, <1>2, <3>1
    <3>3. ParseOr(w, g, j + 1) = ParseOr(w, f, j + 1)
      BY <1>1, <3>2
    <3> QED
      BY <3>3 DEF ParsePrimary
  <2> QED
    BY <2>1, <2>2
<1>3. ASSUME c[3] # 0
      PROVE  /\ g[prior] = f[prior] /\ f[prior] \in Outcomes(w, i)
  <2>1. prior \in LoopStates(w) /\ prior[2] = i
    BY <1>3, StateBefore
  <2>2. Weight(w)[prior] < Weight(w)[c]
    BY <1>3, Weights
  <2> HIDE DEF prior
  <2> QED
    BY <2>1, <2>2 DEF Parses
<1>4. CASE c[3] = 0 /\ c[1] = "or"
  <2>1. <<"and", i, Len(w)>> \in LoopStates(w)
    BY <1>0 DEF LoopStates
  <2>2. c = <<"or", i, 0>>
    BY <1>0, <1>4 DEF LoopStates
  <2>3. Weight(w)[<<"and", i, Len(w)>>] < Weight(w)[c]
    BY <1>0, <2>2, Weights
  <2>4. ParseAnd(w, g, i) = ParseAnd(w, f, i)
    BY <2>1, <2>3 DEF ParseAnd
  <2> QED
    BY <1>4, <2>4 DEF ParserStep
<1>5. CASE c[3] = 0 /\ c[1] # "or"
  <2>1. ParsePrimary(w, g, i) = ParsePrimary(w, f, i)
    BY <1>0, <1>2
  <2> QED
    BY <1>5, <2>1 DEF ParserStep
<1>6. CASE c[3] # 0
  <2> DEFINE l == f[prior]
  <2>0. g[prior] = l /\ l \in Outcomes(w, i)
    BY <1>3, <1>6
  <2> HIDE DEF l
  <2>1. CASE ~l.ok \/ Peek(w, l.at) \notin {"COMMA", "SEMI"}
    <3>1. OrLoop(w, g, l) = l /\ OrLoop(w, f, l) = l /\ AndLoop(w, g, l) = l /\ AndLoop(w, f, l) = l
      BY <2>1 DEF OrLoop, AndLoop, Round
    <3> QED
      BY <1>6, <2>0, <3>1 DEF ParserStep, l
  <2>2. CASE l.ok /\ Peek(w, l.at) \in {"COMMA", "SEMI"}
    <3>1. l.at + 1 \in 1 .. Len(w) + 1 /\ l.at > i /\ l.at \in 1 .. Len(w)
      BY <1>0, <2>0, <2>2, AfterSeparator DEF Punctuation
    <3>2. l.at + 1 > i /\ l.at + 1 >= i
      BY <1>0, <3>1
    <3>3. /\ ParseAnd(w, g, l.at + 1) = ParseAnd(w, f, l.at + 1)
          /\ ParsePrimary(w, g, l.at + 1) = ParsePrimary(w, f, l.at + 1)
      BY <1>1, <1>2, <3>1, <3>2
    <3>4. OrLoop(w, g, l) = OrLoop(w, f, l) /\ AndLoop(w, g, l) = AndLoop(w, f, l)
      BY <3>3 DEF OrLoop, AndLoop
    <3> QED
      BY <1>6, <2>0, <3>4 DEF ParserStep, l
  <2> QED
    BY <2>1, <2>2
<1> QED
  BY <1>4, <1>5, <1>6

\* The parser is the solution of its equations, and its results are trees.
LEMMA ParserIs ==
    ASSUME NEW w \in Seq(Token)
    PROVE  /\ Parser(w) \in Parses(w)
           /\ \A c \in LoopStates(w) : Parser(w)[c] = ParserStep(w, Parser(w), c)
<1> DEFINE S == LoopStates(w)
           F == Parses(w)
           step(f) == [c \in S |-> ParserStep(w, f, c)]
           next == [f \in F |-> step(f)]
           b == (Len(w) + 2) * (2 * Len(w) + 2)
           Is(f) == f = [c \in LoopStates(w) |-> ParserStep(w, f, c)]
           p == CHOOSE f : Is(f)
<1>1. \A f \in F : step(f) \in F
  <2> SUFFICES ASSUME NEW f \in F PROVE step(f) \in F
    OBVIOUS
  <2>1. \A c \in S : step(f)[c] \in Outcomes(w, c[2])
    BY StepOutcome
  <2>2. \A c \in S : Outcomes(w, c[2]) \subseteq Results(w)
    BY DEF Outcomes
  <2>3. step(f) \in [S -> Results(w)]
    BY <2>1, <2>2
  <2> QED
    BY <2>1, <2>3 DEF Parses
<1>2. next \in [F -> F] /\ \A f \in F : next[f] = step(f)
  BY <1>1
<1>3. F # {}
  <2>1. Failure \in Results(w) /\ \A i : Failure \in Outcomes(w, i)
    BY ParsedFields DEF Results, Outcomes
  <2>2. [c \in S |-> Failure] \in F
    BY <2>1 DEF Parses
  <2> QED
    BY <2>2
<1>4. \A f, g \in F : \A c \in S :
          (\A d \in S : Weight(w)[d] < Weight(w)[c] => f[d] = g[d]) => next[f][c] = next[g][c]
  <2> SUFFICES ASSUME NEW f \in F, NEW g \in F, NEW c \in S,
                      \A d \in S : Weight(w)[d] < Weight(w)[c] => f[d] = g[d]
               PROVE  next[f][c] = next[g][c]
    OBVIOUS
  <2>1. ParserStep(w, g, c) = ParserStep(w, f, c)
    BY StepDepends
  <2> QED
    BY <1>2, <2>1
<1>5. \E f \in F : next[f] = f
  <2>1. \A f \in F : f = [c \in S |-> f[c]]
    BY DEF Parses
  <2>2. b \in Nat
    <3>1. Len(w) \in Nat
      OBVIOUS
    <3> QED
      BY <3>1
  <2>3. Weight(w) \in [S -> 0 .. b]
    BY Weights
  <2>4. next \in [F -> F]
    BY <1>2
  <2> HIDE DEF next, F, S, step, b
  <2>5. Descends(S, F, next, b, Weight(w))
    BY <1>3, <1>4, <2>1, <2>2, <2>3, <2>4 DEF Descends
  <2> QED
    BY <2>5, Recursion
<1>6. PICK h \in F : h = step(h)
  BY <1>2, <1>5
<1>7. Is(p)
  <2>1. Is(h)
    BY <1>6
  <2> QED
    BY <2>1, Zenon
<1>8. Parser(w) = p
  BY Zenon DEF Parser, ParserStep
<1> HIDE DEF p
<1>9. p = h
  <2> DEFINE Good == {c \in S : p[c] = h[c]}
  <2>1. ASSUME NEW c \in S, \A d \in S : Weight(w)[d] < Weight(w)[c] => d \in Good
        PROVE  c \in Good
    <3>1. \A d \in S : Weight(w)[d] < Weight(w)[c] => p[d] = h[d]
      BY <2>1
    <3>2. ParserStep(w, p, c) = ParserStep(w, h, c)
      BY <3>1, StepDepends
    <3>3. p[c] = ParserStep(w, p, c) /\ h[c] = ParserStep(w, h, c)
      BY <1>6, <1>7
    <3> QED
      BY <3>2, <3>3
  <2>2. Weight(w) \in [S -> Nat]
    BY Weights
  <2>3. \A c \in S : c \in Good
    <3> HIDE DEF Good, S
    <3> QED
      BY <2>1, <2>2, Induction
  <2>4. \A c \in S : p[c] = h[c]
    BY <2>3
  <2> QED
    BY <1>6, <1>7, <2>4
<1> QED
  BY <1>6, <1>8, <1>9

-----------------------------------------------------------------------------
(* The reference                                                           *)

\* The part of w from i up to before j is an X, and says that row matches.
D(w, X, i, j) == Derives(w)[<<X, i, j>>]
M(w, row, X, i, j) == Means(w, row)[<<X, i, j>>]

DerivesStep(w, f, s) ==
    \/ s[1] = "E" /\ (\/ f[<<"T", s[2], s[3]>>]
                      \/ \E k \in s[2] .. s[3] - 1 :
                            w[k] = "COMMA" /\ f[<<"E", s[2], k>>] /\ f[<<"T", k + 1, s[3]>>])
    \/ s[1] = "T" /\ (\/ f[<<"F", s[2], s[3]>>]
                      \/ \E k \in s[2] .. s[3] - 1 :
                            w[k] = "SEMI" /\ f[<<"T", s[2], k>>] /\ f[<<"F", k + 1, s[3]>>])
    \/ s[1] = "F" /\ s[3] = s[2] + 1 /\ w[s[2]] \in Field
    \/ /\ s[1] = "F" /\ s[2] + 1 < s[3] /\ w[s[2]] = "LPAREN" /\ w[s[3] - 1] = "RPAREN"
       /\ f[<<"E", s[2] + 1, s[3] - 1>>]

MeansStep(w, row, f, s) ==
    \/ s[1] = "E" /\ Derives(w)[<<"T", s[2], s[3]>>] /\ f[<<"T", s[2], s[3]>>]
    \/ /\ s[1] = "E"
       /\ \E k \in {k \in s[2] .. s[3] - 1 :
                        w[k] = "COMMA" /\ Derives(w)[<<"E", s[2], k>>] /\ Derives(w)[<<"T", k + 1, s[3]>>]} :
            f[<<"E", s[2], k>>] \/ f[<<"T", k + 1, s[3]>>]
    \/ s[1] = "T" /\ Derives(w)[<<"F", s[2], s[3]>>] /\ f[<<"F", s[2], s[3]>>]
    \/ /\ s[1] = "T"
       /\ \E k \in {k \in s[2] .. s[3] - 1 :
                        w[k] = "SEMI" /\ Derives(w)[<<"T", s[2], k>>] /\ Derives(w)[<<"F", k + 1, s[3]>>]} :
            f[<<"T", s[2], k>>] /\ f[<<"F", k + 1, s[3]>>]
    \/ s[1] = "F" /\ s[3] = s[2] + 1 /\ w[s[2]] \in Field /\ row[w[s[2]]]
    \/ s[1] = "F" /\ s[2] + 1 < s[3] /\ f[<<"E", s[2] + 1, s[3] - 1>>]

\* A span depends on shorter ones, and an E on a T and a T on an F.
SpanWeight(w) ==
    [s \in Spans(w) |-> 3 * (s[3] + Len(w) + 1 - s[2])
                        + IF s[1] = "E" THEN 2 ELSE IF s[1] = "T" THEN 1 ELSE 0]

Shorter(w, s, d) == d \in Spans(w) /\ SpanWeight(w)[d] < SpanWeight(w)[s]

LEMMA SpanWeights ==
    ASSUME NEW w \in Seq(Token)
    PROVE  /\ SpanWeight(w) \in [Spans(w) -> 0 .. 6 * Len(w) + 8]
           /\ \A s \in Spans(w) :
                /\ s[1] = "E" => Shorter(w, s, <<"T", s[2], s[3]>>)
                /\ s[1] = "T" => Shorter(w, s, <<"F", s[2], s[3]>>)
                /\ \A k \in s[2] .. s[3] - 1 : \A X \in {"E", "T", "F"} :
                        Shorter(w, s, <<X, s[2], k>>) /\ Shorter(w, s, <<X, k + 1, s[3]>>)
                /\ s[2] + 1 < s[3] => Shorter(w, s, <<"E", s[2] + 1, s[3] - 1>>)
<1>0. Len(w) \in Nat
  OBVIOUS
<1>1. \A s \in Spans(w) :
          s[1] \in {"E", "T", "F"} /\ s[2] \in 1 .. Len(w) + 1 /\ s[3] \in 1 .. Len(w) + 1
  BY DEF Spans
<1>2. \A X \in {"E", "T", "F"} : \A i, j \in 1 .. Len(w) + 1 :
          /\ <<X, i, j>> \in Spans(w)
          /\ SpanWeight(w)[<<X, i, j>>] = 3 * (j + Len(w) + 1 - i)
                                          + IF X = "E" THEN 2 ELSE IF X = "T" THEN 1 ELSE 0
  BY DEF Spans, SpanWeight
<1>3. \A s \in Spans(w) : s = <<s[1], s[2], s[3]>>
  BY DEF Spans
<1>4. SpanWeight(w) \in [Spans(w) -> 0 .. 6 * Len(w) + 8]
  BY <1>0, <1>1 DEF SpanWeight
<1>5. ASSUME NEW X \in {"E", "T", "F"}, NEW i \in 1 .. Len(w) + 1, NEW j \in 1 .. Len(w) + 1
      PROVE  /\ X = "E" => Shorter(w, <<X, i, j>>, <<"T", i, j>>)
             /\ X = "T" => Shorter(w, <<X, i, j>>, <<"F", i, j>>)
             /\ \A k \in i .. j - 1 : \A Y \in {"E", "T", "F"} :
                    Shorter(w, <<X, i, j>>, <<Y, i, k>>) /\ Shorter(w, <<X, i, j>>, <<Y, k + 1, j>>)
             /\ i + 1 < j => Shorter(w, <<X, i, j>>, <<"E", i + 1, j - 1>>)
  <2>1. X = "E" => Shorter(w, <<X, i, j>>, <<"T", i, j>>)
    BY <1>0, <1>2 DEF Shorter
  <2>2. X = "T" => Shorter(w, <<X, i, j>>, <<"F", i, j>>)
    BY <1>0, <1>2 DEF Shorter
  <2>3. ASSUME NEW k \in i .. j - 1, NEW Y \in {"E", "T", "F"}
        PROVE  Shorter(w, <<X, i, j>>, <<Y, i, k>>) /\ Shorter(w, <<X, i, j>>, <<Y, k + 1, j>>)
    <3>1. k \in 1 .. Len(w) + 1 /\ k + 1 \in 1 .. Len(w) + 1
      BY <1>0
    <3>2. /\ SpanWeight(w)[<<X, i, j>>] \in Int
          /\ SpanWeight(w)[<<X, i, j>>] >= 3 * (j + Len(w) + 1 - i)
      BY <1>0, <1>2
    <3>a. ASSUME NEW a \in 1 .. Len(w) + 1, NEW b \in 1 .. Len(w) + 1
          PROVE  /\ SpanWeight(w)[<<Y, a, b>>] \in Int
                 /\ SpanWeight(w)[<<Y, a, b>>] <= 3 * (b + Len(w) + 1 - a) + 2
      BY <1>0, <1>2
    <3>3. /\ SpanWeight(w)[<<Y, i, k>>] \in Int
          /\ SpanWeight(w)[<<Y, i, k>>] <= 3 * (k + Len(w) + 1 - i) + 2
      BY <3>1, <3>a
    <3>4. /\ SpanWeight(w)[<<Y, k + 1, j>>] \in Int
          /\ SpanWeight(w)[<<Y, k + 1, j>>] <= 3 * (j + Len(w) + 1 - (k + 1)) + 2
      BY <3>1, <3>a
    <3>5. SpanWeight(w)[<<Y, i, k>>] < SpanWeight(w)[<<X, i, j>>]
      BY <1>0, <3>2, <3>3
    <3>6. SpanWeight(w)[<<Y, k + 1, j>>] < SpanWeight(w)[<<X, i, j>>]
      BY <1>0, <3>2, <3>4
    <3> QED
      BY <1>2, <3>1, <3>5, <3>6 DEF Shorter
  <2>4. ASSUME i + 1 < j PROVE Shorter(w, <<X, i, j>>, <<"E", i + 1, j - 1>>)
    <3>1. i + 1 \in 1 .. Len(w) + 1 /\ j - 1 \in 1 .. Len(w) + 1
      BY <1>0, <2>4
    <3>2. SpanWeight(w)[<<"E", i + 1, j - 1>>] = 3 * ((j - 1) + Len(w) + 1 - (i + 1)) + 2
      BY <1>2, <3>1
    <3>3. /\ SpanWeight(w)[<<X, i, j>>] \in Int
          /\ SpanWeight(w)[<<X, i, j>>] >= 3 * (j + Len(w) + 1 - i)
      BY <1>0, <1>2
    <3>4. SpanWeight(w)[<<"E", i + 1, j - 1>>] < SpanWeight(w)[<<X, i, j>>]
      BY <1>0, <3>2, <3>3
    <3> QED
      BY <1>2, <3>1, <3>4 DEF Shorter
  <2> QED
    BY <2>1, <2>2, <2>3, <2>4
<1>6. ASSUME NEW s \in Spans(w)
      PROVE  /\ s[1] = "E" => Shorter(w, s, <<"T", s[2], s[3]>>)
             /\ s[1] = "T" => Shorter(w, s, <<"F", s[2], s[3]>>)
             /\ \A k \in s[2] .. s[3] - 1 : \A X \in {"E", "T", "F"} :
                    Shorter(w, s, <<X, s[2], k>>) /\ Shorter(w, s, <<X, k + 1, s[3]>>)
             /\ s[2] + 1 < s[3] => Shorter(w, s, <<"E", s[2] + 1, s[3] - 1>>)
  <2> DEFINE X == s[1]
             i == s[2]
             j == s[3]
  <2>1. s = <<X, i, j>>
    BY <1>3
  <2>2. X \in {"E", "T", "F"} /\ i \in 1 .. Len(w) + 1 /\ j \in 1 .. Len(w) + 1
    BY <1>1
  <2>3. /\ X = "E" => Shorter(w, s, <<"T", i, j>>)
        /\ X = "T" => Shorter(w, s, <<"F", i, j>>)
        /\ \A k \in i .. j - 1 : \A Y \in {"E", "T", "F"} :
                Shorter(w, s, <<Y, i, k>>) /\ Shorter(w, s, <<Y, k + 1, j>>)
        /\ i + 1 < j => Shorter(w, s, <<"E", i + 1, j - 1>>)
    <3> HIDE DEF X, i, j
    <3> QED
      BY <1>5, <2>1, <2>2
  <2> QED
    BY <2>3
<1> QED
  BY <1>4, <1>6

LEMMA DerivesDepends ==
    ASSUME NEW w \in Seq(Token), NEW s \in Spans(w), NEW f, NEW g,
           \A d \in Spans(w) : SpanWeight(w)[d] < SpanWeight(w)[s] => f[d] = g[d]
    PROVE  DerivesStep(w, f, s) = DerivesStep(w, g, s)
<1>1. \A d : Shorter(w, s, d) => f[d] = g[d]
  BY DEF Shorter
<1>2. \A k \in s[2] .. s[3] - 1 : \A X \in {"E", "T", "F"} :
          f[<<X, s[2], k>>] = g[<<X, s[2], k>>] /\ f[<<X, k + 1, s[3]>>] = g[<<X, k + 1, s[3]>>]
  BY <1>1, SpanWeights
<1>3. /\ s[1] = "E" => f[<<"T", s[2], s[3]>>] = g[<<"T", s[2], s[3]>>]
      /\ s[1] = "T" => f[<<"F", s[2], s[3]>>] = g[<<"F", s[2], s[3]>>]
      /\ s[2] + 1 < s[3] =>
            f[<<"E", s[2] + 1, s[3] - 1>>] = g[<<"E", s[2] + 1, s[3] - 1>>]
  BY <1>1, SpanWeights
<1>4. (\E k \in s[2] .. s[3] - 1 :
            w[k] = "COMMA" /\ f[<<"E", s[2], k>>] /\ f[<<"T", k + 1, s[3]>>]) <=>
      (\E k \in s[2] .. s[3] - 1 :
            w[k] = "COMMA" /\ g[<<"E", s[2], k>>] /\ g[<<"T", k + 1, s[3]>>])
  BY <1>2
<1>5. (\E k \in s[2] .. s[3] - 1 :
            w[k] = "SEMI" /\ f[<<"T", s[2], k>>] /\ f[<<"F", k + 1, s[3]>>]) <=>
      (\E k \in s[2] .. s[3] - 1 :
            w[k] = "SEMI" /\ g[<<"T", s[2], k>>] /\ g[<<"F", k + 1, s[3]>>])
  BY <1>2
<1> QED
  BY <1>3, <1>4, <1>5, Zenon DEF DerivesStep

LEMMA MeansDepends ==
    ASSUME NEW w \in Seq(Token), NEW row, NEW s \in Spans(w), NEW f, NEW g,
           \A d \in Spans(w) : SpanWeight(w)[d] < SpanWeight(w)[s] => f[d] = g[d]
    PROVE  MeansStep(w, row, f, s) = MeansStep(w, row, g, s)
<1> DEFINE Cuts(sep, l, r) ==
              {k \in s[2] .. s[3] - 1 :
                  w[k] = sep /\ Derives(w)[<<l, s[2], k>>] /\ Derives(w)[<<r, k + 1, s[3]>>]}
<1>1. \A d : Shorter(w, s, d) => f[d] = g[d]
  BY DEF Shorter
<1>2. \A k \in s[2] .. s[3] - 1 : \A X \in {"E", "T", "F"} :
          f[<<X, s[2], k>>] = g[<<X, s[2], k>>] /\ f[<<X, k + 1, s[3]>>] = g[<<X, k + 1, s[3]>>]
  BY <1>1, SpanWeights
<1>3. /\ s[1] = "E" => f[<<"T", s[2], s[3]>>] = g[<<"T", s[2], s[3]>>]
      /\ s[1] = "T" => f[<<"F", s[2], s[3]>>] = g[<<"F", s[2], s[3]>>]
      /\ s[2] + 1 < s[3] =>
            f[<<"E", s[2] + 1, s[3] - 1>>] = g[<<"E", s[2] + 1, s[3] - 1>>]
  BY <1>1, SpanWeights
<1>4. (\E k \in Cuts("COMMA", "E", "T") : f[<<"E", s[2], k>>] \/ f[<<"T", k + 1, s[3]>>]) <=>
      (\E k \in Cuts("COMMA", "E", "T") : g[<<"E", s[2], k>>] \/ g[<<"T", k + 1, s[3]>>])
  BY <1>2
<1>5. (\E k \in Cuts("SEMI", "T", "F") : f[<<"T", s[2], k>>] /\ f[<<"F", k + 1, s[3]>>]) <=>
      (\E k \in Cuts("SEMI", "T", "F") : g[<<"T", s[2], k>>] /\ g[<<"F", k + 1, s[3]>>])
  BY <1>2
<1> QED
  BY <1>3, <1>4, <1>5, Zenon DEF MeansStep

LEMMA DerivesSolved ==
    ASSUME NEW w \in Seq(Token)
    PROVE  \A s \in Spans(w) : Derives(w)[s] = DerivesStep(w, Derives(w), s)
<1> DEFINE S == Spans(w)
           F == [S -> BOOLEAN]
           step(f) == [s \in S |-> DerivesStep(w, f, s)]
           next == [f \in F |-> step(f)]
           b == 6 * Len(w) + 8
           Is(f) == f = [s \in Spans(w) |-> DerivesStep(w, f, s)]
           c == CHOOSE f : Is(f)
<1>1. \A f \in F : step(f) \in F
  <2> SUFFICES ASSUME NEW f \in F, NEW s \in S PROVE DerivesStep(w, f, s) \in BOOLEAN
    OBVIOUS
  <2> QED
    BY DEF DerivesStep
<1>2. next \in [F -> F] /\ \A f \in F : next[f] = step(f)
  BY <1>1
<1>3. F # {}
  <2>1. [s \in S |-> TRUE] \in F
    OBVIOUS
  <2> QED
    BY <2>1
<1>4. \A f, g \in F : \A s \in S :
          (\A d \in S : SpanWeight(w)[d] < SpanWeight(w)[s] => f[d] = g[d]) =>
              next[f][s] = next[g][s]
  <2> SUFFICES ASSUME NEW f \in F, NEW g \in F, NEW s \in S,
                      \A d \in S : SpanWeight(w)[d] < SpanWeight(w)[s] => f[d] = g[d]
               PROVE  next[f][s] = next[g][s]
    OBVIOUS
  <2>1. DerivesStep(w, f, s) = DerivesStep(w, g, s)
    BY DerivesDepends
  <2> QED
    BY <1>2, <2>1
<1>5. \E f \in F : next[f] = f
  <2>1. \A f \in F : f = [s \in S |-> f[s]]
    OBVIOUS
  <2>2. b \in Nat
    OBVIOUS
  <2>3. SpanWeight(w) \in [S -> 0 .. b]
    BY SpanWeights
  <2>4. next \in [F -> F]
    BY <1>2
  <2> HIDE DEF next, F, S, step, b
  <2>5. Descends(S, F, next, b, SpanWeight(w))
    BY <1>3, <1>4, <2>1, <2>2, <2>3, <2>4 DEF Descends
  <2> QED
    BY <2>5, Recursion
<1>6. PICK h \in F : Is(h)
  BY <1>2, <1>5
<1>7. Is(c)
  BY <1>6, Zenon
<1>8. Derives(w) = c
  BY Zenon DEF Derives, DerivesStep
<1> HIDE DEF c
<1> QED
  BY <1>7, <1>8

LEMMA MeansSolved ==
    ASSUME NEW w \in Seq(Token), NEW row
    PROVE  \A s \in Spans(w) : Means(w, row)[s] = MeansStep(w, row, Means(w, row), s)
<1> DEFINE S == Spans(w)
           F == [S -> BOOLEAN]
           step(f) == [s \in S |-> MeansStep(w, row, f, s)]
           next == [f \in F |-> step(f)]
           b == 6 * Len(w) + 8
           Is(f) == f = [s \in Spans(w) |-> MeansStep(w, row, f, s)]
           c == CHOOSE f : Is(f)
<1>1. \A f \in F : step(f) \in F
  <2> SUFFICES ASSUME NEW f \in F, NEW s \in S PROVE MeansStep(w, row, f, s) \in BOOLEAN
    OBVIOUS
  <2> QED
    BY DEF MeansStep
<1>2. next \in [F -> F] /\ \A f \in F : next[f] = step(f)
  BY <1>1
<1>3. F # {}
  <2>1. [s \in S |-> TRUE] \in F
    OBVIOUS
  <2> QED
    BY <2>1
<1>4. \A f, g \in F : \A s \in S :
          (\A d \in S : SpanWeight(w)[d] < SpanWeight(w)[s] => f[d] = g[d]) =>
              next[f][s] = next[g][s]
  <2> SUFFICES ASSUME NEW f \in F, NEW g \in F, NEW s \in S,
                      \A d \in S : SpanWeight(w)[d] < SpanWeight(w)[s] => f[d] = g[d]
               PROVE  next[f][s] = next[g][s]
    OBVIOUS
  <2>1. MeansStep(w, row, f, s) = MeansStep(w, row, g, s)
    BY MeansDepends
  <2> QED
    BY <1>2, <2>1
<1>5. \E f \in F : next[f] = f
  <2>1. \A f \in F : f = [s \in S |-> f[s]]
    OBVIOUS
  <2>2. b \in Nat
    OBVIOUS
  <2>3. SpanWeight(w) \in [S -> 0 .. b]
    BY SpanWeights
  <2>4. next \in [F -> F]
    BY <1>2
  <2> HIDE DEF next, F, S, step, b
  <2>5. Descends(S, F, next, b, SpanWeight(w))
    BY <1>3, <1>4, <2>1, <2>2, <2>3, <2>4 DEF Descends
  <2> QED
    BY <2>5, Recursion
<1>6. PICK h \in F : Is(h)
  BY <1>2, <1>5
<1>7. Is(c)
  BY <1>6, Zenon
<1>8. Means(w, row) = c
  BY Zenon DEF Means, MeansStep
<1> HIDE DEF c
<1> QED
  BY <1>7, <1>8


\* The grammar.
LEMMA DerivesIs ==
    ASSUME NEW w \in Seq(Token), NEW i \in 1 .. Len(w) + 1, NEW j \in 1 .. Len(w) + 1
    PROVE  /\ D(w, "E", i, j) <=>
                \/ D(w, "T", i, j)
                \/ \E k \in i .. j - 1 : w[k] = "COMMA" /\ D(w, "E", i, k) /\ D(w, "T", k + 1, j)
           /\ D(w, "T", i, j) <=>
                \/ D(w, "F", i, j)
                \/ \E k \in i .. j - 1 : w[k] = "SEMI" /\ D(w, "T", i, k) /\ D(w, "F", k + 1, j)
           /\ D(w, "F", i, j) <=>
                \/ j = i + 1 /\ w[i] \in Field
                \/ i + 1 < j /\ w[i] = "LPAREN" /\ w[j - 1] = "RPAREN" /\ D(w, "E", i + 1, j - 1)
<1>1. ASSUME NEW X \in {"E", "T", "F"}
      PROVE  Derives(w)[<<X, i, j>>] = DerivesStep(w, Derives(w), <<X, i, j>>)
  <2>1. <<X, i, j>> \in Spans(w)
    BY DEF Spans
  <2> QED
    BY <2>1, DerivesSolved
<1>2. \A X : <<X, i, j>>[1] = X /\ <<X, i, j>>[2] = i /\ <<X, i, j>>[3] = j
  OBVIOUS
<1>3. "E" # "T" /\ "E" # "F" /\ "T" # "F"
  OBVIOUS
<1>4. /\ Derives(w)[<<"E", i, j>>] = DerivesStep(w, Derives(w), <<"E", i, j>>)
      /\ Derives(w)[<<"T", i, j>>] = DerivesStep(w, Derives(w), <<"T", i, j>>)
      /\ Derives(w)[<<"F", i, j>>] = DerivesStep(w, Derives(w), <<"F", i, j>>)
  BY <1>1
<1>5. DerivesStep(w, Derives(w), <<"E", i, j>>) <=>
          \/ D(w, "T", i, j)
          \/ \E k \in i .. j - 1 : w[k] = "COMMA" /\ D(w, "E", i, k) /\ D(w, "T", k + 1, j)
  BY <1>2, <1>3, Zenon DEF DerivesStep, D
<1>6. DerivesStep(w, Derives(w), <<"T", i, j>>) <=>
          \/ D(w, "F", i, j)
          \/ \E k \in i .. j - 1 : w[k] = "SEMI" /\ D(w, "T", i, k) /\ D(w, "F", k + 1, j)
  BY <1>2, <1>3, Zenon DEF DerivesStep, D
<1>7. DerivesStep(w, Derives(w), <<"F", i, j>>) <=>
          \/ j = i + 1 /\ w[i] \in Field
          \/ i + 1 < j /\ w[i] = "LPAREN" /\ w[j - 1] = "RPAREN" /\ D(w, "E", i + 1, j - 1)
  BY <1>2, <1>3, Zenon DEF DerivesStep, D
<1> QED
  BY <1>4, <1>5, <1>6, <1>7, Zenon DEF D

\* Its meaning.
LEMMA MeansIs ==
    ASSUME NEW w \in Seq(Token), NEW i \in 1 .. Len(w) + 1, NEW j \in 1 .. Len(w) + 1, NEW row
    PROVE  /\ M(w, row, "E", i, j) <=>
                \/ D(w, "T", i, j) /\ M(w, row, "T", i, j)
                \/ \E k \in i .. j - 1 :
                        /\ w[k] = "COMMA" /\ D(w, "E", i, k) /\ D(w, "T", k + 1, j)
                        /\ M(w, row, "E", i, k) \/ M(w, row, "T", k + 1, j)
           /\ M(w, row, "T", i, j) <=>
                \/ D(w, "F", i, j) /\ M(w, row, "F", i, j)
                \/ \E k \in i .. j - 1 :
                        /\ w[k] = "SEMI" /\ D(w, "T", i, k) /\ D(w, "F", k + 1, j)
                        /\ M(w, row, "T", i, k) /\ M(w, row, "F", k + 1, j)
           /\ M(w, row, "F", i, j) <=>
                \/ j = i + 1 /\ w[i] \in Field /\ row[w[i]]
                \/ i + 1 < j /\ M(w, row, "E", i + 1, j - 1)
<1>1. ASSUME NEW X \in {"E", "T", "F"}
      PROVE  Means(w, row)[<<X, i, j>>] = MeansStep(w, row, Means(w, row), <<X, i, j>>)
  <2>1. <<X, i, j>> \in Spans(w)
    BY DEF Spans
  <2> QED
    BY <2>1, MeansSolved
<1>2. \A X : <<X, i, j>>[1] = X /\ <<X, i, j>>[2] = i /\ <<X, i, j>>[3] = j
  OBVIOUS
<1>3. "E" # "T" /\ "E" # "F" /\ "T" # "F"
  OBVIOUS
<1>4. /\ Means(w, row)[<<"E", i, j>>] = MeansStep(w, row, Means(w, row), <<"E", i, j>>)
      /\ Means(w, row)[<<"T", i, j>>] = MeansStep(w, row, Means(w, row), <<"T", i, j>>)
      /\ Means(w, row)[<<"F", i, j>>] = MeansStep(w, row, Means(w, row), <<"F", i, j>>)
  BY <1>1
<1>5. MeansStep(w, row, Means(w, row), <<"E", i, j>>) <=>
          \/ D(w, "T", i, j) /\ M(w, row, "T", i, j)
          \/ \E k \in i .. j - 1 :
                  /\ w[k] = "COMMA" /\ D(w, "E", i, k) /\ D(w, "T", k + 1, j)
                  /\ M(w, row, "E", i, k) \/ M(w, row, "T", k + 1, j)
  BY <1>2, <1>3, Zenon DEF MeansStep, D, M
<1>6. MeansStep(w, row, Means(w, row), <<"T", i, j>>) <=>
          \/ D(w, "F", i, j) /\ M(w, row, "F", i, j)
          \/ \E k \in i .. j - 1 :
                  /\ w[k] = "SEMI" /\ D(w, "T", i, k) /\ D(w, "F", k + 1, j)
                  /\ M(w, row, "T", i, k) /\ M(w, row, "F", k + 1, j)
  BY <1>2, <1>3, Zenon DEF MeansStep, D, M
<1>7. MeansStep(w, row, Means(w, row), <<"F", i, j>>) <=>
          \/ j = i + 1 /\ w[i] \in Field /\ row[w[i]]
          \/ i + 1 < j /\ M(w, row, "E", i + 1, j - 1)
  BY <1>2, <1>3, Zenon DEF MeansStep, D, M
<1> QED
  BY <1>4, <1>5, <1>6, <1>7, Zenon DEF M

-----------------------------------------------------------------------------
(* The parser is sound                                                     *)

\* A part of a tree means in the tree what it means alone.
LEMMA HoldsWithin ==
    ASSUME NEW t, NEW u, Tree(t), Tree(u), NEW row \in Row,
           \A n \in DOMAIN t : n \in DOMAIN u /\ u[n] = t[n]
    PROVE  \A n \in DOMAIN t : Holds(u, row)[n] <=> Holds(t, row)[n]
<1> DEFINE Good == {n \in DOMAIN t : Holds(u, row)[n] <=> Holds(t, row)[n]}
<1>1. ASSUME NEW n \in DOMAIN t, t[n].op = "cmp" PROVE n \in Good
  <2>1. AtLeaf(t, row, n) /\ AtLeaf(u, row, n)
    BY <1>1, Unfolded
  <2> QED
    BY <2>1 DEF AtLeaf
<1>2. ASSUME NEW n \in DOMAIN t, t[n].op \in {"AND", "OR"},
             t[n].left \in DOMAIN t \cap Good, t[n].right \in DOMAIN t \cap Good
      PROVE  n \in Good
  <2>1. CASE t[n].op = "AND"
    <3>1. AtAnd(t, row, n, t[n].left, t[n].right) /\ AtAnd(u, row, n, t[n].left, t[n].right)
      BY <2>1, Unfolded
    <3> QED
      BY <1>2, <3>1 DEF AtAnd
  <2>2. CASE t[n].op = "OR"
    <3>1. AtOr(t, row, n, t[n].left, t[n].right) /\ AtOr(u, row, n, t[n].left, t[n].right)
      BY <2>2, Unfolded
    <3> QED
      BY <1>2, <3>1 DEF AtOr
  <2> QED
    BY <1>2, <2>1, <2>2
<1>3. \A n \in DOMAIN t : n \in Good
  <2> HIDE DEF Good
  <2> QED
    BY <1>1, <1>2, TreeInduction
<1> QED
  BY <1>3

Value(r, row) == Holds(r.tree, row)[r.node]

LEMMA JoinMeans ==
    ASSUME NEW w \in Seq(Token), NEW i \in 1 .. Len(w) + 1, NEW o \in {"AND", "OR"},
           NEW l \in Outcomes(w, i), l.ok, l.at <= Len(w),
           NEW r \in Outcomes(w, l.at + 1), r.ok
    PROVE  \A row \in Row :
              /\ o = "AND" => (Value(Join(o, l, r), row) <=> Value(l, row) /\ Value(r, row))
              /\ o = "OR" => (Value(Join(o, l, r), row) <=> Value(l, row) \/ Value(r, row))
<1> DEFINE jn == Join(o, l, r)
           t == jn.tree
<1> SUFFICES ASSUME NEW row \in Row
             PROVE  /\ o = "AND" => (Value(jn, row) <=> Value(l, row) /\ Value(r, row))
                    /\ o = "OR" => (Value(jn, row) <=> Value(l, row) \/ Value(r, row))
  OBVIOUS
<1>1. /\ jn \in Outcomes(w, i) /\ jn.ok /\ jn.node = l.at /\ t[l.at] = Logical(o, l.node, r.node)
      /\ \A n \in DOMAIN l.tree : n \in DOMAIN t /\ t[n] = l.tree[n]
      /\ \A n \in DOMAIN r.tree : n \in DOMAIN t /\ t[n] = r.tree[n]
  BY JoinOutcome
<1> HIDE DEF jn
<1>2. /\ Tree(t) /\ l.at \in DOMAIN t /\ Tree(l.tree) /\ l.node \in DOMAIN l.tree
      /\ Tree(r.tree) /\ r.node \in DOMAIN r.tree
  BY <1>1 DEF Outcomes, TreeAt
<1>3. /\ Holds(t, row)[l.node] <=> Holds(l.tree, row)[l.node]
      /\ Holds(t, row)[r.node] <=> Holds(r.tree, row)[r.node]
  <2> HIDE DEF t
  <2> QED
    BY <1>1, <1>2, HoldsWithin
<1>4. t[l.at].op = o /\ t[l.at].left = l.node /\ t[l.at].right = r.node
  BY <1>1, NodeFields
<1>5. CASE o = "AND"
  <2>1. AtAnd(t, row, l.at, l.node, r.node)
    BY <1>2, <1>4, <1>5, Unfolded
  <2> QED
    BY <1>1, <1>3, <1>5, <2>1 DEF AtAnd, Value
<1>6. CASE o = "OR"
  <2>1. AtOr(t, row, l.at, l.node, r.node)
    BY <1>2, <1>4, <1>6, Unfolded
  <2> QED
    BY <1>1, <1>3, <1>6, <2>1 DEF AtOr, Value
<1> QED
  BY <1>5, <1>6

\* What has been parsed is an X, and its tree means no more than it says.
Sound(w, X, i, r) ==
    r.ok => D(w, X, i, r.at) /\ \A row \in Row : Value(r, row) => M(w, row, X, i, r.at)


LEMMA AndRoundSound ==
    ASSUME NEW w \in Seq(Token), NEW i \in 1 .. Len(w) + 1, NEW l \in Outcomes(w, i),
           Sound(w, "T", i, l), NEW right,
           l.ok /\ Peek(w, l.at) = "SEMI" =>
              right \in Outcomes(w, l.at + 1) /\ Sound(w, "F", l.at + 1, right)
    PROVE  Sound(w, "T", i, Round(w, "AND", l, "SEMI", right))
<1>1. CASE ~l.ok \/ Peek(w, l.at) # "SEMI"
  BY <1>1 DEF Round
<1>2. CASE l.ok /\ Peek(w, l.at) = "SEMI" /\ ~right.ok
  BY <1>2, ParsedFields DEF Round, Sound
<1>3. CASE l.ok /\ Peek(w, l.at) = "SEMI" /\ right.ok
  <2> DEFINE r == Join("AND", l, right)
             k == l.at
             j == right.at
  <2>1. k \in 1 .. Len(w) /\ k > i /\ k + 1 \in 1 .. Len(w) + 1 /\ Len(w) \in Nat
    <3>1. Peek(w, l.at) \in Punctuation /\ Len(w) \in Nat
      BY <1>3 DEF Punctuation
    <3> QED
      BY <1>3, <3>1, AfterSeparator
  <2>2. w[k] = "SEMI"
    <3>1. k <= Len(w)
      BY <2>1
    <3> QED
      BY <1>3, <3>1 DEF Peek
  <2>3. j \in 1 .. Len(w) + 1 /\ j > k + 1
    BY <1>3, ResultFields DEF Outcomes
  <2>4. k \in i .. j - 1
    <3> HIDE DEF k, j
    <3> QED
      BY <2>1, <2>3
  <2>5. r.ok /\ r.at = j /\ \A row \in Row : Value(r, row) <=> Value(l, row) /\ Value(right, row)
    <3>1. l.at <= Len(w)
      BY <2>1
    <3>2. r.ok /\ r.at = j
      BY <1>3, <3>1, JoinOutcome
    <3> QED
      BY <1>3, <3>1, <3>2, JoinMeans
  <2>6. D(w, "T", i, k) /\ D(w, "F", k + 1, j)
    BY <1>3 DEF Sound
  <2> HIDE DEF r, k, j
  <2>7. D(w, "T", i, j)
    BY <2>2, <2>3, <2>4, <2>6, DerivesIs
  <2>8. ASSUME NEW row \in Row, Value(r, row) PROVE M(w, row, "T", i, j)
    <3>1. Value(l, row) /\ Value(right, row)
      BY <2>5, <2>8
    <3>2. M(w, row, "T", i, k) /\ M(w, row, "F", k + 1, j)
      BY <1>3, <3>1 DEF Sound, k, j
    <3> QED
      BY <2>2, <2>3, <2>4, <2>6, <3>2, MeansIs
  <2>9. Round(w, "AND", l, "SEMI", right) = r
    BY <1>3 DEF Round, r
  <2> QED
    BY <2>5, <2>7, <2>8, <2>9 DEF Sound
<1> QED
  BY <1>1, <1>2, <1>3

LEMMA OrRoundSound ==
    ASSUME NEW w \in Seq(Token), NEW i \in 1 .. Len(w) + 1, NEW l \in Outcomes(w, i),
           Sound(w, "E", i, l), NEW right,
           l.ok /\ Peek(w, l.at) = "COMMA" =>
              right \in Outcomes(w, l.at + 1) /\ Sound(w, "T", l.at + 1, right)
    PROVE  Sound(w, "E", i, Round(w, "OR", l, "COMMA", right))
<1>1. CASE ~l.ok \/ Peek(w, l.at) # "COMMA"
  BY <1>1 DEF Round
<1>2. CASE l.ok /\ Peek(w, l.at) = "COMMA" /\ ~right.ok
  BY <1>2, ParsedFields DEF Round, Sound
<1>3. CASE l.ok /\ Peek(w, l.at) = "COMMA" /\ right.ok
  <2> DEFINE r == Join("OR", l, right)
             k == l.at
             j == right.at
  <2>1. k \in 1 .. Len(w) /\ k > i /\ k + 1 \in 1 .. Len(w) + 1 /\ Len(w) \in Nat
    <3>1. Peek(w, l.at) \in Punctuation /\ Len(w) \in Nat
      BY <1>3 DEF Punctuation
    <3> QED
      BY <1>3, <3>1, AfterSeparator
  <2>2. w[k] = "COMMA"
    <3>1. k <= Len(w)
      BY <2>1
    <3> QED
      BY <1>3, <3>1 DEF Peek
  <2>3. j \in 1 .. Len(w) + 1 /\ j > k + 1
    BY <1>3, ResultFields DEF Outcomes
  <2>4. k \in i .. j - 1
    <3> HIDE DEF k, j
    <3> QED
      BY <2>1, <2>3
  <2>5. r.ok /\ r.at = j /\ \A row \in Row : Value(r, row) <=> Value(l, row) \/ Value(right, row)
    <3>1. l.at <= Len(w)
      BY <2>1
    <3>2. r.ok /\ r.at = j
      BY <1>3, <3>1, JoinOutcome
    <3> QED
      BY <1>3, <3>1, <3>2, JoinMeans
  <2>6. D(w, "E", i, k) /\ D(w, "T", k + 1, j)
    BY <1>3 DEF Sound
  <2> HIDE DEF r, k, j
  <2>7. D(w, "E", i, j)
    BY <2>2, <2>3, <2>4, <2>6, DerivesIs
  <2>8. ASSUME NEW row \in Row, Value(r, row) PROVE M(w, row, "E", i, j)
    <3>1. Value(l, row) \/ Value(right, row)
      BY <2>5, <2>8
    <3>2. M(w, row, "E", i, k) \/ M(w, row, "T", k + 1, j)
      BY <1>3, <3>1 DEF Sound, k, j
    <3> QED
      BY <2>2, <2>3, <2>4, <2>6, <3>2, MeansIs
  <2>9. Round(w, "OR", l, "COMMA", right) = r
    BY <1>3 DEF Round, r
  <2> QED
    BY <2>5, <2>7, <2>8, <2>9 DEF Sound
<1> QED
  BY <1>1, <1>2, <1>3

LEMMA ComparisonMeans ==
    ASSUME NEW w \in Seq(Token), NEW i \in 1 .. Len(w), w[i] \in Field
    PROVE  /\ ParseComparison(w, i).ok /\ ParseComparison(w, i).at = i + 1
           /\ \A row \in Row : Value(ParseComparison(w, i), row) <=> row[w[i]]
<1> DEFINE r == ParseComparison(w, i)
<1>1. i \in 1 .. Len(w) + 1 /\ Peek(w, i) = w[i]
  BY DEF Peek
<1>2. r = Parsed(i, i + 1, [n \in {i} |-> Leaf(w[i])])
  BY <1>1 DEF ParseComparison
<1>3. r.ok /\ r.at = i + 1 /\ r.node = i /\ r.tree = [n \in {i} |-> Leaf(w[i])]
  BY <1>2, ParsedFields
<1>4. r \in Outcomes(w, i)
  BY <1>1, ComparisonOutcome
<1> HIDE DEF r
<1>5. Tree(r.tree) /\ i \in DOMAIN r.tree /\ r.tree[i] = Leaf(w[i])
  BY <1>3, <1>4 DEF Outcomes, TreeAt
<1>6. ASSUME NEW row \in Row PROVE Value(r, row) <=> row[w[i]]
  <2>1. AtLeaf(r.tree, row, i)
    BY <1>5, Unfolded, NodeFields
  <2> QED
    BY <1>3, <1>5, <2>1, NodeFields DEF AtLeaf, Value
<1> QED
  BY <1>3, <1>6 DEF r

LEMMA PrimarySound ==
    ASSUME NEW w \in Seq(Token), NEW f \in Parses(w), NEW i \in 1 .. Len(w) + 1,
           Peek(w, i) = "LPAREN" => Sound(w, "E", i + 1, ParseOr(w, f, i + 1))
    PROVE  Sound(w, "F", i, ParsePrimary(w, f, i))
<1> DEFINE r == ParseOr(w, f, i + 1)
<1>1. CASE Peek(w, i) # "LPAREN" /\ Peek(w, i) \notin Field
  BY <1>1, ParsedFields DEF ParsePrimary, ParseComparison, Sound
<1>2. CASE Peek(w, i) # "LPAREN" /\ Peek(w, i) \in Field
  <2>1. i \in 1 .. Len(w) /\ w[i] \in Field /\ Len(w) \in Nat
    BY <1>2, TokenAt
  <2>2. i + 1 \in 1 .. Len(w) + 1
    BY <2>1
  <2>3. D(w, "F", i, i + 1) /\ \A row \in Row : row[w[i]] => M(w, row, "F", i, i + 1)
    BY <2>1, <2>2, DerivesIs, MeansIs
  <2>4. /\ ParsePrimary(w, f, i).at = i + 1
        /\ \A row \in Row : Value(ParsePrimary(w, f, i), row) <=> row[w[i]]
    BY <1>2, <2>1, ComparisonMeans DEF ParsePrimary
  <2> QED
    BY <2>3, <2>4 DEF Sound
<1>3. CASE Peek(w, i) = "LPAREN" /\ ~(r.ok /\ Peek(w, r.at) = "RPAREN")
  BY <1>3, ParsedFields DEF ParsePrimary, Sound
<1>4. CASE Peek(w, i) = "LPAREN" /\ r.ok /\ Peek(w, r.at) = "RPAREN"
  <2>1. i \in 1 .. Len(w) /\ Len(w) \in Nat /\ w[i] = "LPAREN"
    BY <1>4, TokenAt DEF Punctuation
  <2>2. i + 1 \in 1 .. Len(w) + 1
    BY <2>1
  <2>3. r \in Outcomes(w, i + 1)
    BY <2>2, CallsOutcome
  <2>4. ParsePrimary(w, f, i) = Parsed(r.node, r.at + 1, r.tree)
    BY <1>4 DEF ParsePrimary
  <2>5. Sound(w, "E", i + 1, r)
    BY <1>4
  <2> HIDE DEF r
  <2>6. r.at \in 1 .. Len(w) + 1 /\ r.at > i + 1
    BY <1>4, <2>3, ResultFields DEF Outcomes
  <2>7. r.at \in 1 .. Len(w) /\ w[r.at] = "RPAREN"
    BY <1>4, <2>6, TokenAt DEF Punctuation
  <2> DEFINE j == r.at + 1
  <2>8. j \in 1 .. Len(w) + 1 /\ i + 1 < j /\ j - 1 = r.at
    BY <2>1, <2>6, <2>7
  <2>9. ParsePrimary(w, f, i).at = j
        /\ \A row : Value(ParsePrimary(w, f, i), row) = Value(r, row)
    BY <2>4, ParsedFields DEF Value
  <2> HIDE DEF j
  <2>10. D(w, "F", i, j) /\ \A row \in Row : M(w, row, "E", i + 1, r.at) => M(w, row, "F", i, j)
    <3>1. D(w, "E", i + 1, j - 1)
      BY <1>4, <2>5, <2>8 DEF Sound
    <3>a. i \in 1 .. Len(w) + 1
      OBVIOUS
    <3>2. D(w, "F", i, j)
      BY <2>1, <2>7, <2>8, <3>a, <3>1, DerivesIs
    <3>3. ASSUME NEW row \in Row, M(w, row, "E", i + 1, r.at) PROVE M(w, row, "F", i, j)
      BY <2>8, <3>a, <3>3, MeansIs
    <3> QED
      BY <3>2, <3>3
  <2> QED
    BY <1>4, <2>5, <2>9, <2>10 DEF Sound
<1> QED
  BY <1>1, <1>2, <1>3, <1>4

Symbol(x) == IF x = "or" THEN "E" ELSE "T"

LEMMA ParserSound ==
    ASSUME NEW w \in Seq(Token)
    PROVE  \A c \in LoopStates(w) : Sound(w, Symbol(c[1]), c[2], Parser(w)[c])
<1> DEFINE P == Parser(w)
           S == LoopStates(w)
           Good == {c \in S : Sound(w, Symbol(c[1]), c[2], P[c])}
<1>0. P \in Parses(w) /\ \A c \in S : P[c] = ParserStep(w, P, c)
  BY ParserIs
<1>1. ASSUME NEW c \in S, \A d \in S : Weight(w)[d] < Weight(w)[c] => d \in Good
      PROVE  c \in Good
  <2> DEFINE i == c[2]
             prior == <<c[1], c[2], c[3] - 1>>
  <2>0. Len(w) \in Nat /\ i \in 1 .. Len(w) + 1 /\ c[1] \in {"or", "and"} /\ c[3] \in 0 .. Len(w)
    BY DEF LoopStates
  <2>1. ASSUME NEW j \in 1 .. Len(w) + 1, j > i
        PROVE  Sound(w, "E", j, ParseOr(w, P, j)) /\ Sound(w, "T", j, ParseAnd(w, P, j))
    <3> DEFINE d == <<"or", j, Len(w)>>
               e == <<"and", j, Len(w)>>
    <3>1. /\ d \in S /\ d[2] = j /\ Symbol(d[1]) = "E"
          /\ e \in S /\ e[2] = j /\ Symbol(e[1]) = "T"
      BY <2>0 DEF LoopStates, Symbol
    <3> HIDE DEF d, e
    <3>2. Weight(w)[d] < Weight(w)[c] /\ Weight(w)[e] < Weight(w)[c]
      BY <2>0, <2>1, <3>1, Weights
    <3>3. Sound(w, "E", j, P[d]) /\ Sound(w, "T", j, P[e])
      BY <1>1, <3>1, <3>2
    <3> QED
      BY <3>3 DEF ParseOr, ParseAnd, d, e
  <2>2. ASSUME NEW j \in 1 .. Len(w) + 1, j >= i
        PROVE  Sound(w, "F", j, ParsePrimary(w, P, j))
    <3>1. ASSUME Peek(w, j) = "LPAREN"
          PROVE  Sound(w, "E", j + 1, ParseOr(w, P, j + 1))
      <4>1. j \in 1 .. Len(w)
        BY <3>1, TokenAt DEF Punctuation
      <4>2. j + 1 \in 1 .. Len(w) + 1 /\ j + 1 > i
        BY <2>0, <2>2, <4>1
      <4> QED
        BY <2>1, <4>2
    <3> QED
      BY <1>0, <3>1, PrimarySound
  <2>3. CASE c[3] = 0 /\ c[1] = "or"
    <3> DEFINE d == <<"and", i, Len(w)>>
    <3>1. d \in S /\ d[2] = i /\ Symbol(d[1]) = "T"
      BY <2>0 DEF LoopStates, Symbol
    <3>2. c = <<"or", i, 0>>
      BY <2>0, <2>3 DEF LoopStates
    <3>3. Weight(w)[d] < Weight(w)[c]
      BY <2>0, <3>2, Weights
    <3>4. Sound(w, "T", i, P[d]) /\ P[d] \in Outcomes(w, i)
      BY <1>0, <1>1, <3>1, <3>3 DEF Parses
    <3>5. P[c] = P[d]
      BY <1>0, <2>3 DEF ParserStep, ParseAnd
    <3> HIDE DEF d, P
    <3>6. Sound(w, "E", i, P[d])
      <4> SUFFICES ASSUME P[d].ok
                   PROVE  /\ D(w, "E", i, P[d].at)
                          /\ \A row \in Row : Value(P[d], row) => M(w, row, "E", i, P[d].at)
        BY DEF Sound
      <4>1. P[d].at \in 1 .. Len(w) + 1
        BY <3>4, ResultFields DEF Outcomes
      <4>2. D(w, "T", i, P[d].at)
        BY <3>4 DEF Sound
      <4>3. D(w, "E", i, P[d].at)
        BY <2>0, <4>1, <4>2, DerivesIs
      <4>4. ASSUME NEW row \in Row, Value(P[d], row) PROVE M(w, row, "E", i, P[d].at)
        <5>1. M(w, row, "T", i, P[d].at)
          BY <3>4, <4>4 DEF Sound
        <5> QED
          BY <2>0, <4>1, <4>2, <5>1, MeansIs
      <4> QED
        BY <4>3, <4>4
    <3>7. Symbol(c[1]) = "E"
      BY <2>3 DEF Symbol
    <3> QED
      BY <3>5, <3>6, <3>7
  <2>4. CASE c[3] = 0 /\ c[1] # "or"
    <3>1. Sound(w, "F", i, ParsePrimary(w, P, i)) /\ ParsePrimary(w, P, i) \in Outcomes(w, i)
      BY <1>0, <2>0, <2>2, PrimaryOutcome
    <3>2. P[c] = ParsePrimary(w, P, i)
      BY <1>0, <2>4 DEF ParserStep
    <3> DEFINE r == P[c]
    <3>3. Sound(w, "F", i, r) /\ r \in Outcomes(w, i)
      BY <3>1, <3>2
    <3> HIDE DEF r, P
    <3>4. Sound(w, "T", i, r)
      <4> SUFFICES ASSUME r.ok
                   PROVE  /\ D(w, "T", i, r.at)
                          /\ \A row \in Row : Value(r, row) => M(w, row, "T", i, r.at)
        BY DEF Sound
      <4>1. r.at \in 1 .. Len(w) + 1
        BY <3>3, ResultFields DEF Outcomes
      <4>2. D(w, "F", i, r.at)
        BY <3>3 DEF Sound
      <4>3. D(w, "T", i, r.at)
        BY <2>0, <4>1, <4>2, DerivesIs
      <4>4. ASSUME NEW row \in Row, Value(r, row) PROVE M(w, row, "T", i, r.at)
        <5>1. M(w, row, "F", i, r.at)
          BY <3>3, <4>4 DEF Sound
        <5> QED
          BY <2>0, <4>1, <4>2, <5>1, MeansIs
      <4> QED
        BY <4>3, <4>4
    <3>5. Symbol(c[1]) = "T"
      BY <2>4 DEF Symbol
    <3> QED
      BY <3>4, <3>5 DEF r
  <2>5. CASE c[3] # 0
    <3> DEFINE l == P[prior]
    <3>1. prior \in S /\ prior[2] = i /\ prior[1] = c[1] /\ Weight(w)[prior] < Weight(w)[c]
      BY <2>5, StateBefore, Weights
    <3>2. l \in Outcomes(w, i) /\ Sound(w, Symbol(c[1]), i, l)
      <4> HIDE DEF prior
      <4> QED
        BY <1>0, <1>1, <3>1 DEF Parses
    <3>3. P[c] = IF c[1] = "or" THEN OrLoop(w, P, l) ELSE AndLoop(w, P, l)
      BY <1>0, <2>5 DEF ParserStep
    <3> HIDE DEF l, P
    <3>4. ASSUME l.ok, Peek(w, l.at) \in {"COMMA", "SEMI"}
          PROVE  l.at + 1 \in 1 .. Len(w) + 1 /\ l.at + 1 > i /\ l.at + 1 >= i
      <4>1. Peek(w, l.at) \in Punctuation
        BY <3>4 DEF Punctuation
      <4>2. l.at \in 1 .. Len(w) /\ l.at > i
        BY <2>0, <3>2, <3>4, <4>1, AfterSeparator
      <4> QED
        BY <2>0, <4>2
    <3>5. CASE c[1] = "or"
      <4>1. Sound(w, "E", i, l)
        BY <3>2, <3>5 DEF Symbol
      <4>2. ASSUME l.ok, Peek(w, l.at) = "COMMA"
            PROVE  /\ ParseAnd(w, P, l.at + 1) \in Outcomes(w, l.at + 1)
                   /\ Sound(w, "T", l.at + 1, ParseAnd(w, P, l.at + 1))
        BY <1>0, <2>1, <3>4, <4>2, CallsOutcome
      <4>3. Sound(w, "E", i, OrLoop(w, P, l))
        BY <2>0, <3>2, <4>1, <4>2, OrRoundSound DEF OrLoop
      <4> QED
        BY <3>3, <3>5, <4>3 DEF Symbol, P
    <3>6. CASE c[1] # "or"
      <4>1. Sound(w, "T", i, l)
        BY <3>2, <3>6 DEF Symbol
      <4>2. ASSUME l.ok, Peek(w, l.at) = "SEMI"
            PROVE  /\ ParsePrimary(w, P, l.at + 1) \in Outcomes(w, l.at + 1)
                   /\ Sound(w, "F", l.at + 1, ParsePrimary(w, P, l.at + 1))
        BY <1>0, <2>2, <3>4, <4>2, PrimaryOutcome
      <4>3. Sound(w, "T", i, AndLoop(w, P, l))
        BY <2>0, <3>2, <4>1, <4>2, AndRoundSound DEF AndLoop
      <4> QED
        BY <3>3, <3>6, <4>3 DEF Symbol, P
    <3> QED
      BY <3>5, <3>6
  <2> QED
    BY <2>0, <2>3, <2>4, <2>5
<1>2. Weight(w) \in [S -> Nat]
  BY Weights
<1>3. \A c \in S : c \in Good
  <2> HIDE DEF Good, S
  <2> QED
    BY <1>1, <1>2, Induction
<1> QED
  BY <1>3

-----------------------------------------------------------------------------
(* The parser is complete                                                  *)

Separator(x) == IF x = "or" THEN "COMMA" ELSE "SEMI"

\* A round leaves a result alone, fails or goes on; without a separator it
\* leaves it alone.
Follows(w, sep, r, q) ==
    /\ q = r \/ ~q.ok \/ (r.ok /\ q.at > r.at)
    /\ r.ok /\ Peek(w, r.at) # sep => q = r

LEMMA FollowsRound ==
    ASSUME NEW w \in Seq(Token), NEW x \in {"or", "and"}, NEW i \in 1 .. Len(w) + 1,
           NEW n \in 0 .. Len(w), n # 0
    PROVE  Follows(w, Separator(x), Parser(w)[<<x, i, n - 1>>], Parser(w)[<<x, i, n>>])
<1> DEFINE P == Parser(w)
           c == <<x, i, n>>
           l == P[<<x, i, n - 1>>]
<1>0. P \in Parses(w) /\ \A d \in LoopStates(w) : P[d] = ParserStep(w, P, d)
  BY ParserIs
<1>1. c \in LoopStates(w) /\ c[1] = x /\ c[2] = i /\ c[3] = n
  BY DEF LoopStates
<1>2. <<x, i, n - 1>> \in LoopStates(w) /\ <<x, i, n - 1>>[2] = i
  BY <1>1, StateBefore
<1>3. l \in Outcomes(w, i)
  BY <1>0, <1>2 DEF Parses
<1>4. P[c] = IF x = "or" THEN OrLoop(w, P, l) ELSE AndLoop(w, P, l)
  BY <1>0, <1>1 DEF ParserStep
<1> HIDE DEF P, l, c
<1>5. \E o, right :
          /\ o \in {"AND", "OR"} /\ P[c] = Round(w, o, l, Separator(x), right)
          /\ l.ok /\ Peek(w, l.at) = Separator(x) => right \in Outcomes(w, l.at + 1)
  <2>1. ASSUME l.ok, Peek(w, l.at) \in {"COMMA", "SEMI"}
        PROVE  l.at + 1 \in 1 .. Len(w) + 1
    <3>1. Peek(w, l.at) \in Punctuation
      BY <2>1 DEF Punctuation
    <3> QED
      BY <1>3, <2>1, <3>1, AfterSeparator
  <2>2. CASE x = "or"
    <3>1. P[c] = Round(w, "OR", l, "COMMA", ParseAnd(w, P, l.at + 1))
      BY <1>4, <2>2 DEF OrLoop
    <3>2. ASSUME l.ok, Peek(w, l.at) = "COMMA"
          PROVE  ParseAnd(w, P, l.at + 1) \in Outcomes(w, l.at + 1)
      BY <1>0, <2>1, <3>2, CallsOutcome
    <3> QED
      BY <2>2, <3>1, <3>2 DEF Separator
  <2>3. CASE x # "or"
    <3>1. P[c] = Round(w, "AND", l, "SEMI", ParsePrimary(w, P, l.at + 1))
      BY <1>4, <2>3 DEF AndLoop
    <3>2. ASSUME l.ok, Peek(w, l.at) = "SEMI"
          PROVE  ParsePrimary(w, P, l.at + 1) \in Outcomes(w, l.at + 1)
      BY <1>0, <2>1, <3>2, PrimaryOutcome
    <3> QED
      BY <2>3, <3>1, <3>2 DEF Separator
  <2> QED
    BY <2>2, <2>3
<1>6. PICK o, right :
          /\ o \in {"AND", "OR"} /\ P[c] = Round(w, o, l, Separator(x), right)
          /\ l.ok /\ Peek(w, l.at) = Separator(x) => right \in Outcomes(w, l.at + 1)
  BY <1>5
<1>7. CASE ~l.ok \/ Peek(w, l.at) # Separator(x)
  BY <1>6, <1>7 DEF Follows, Round, P, l, c
<1>8. CASE l.ok /\ Peek(w, l.at) = Separator(x) /\ ~right.ok
  BY <1>6, <1>8, ParsedFields DEF Follows, Round, P, l, c
<1>9. CASE l.ok /\ Peek(w, l.at) = Separator(x) /\ right.ok
  <2>0. Separator(x) \in Punctuation
    BY DEF Separator, Punctuation
  <2>1. l.at \in 1 .. Len(w) /\ l.at <= Len(w)
    BY <1>3, <1>9, <2>0, AfterSeparator
  <2>2. right \in Outcomes(w, l.at + 1)
    BY <1>6, <1>9
  <2>3. right.at > l.at + 1 /\ right.at \in 1 .. Len(w) + 1
    BY <1>9, <2>2, ResultFields DEF Outcomes
  <2>4. right.at > l.at
    BY <2>1, <2>3
  <2>5. P[c] = Join(o, l, right)
    BY <1>6, <1>9 DEF Round
  <2>6. P[c].at = right.at
    BY <1>3, <1>6, <1>9, <2>1, <2>2, <2>5, JoinOutcome
  <2> QED
    BY <1>9, <2>4, <2>6 DEF Follows, P, l, c
<1> QED
  BY <1>7, <1>8, <1>9

LEMMA FollowsLater ==
    ASSUME NEW w \in Seq(Token), NEW x \in {"or", "and"}, NEW i \in 1 .. Len(w) + 1,
           NEW n \in 0 .. Len(w)
    PROVE  \A m \in n .. Len(w) :
              Follows(w, Separator(x), Parser(w)[<<x, i, n>>], Parser(w)[<<x, i, m>>])
<1> DEFINE P == Parser(w)
           S == n .. Len(w)
           sep == Separator(x)
           Good == {m \in S : Follows(w, sep, P[<<x, i, n>>], P[<<x, i, m>>])}
           rank == [m \in S |-> m]
<1>0. Len(w) \in Nat
  OBVIOUS
<1>a. \A m \in 0 .. Len(w) : P[<<x, i, m>>] \in Results(w)
  <2>1. P \in [LoopStates(w) -> Results(w)]
    BY ParserIs DEF Parses
  <2> QED
    BY <2>1 DEF LoopStates
<1>1. ASSUME NEW m \in S, \A k \in S : rank[k] < rank[m] => k \in Good
      PROVE  m \in Good
  <2>1. CASE m = n
    BY <2>1 DEF Follows
  <2>2. CASE m # n
    <3>1. m - 1 \in S /\ m \in 0 .. Len(w) /\ m - 1 \in 0 .. Len(w) /\ m # 0 /\ rank[m - 1] < rank[m]
      BY <1>0, <2>2
    <3>2. Follows(w, sep, P[<<x, i, n>>], P[<<x, i, m - 1>>])
      BY <1>1, <3>1
    <3>3. Follows(w, sep, P[<<x, i, m - 1>>], P[<<x, i, m>>])
      BY <3>1, FollowsRound
    <3> DEFINE r == P[<<x, i, n>>]
               q == P[<<x, i, m - 1>>]
               z == P[<<x, i, m>>]
    <3>4. r \in Results(w) /\ q \in Results(w) /\ z \in Results(w)
      BY <1>a, <3>1
    <3> HIDE DEF r, q, z, P, sep
    <3>5. /\ r.ok => r.at \in 1 .. Len(w) + 1
          /\ q.ok => q.at \in 1 .. Len(w) + 1
          /\ z.ok => z.at \in 1 .. Len(w) + 1
      BY <3>4, ResultFields
    <3>6. Follows(w, sep, r, q) /\ Follows(w, sep, q, z)
      BY <3>2, <3>3 DEF r, q, z
    <3>7. z = r \/ ~z.ok \/ (r.ok /\ z.at > r.at)
      <4>1. CASE z = q
        BY <3>6, <4>1 DEF Follows
      <4>2. CASE z.ok /\ q.ok /\ z.at > q.at
        <5>1. q = r \/ (r.ok /\ q.at > r.at)
          BY <3>6, <4>2 DEF Follows
        <5> QED
          BY <1>0, <3>5, <4>2, <5>1
      <4> QED
        BY <3>6, <4>1, <4>2 DEF Follows
    <3>8. r.ok /\ Peek(w, r.at) # sep => z = r
      BY <3>6 DEF Follows
    <3>9. Follows(w, sep, r, z)
      BY <3>7, <3>8 DEF Follows
    <3> QED
      BY <3>9 DEF r, z
  <2> QED
    BY <2>1, <2>2
<1>2. rank \in [S -> Nat]
  BY <1>0
<1>3. \A m \in S : m \in Good
  <2> HIDE DEF Good, S, rank
  <2> QED
    BY <1>1, <1>2, Induction
<1> QED
  BY <1>3

\* Two rounds that end at the same place end with the same result.
LEMMA SameEnd ==
    ASSUME NEW w \in Seq(Token), NEW x \in {"or", "and"}, NEW i \in 1 .. Len(w) + 1,
           NEW n \in 0 .. Len(w), NEW m \in 0 .. Len(w),
           Parser(w)[<<x, i, n>>].ok, Parser(w)[<<x, i, m>>].ok,
           Parser(w)[<<x, i, n>>].at = Parser(w)[<<x, i, m>>].at
    PROVE  Parser(w)[<<x, i, n>>] = Parser(w)[<<x, i, m>>]
<1> DEFINE r == Parser(w)[<<x, i, n>>]
           q == Parser(w)[<<x, i, m>>]
<1>1. <<x, i, n>> \in LoopStates(w)
  BY DEF LoopStates
<1>2. r \in Results(w)
  BY <1>1, ParserIs DEF Parses
<1>3. r.at \in 1 .. Len(w) + 1
  BY <1>2, ResultFields
<1>4. ~(r.at > q.at) /\ ~(q.at > r.at)
  <2> HIDE DEF r, q
  <2>1. r.at = q.at
    BY DEF r, q
  <2> QED
    BY <1>3, <2>1
<1>5. n \in 0 .. Len(w) /\ m \in 0 .. Len(w) /\ (m \in n .. Len(w) \/ n \in m .. Len(w))
  OBVIOUS
<1>6. Follows(w, Separator(x), r, q) \/ Follows(w, Separator(x), q, r)
  BY <1>5, FollowsLater
<1> QED
  BY <1>4, <1>6 DEF Follows

Ends(r, j) == r.ok /\ r.at = j

\* Some round of the loop of rule x at i ends at j, its tree means no less than
\* the X from i to j.
Reaches(w, X, x, i, j) ==
    \E n \in 0 .. j - i - 1 :
        /\ n \in 0 .. Len(w) /\ Ends(Parser(w)[<<x, i, n>>], j)
        /\ \A row \in Row : M(w, row, X, i, j) => Value(Parser(w)[<<x, i, n>>], row)

LEMMA TJoins ==
    ASSUME NEW w \in Seq(Token), NEW i \in 1 .. Len(w) + 1, NEW j \in 1 .. Len(w) + 1,
           NEW k \in i .. j - 1, w[k] = "SEMI", NEW n \in 0 .. k - i - 1,
           Ends(Parser(w)[<<"and", i, n>>], k), Ends(ParsePrimary(w, Parser(w), k + 1), j)
    PROVE  /\ n + 1 \in 0 .. j - i - 1 /\ n + 1 \in 0 .. Len(w)
           /\ Ends(Parser(w)[<<"and", i, n + 1>>], j)
           /\ \A row \in Row :
                Value(Parser(w)[<<"and", i, n + 1>>], row) <=>
                    Value(Parser(w)[<<"and", i, n>>], row) /\ Value(ParsePrimary(w, Parser(w), k + 1), row)
<1> DEFINE P == Parser(w)
           c == <<"and", i, n + 1>>
           l == P[<<"and", i, n>>]
           r == ParsePrimary(w, P, k + 1)
<1>0. P \in Parses(w) /\ \A d \in LoopStates(w) : P[d] = ParserStep(w, P, d)
  BY ParserIs
<1>1. /\ Len(w) \in Nat /\ k \in 1 .. Len(w) /\ k + 1 \in 1 .. Len(w) + 1
      /\ n \in 0 .. Len(w) /\ n + 1 \in 0 .. Len(w) /\ n + 1 \in 0 .. j - i - 1
  OBVIOUS
<1>2. c \in LoopStates(w) /\ c[1] = "and" /\ c[2] = i /\ c[3] = n + 1
  BY <1>1 DEF LoopStates
<1>3. <<"and", i, n>> \in LoopStates(w) /\ <<"and", i, n>>[2] = i
  BY <1>1 DEF LoopStates
<1>4. l \in Outcomes(w, i)
  BY <1>0, <1>3 DEF Parses
<1>5. r \in Outcomes(w, k + 1)
  BY <1>0, <1>1, CallsOutcome, PrimaryOutcome
<1>6. l.ok /\ l.at = k /\ r.ok /\ r.at = j
  BY DEF Ends
<1>7. P[c] = Round(w, "AND", l, "SEMI", ParsePrimary(w, P, l.at + 1))
  <2>1. n + 1 # 0 /\ n + 1 - 1 = n
    OBVIOUS
  <2>2. P[c] = AndLoop(w, P, P[<<c[1], c[2], c[3] - 1>>])
    BY <1>0, <1>2, <2>1 DEF ParserStep
  <2>3. P[<<c[1], c[2], c[3] - 1>>] = l
    <3>1. c[3] - 1 = n
      BY <1>2, <2>1
    <3> HIDE DEF c, P
    <3> QED
      BY <1>2, <3>1
  <2> QED
    BY <2>2, <2>3 DEF AndLoop
<1>8. Peek(w, l.at) = "SEMI"
  BY <1>1, <1>6 DEF Peek
<1>9. P[c] = Join("AND", l, r)
  BY <1>6, <1>7, <1>8 DEF Round
<1> HIDE DEF P, c, l, r
<1>10. l.at <= Len(w) /\ r \in Outcomes(w, l.at + 1)
  BY <1>1, <1>5, <1>6
<1>11. P[c].ok /\ P[c].at = j
  BY <1>4, <1>6, <1>9, <1>10, JoinOutcome
<1>12. \A row \in Row : Value(P[c], row) <=> Value(l, row) /\ Value(r, row)
  BY <1>4, <1>6, <1>9, <1>10, JoinMeans
<1> QED
  BY <1>1, <1>11, <1>12 DEF P, c, l, r, Ends

\* One round for every connective: all derivations lead to the same result.
LEMMA TComplete ==
    ASSUME NEW w \in Seq(Token), NEW i \in 1 .. Len(w) + 1, NEW j \in 1 .. Len(w) + 1,
           D(w, "T", i, j),
           D(w, "F", i, j) =>
              /\ Ends(Parser(w)[<<"and", i, 0>>], j)
              /\ \A row \in Row : M(w, row, "F", i, j) => Value(Parser(w)[<<"and", i, 0>>], row),
           \A k \in i .. j - 1 : w[k] = "SEMI" /\ D(w, "T", i, k) /\ D(w, "F", k + 1, j) =>
              /\ Reaches(w, "T", "and", i, k)
              /\ Ends(ParsePrimary(w, Parser(w), k + 1), j)
              /\ \A row \in Row :
                    M(w, row, "F", k + 1, j) => Value(ParsePrimary(w, Parser(w), k + 1), row)
    PROVE  Reaches(w, "T", "and", i, j)
<1> DEFINE P == Parser(w)
           Cut(k) == w[k] = "SEMI" /\ D(w, "T", i, k) /\ D(w, "F", k + 1, j)
           Found(n) == n \in 0 .. j - i - 1 /\ n \in 0 .. Len(w) /\ Ends(P[<<"and", i, n>>], j)
<1>1. ASSUME D(w, "F", i, j)
      PROVE  /\ Found(0)
             /\ \A row \in Row : M(w, row, "F", i, j) => Value(P[<<"and", i, 0>>], row)
  <2>1. <<"and", i, 0>> \in LoopStates(w) /\ <<"and", i, 0>>[2] = i /\ Len(w) \in Nat
    BY DEF LoopStates
  <2>2. P[<<"and", i, 0>>] \in Outcomes(w, i)
    BY <2>1, ParserIs DEF Parses
  <2>3. P[<<"and", i, 0>>].ok /\ P[<<"and", i, 0>>].at = j
    BY <1>1 DEF Ends
  <2>4. j > i
    BY <2>2, <2>3 DEF Outcomes
  <2> QED
    BY <1>1, <2>1, <2>4
<1>2. ASSUME NEW k \in i .. j - 1, Cut(k)
      PROVE  \E n : /\ Found(n)
                    /\ \A row \in Row :
                            M(w, row, "T", i, k) /\ M(w, row, "F", k + 1, j) =>
                                Value(P[<<"and", i, n>>], row)
  <2>1. PICK n \in 0 .. k - i - 1 :
            /\ Ends(P[<<"and", i, n>>], k)
            /\ \A row \in Row : M(w, row, "T", i, k) => Value(P[<<"and", i, n>>], row)
    BY <1>2 DEF Reaches
  <2>2. /\ Ends(ParsePrimary(w, P, k + 1), j)
        /\ \A row \in Row : M(w, row, "F", k + 1, j) => Value(ParsePrimary(w, P, k + 1), row)
    BY <1>2
  <2>3. /\ n + 1 \in 0 .. j - i - 1 /\ n + 1 \in 0 .. Len(w) /\ Ends(P[<<"and", i, n + 1>>], j)
        /\ \A row \in Row :
              Value(P[<<"and", i, n + 1>>], row) <=>
                  Value(P[<<"and", i, n>>], row) /\ Value(ParsePrimary(w, P, k + 1), row)
    BY <1>2, <2>1, <2>2, TJoins
  <2>4. Found(n + 1)
    BY <2>3
  <2>5. ASSUME NEW row \in Row, M(w, row, "T", i, k) /\ M(w, row, "F", k + 1, j)
        PROVE  Value(P[<<"and", i, n + 1>>], row)
    BY <2>1, <2>2, <2>3, <2>5
  <2> QED
    BY <2>4, <2>5
<1>3. \E n : Found(n)
  <2>1. D(w, "F", i, j) \/ \E k \in i .. j - 1 : Cut(k)
    BY DerivesIs
  <2> QED
    BY <1>1, <1>2, <2>1
<1>4. PICK n : Found(n)
  BY <1>3
<1>5. ASSUME NEW m, Found(m) PROVE P[<<"and", i, m>>] = P[<<"and", i, n>>]
  BY <1>4, <1>5, SameEnd DEF Ends
<1>6. ASSUME NEW row \in Row, M(w, row, "T", i, j) PROVE Value(P[<<"and", i, n>>], row)
  <2>1. \/ D(w, "F", i, j) /\ M(w, row, "F", i, j)
        \/ \E k \in i .. j - 1 :
              Cut(k) /\ (M(w, row, "T", i, k) /\ M(w, row, "F", k + 1, j))
    BY <1>6, MeansIs
  <2> HIDE DEF Found, P
  <2>2. CASE D(w, "F", i, j) /\ M(w, row, "F", i, j)
    <3>1. Found(0) /\ Value(P[<<"and", i, 0>>], row)
      BY <1>1, <2>2
    <3> QED
      BY <1>5, <3>1
  <2>3. CASE \E k \in i .. j - 1 :
              Cut(k) /\ (M(w, row, "T", i, k) /\ M(w, row, "F", k + 1, j))
    <3>1. PICK k \in i .. j - 1 :
              Cut(k) /\ (M(w, row, "T", i, k) /\ M(w, row, "F", k + 1, j))
      BY <2>3
    <3> HIDE DEF Cut
    <3>2. PICK m : Found(m) /\ Value(P[<<"and", i, m>>], row)
      BY <1>2, <3>1
    <3> QED
      BY <1>5, <3>2
  <2> QED
    BY <2>1, <2>2, <2>3
<1> QED
  BY <1>4, <1>6 DEF Reaches

LEMMA EJoins ==
    ASSUME NEW w \in Seq(Token), NEW i \in 1 .. Len(w) + 1, NEW j \in 1 .. Len(w) + 1,
           NEW k \in i .. j - 1, w[k] = "COMMA", NEW n \in 0 .. k - i - 1,
           Ends(Parser(w)[<<"or", i, n>>], k), Ends(ParseAnd(w, Parser(w), k + 1), j)
    PROVE  /\ n + 1 \in 0 .. j - i - 1 /\ n + 1 \in 0 .. Len(w)
           /\ Ends(Parser(w)[<<"or", i, n + 1>>], j)
           /\ \A row \in Row :
                Value(Parser(w)[<<"or", i, n + 1>>], row) <=>
                    Value(Parser(w)[<<"or", i, n>>], row) \/ Value(ParseAnd(w, Parser(w), k + 1), row)
<1> DEFINE P == Parser(w)
           c == <<"or", i, n + 1>>
           l == P[<<"or", i, n>>]
           r == ParseAnd(w, P, k + 1)
<1>0. P \in Parses(w) /\ \A d \in LoopStates(w) : P[d] = ParserStep(w, P, d)
  BY ParserIs
<1>1. /\ Len(w) \in Nat /\ k \in 1 .. Len(w) /\ k + 1 \in 1 .. Len(w) + 1
      /\ n \in 0 .. Len(w) /\ n + 1 \in 0 .. Len(w) /\ n + 1 \in 0 .. j - i - 1
  OBVIOUS
<1>2. c \in LoopStates(w) /\ c[1] = "or" /\ c[2] = i /\ c[3] = n + 1
  BY <1>1 DEF LoopStates
<1>3. <<"or", i, n>> \in LoopStates(w) /\ <<"or", i, n>>[2] = i
  BY <1>1 DEF LoopStates
<1>4. l \in Outcomes(w, i)
  BY <1>0, <1>3 DEF Parses
<1>5. r \in Outcomes(w, k + 1)
  BY <1>0, <1>1, CallsOutcome, PrimaryOutcome
<1>6. l.ok /\ l.at = k /\ r.ok /\ r.at = j
  BY DEF Ends
<1>7. P[c] = Round(w, "OR", l, "COMMA", ParseAnd(w, P, l.at + 1))
  <2>1. n + 1 # 0 /\ n + 1 - 1 = n
    OBVIOUS
  <2>2. P[c] = OrLoop(w, P, P[<<c[1], c[2], c[3] - 1>>])
    BY <1>0, <1>2, <2>1 DEF ParserStep
  <2>3. P[<<c[1], c[2], c[3] - 1>>] = l
    <3>1. c[3] - 1 = n
      BY <1>2, <2>1
    <3> HIDE DEF c, P
    <3> QED
      BY <1>2, <3>1
  <2> QED
    BY <2>2, <2>3 DEF OrLoop
<1>8. Peek(w, l.at) = "COMMA"
  BY <1>1, <1>6 DEF Peek
<1>9. P[c] = Join("OR", l, r)
  BY <1>6, <1>7, <1>8 DEF Round
<1> HIDE DEF P, c, l, r
<1>10. l.at <= Len(w) /\ r \in Outcomes(w, l.at + 1)
  BY <1>1, <1>5, <1>6
<1>11. P[c].ok /\ P[c].at = j
  BY <1>4, <1>6, <1>9, <1>10, JoinOutcome
<1>12. \A row \in Row : Value(P[c], row) <=> Value(l, row) \/ Value(r, row)
  BY <1>4, <1>6, <1>9, <1>10, JoinMeans
<1> QED
  BY <1>1, <1>11, <1>12 DEF P, c, l, r, Ends

\* One round for every connective: all derivations lead to the same result.
LEMMA EComplete ==
    ASSUME NEW w \in Seq(Token), NEW i \in 1 .. Len(w) + 1, NEW j \in 1 .. Len(w) + 1,
           D(w, "E", i, j),
           D(w, "T", i, j) =>
              /\ Ends(Parser(w)[<<"or", i, 0>>], j)
              /\ \A row \in Row : M(w, row, "T", i, j) => Value(Parser(w)[<<"or", i, 0>>], row),
           \A k \in i .. j - 1 : w[k] = "COMMA" /\ D(w, "E", i, k) /\ D(w, "T", k + 1, j) =>
              /\ Reaches(w, "E", "or", i, k)
              /\ Ends(ParseAnd(w, Parser(w), k + 1), j)
              /\ \A row \in Row :
                    M(w, row, "T", k + 1, j) => Value(ParseAnd(w, Parser(w), k + 1), row)
    PROVE  Reaches(w, "E", "or", i, j)
<1> DEFINE P == Parser(w)
           Cut(k) == w[k] = "COMMA" /\ D(w, "E", i, k) /\ D(w, "T", k + 1, j)
           Found(n) == n \in 0 .. j - i - 1 /\ n \in 0 .. Len(w) /\ Ends(P[<<"or", i, n>>], j)
<1>1. ASSUME D(w, "T", i, j)
      PROVE  /\ Found(0)
             /\ \A row \in Row : M(w, row, "T", i, j) => Value(P[<<"or", i, 0>>], row)
  <2>1. <<"or", i, 0>> \in LoopStates(w) /\ <<"or", i, 0>>[2] = i /\ Len(w) \in Nat
    BY DEF LoopStates
  <2>2. P[<<"or", i, 0>>] \in Outcomes(w, i)
    BY <2>1, ParserIs DEF Parses
  <2>3. P[<<"or", i, 0>>].ok /\ P[<<"or", i, 0>>].at = j
    BY <1>1 DEF Ends
  <2>4. j > i
    BY <2>2, <2>3 DEF Outcomes
  <2> QED
    BY <1>1, <2>1, <2>4
<1>2. ASSUME NEW k \in i .. j - 1, Cut(k)
      PROVE  \E n : /\ Found(n)
                    /\ \A row \in Row :
                            M(w, row, "E", i, k) \/ M(w, row, "T", k + 1, j) =>
                                Value(P[<<"or", i, n>>], row)
  <2>1. PICK n \in 0 .. k - i - 1 :
            /\ Ends(P[<<"or", i, n>>], k)
            /\ \A row \in Row : M(w, row, "E", i, k) => Value(P[<<"or", i, n>>], row)
    BY <1>2 DEF Reaches
  <2>2. /\ Ends(ParseAnd(w, P, k + 1), j)
        /\ \A row \in Row : M(w, row, "T", k + 1, j) => Value(ParseAnd(w, P, k + 1), row)
    BY <1>2
  <2>3. /\ n + 1 \in 0 .. j - i - 1 /\ n + 1 \in 0 .. Len(w) /\ Ends(P[<<"or", i, n + 1>>], j)
        /\ \A row \in Row :
              Value(P[<<"or", i, n + 1>>], row) <=>
                  Value(P[<<"or", i, n>>], row) \/ Value(ParseAnd(w, P, k + 1), row)
    BY <1>2, <2>1, <2>2, EJoins
  <2>4. Found(n + 1)
    BY <2>3
  <2>5. ASSUME NEW row \in Row, M(w, row, "E", i, k) \/ M(w, row, "T", k + 1, j)
        PROVE  Value(P[<<"or", i, n + 1>>], row)
    BY <2>1, <2>2, <2>3, <2>5
  <2> QED
    BY <2>4, <2>5
<1>3. \E n : Found(n)
  <2>1. D(w, "T", i, j) \/ \E k \in i .. j - 1 : Cut(k)
    BY DerivesIs
  <2> QED
    BY <1>1, <1>2, <2>1
<1>4. PICK n : Found(n)
  BY <1>3
<1>5. ASSUME NEW m, Found(m) PROVE P[<<"or", i, m>>] = P[<<"or", i, n>>]
  BY <1>4, <1>5, SameEnd DEF Ends
<1>6. ASSUME NEW row \in Row, M(w, row, "E", i, j) PROVE Value(P[<<"or", i, n>>], row)
  <2>1. \/ D(w, "T", i, j) /\ M(w, row, "T", i, j)
        \/ \E k \in i .. j - 1 :
              Cut(k) /\ (M(w, row, "E", i, k) \/ M(w, row, "T", k + 1, j))
    BY <1>6, MeansIs
  <2> HIDE DEF Found, P
  <2>2. CASE D(w, "T", i, j) /\ M(w, row, "T", i, j)
    <3>1. Found(0) /\ Value(P[<<"or", i, 0>>], row)
      BY <1>1, <2>2
    <3> QED
      BY <1>5, <3>1
  <2>3. CASE \E k \in i .. j - 1 :
              Cut(k) /\ (M(w, row, "E", i, k) \/ M(w, row, "T", k + 1, j))
    <3>1. PICK k \in i .. j - 1 :
              Cut(k) /\ (M(w, row, "E", i, k) \/ M(w, row, "T", k + 1, j))
      BY <2>3
    <3> HIDE DEF Cut
    <3>2. PICK m : Found(m) /\ Value(P[<<"or", i, m>>], row)
      BY <1>2, <3>1
    <3> QED
      BY <1>5, <3>2
  <2> QED
    BY <2>1, <2>2, <2>3
<1> QED
  BY <1>4, <1>6 DEF Reaches

\* A call returns at j, and its tree means no less than the X from i to j.
Covers(w, X, r, i, j) ==
    Ends(r, j) /\ \A row \in Row : M(w, row, X, i, j) => Value(r, row)

LEMMA FirstRounds ==
    ASSUME NEW w \in Seq(Token), NEW i \in 1 .. Len(w) + 1
    PROVE  /\ Parser(w)[<<"or", i, 0>>] = ParseAnd(w, Parser(w), i)
           /\ Parser(w)[<<"and", i, 0>>] = ParsePrimary(w, Parser(w), i)
<1>1. /\ <<"or", i, 0>> \in LoopStates(w) /\ <<"and", i, 0>> \in LoopStates(w)
      /\ Len(w) \in Nat
  BY DEF LoopStates
<1>2. /\ Parser(w)[<<"or", i, 0>>] = ParserStep(w, Parser(w), <<"or", i, 0>>)
      /\ Parser(w)[<<"and", i, 0>>] = ParserStep(w, Parser(w), <<"and", i, 0>>)
  BY <1>1, ParserIs
<1> QED
  BY <1>2 DEF ParserStep

\* A loop that reaches a place where its separator is missing ends there.
LEMMA LastRound ==
    ASSUME NEW w \in Seq(Token), NEW x \in {"or", "and"}, NEW X, NEW i \in 1 .. Len(w) + 1,
           NEW j \in 1 .. Len(w) + 1, Reaches(w, X, x, i, j), Peek(w, j) # Separator(x)
    PROVE  Covers(w, X, Parser(w)[<<x, i, Len(w)>>], i, j)
<1>1. PICK n \in 0 .. j - i - 1 :
          /\ n \in 0 .. Len(w) /\ Ends(Parser(w)[<<x, i, n>>], j)
          /\ \A row \in Row : M(w, row, X, i, j) => Value(Parser(w)[<<x, i, n>>], row)
  BY DEF Reaches
<1>2. n \in 0 .. Len(w) /\ Len(w) \in n .. Len(w)
  BY <1>1
<1>3. Follows(w, Separator(x), Parser(w)[<<x, i, n>>], Parser(w)[<<x, i, Len(w)>>])
  BY <1>2, FollowsLater
<1>4. Parser(w)[<<x, i, Len(w)>>] = Parser(w)[<<x, i, n>>]
  BY <1>1, <1>3 DEF Follows, Ends
<1> QED
  BY <1>1, <1>4 DEF Covers

LEMMA FComplete ==
    ASSUME NEW w \in Seq(Token), NEW i \in 1 .. Len(w) + 1, NEW j \in 1 .. Len(w) + 1,
           D(w, "F", i, j),
           i + 1 < j /\ D(w, "E", i + 1, j - 1) /\ Peek(w, j - 1) # "SEMI" =>
              Reaches(w, "E", "or", i + 1, j - 1)
    PROVE  Covers(w, "F", ParsePrimary(w, Parser(w), i), i, j)
<1> DEFINE P == Parser(w)
           r == ParseOr(w, P, i + 1)
<1>0. Len(w) \in Nat /\ Field \cap Punctuation = {}
  BY SchemaAssumption
<1>1. CASE j = i + 1 /\ w[i] \in Field
  <2>1. i \in 1 .. Len(w) /\ Peek(w, i) = w[i]
    BY <1>0, <1>1 DEF Peek
  <2>2. w[i] # "LPAREN"
    BY <1>0, <1>1 DEF Punctuation
  <2>3. ParsePrimary(w, P, i) = ParseComparison(w, i)
    BY <2>1, <2>2 DEF ParsePrimary
  <2>4. /\ ParseComparison(w, i).ok /\ ParseComparison(w, i).at = i + 1
        /\ \A row \in Row : Value(ParseComparison(w, i), row) <=> row[w[i]]
    BY <1>1, <2>1, ComparisonMeans
  <2>5. ASSUME NEW row \in Row, M(w, row, "F", i, j) PROVE row[w[i]]
    BY <1>0, <1>1, <2>5, MeansIs
  <2> QED
    BY <1>1, <2>3, <2>4, <2>5 DEF Covers, Ends
<1>2. CASE i + 1 < j /\ w[i] = "LPAREN" /\ w[j - 1] = "RPAREN" /\ D(w, "E", i + 1, j - 1)
  <2>1. /\ i \in 1 .. Len(w) /\ i + 1 \in 1 .. Len(w) + 1
        /\ j - 1 \in 1 .. Len(w) + 1 /\ j - 1 \in 1 .. Len(w) /\ (j - 1) + 1 = j
    BY <1>0, <1>2
  <2>2. Peek(w, i) = "LPAREN" /\ Peek(w, j - 1) = "RPAREN"
    BY <1>0, <1>2, <2>1 DEF Peek
  <2>3. Reaches(w, "E", "or", i + 1, j - 1)
    BY <1>2, <2>2
  <2>4. Peek(w, j - 1) # Separator("or")
    BY <2>2 DEF Separator
  <2>5. Covers(w, "E", r, i + 1, j - 1)
    BY <2>1, <2>3, <2>4, LastRound DEF ParseOr
  <2>6. ParsePrimary(w, P, i) = Parsed(r.node, r.at + 1, r.tree)
    BY <2>2, <2>5 DEF ParsePrimary, Covers, Ends
  <2> HIDE DEF r
  <2>7. /\ Ends(ParsePrimary(w, P, i), j)
        /\ \A row \in Row : Value(ParsePrimary(w, P, i), row) = Value(r, row)
    BY <2>1, <2>5, <2>6, ParsedFields DEF Ends, Covers, Value
  <2>8. ASSUME NEW row \in Row, M(w, row, "F", i, j) PROVE M(w, row, "E", i + 1, j - 1)
    <3>1. j # i + 1
      BY <1>2
    <3> QED
      BY <2>8, <3>1, MeansIs
  <2> QED
    BY <2>5, <2>7, <2>8 DEF Covers
<1> QED
  BY <1>1, <1>2, DerivesIs

\* What the parser makes of a part of the grammar.  An E before a semicolon is
\* not an E of the parser: its last T goes on.
Followed(w, s) ==
    /\ s[1] = "F" => Covers(w, "F", ParsePrimary(w, Parser(w), s[2]), s[2], s[3])
    /\ s[1] = "T" => Reaches(w, "T", "and", s[2], s[3])
    /\ s[1] = "E" /\ Peek(w, s[3]) # "SEMI" => Reaches(w, "E", "or", s[2], s[3])

LEMMA ParserComplete ==
    ASSUME NEW w \in Seq(Token)
    PROVE  \A s \in Spans(w) : Derives(w)[s] => Followed(w, s)
<1> DEFINE P == Parser(w)
           S == Spans(w)
           Good == {s \in S : Derives(w)[s] => Followed(w, s)}
<1>0. Len(w) \in Nat
  OBVIOUS
<1>1. ASSUME NEW s \in S, \A d \in S : SpanWeight(w)[d] < SpanWeight(w)[s] => d \in Good
      PROVE  s \in Good
  <2> DEFINE i == s[2]
             j == s[3]
  <2>1. /\ s = <<s[1], i, j>> /\ s[1] \in {"E", "T", "F"}
        /\ i \in 1 .. Len(w) + 1 /\ j \in 1 .. Len(w) + 1
    BY DEF Spans
  <2>2. ASSUME NEW d, Shorter(w, s, d), Derives(w)[d] PROVE Followed(w, d)
    BY <1>1, <2>2 DEF Shorter
  <2>3. ASSUME NEW X \in {"E", "T", "F"}, NEW a, NEW b, Shorter(w, s, <<X, a, b>>), D(w, X, a, b)
        PROVE  /\ X = "F" => Covers(w, "F", ParsePrimary(w, P, a), a, b)
               /\ X = "T" => Reaches(w, "T", "and", a, b)
               /\ X = "E" /\ Peek(w, b) # "SEMI" => Reaches(w, "E", "or", a, b)
    BY <2>2, <2>3 DEF D, Followed
  <2> SUFFICES ASSUME Derives(w)[s] PROVE Followed(w, s)
    OBVIOUS
  <2> HIDE DEF Good, S, P
  <2>4. D(w, s[1], i, j)
    BY <2>1 DEF D
  <2>5. /\ s[1] = "E" => Shorter(w, s, <<"T", i, j>>)
        /\ s[1] = "T" => Shorter(w, s, <<"F", i, j>>)
        /\ \A k \in i .. j - 1 : \A X \in {"E", "T", "F"} :
              Shorter(w, s, <<X, i, k>>) /\ Shorter(w, s, <<X, k + 1, j>>)
        /\ i + 1 < j => Shorter(w, s, <<"E", i + 1, j - 1>>)
    BY SpanWeights DEF S
  <2> HIDE DEF i, j
  <2>6. ASSUME NEW k \in i .. j - 1
        PROVE  k \in 1 .. Len(w) + 1 /\ k + 1 \in 1 .. Len(w) + 1 /\ k \in 1 .. Len(w)
    BY <1>0, <2>1
  <2>7. CASE s[1] = "F"
    <3>1. ASSUME i + 1 < j, D(w, "E", i + 1, j - 1), Peek(w, j - 1) # "SEMI"
          PROVE  Reaches(w, "E", "or", i + 1, j - 1)
      BY <2>3, <2>5, <3>1
    <3>2. Covers(w, "F", ParsePrimary(w, Parser(w), i), i, j)
      BY <2>1, <2>4, <2>7, <3>1, FComplete
    <3> QED
      BY <2>7, <3>2 DEF Followed, i, j
  <2>8. CASE s[1] = "T"
    <3>1. ASSUME D(w, "F", i, j)
          PROVE  /\ Ends(Parser(w)[<<"and", i, 0>>], j)
                 /\ \A row \in Row :
                        M(w, row, "F", i, j) => Value(Parser(w)[<<"and", i, 0>>], row)
      <4>1. Covers(w, "F", ParsePrimary(w, P, i), i, j)
        BY <2>3, <2>5, <2>8, <3>1
      <4> QED
        BY <2>1, <4>1, FirstRounds DEF Covers, P
    <3>2. ASSUME NEW k \in i .. j - 1, D(w, "T", i, k), D(w, "F", k + 1, j)
          PROVE  /\ Reaches(w, "T", "and", i, k)
                 /\ Ends(ParsePrimary(w, Parser(w), k + 1), j)
                 /\ \A row \in Row :
                        M(w, row, "F", k + 1, j) => Value(ParsePrimary(w, Parser(w), k + 1), row)
      <4>1. Reaches(w, "T", "and", i, k)
        BY <2>3, <2>5, <3>2
      <4>2. Covers(w, "F", ParsePrimary(w, P, k + 1), k + 1, j)
        BY <2>3, <2>5, <3>2
      <4> QED
        BY <4>1, <4>2 DEF Covers, P
    <3>3. Reaches(w, "T", "and", i, j)
      BY <2>1, <2>4, <2>8, <3>1, <3>2, TComplete
    <3> QED
      BY <2>8, <3>3 DEF Followed, i, j
  <2>9. CASE s[1] = "E" /\ Peek(w, j) # "SEMI"
    <3>0. Peek(w, j) # Separator("and")
      BY <2>9 DEF Separator
    <3>1. ASSUME D(w, "T", i, j)
          PROVE  /\ Ends(Parser(w)[<<"or", i, 0>>], j)
                 /\ \A row \in Row :
                        M(w, row, "T", i, j) => Value(Parser(w)[<<"or", i, 0>>], row)
      <4>1. Reaches(w, "T", "and", i, j)
        BY <2>3, <2>5, <2>9, <3>1
      <4>2. Covers(w, "T", ParseAnd(w, P, i), i, j)
        BY <2>1, <3>0, <4>1, LastRound DEF ParseAnd, P
      <4> QED
        BY <2>1, <4>2, FirstRounds DEF Covers, P
    <3>2. ASSUME NEW k \in i .. j - 1, w[k] = "COMMA", D(w, "E", i, k), D(w, "T", k + 1, j)
          PROVE  /\ Reaches(w, "E", "or", i, k)
                 /\ Ends(ParseAnd(w, Parser(w), k + 1), j)
                 /\ \A row \in Row :
                        M(w, row, "T", k + 1, j) => Value(ParseAnd(w, Parser(w), k + 1), row)
      <4>1. Peek(w, k) # "SEMI"
        BY <1>0, <2>6, <3>2 DEF Peek
      <4>2. Reaches(w, "E", "or", i, k)
        BY <2>3, <2>5, <3>2, <4>1
      <4>3. Reaches(w, "T", "and", k + 1, j)
        BY <2>3, <2>5, <3>2
      <4>4. k + 1 \in 1 .. Len(w) + 1
        BY <2>6
      <4>5. Covers(w, "T", ParseAnd(w, P, k + 1), k + 1, j)
        BY <2>1, <3>0, <4>3, <4>4, LastRound DEF ParseAnd, P
      <4> QED
        BY <4>2, <4>5 DEF Covers, P
    <3>3. Reaches(w, "E", "or", i, j)
      BY <2>1, <2>4, <2>9, <3>1, <3>2, EComplete
    <3> QED
      BY <2>9, <3>3 DEF Followed, i, j
  <2>10. CASE s[1] = "E" /\ Peek(w, j) = "SEMI"
    BY <2>10 DEF Followed, j
  <2> QED
    BY <2>1, <2>7, <2>8, <2>9, <2>10
<1>2. SpanWeight(w) \in [S -> Nat]
  <2>1. SpanWeight(w) \in [Spans(w) -> 0 .. 6 * Len(w) + 8]
    BY SpanWeights
  <2>2. 0 .. 6 * Len(w) + 8 \subseteq Nat
    BY <1>0
  <2> QED
    BY <2>1, <2>2
<1>3. \A s \in S : s \in Good
  <2> HIDE DEF Good, S
  <2> QED
    BY <1>1, <1>2, Induction
<1> QED
  BY <1>3

\* Means(w, row)[Whole(w)] is what M says of all of w.
Right(w, r) ==
    /\ r.ok <=> Derives(w)[Whole(w)]
    /\ r.ok => /\ r.node \in DOMAIN r.tree /\ r.node # Nil /\ TreeAt(w, r.tree, 1, Len(w) + 1)
               /\ \A row \in Row : Holds(r.tree, row)[r.node] <=> Means(w, row)[Whole(w)]

\* ParseFilter (parser.go) accepts every filter of the grammar and no other, and
\* the tree it returns means what the filter means, for filters of any length.
THEOREM FilterParsed ==
    ASSUME NEW w \in Seq(Token), w # <<>>
    PROVE  Right(w, ParseFilter(w))
<1> DEFINE P == Parser(w)
           r == ParseOr(w, P, 1)
           e == Len(w) + 1
           c == <<"or", 1, Len(w)>>
<1>1. Len(w) \in Nat /\ 1 \in 1 .. Len(w) + 1 /\ e \in 1 .. Len(w) + 1
  OBVIOUS
<1>2. Peek(w, e) = "EOF"
  BY <1>1, TokenAt
<1>3. r \in Outcomes(w, 1)
  BY <1>1, ParserIs, CallsOutcome
<1>4. Sound(w, "E", 1, r)
  <2>1. c \in LoopStates(w) /\ Symbol(c[1]) = "E" /\ c[2] = 1
    BY <1>1 DEF LoopStates, Symbol
  <2>2. Sound(w, Symbol(c[1]), c[2], P[c])
    <3> HIDE DEF c
    <3> QED
      BY <2>1, ParserSound
  <2> QED
    BY <2>1, <2>2 DEF ParseOr
<1>5. ASSUME D(w, "E", 1, e) PROVE Covers(w, "E", r, 1, e)
  <2> DEFINE s == <<"E", 1, e>>
  <2>1. s \in Spans(w) /\ s[1] = "E" /\ s[2] = 1 /\ s[3] = e
    BY <1>1 DEF Spans
  <2>2. Derives(w)[s]
    BY <1>5 DEF D
  <2> HIDE DEF s, e
  <2>3. Followed(w, s)
    BY <2>1, <2>2, ParserComplete
  <2>4. Reaches(w, "E", "or", 1, e)
    BY <1>2, <2>1, <2>3 DEF Followed
  <2>5. Peek(w, e) # Separator("or")
    BY <1>2 DEF Separator
  <2> QED
    BY <1>1, <2>4, <2>5, LastRound DEF ParseOr
<1>6. \A row : /\ Derives(w)[Whole(w)] <=> D(w, "E", 1, e)
               /\ Means(w, row)[Whole(w)] <=> M(w, row, "E", 1, e)
  BY DEF D, M, Whole
<1> HIDE DEF e, r
<1>7. CASE r.ok /\ Peek(w, r.at) = "EOF"
  <2>1. ParseFilter(w) = r
    BY <1>7 DEF ParseFilter, r
  <2>2. r.node \in 1 .. Len(w) /\ r.at \in 1 .. Len(w) + 1
    BY <1>3, <1>7, ResultFields DEF Outcomes
  <2>3. r.at = e
    BY <1>7, <2>2, TokenAt DEF e
  <2>4. D(w, "E", 1, e) /\ \A row \in Row : Value(r, row) => M(w, row, "E", 1, e)
    BY <1>4, <1>7, <2>3 DEF Sound
  <2>5. \A row \in Row : M(w, row, "E", 1, e) => Value(r, row)
    BY <1>5, <2>4 DEF Covers
  <2>6. r.node \in DOMAIN r.tree /\ r.node # Nil /\ TreeAt(w, r.tree, 1, Len(w) + 1)
    BY <1>3, <1>7, <2>2, <2>3 DEF Outcomes, Nil, e
  <2>7. \A row \in Row : Holds(r.tree, row)[r.node] <=> Means(w, row)[Whole(w)]
    BY <1>6, <2>4, <2>5 DEF Value
  <2> QED
    BY <1>6, <1>7, <2>1, <2>4, <2>6, <2>7 DEF Right
<1>8. CASE ~(r.ok /\ Peek(w, r.at) = "EOF")
  <2>1. ParseFilter(w) = Failure
    BY <1>8 DEF ParseFilter, r
  <2>2. ~D(w, "E", 1, e)
    BY <1>2, <1>5, <1>8 DEF Covers, Ends
  <2> QED
    BY <1>6, <2>1, <2>2, ParsedFields DEF Right
<1> QED
  BY <1>7, <1>8

\* The fields of a tree are comparisons of the filter.
LEMMA LeavesFrom ==
    ASSUME NEW w \in Seq(Token), NEW t, TreeAt(w, t, 1, Len(w) + 1)
    PROVE  \A n \in DOMAIN t : \A f \in Leaves(t)[n] :
              \E i \in DOMAIN w : w[i] \in Field /\ w[i] = f
<1> DEFINE From(f) == \E i \in DOMAIN w : w[i] \in Field /\ w[i] = f
           Good == {n \in DOMAIN t : \A f \in Leaves(t)[n] : From(f)}
<1>0. Tree(t) /\ DOMAIN t \subseteq DOMAIN w /\ \A n \in DOMAIN t : t[n].op = "cmp" => t[n].field = w[n]
  BY DEF TreeAt
<1>1. ASSUME NEW n \in DOMAIN t, t[n].op = "cmp", t[n].field \in Field PROVE n \in Good
  <2>1. Leaves(t)[n] = {t[n].field} /\ t[n].field = w[n]
    BY <1>0, <1>1, LeavesIs
  <2> QED
    BY <1>0, <1>1, <2>1
<1>2. ASSUME NEW n \in DOMAIN t, t[n].op \in {"AND", "OR"},
             t[n].left \in DOMAIN t \cap Good, t[n].right \in DOMAIN t \cap Good
      PROVE  n \in Good
  <2>1. Leaves(t)[n] = Leaves(t)[t[n].left] \cup Leaves(t)[t[n].right]
    BY <1>0, <1>2, LeavesIs
  <2> HIDE DEF From
  <2> QED
    BY <1>2, <2>1
<1>3. \A n \in DOMAIN t : n \in Good
  <2> HIDE DEF Good
  <2> QED
    BY <1>0, <1>1, <1>2, TreeInduction
<1> QED
  BY <1>3

-----------------------------------------------------------------------------
(* What requests may rely on                                               *)

\* t and n are what ParseFilter makes of w.
Accepted(w, t, n) == LET r == ParseFilter(w) IN r.ok /\ t = r.tree /\ n = r.node

\* What a request that goes on has made of its filter.
LEMMA InUse ==
    ASSUME NEW w \in Seq(Token), NEW t, NEW n, Accepted(w, t, n)
    PROVE  \/ w = <<>> /\ n = Nil
           \/ /\ w # <<>> /\ n # Nil /\ n \in DOMAIN t /\ Tree(t)
              /\ Derives(w)[Whole(w)]
              /\ \A row \in Row : Holds(t, row)[n] <=> Matches(w, row)
<1>1. CASE w = <<>>
  BY <1>1, ParsedFields DEF Accepted, ParseFilter
<1>2. CASE w # <<>>
  <2>1. Right(w, ParseFilter(w))
    BY <1>2, FilterParsed
  <2> QED
    BY <1>2, <2>1 DEF Right, Accepted, TreeAt, Matches
<1> QED
  BY <1>1, <1>2

\* A filter that ParseFilter or ValidateNode refuses is none of the grammar, or
\* has a field that the schema does not know.
THEOREM RefusedIsWrong ==
    ASSUME NEW w \in Seq(Token),
           LET r == ParseFilter(w) IN r.ok => ~ValidateNode(r.tree, r.node)
    PROVE  \/ w # <<>> /\ ~Derives(w)[Whole(w)]
           \/ \E i \in DOMAIN w : w[i] \in Field /\ Level[w[i]] = "unknown"
<1> DEFINE r == ParseFilter(w)
<1>1. r.ok => ~ValidateNode(r.tree, r.node)
  OBVIOUS
<1>2. w # <<>>
  BY <1>1, ParsedFields DEF ParseFilter, ValidateNode
<1>3. Right(w, r)
  BY <1>2, FilterParsed
<1> HIDE DEF r
<1>4. CASE ~r.ok
  BY <1>2, <1>3, <1>4 DEF Right
<1>5. CASE r.ok
  <2>1. r.node \in DOMAIN r.tree /\ TreeAt(w, r.tree, 1, Len(w) + 1)
    BY <1>3, <1>5 DEF Right
  <2>2. PICK f \in Leaves(r.tree)[r.node] : Level[f] = "unknown"
    BY <1>1, <1>5 DEF ValidateNode
  <2>3. PICK i \in DOMAIN w : w[i] \in Field /\ w[i] = f
    BY <2>1, LeavesFrom
  <2> QED
    BY <2>2, <2>3
<1> QED
  BY <1>4, <1>5

\* A row that matches a filter is in the WHERE clause that is made of it, and
\* passes the predicate (buildGORMScope and buildInMemoryFn of option.go).
THEOREM MatchesPass ==
    ASSUME NEW w \in Seq(Token), NEW t, NEW n, Accepted(w, t, n),
           NEW row \in Row, Matches(w, row)
    PROVE  Where(t, n, row) /\ Passes(t, n, row)
<1>1. CASE n = Nil
  BY <1>1 DEF Where, Passes, hasMemFilter
<1>2. CASE n # Nil
  <2>1. Tree(t) /\ n \in DOMAIN t /\ Holds(t, row)[n]
    BY <1>2, InUse
  <2>2. evalNode(t, row)[n] /\ \A c \in collectDBConds(t)[n] : Holds(t, row)[c]
    BY <2>1, HoldsPasses
  <2> QED
    BY <2>2 DEF Where, Passes
<1> QED
  BY <1>1, <1>2

\* A row in the WHERE clause that passes the predicate matches, whenever the
\* conditions can be built and no OR mixes a FilterFn with SQL (option.go).
THEOREM PassesMatch ==
    ASSUME NEW w \in Seq(Token), NEW t, NEW n, Accepted(w, t, n), ValidateNode(t, n),
           n # Nil => Separable(t)[n],
           NEW row \in Row, Where(t, n, row), Passes(t, n, row)
    PROVE  Matches(w, row)
<1>1. CASE n = Nil
  BY <1>1, InUse DEF Matches
<1>2. CASE n # Nil
  <2>1. Tree(t) /\ n \in DOMAIN t /\ (Holds(t, row)[n] <=> Matches(w, row))
    BY <1>2, InUse
  <2>2. evalNode(t, row)[n]
    <3>1. CASE hasMemFilter(t, n)
      BY <3>1 DEF Passes
    <3>2. CASE ~hasMemFilter(t, n)
      <4>1. \A f \in Leaves(t)[n] : Level[f] # "mem"
        BY <1>2, <3>2 DEF hasMemFilter
      <4> QED
        BY <2>1, <4>1, NoMem
    <3> QED
      BY <3>1, <3>2
  <2>3. /\ \A f \in Leaves(t)[n] : Level[f] # "unknown"
        /\ \A c \in collectDBConds(t)[n] : Holds(t, row)[c]
    BY <1>2 DEF ValidateNode, Where
  <2> QED
    BY <1>2, <2>1, <2>2, <2>3, PassesHolds
<1> QED
  BY <1>1, <1>2

=============================================================================
