------------------------- MODULE QueryRequestProofs -------------------------
(* The requests of QueryRequest, for every schema, table, filter, sort and    *)
(* limit: what QueryFilterProofs shows of filters, that results are in order, *)
(* and that the pages are the front of the rows that match and together all   *)
(* of them.                                                                   *)
EXTENDS QueryRequest, QueryFilterProofs, FiniteSetTheorems

-----------------------------------------------------------------------------
(* The place of a row                                                      *)

\* The rounds of a loop: step[n] makes of the value before round n the next one.
Rounds(N, V, base, step) == N \in Nat /\ base \in V /\ step \in [1 .. N -> [V -> V]]

LEMMA Loop ==
    ASSUME NEW N, NEW V, NEW base, NEW step, Rounds(N, V, base, step)
    PROVE  \E f \in [0 .. N -> V] :
              f = [n \in 0 .. N |-> IF n = 0 THEN base ELSE step[n][f[n - 1]]]
<1> DEFINE S == 0 .. N
           F == [S -> V]
           once(f) == [n \in S |-> IF n = 0 THEN base ELSE step[n][f[n - 1]]]
           next == [f \in F |-> once(f)]
           m == [n \in S |-> n]
<1> USE DEF Rounds
<1>0. \A n \in S : n # 0 => n \in 1 .. N /\ n - 1 \in S /\ m[n - 1] < m[n]
  OBVIOUS
<1>1. \A f \in F : once(f) \in F
  <2> SUFFICES ASSUME NEW f \in F, NEW n \in S PROVE once(f)[n] \in V
    OBVIOUS
  <2>1. n # 0 => step[n] \in [V -> V] /\ f[n - 1] \in V
    BY <1>0
  <2> QED
    BY <2>1
<1>2. next \in [F -> F] /\ \A f \in F : next[f] = once(f)
  BY <1>1
<1>3. \A f, g \in F : \A n \in S :
          (\A k \in S : m[k] < m[n] => f[k] = g[k]) => next[f][n] = next[g][n]
  <2> SUFFICES ASSUME NEW f \in F, NEW g \in F, NEW n \in S,
                      \A k \in S : m[k] < m[n] => f[k] = g[k]
               PROVE  next[f][n] = next[g][n]
    OBVIOUS
  <2>1. n # 0 => f[n - 1] = g[n - 1]
    <3> HIDE DEF m, S
    <3> QED
      BY <1>0
  <2> QED
    BY <1>2, <2>1
<1>4. F # {} /\ \A f \in F : f = [n \in S |-> f[n]]
  <2>1. [n \in S |-> base] \in F
    OBVIOUS
  <2> QED
    BY <2>1
<1>5. m \in [S -> 0 .. N]
  OBVIOUS
<1>6. \E f \in F : next[f] = f
  <2> HIDE DEF next, F, S, once, m
  <2>1. Descends(S, F, next, N, m)
    BY <1>2, <1>3, <1>4, <1>5 DEF Descends
  <2> QED
    BY <2>1, Recursion
<1> QED
  BY <1>2, <1>6

\* The rows that have a digit for every directive.
Digits(row) == \A n \in DOMAIN sorts : row[sorts[n].field] \in 0 .. 1

Digit(row, s) == IF s.desc THEN 1 - row[s.field] ELSE row[s.field]

\* The directives of a request, and the primary key.
Directive == [field : STRING \cup {"id"}, desc : BOOLEAN]

\* The places of row for the first directives.
Counts(row, f) ==
    /\ f \in [0 .. Len(sorts) -> Nat] /\ f[0] = 0
    /\ \A n \in 1 .. Len(sorts) :
        f[n] = IF InForce(sorts[n]) THEN 2 * f[n - 1] + Digit(row, sorts[n]) ELSE f[n - 1]

LEMMA PlaceIs ==
    ASSUME sorts \in Seq(Directive), NEW row, Digits(row)
    PROVE  \E f : Counts(row, f) /\ Place(row) = f[Len(sorts)]
<1> DEFINE N == Len(sorts)
           Is(f) == f = [n \in 0 .. Len(sorts) |->
                            IF n = 0 THEN 0
                            ELSE IF ~InForce(sorts[n]) THEN f[n - 1]
                            ELSE 2 * f[n - 1] + IF sorts[n].desc THEN 1 - row[sorts[n].field]
                                                ELSE row[sorts[n].field]]
           c == CHOOSE f : Is(f)
           step == [n \in 1 .. N |-> [x \in Nat |->
                        IF InForce(sorts[n]) THEN 2 * x + Digit(row, sorts[n]) ELSE x]]
<1>1. N \in Nat /\ \A n \in 1 .. N : Digit(row, sorts[n]) \in Nat
  BY DEF Digits, Digit, Directive
<1>2. step \in [1 .. N -> [Nat -> Nat]]
  <2> HIDE DEF N
  <2> QED
    BY <1>1
<1>3. PICK h \in [0 .. N -> Nat] :
          h = [n \in 0 .. N |-> IF n = 0 THEN 0 ELSE step[n][h[n - 1]]]
  <2> HIDE DEF step, N
  <2>1. Rounds(N, Nat, 0, step)
    BY <1>1, <1>2 DEF Rounds
  <2> QED
    BY <2>1, Loop
<1>4. \A n \in 0 .. N : n # 0 => n \in 1 .. N /\ n - 1 \in 0 .. N
  BY <1>1
<1>5. Is(h)
  <2> SUFFICES ASSUME NEW n \in 0 .. N, n # 0
               PROVE  h[n] = IF ~InForce(sorts[n]) THEN h[n - 1]
                             ELSE 2 * h[n - 1] + IF sorts[n].desc THEN 1 - row[sorts[n].field]
                                                 ELSE row[sorts[n].field]
    BY <1>3
  <2>1. n \in 1 .. N /\ h[n - 1] \in Nat
    BY <1>3, <1>4
  <2>2. h[n] = step[n][h[n - 1]]
    BY <1>3
  <2> QED
    BY <2>1, <2>2 DEF Digit
<1>6. Is(c)
  BY <1>5, Zenon
<1>7. Place(row) = c[Len(sorts)]
  BY Zenon DEF Place
<1> HIDE DEF c
<1>8. c = [n \in 0 .. N |-> IF n = 0 THEN 0
                          ELSE IF InForce(sorts[n]) THEN 2 * c[n - 1] + Digit(row, sorts[n])
                          ELSE c[n - 1]]
  BY <1>6 DEF Digit
<1> HIDE DEF N
<1>9. \A n \in 0 .. N : c[n] \in Nat
  <2> DEFINE S == 0 .. N
             Good == {n \in S : c[n] \in Nat}
             m == [n \in S |-> n]
  <2>1. ASSUME NEW n \in S, \A k \in S : m[k] < m[n] => k \in Good
        PROVE  n \in Good
    <3>1. n # 0 => c[n - 1] \in Nat
      <4>1. n # 0 => n - 1 \in S /\ m[n - 1] < m[n]
        BY <1>1
      <4> QED
        BY <2>1, <4>1
    <3>2. n # 0 => Digit(row, sorts[n]) \in Nat
      BY <1>1, <1>4
    <3>3. CASE n = 0
      BY <1>8, <3>3
    <3>4. CASE n # 0 /\ InForce(sorts[n])
      <4>1. c[n] = 2 * c[n - 1] + Digit(row, sorts[n])
        BY <1>8, <3>4
      <4> QED
        BY <3>1, <3>2, <3>4, <4>1
    <3>5. CASE n # 0 /\ ~InForce(sorts[n])
      <4>1. c[n] = c[n - 1]
        BY <1>8, <3>5
      <4> QED
        BY <3>1, <3>5, <4>1
    <3> QED
      BY <3>3, <3>4, <3>5
  <2>2. m \in [S -> Nat]
    BY <1>1
  <2>3. \A n \in S : n \in Good
    <3> HIDE DEF S, Good, m
    <3> QED
      BY <2>1, <2>2, Induction
  <2> QED
    BY <2>3
<1>10. Counts(row, c)
  <2>1. c \in [0 .. N -> Nat]
    BY <1>8, <1>9
  <2>2. c[0] = 0
    BY <1>1, <1>8
  <2>3. \A n \in 1 .. N :
            c[n] = IF InForce(sorts[n]) THEN 2 * c[n - 1] + Digit(row, sorts[n]) ELSE c[n - 1]
    BY <1>1, <1>8
  <2> QED
    BY <2>1, <2>2, <2>3 DEF Counts, N
<1> QED
  BY <1>7, <1>10

\* The directives that count.
Forced == {n \in DOMAIN sorts : InForce(sorts[n])}

\* Where the digits differ first, the lower one has the lower place.
LEMMA LowerPlace ==
    ASSUME sorts \in Seq(Directive), NEW a, NEW b, Digits(a), Digits(b),
           NEW f, Counts(a, f), NEW g, Counts(b, g)
    PROVE  g[Len(sorts)] < f[Len(sorts)] => Compare(b, a, sorts, Forced)
<1> DEFINE N == Len(sorts)
           Agree(n) == b[sorts[n].field] = a[sorts[n].field]
           Tells(n) == Before(b, a, sorts[n]) /\ \A k \in Forced : k < n => Agree(k)
           Good == {n \in 0 .. N :
                        /\ f[n] = g[n] => \A k \in Forced : k <= n => Agree(k)
                        /\ g[n] < f[n] => \E k \in Forced : k <= n /\ Tells(k)}
           m == [n \in 0 .. N |-> n]
<1>0. N \in Nat /\ DOMAIN sorts = 1 .. N
  OBVIOUS
<1>1. /\ \A n \in 0 .. N : f[n] \in Nat /\ g[n] \in Nat
      /\ \A n \in 1 .. N : a[sorts[n].field] \in 0 .. 1 /\ b[sorts[n].field] \in 0 .. 1
  <2>1. \A n \in 0 .. N : f[n] \in Nat /\ g[n] \in Nat
    BY DEF Counts
  <2>2. \A n \in 1 .. N : a[sorts[n].field] \in 0 .. 1 /\ b[sorts[n].field] \in 0 .. 1
    BY <1>0 DEF Digits
  <2> QED
    BY <2>1, <2>2
<1>2. ASSUME NEW n \in 0 .. N, \A k \in 0 .. N : m[k] < m[n] => k \in Good
      PROVE  n \in Good
  <2>1. CASE n = 0
    <3>1. \A k \in Forced : ~(k <= 0)
      BY <1>0 DEF Forced
    <3>2. f[0] = 0 /\ g[0] = 0
      BY DEF Counts
    <3> QED
      BY <1>0, <2>1, <3>1, <3>2
  <2>2. CASE n # 0
    <3> DEFINE o == n - 1
    <3>1. n \in 1 .. N /\ o \in 0 .. N /\ m[o] < m[n]
      BY <1>0, <2>2
    <3>2. /\ f[o] = g[o] => \A k \in Forced : k <= o => Agree(k)
          /\ g[o] < f[o] => \E k \in Forced : k <= o /\ Tells(k)
      <4>1. o \in Good
        BY <1>2, <3>1
      <4> HIDE DEF Agree, Tells, o
      <4> QED
        BY <4>1
    <3>3. \A k \in Forced : k <= n <=> k <= o \/ k = n
      BY <1>0, <3>1 DEF Forced
    <3>4. \A k \in Forced : k < n <=> k <= o
      BY <1>0, <3>1 DEF Forced
    <3> HIDE DEF m
    <3>5. CASE InForce(sorts[n])
      <4>1. /\ f[n] = 2 * f[o] + Digit(a, sorts[n]) /\ g[n] = 2 * g[o] + Digit(b, sorts[n])
            /\ f[o] \in Nat /\ g[o] \in Nat
        BY <1>1, <3>1, <3>5 DEF Counts
      <4>2. Digit(a, sorts[n]) \in 0 .. 1 /\ Digit(b, sorts[n]) \in 0 .. 1
        BY <1>1, <3>1 DEF Digit
      <4>3. Digit(a, sorts[n]) = Digit(b, sorts[n]) => Agree(n)
        BY <1>1, <3>1 DEF Digit
      <4>4. Digit(b, sorts[n]) < Digit(a, sorts[n]) => Before(b, a, sorts[n])
        BY <1>1, <3>1 DEF Digit, Before
      <4>5. n \in Forced
        BY <1>0, <3>1, <3>5 DEF Forced
      <4> HIDE DEF Agree, Good, o
      <4>6. ASSUME f[n] = g[n], NEW k \in Forced, k <= n PROVE Agree(k)
        <5>1. f[o] = g[o] /\ Digit(a, sorts[n]) = Digit(b, sorts[n])
          BY <4>1, <4>2, <4>6
        <5> QED
          BY <3>2, <3>3, <4>3, <4>6, <5>1
      <4>7. ASSUME g[n] < f[n] PROVE \E k \in Forced : k <= n /\ Tells(k)
        <5>1. g[o] < f[o] \/ (g[o] = f[o] /\ Digit(b, sorts[n]) < Digit(a, sorts[n]))
          BY <4>1, <4>2, <4>7
        <5>2. CASE g[o] < f[o]
          <6> HIDE DEF Tells
          <6> QED
            BY <3>2, <3>3, <5>2
        <5>3. CASE g[o] = f[o] /\ Digit(b, sorts[n]) < Digit(a, sorts[n])
          <6>1. \A k \in Forced : k < n => Agree(k)
            BY <3>2, <3>4, <5>3
          <6>2. Tells(n)
            BY <4>4, <5>3, <6>1
          <6> HIDE DEF Tells
          <6> QED
            BY <3>3, <4>5, <6>2
        <5> QED
          BY <5>1, <5>2, <5>3
      <4> HIDE DEF Tells
      <4> QED
        BY <4>6, <4>7 DEF Good
    <3>6. CASE ~InForce(sorts[n])
      <4>1. f[n] = f[o] /\ g[n] = g[o]
        BY <3>1, <3>6 DEF Counts
      <4>2. \A k \in Forced : k <= n => k <= o
        BY <3>3, <3>6 DEF Forced
      <4>3. \A k \in Forced : k <= o => k <= n
        BY <3>3
      <4> HIDE DEF Agree, Tells, o
      <4> QED
        BY <3>2, <4>1, <4>2, <4>3
    <3> QED
      BY <3>5, <3>6
  <2> QED
    BY <2>1, <2>2
<1>3. m \in [0 .. N -> Nat]
  BY <1>0
<1>4. \A n \in 0 .. N : n \in Good
  <2> DEFINE S == 0 .. N
  <2> HIDE DEF m, Good, S
  <2>1. m \in [S -> Nat] /\ \A n \in S : (\A k \in S : m[k] < m[n] => k \in Good) => n \in Good
    BY <1>2, <1>3 DEF S
  <2>2. \A n \in S : n \in Good
    BY <2>1, Induction
  <2> QED
    BY <2>2 DEF S
<1>5. g[N] < f[N] => \E k \in Forced : k <= N /\ Tells(k)
  <2>1. N \in Good
    BY <1>0, <1>4
  <2> HIDE DEF Agree, Tells, N
  <2> QED
    BY <2>1
<1>6. ASSUME NEW k \in Forced, Tells(k) PROVE Compare(b, a, sorts, Forced)
  BY <1>6 DEF Compare
<1> HIDE DEF Tells
<1> QED
  BY <1>5, <1>6

\* The directives of a request are over fields that order rows.
Ranked ==
    sorts \in Seq(Directive) /\ \A row \in Selected : Digits(row)

LEMMA PlacesCompare ==
    ASSUME Ranked, NEW a \in Selected, NEW b \in Selected
    PROVE  /\ Place(a) \in Nat /\ Place(b) \in Nat
           /\ Place(b) < Place(a) => Compare(b, a, sorts, Forced)
<1>0. sorts \in Seq(Directive) /\ Digits(a) /\ Digits(b) /\ Len(sorts) \in Nat
  BY DEF Ranked
<1>1. PICK f : Counts(a, f) /\ Place(a) = f[Len(sorts)]
  BY <1>0, PlaceIs
<1>2. PICK g : Counts(b, g) /\ Place(b) = g[Len(sorts)]
  BY <1>0, PlaceIs
<1>3. f[Len(sorts)] \in Nat /\ g[Len(sorts)] \in Nat
  BY <1>0, <1>1, <1>2 DEF Counts
<1>4. g[Len(sorts)] < f[Len(sorts)] => Compare(b, a, sorts, Forced)
  BY <1>0, <1>1, <1>2, LowerPlace
<1> QED
  BY <1>1, <1>2, <1>3, <1>4

-----------------------------------------------------------------------------
(* Orders of the rows that are selected                                    *)

Sorted(p) == \A i, j \in DOMAIN p : i < j => Place(p[i]) <= Place(p[j])

\* The selected rows, each of them once.
Enumeration(p) ==
    /\ p \in [1 .. Cardinality(Selected) -> Selected]
    /\ \A i, j \in DOMAIN p : p[i] = p[j] => i = j
    /\ \A row \in Selected : \E i \in DOMAIN p : p[i] = row

Order(p) == Enumeration(p) /\ Sorted(p)

\* p has not its rows in the wrong order.
LEMMA InPlace ==
    ASSUME Ranked, NEW p, \A i \in DOMAIN p : p[i] \in Selected,
           \A i, j \in DOMAIN p : i < j => ~Compare(p[j], p[i], sorts, Forced)
    PROVE  Sorted(p)
<1> SUFFICES ASSUME NEW i \in DOMAIN p, NEW j \in DOMAIN p, i < j
             PROVE  Place(p[i]) <= Place(p[j])
  BY DEF Sorted
<1>1. p[i] \in Selected /\ p[j] \in Selected /\ ~Compare(p[j], p[i], sorts, Forced)
  OBVIOUS
<1>2. /\ Place(p[i]) \in Nat /\ Place(p[j]) \in Nat
      /\ ~(Place(p[j]) < Place(p[i]))
  BY <1>1, PlacesCompare
<1> QED
  BY <1>2

\* What the database answers has every row once.
LEMMA AnswersRows ==
    ASSUME NEW ss, NEW p \in Answers(Selected, ss)
    PROVE  /\ p \in [1 .. Cardinality(Selected) -> Selected]
           /\ \A i, j \in DOMAIN p : p[i] = p[j] => i = j
           /\ \A row \in Selected : \E i \in DOMAIN p : p[i] = row
           /\ \A i, j \in DOMAIN p : i < j => ~Compare(p[j], p[i], ss, DOMAIN ss)
<1> DEFINE T == 1 .. Cardinality(Selected)
<1>1. /\ p \in Bijection(T, Selected)
      /\ \A i, j \in DOMAIN p : i < j => ~Compare(p[j], p[i], ss, DOMAIN ss)
  BY Zenon DEF Answers
<1> HIDE DEF T
<1>2. p \in Injection(T, Selected) /\ p \in Surjection(T, Selected)
  BY <1>1 DEF Bijection
<1>3. p \in [T -> Selected] /\ \A i, j \in T : p[i] = p[j] => i = j
  BY <1>2 DEF Injection, IsInjective
<1>4. \A row \in Selected : \E i \in T : p[i] = row
  BY <1>2 DEF Surjection
<1> QED
  BY <1>1, <1>3, <1>4 DEF T

\* What the database answers is in the order of the directives, also when it
\* sorts by the primary key after them.
LEMMA AnswersInOrder ==
    ASSUME Ranked, ByColumn, NEW ss,
           \/ ss = collectDBSorts(sorts)
           \/ \E s : ss = Append(collectDBSorts(sorts), s),
           NEW p \in Answers(Selected, ss)
    PROVE  Order(p)
<1>1. collectDBSorts(sorts) = sorts
  BY DEF collectDBSorts, hasMemSort, ByColumn, Range, Range
<1>2. Forced = DOMAIN sorts
  BY DEF Forced, InForce
<1>3. DOMAIN sorts = 1 .. Len(sorts) /\ Len(sorts) \in Nat
  BY DEF Ranked
<1>4. /\ DOMAIN sorts \subseteq DOMAIN ss /\ \A n \in DOMAIN sorts : ss[n] = sorts[n]
      /\ \A k \in DOMAIN ss : \A n \in DOMAIN sorts : k < n => k \in DOMAIN sorts
  BY <1>1, <1>3 DEF Ranked
<1>5. ASSUME NEW a, NEW b, Compare(b, a, sorts, Forced)
      PROVE  Compare(b, a, ss, DOMAIN ss)
  <2>1. PICK n \in DOMAIN sorts :
            /\ Before(b, a, sorts[n])
            /\ \A k \in DOMAIN sorts : k < n => b[sorts[k].field] = a[sorts[k].field]
    BY <1>2, <1>5 DEF Compare
  <2>2. n \in DOMAIN ss /\ Before(b, a, ss[n])
    BY <1>4, <2>1
  <2>3. \A k \in DOMAIN ss : k < n => b[ss[k].field] = a[ss[k].field]
    BY <1>4, <2>1
  <2> QED
    BY <2>2, <2>3 DEF Compare
<1>6. /\ p \in [1 .. Cardinality(Selected) -> Selected]
      /\ \A i, j \in DOMAIN p : p[i] = p[j] => i = j
      /\ \A row \in Selected : \E i \in DOMAIN p : p[i] = row
      /\ \A i, j \in DOMAIN p : i < j => ~Compare(p[j], p[i], ss, DOMAIN ss)
  BY AnswersRows
<1>7. \A i, j \in DOMAIN p : i < j => ~Compare(p[j], p[i], sorts, Forced)
  BY <1>5, <1>6
<1>8. Sorted(p)
  BY <1>6, <1>7, InPlace
<1> QED
  BY <1>6, <1>8 DEF Order, Enumeration

\* The rows that have a value for every directive of ss.
Valued(row, ss) == \A n \in DOMAIN ss : row[ss[n].field] \in Int

LEMMA CompareAsymmetric ==
    ASSUME NEW ss \in Seq(Directive), NEW places \in SUBSET DOMAIN ss,
           NEW a, NEW b, Valued(a, ss), Valued(b, ss), Compare(a, b, ss, places)
    PROVE  ~Compare(b, a, ss, places)
<1> SUFFICES ASSUME Compare(b, a, ss, places) PROVE FALSE
  OBVIOUS
<1>1. PICK n \in places :
          /\ Before(a, b, ss[n])
          /\ \A k \in places : k < n => a[ss[k].field] = b[ss[k].field]
  BY DEF Compare
<1>2. PICK m \in places :
          /\ Before(b, a, ss[m])
          /\ \A k \in places : k < m => b[ss[k].field] = a[ss[k].field]
  BY DEF Compare
<1>3. \A k \in places : k \in Nat /\ a[ss[k].field] \in Int /\ b[ss[k].field] \in Int
  BY DEF Valued
<1>4. n < m \/ m < n \/ n = m
  BY <1>3
<1>5. CASE n < m
  BY <1>1, <1>2, <1>3, <1>5 DEF Before
<1>6. CASE m < n
  BY <1>1, <1>2, <1>3, <1>6 DEF Before
<1>7. CASE n = m
  BY <1>1, <1>2, <1>3, <1>7 DEF Before
<1> QED
  BY <1>4, <1>5, <1>6, <1>7

\* So is what the sort in memory makes of a page.
LEMMA StableInOrder ==
    ASSUME Ranked, ~ByColumn, NEW s \in Seq(Selected), NEW t \in SliceStable(s, sorts)
    PROVE  t \in Seq(Selected) /\ Sorted(t) /\ Range(t) = Range(s)
<1>1. {i \in DOMAIN sorts : HasFn(sorts[i])} = Forced
  BY DEF Forced, InForce
<1>2. PICK p \in [DOMAIN s -> DOMAIN s] :
          /\ t = [k \in DOMAIN s |-> s[p[k]]]
          /\ \A i \in DOMAIN s : \E k \in DOMAIN s : p[k] = i
          /\ \A i, j \in DOMAIN s : i < j =>
                \/ compareItems(s[p[i]], s[p[j]], sorts)
                \/ ~compareItems(s[p[j]], s[p[i]], sorts)
  BY DEF SliceStable, Bijection, Injection, Surjection
<1>3. Len(s) \in Nat /\ DOMAIN s = 1 .. Len(s) /\ t \in [1 .. Len(s) -> Selected]
  BY <1>2
<1>4. t \in Seq(Selected)
  BY <1>3
<1>5. ASSUME NEW a \in Selected, NEW b \in Selected, Compare(a, b, sorts, Forced)
      PROVE  ~Compare(b, a, sorts, Forced)
  <2>1. sorts \in Seq(Directive) /\ Forced \subseteq DOMAIN sorts
    BY DEF Ranked, Forced
  <2>2. Valued(a, sorts) /\ Valued(b, sorts)
    BY DEF Ranked, Digits, Valued
  <2> QED
    BY <1>5, <2>1, <2>2, CompareAsymmetric
<1>6. ASSUME NEW i \in DOMAIN t, NEW j \in DOMAIN t, i < j
      PROVE  ~Compare(t[j], t[i], sorts, Forced)
  <2>1. t[i] \in Selected /\ t[j] \in Selected /\ t[i] = s[p[i]] /\ t[j] = s[p[j]]
    BY <1>2, <1>3
  <2>2. \/ Compare(t[i], t[j], sorts, Forced)
        \/ ~Compare(t[j], t[i], sorts, Forced)
    BY <1>1, <1>2, <1>3, <1>6, <2>1 DEF compareItems
  <2> QED
    BY <1>5, <2>1, <2>2
<1>7. Sorted(t)
  BY <1>3, <1>6, InPlace
<1>8. Range(t) = Range(s)
  BY <1>2 DEF Range
<1> QED
  BY <1>4, <1>7, <1>8

\* Directives that separate the rows leave one order only.
LEMMA OneOrder ==
    ASSUME Ranked, IsFiniteSet(Selected), Separates, NEW p, NEW q, Order(p), Order(q)
    PROVE  p = q
<1> DEFINE n == Cardinality(Selected)
           Differ == {k \in 1 .. n : p[k] # q[k]}
<1>0. n \in Nat
  BY FS_CardinalityType
<1>1. p \in [1 .. n -> Selected] /\ q \in [1 .. n -> Selected]
  BY DEF Order, Enumeration
<1>2. \A row \in Selected : Place(row) \in Nat
  BY PlacesCompare
<1>3. ASSUME NEW r, NEW s, Order(r), Order(s), NEW k \in 1 .. n, r[k] # s[k],
             \A i \in 1 .. n : i < k => r[i] = s[i]
      PROVE  Place(s[k]) < Place(r[k])
  <2>1. r \in [1 .. n -> Selected] /\ s \in [1 .. n -> Selected]
    BY <1>3 DEF Order, Enumeration
  <2>2. PICK i \in 1 .. n : s[i] = r[k]
    BY <1>3, <2>1 DEF Order, Enumeration
  <2>3. ~(i < k)
    <3>1. i < k => r[i] = r[k]
      BY <1>3, <2>2
    <3> HIDE DEF n
    <3>2. r[i] = r[k] => i = k
      BY <1>3, <2>1 DEF Order, Enumeration
    <3> QED
      BY <3>1, <3>2
  <2>4. k < i
    BY <1>3, <2>2, <2>3
  <2>5. Place(s[k]) <= Place(s[i])
    BY <1>3, <2>1, <2>4 DEF Order, Enumeration, Sorted
  <2>6. Place(s[k]) # Place(r[k])
    BY <1>3, <2>1 DEF Separates
  <2> QED
    BY <1>2, <2>1, <2>2, <2>5, <2>6
<1>4. Differ = {}
  <2> SUFFICES ASSUME Differ # {} PROVE FALSE
    OBVIOUS
  <2>1. Differ \in SUBSET Nat
    BY <1>0
  <2>2. PICK k \in Differ : \A i \in Differ : k <= i
    <3> HIDE DEF Differ
    <3> QED
      BY <2>1, Least
  <2>3. k \in 1 .. n /\ p[k] # q[k] /\ \A i \in 1 .. n : i < k => p[i] = q[i]
    BY <1>0, <2>2
  <2> HIDE DEF n, Differ
  <2>4. Place(q[k]) < Place(p[k]) /\ Place(p[k]) < Place(q[k])
    BY <1>3, <2>3
  <2>5. Place(q[k]) \in Nat /\ Place(p[k]) \in Nat
    BY <1>1, <1>2, <2>3
  <2> QED
    BY <2>4, <2>5
<1> HIDE DEF n
<1>5. \A k \in 1 .. n : p[k] = q[k]
  BY <1>4
<1>6. p = [k \in 1 .. n |-> p[k]] /\ q = [k \in 1 .. n |-> q[k]]
  BY <1>1
<1> QED
  BY <1>5, <1>6

-----------------------------------------------------------------------------
(* What the predicate leaves of a page                                     *)

\* s has, in their order, the rows of p from p[m + 1] to p[n] that are kept.
Thinned(s, p, m, n) ==
    \E e : /\ e \in [DOMAIN s -> m + 1 .. n]
           /\ \A i, j \in DOMAIN s : i < j => e[i] < e[j]
           /\ \A i \in DOMAIN s : s[i] = p[e[i]] /\ Keeps(s[i])
           /\ \A k \in m + 1 .. n : Keeps(p[k]) => \E i \in DOMAIN s : e[i] = k

LEMMA ThinnedNone ==
    ASSUME NEW p, NEW n \in Nat
    PROVE  Thinned(<<>>, p, n, n)
<1>1. DOMAIN <<>> = {} /\ n + 1 .. n = {}
  OBVIOUS
<1>2. [i \in DOMAIN <<>> |-> 0] \in [DOMAIN <<>> -> n + 1 .. n]
  BY <1>1
<1> QED
  BY <1>1, <1>2 DEF Thinned

LEMMA ThinnedOne ==
    ASSUME NEW p, NEW n \in Nat \ {0}
    PROVE  /\ Keeps(p[n]) => Thinned(<<p[n]>>, p, n - 1, n)
           /\ ~Keeps(p[n]) => Thinned(<<>>, p, n - 1, n)
<1>1. n - 1 + 1 .. n = {n} /\ DOMAIN <<>> = {}
  OBVIOUS
<1>2. ASSUME Keeps(p[n]) PROVE Thinned(<<p[n]>>, p, n - 1, n)
  <2> DEFINE s == <<p[n]>>
             e == [i \in DOMAIN s |-> n]
  <2>1. DOMAIN s = {1} /\ s[1] = p[n]
    OBVIOUS
  <2> HIDE DEF s
  <2>2. \A i, j \in DOMAIN s : ~(i < j)
    BY <2>1
  <2>3. e \in [DOMAIN s -> n - 1 + 1 .. n] /\ \A i \in DOMAIN s : s[i] = p[e[i]] /\ Keeps(s[i])
    BY <1>1, <1>2, <2>1
  <2>4. \A k \in n - 1 + 1 .. n : \E i \in DOMAIN s : e[i] = k
    BY <1>1, <2>1
  <2> HIDE DEF e
  <2>5. Thinned(s, p, n - 1, n)
    BY <2>2, <2>3, <2>4 DEF Thinned
  <2> QED
    BY <2>5 DEF s
<1>3. ASSUME ~Keeps(p[n]) PROVE Thinned(<<>>, p, n - 1, n)
  <2> DEFINE e == [i \in DOMAIN <<>> |-> 0]
  <2>1. e \in [DOMAIN <<>> -> n - 1 + 1 .. n]
    BY <1>1
  <2> QED
    BY <1>1, <1>3, <2>1 DEF Thinned
<1> QED
  BY <1>2, <1>3

\* One part after the other.
LEMMA ThinnedJoin ==
    ASSUME NEW T, NEW r \in Seq(T), NEW s \in Seq(T), NEW p,
           NEW k \in Nat, NEW m \in 0 .. k, NEW n \in Nat, k <= n,
           Thinned(r, p, m, k), Thinned(s, p, k, n)
    PROVE  Thinned(r \o s, p, m, n)
<1> DEFINE a == Len(r)
           b == Len(s)
           t == r \o s
<1>1. PICK e : /\ e \in [DOMAIN r -> m + 1 .. k]
               /\ \A i, j \in DOMAIN r : i < j => e[i] < e[j]
               /\ \A i \in DOMAIN r : r[i] = p[e[i]] /\ Keeps(r[i])
               /\ \A x \in m + 1 .. k : Keeps(p[x]) => \E i \in DOMAIN r : e[i] = x
  BY DEF Thinned
<1>2. PICK f : /\ f \in [DOMAIN s -> k + 1 .. n]
               /\ \A i, j \in DOMAIN s : i < j => f[i] < f[j]
               /\ \A i \in DOMAIN s : s[i] = p[f[i]] /\ Keeps(s[i])
               /\ \A x \in k + 1 .. n : Keeps(p[x]) => \E i \in DOMAIN s : f[i] = x
  BY DEF Thinned
<1>3. /\ a \in Nat /\ b \in Nat /\ DOMAIN r = 1 .. a /\ DOMAIN s = 1 .. b /\ DOMAIN t = 1 .. a + b
      /\ \A i \in 1 .. a + b : t[i] = IF i <= a THEN r[i] ELSE s[i - a]
  OBVIOUS
<1> DEFINE g == [i \in 1 .. a + b |-> IF i <= a THEN e[i] ELSE f[i - a]]
<1> HIDE DEF a, b, t
<1>4. \A i \in 1 .. a + b : i \in Int /\ (IF i <= a THEN i \in 1 .. a ELSE i - a \in 1 .. b)
  BY <1>3
<1>5. \A i \in 1 .. a : /\ e[i] \in m + 1 .. k /\ e[i] \in Int /\ i \in 1 .. a + b /\ i <= a
  BY <1>1, <1>3
<1>6. \A i \in 1 .. b : /\ f[i] \in k + 1 .. n /\ f[i] \in Int /\ a + i \in 1 .. a + b
                        /\ ~(a + i <= a) /\ (a + i) - a = i
  BY <1>2, <1>3
<1>7. g \in [1 .. a + b -> m + 1 .. n]
  <2> SUFFICES ASSUME NEW i \in 1 .. a + b
               PROVE  (IF i <= a THEN e[i] ELSE f[i - a]) \in m + 1 .. n
    OBVIOUS
  <2>1. CASE i <= a
    BY <1>4, <1>5, <2>1
  <2>2. CASE ~(i <= a)
    BY <1>4, <1>6, <2>2
  <2> QED
    BY <2>1, <2>2
<1>8. ASSUME NEW i \in 1 .. a + b, NEW j \in 1 .. a + b, i < j PROVE g[i] < g[j]
  <2>1. CASE j <= a
    <3>1. i <= a /\ i \in 1 .. a /\ j \in 1 .. a
      BY <1>3, <1>4, <1>8, <2>1
    <3> QED
      BY <1>1, <1>3, <1>8, <2>1, <3>1
  <2>2. CASE i <= a /\ ~(j <= a)
    <3>1. e[i] \in m + 1 .. k /\ f[j - a] \in k + 1 .. n
      BY <1>4, <1>5, <1>6, <2>2
    <3>2. g[i] = e[i] /\ g[j] = f[j - a]
      BY <2>2
    <3> QED
      BY <3>1, <3>2
  <2>3. CASE ~(i <= a)
    <3>1. ~(j <= a) /\ i - a < j - a /\ i - a \in 1 .. b /\ j - a \in 1 .. b
      BY <1>3, <1>4, <1>8, <2>3
    <3>2. g[i] = f[i - a] /\ g[j] = f[j - a]
      BY <2>3, <3>1
    <3> QED
      BY <1>2, <1>3, <3>1, <3>2
  <2> QED
    BY <2>1, <2>2, <2>3
<1>9. ASSUME NEW i \in 1 .. a + b PROVE t[i] = p[g[i]] /\ Keeps(t[i])
  <2>1. CASE i <= a
    <3>1. i \in DOMAIN r /\ t[i] = r[i] /\ g[i] = e[i]
      BY <1>3, <1>4, <2>1
    <3> QED
      BY <1>1, <3>1
  <2>2. CASE ~(i <= a)
    <3>1. i - a \in DOMAIN s /\ t[i] = s[i - a] /\ g[i] = f[i - a]
      BY <1>3, <1>4, <2>2
    <3> QED
      BY <1>2, <3>1
  <2> QED
    BY <2>1, <2>2
<1>10. ASSUME NEW x \in m + 1 .. n, Keeps(p[x]) PROVE \E i \in 1 .. a + b : g[i] = x
  <2>1. CASE x <= k
    <3>1. PICK i \in 1 .. a : e[i] = x
      BY <1>1, <1>3, <1>10, <2>1
    <3> QED
      BY <1>5, <3>1
  <2>2. CASE ~(x <= k)
    <3>1. PICK i \in 1 .. b : f[i] = x
      BY <1>2, <1>3, <1>10, <2>2
    <3>2. g[a + i] = x
      BY <1>6, <3>1
    <3> QED
      BY <1>6, <3>2
  <2> QED
    BY <2>1, <2>2
<1> HIDE DEF g
<1>11. /\ g \in [DOMAIN t -> m + 1 .. n]
       /\ \A i, j \in DOMAIN t : i < j => g[i] < g[j]
       /\ \A i \in DOMAIN t : t[i] = p[g[i]] /\ Keeps(t[i])
       /\ \A x \in m + 1 .. n : Keeps(p[x]) => \E i \in DOMAIN t : g[i] = x
  BY <1>3, <1>7, <1>8, <1>9, <1>10
<1>12. Thinned(t, p, m, n)
  BY <1>11 DEF Thinned
<1> QED
  BY <1>12 DEF t

\* What is left of a page, seen from the rows it was cut from.
LEMMA ThinnedShift ==
    ASSUME NEW s, NEW q, NEW p, NEW m \in Nat, NEW n \in Nat,
           \A k \in 1 .. n : q[k] = p[m + k], Thinned(s, q, 0, n)
    PROVE  Thinned(s, p, m, m + n)
<1>1. PICK e : /\ e \in [DOMAIN s -> 0 + 1 .. n]
               /\ \A i, j \in DOMAIN s : i < j => e[i] < e[j]
               /\ \A i \in DOMAIN s : s[i] = q[e[i]] /\ Keeps(s[i])
               /\ \A x \in 0 + 1 .. n : Keeps(q[x]) => \E i \in DOMAIN s : e[i] = x
  BY DEF Thinned
<1> DEFINE f == [i \in DOMAIN s |-> m + e[i]]
<1>2. \A i \in DOMAIN s : e[i] \in 1 .. n /\ e[i] \in Int /\ m + e[i] \in m + 1 .. m + n
  BY <1>1
<1>3. \A i, j \in DOMAIN s : i < j => f[i] < f[j]
  BY <1>1, <1>2
<1>4. \A i \in DOMAIN s : s[i] = p[f[i]] /\ Keeps(s[i])
  BY <1>1, <1>2
<1>5. ASSUME NEW x \in m + 1 .. m + n, Keeps(p[x]) PROVE \E i \in DOMAIN s : f[i] = x
  <2>1. x - m \in 1 .. n /\ m + (x - m) = x
    OBVIOUS
  <2>2. q[x - m] = p[x]
    BY <2>1
  <2>3. PICK i \in DOMAIN s : e[i] = x - m
    BY <1>1, <1>5, <2>1, <2>2
  <2> QED
    BY <2>1, <2>3
<1>6. f \in [DOMAIN s -> m + 1 .. m + n]
  BY <1>2
<1> HIDE DEF f
<1> QED
  BY <1>3, <1>4, <1>5, <1>6 DEF Thinned

\* The rows that are left.
Remaining(p, m, n) == {p[k] : k \in {x \in m + 1 .. n : Keeps(p[x])}}

LEMMA ThinnedRows ==
    ASSUME NEW s, NEW p, NEW m, NEW n, Thinned(s, p, m, n)
    PROVE  Range(s) = Remaining(p, m, n)
<1>1. PICK e : /\ e \in [DOMAIN s -> m + 1 .. n]
               /\ \A i \in DOMAIN s : s[i] = p[e[i]] /\ Keeps(s[i])
               /\ \A k \in m + 1 .. n : Keeps(p[k]) => \E i \in DOMAIN s : e[i] = k
  BY DEF Thinned
<1>2. \A i \in DOMAIN s : e[i] \in {x \in m + 1 .. n : Keeps(p[x])} /\ s[i] = p[e[i]]
  BY <1>1
<1>3. \A k \in {x \in m + 1 .. n : Keeps(p[x])} : \E i \in DOMAIN s : s[i] = p[k]
  BY <1>1
<1> QED
  BY <1>2, <1>3 DEF Range, Remaining

\* They are in the order of p, and none is there twice.
LEMMA ThinnedOrder ==
    ASSUME NEW s \in Seq(Selected), NEW p, NEW m \in Nat, NEW n, Thinned(s, p, m, n),
           m + 1 .. n \subseteq DOMAIN p
    PROVE  /\ Sorted(p) => Sorted(s)
           /\ (\A i, j \in DOMAIN p : p[i] = p[j] => i = j) => IsInjective(s)
<1>1. PICK e : /\ e \in [DOMAIN s -> m + 1 .. n]
               /\ \A i, j \in DOMAIN s : i < j => e[i] < e[j]
               /\ \A i \in DOMAIN s : s[i] = p[e[i]]
  BY DEF Thinned
<1>2. \A i \in DOMAIN s : i \in Int /\ e[i] \in DOMAIN p /\ e[i] \in Int
  BY <1>1
<1>3. ASSUME Sorted(p) PROVE Sorted(s)
  BY <1>1, <1>2, <1>3 DEF Sorted
<1>4. ASSUME \A i, j \in DOMAIN p : p[i] = p[j] => i = j PROVE IsInjective(s)
  <2> SUFFICES ASSUME NEW i \in DOMAIN s, NEW j \in DOMAIN s, s[i] = s[j] PROVE i = j
    BY DEF IsInjective
  <2>1. e[i] = e[j]
    BY <1>1, <1>2, <1>4
  <2>2. ~(i < j) /\ ~(j < i)
    BY <1>1, <1>2, <2>1
  <2> QED
    BY <1>2, <2>2
<1> QED
  BY <1>3, <1>4

\* The loop of buildInMemoryFn.
LEMMA KeptIs ==
    ASSUME NEW T, NEW s \in Seq(T)
    PROVE  /\ Kept(s) \in Seq(T) /\ Thinned(Kept(s), s, 0, Len(s))
           /\ (\A row \in T : Keeps(row)) => Len(Kept(s)) = Len(s)
<1> DEFINE N == Len(s)
           V == Seq(T)
           Is(f) == f = [n \in 0 .. Len(s) |->
                            IF n = 0 THEN <<>>
                            ELSE IF Keeps(s[n]) THEN Append(f[n - 1], s[n]) ELSE f[n - 1]]
           c == CHOOSE f : Is(f)
           step == [n \in 1 .. N |-> [x \in V |-> IF Keeps(s[n]) THEN Append(x, s[n]) ELSE x]]
<1>1. N \in Nat /\ \A n \in 1 .. N : s[n] \in T /\ n - 1 \in 0 .. N /\ n \in Nat \ {0}
  OBVIOUS
<1>2. <<>> \in V /\ \A n \in 1 .. N : \A x \in V : Append(x, s[n]) \in V
  BY <1>1
<1>3. step \in [1 .. N -> [V -> V]]
  <2> HIDE DEF N, V
  <2> QED
    BY <1>2
<1>4. PICK h \in [0 .. N -> V] :
          h = [n \in 0 .. N |-> IF n = 0 THEN <<>> ELSE step[n][h[n - 1]]]
  <2> HIDE DEF step, N, V
  <2>1. Rounds(N, V, <<>>, step)
    BY <1>1, <1>2, <1>3 DEF Rounds
  <2> QED
    BY <2>1, Loop
<1>5. \A n \in 0 .. N : n # 0 => n \in 1 .. N /\ n - 1 \in 0 .. N
  BY <1>1
<1>6. Is(h)
  <2> SUFFICES ASSUME NEW n \in 0 .. N, n # 0
               PROVE  h[n] = IF Keeps(s[n]) THEN Append(h[n - 1], s[n]) ELSE h[n - 1]
    BY <1>4
  <2> HIDE DEF V
  <2>1. n \in 1 .. N /\ h[n - 1] \in V
    BY <1>4, <1>5
  <2>2. h[n] = step[n][h[n - 1]]
    BY <1>4
  <2> QED
    BY <2>1, <2>2
<1>7. Is(c)
  BY <1>6, Zenon
<1>8. Kept(s) = c[Len(s)]
  BY Zenon DEF Kept
<1> HIDE DEF c
<1>9. c = [n \in 0 .. N |-> IF n = 0 THEN <<>>
                          ELSE IF Keeps(s[n]) THEN Append(c[n - 1], s[n]) ELSE c[n - 1]]
  BY <1>7
<1> HIDE DEF N, V
<1> DEFINE Fine(n) == /\ c[n] \in V /\ Thinned(c[n], s, 0, n)
                      /\ (\A row \in T : Keeps(row)) => Len(c[n]) = n
<1>10. Fine(0)
  <2>1. c[0] = <<>> /\ Len(<<>>) = 0
    BY <1>1, <1>9
  <2>2. Thinned(<<>>, s, 0, 0)
    BY ThinnedNone
  <2> QED
    BY <1>2, <2>1, <2>2
<1>11. ASSUME NEW n \in 1 .. N, Fine(n - 1) PROVE Fine(n)
  <2> DEFINE x == c[n - 1]
  <2>1. x \in V /\ Thinned(x, s, 0, n - 1) /\ s[n] \in T /\ n \in Nat \ {0} /\ n - 1 \in Nat
        /\ ((\A row \in T : Keeps(row)) => Len(x) = n - 1)
    BY <1>1, <1>11
  <2> HIDE DEF x
  <2>2. c[n] = IF Keeps(s[n]) THEN Append(x, s[n]) ELSE x
    <3>1. n \in 0 .. N /\ n # 0
      BY <1>1
    <3> QED
      BY <1>9, <3>1 DEF x
  <2>3. ASSUME NEW y \in V, Thinned(y, s, n - 1, n) PROVE Thinned(x \o y, s, 0, n)
    <3>1. x \in Seq(T) /\ y \in Seq(T)
      BY <2>1 DEF V
    <3>2. n - 1 \in Nat /\ 0 \in 0 .. n - 1 /\ n \in Nat /\ n - 1 <= n
      BY <2>1
    <3>3. Thinned(x, s, 0, n - 1) /\ Thinned(y, s, n - 1, n)
      BY <2>1, <2>3
    <3> HIDE DEF V
    <3> QED
      BY <3>1, <3>2, <3>3, ThinnedJoin
  <2>4. CASE Keeps(s[n])
    <3>1. Thinned(<<s[n]>>, s, n - 1, n) /\ <<s[n]>> \in V
      BY <2>1, <2>4, ThinnedOne DEF V
    <3>2. Thinned(x \o <<s[n]>>, s, 0, n)
      BY <2>3, <3>1
    <3>3. x \in Seq(T)
      BY <2>1 DEF V
    <3>4. /\ Append(x, s[n]) = x \o <<s[n]>> /\ Append(x, s[n]) \in Seq(T)
          /\ Len(Append(x, s[n])) = Len(x) + 1
      <4>1. \A y \in T : /\ Append(x, y) = x \o <<y>> /\ Append(x, y) \in Seq(T)
                         /\ Len(Append(x, y)) = Len(x) + 1
        BY <3>3
      <4> QED
        BY <2>1, <4>1
    <3>5. c[n] = Append(x, s[n])
      BY <2>2, <2>4
    <3>6. c[n] \in V /\ Thinned(c[n], s, 0, n)
      BY <3>2, <3>4, <3>5 DEF V
    <3>7. (\A row \in T : Keeps(row)) => Len(c[n]) = n
      BY <2>1, <3>4, <3>5
    <3> QED
      BY <3>6, <3>7
  <2>5. CASE ~Keeps(s[n])
    <3>1. Thinned(<<>>, s, n - 1, n) /\ <<>> \in V
      BY <1>2, <2>1, <2>5, ThinnedOne
    <3>2. Thinned(x \o <<>>, s, 0, n)
      BY <2>3, <3>1
    <3>3. x \in Seq(T)
      BY <2>1 DEF V
    <3>4. x \o <<>> = x
      BY <3>3
    <3>5. c[n] = x
      BY <2>2, <2>5
    <3>6. ~(\A row \in T : Keeps(row))
      BY <2>1, <2>5
    <3> QED
      BY <2>1, <3>2, <3>4, <3>5, <3>6
  <2> QED
    BY <2>4, <2>5
<1>12. \A n \in 0 .. N : Fine(n)
  <2> DEFINE S == 0 .. N
             Good == {n \in S : Fine(n)}
             m == [n \in S |-> n]
  <2> HIDE DEF Fine
  <2>1. ASSUME NEW n \in S, \A k \in S : m[k] < m[n] => k \in Good
        PROVE  n \in Good
    <3>1. CASE n = 0
      BY <1>10, <3>1
    <3>2. CASE n # 0
      <4>1. n \in 1 .. N /\ n - 1 \in S /\ m[n - 1] < m[n]
        BY <1>1, <3>2
      <4>2. Fine(n - 1)
        BY <2>1, <4>1
      <4> QED
        BY <1>11, <4>1, <4>2
    <3> QED
      BY <3>1, <3>2
  <2>2. m \in [S -> Nat]
    BY <1>1
  <2>3. \A n \in S : n \in Good
    <3> HIDE DEF S, Good, m
    <3> QED
      BY <2>1, <2>2, Induction
  <2> QED
    BY <2>3
<1>13. Fine(N)
  BY <1>1, <1>12
<1> QED
  BY <1>8, <1>13 DEF N, V

-----------------------------------------------------------------------------
(* The invariant of a request                                              *)

Size(n, limit) == IF limit = 0 \/ n < limit THEN n ELSE limit

LEMMA Enumerated ==
    ASSUME IsFiniteSet(Selected), NEW p, Enumeration(p)
    PROVE  /\ Len(p) = Cardinality(Selected) /\ Len(p) \in Nat /\ DOMAIN p = 1 .. Len(p)
           /\ p \in Seq(Selected) /\ p \in [1 .. Len(p) -> Selected]
<1>1. Cardinality(Selected) \in Nat
  BY FS_CardinalityType
<1>2. p \in [1 .. Cardinality(Selected) -> Selected]
  BY DEF Enumeration
<1> QED
  BY <1>1, <1>2

\* The rows of a page s, which begins behind p[at].
Page(s, T, p, at, limit) ==
    /\ s \in Seq(T) /\ (at <= Len(p) => Len(s) = Size(Len(p) - at, limit))
    /\ \A k \in DOMAIN s :
        k \in Nat /\ k > 0 /\ at + k \in DOMAIN p /\ s[k] = p[at + k]

LEMMA PageOf ==
    ASSUME NEW T, NEW p \in Seq(T), NEW at \in Nat, NEW limit \in Nat
    PROVE  Page(Paginate(p, at, limit), T, p, at, limit)
<1> DEFINE n == Size(Len(p) - at, limit)
           s == Paginate(p, at, limit)
<1>1. s = [k \in 1 .. n |-> p[at + k]]
  BY DEF Paginate, Size
<1>2. Len(p) \in Nat /\ DOMAIN p = 1 .. Len(p) /\ \A k \in DOMAIN p : p[k] \in T
  OBVIOUS
<1>3. n \in Int /\ \A k \in 1 .. n : k \in Nat /\ k > 0 /\ at + k \in DOMAIN p
  BY <1>2 DEF Size
<1> HIDE DEF n, s
<1>4. CASE n >= 0
  <2>1. n \in Nat /\ s \in [1 .. n -> T]
    BY <1>1, <1>2, <1>3, <1>4
  <2>2. s \in Seq(T) /\ Len(s) = n
    BY <2>1
  <2> QED
    BY <1>1, <1>3, <2>2 DEF s, n, Page
<1>5. CASE n < 0
  <2>1. 1 .. n = {}
    BY <1>3, <1>5
  <2>2. s = <<>>
    BY <1>1, <2>1
  <2>3. ~(at <= Len(p))
    BY <1>2, <1>5 DEF n, Size
  <2> QED
    BY <2>2, <2>3 DEF s, Page
<1> QED
  BY <1>3, <1>4, <1>5 DEF Page

\* A request that FromRequest or ToOption refuses.
Refused ==
    \/ LET r == ParseFilter(call.q) IN r.ok => ~ValidateNode(r.tree, r.node)
    \/ ~ValidateSorts(ParseSort(call.s))

Limit == IF call.op = "first" THEN 1 ELSE call.limit

\* The last row of the page, among all.
Reach == offset + Size(Cardinality(Selected) - offset, Limit)

\* The pages before are what the predicate has left of p, up to here.
Preceded(p) ==
    ByColumn => Sorted(p) /\ (offset = 0 \/ Separates => Thinned(read, p, 0, offset))

\* The page is cut from p.
Drawn(p) == Enumeration(p) /\ Preceded(p) /\ items = Paginate(p, offset, Limit)

\* The page is what the predicate has left of that.
Shown(p) ==
    /\ Enumeration(p) /\ Preceded(p)
    /\ items \in Seq(Selected) /\ Sorted(items) /\ Range(items) = Remaining(p, offset, Reach)
    /\ ByColumn =>
        Thinned(items, p, offset, Reach) /\ (~hasMemFilter(tree, node) => Len(items) = Reach - offset)

Underway ==
    /\ ValidateNode(tree, node) /\ ValidateSorts(sorts)
    /\ offset \in 0 .. Cardinality(Selected) /\ read \in Seq(Selected)
    /\ offset = 0 => read = <<>>
    /\ call.op = "first" \/ call.limit = 0 => offset = 0

Continues ==
    offset # 0 /\ ByColumn /\ Separates => \E p : Order(p) /\ Thinned(read, p, 0, offset)

RequestInv ==
    /\ call \in Calls
    /\ pc \in {"parse", "validate", "rejected", "query", "apply", "found"}
    /\ pc = "rejected" => Refused
    /\ pc \notin {"parse", "rejected"} => Accepted(call.q, tree, node) /\ sorts = ParseSort(call.s)
    /\ pc \in {"parse", "validate"} => offset = 0 /\ read = <<>>
    /\ pc \in {"query", "apply", "found"} => Underway
    /\ pc = "query" => Continues
    /\ pc = "apply" => \E p : Drawn(p)
    /\ pc = "found" => \E p : Shown(p)

Part == [sign : {"", "+", "-"}, name : STRING]

LEMMA CallTypes ==
    ASSUME RequestInv
    PROVE  /\ call.q \in Seq(Token) /\ call.s \in Seq(Part)
           /\ call.op \in {"find", "first"} /\ call.limit \in Nat /\ Limit \in Nat
           /\ IsFiniteSet(Selected) /\ Cardinality(Selected) \in Nat
           /\ \A row \in call.rows : row.id \in Nat /\ row.is \in Row
           /\ \A row \in Selected : row \in call.rows
           /\ \A row \in Selected : \A f \in DOMAIN Sortable : row[f] \in 0 .. 1
<1>1. call \in Calls
  BY DEF RequestInv
<1>2. /\ call.q \in Seq(Token) /\ call.s \in Seq(Part)
      /\ call.op \in {"find", "first"} /\ call.limit \in Nat /\ IsFiniteSet(call.rows)
      /\ \A row \in call.rows :
            row.id \in Nat /\ row.is \in Row /\ \A f \in DOMAIN Sortable : row[f] \in 0 .. 1
  BY <1>1, CallAssumption DEF Part
<1>3. Selected \subseteq call.rows
  BY DEF Selected
<1>4. IsFiniteSet(Selected) /\ Cardinality(Selected) \in Nat
  BY <1>2, <1>3, FS_Subset, FS_CardinalityType
<1>5. Limit \in Nat
  BY <1>2 DEF Limit
<1> QED
  BY <1>2, <1>3, <1>4, <1>5

\* A row that matches is selected and kept.
LEMMA HitsKept ==
    ASSUME RequestInv, pc \in {"query", "apply", "found"}, NEW row \in Hits
    PROVE  row \in Selected /\ Keeps(row)
<1>1. row \in call.rows /\ Matches(call.q, row.is)
  BY DEF Hits
<1>2. call.q \in Seq(Token) /\ row.is \in Row /\ Accepted(call.q, tree, node)
  BY <1>1, CallTypes DEF RequestInv
<1>3. Where(tree, node, row.is) /\ Passes(tree, node, row.is)
  BY <1>1, <1>2, MatchesPass
<1> QED
  BY <1>1, <1>3 DEF Selected, Keeps

\* The rows of p that are kept, up to its end, are all that match.
LEMMA HitsRemain ==
    ASSUME RequestInv, pc \in {"query", "apply", "found"}, NEW p, Enumeration(p)
    PROVE  Hits \subseteq Remaining(p, 0, Cardinality(Selected))
<1> SUFFICES ASSUME NEW row \in Hits PROVE row \in Remaining(p, 0, Cardinality(Selected))
  OBVIOUS
<1>1. row \in Selected /\ Keeps(row)
  BY HitsKept
<1>2. PICK i \in 1 .. Cardinality(Selected) : p[i] = row
  BY <1>1 DEF Enumeration
<1>3. 1 .. Cardinality(Selected) = 0 + 1 .. Cardinality(Selected)
  OBVIOUS
<1> QED
  BY <1>1, <1>2, <1>3 DEF Remaining

-----------------------------------------------------------------------------
(* Every step keeps the invariant                                          *)

\* The directives of these parts.
Named(parts) ==
    {d \in Directive : \E i \in DOMAIN parts : parts[i].name # "" /\ d.field = parts[i].name}

LEMMA ParseSortTypes ==
    ASSUME NEW parts \in Seq(Part)
    PROVE  ParseSort(parts) \in Seq(Named(parts))
<1> DEFINE N == Len(parts)
           V == Seq(Named(parts))
           dir(n) == [field |-> parts[n].name, desc |-> parts[n].sign = "-"]
           Is(f) == f = [n \in 0 .. Len(parts) |->
                            IF n = 0 THEN <<>>
                            ELSE IF parts[n].name = "" THEN f[n - 1]
                            ELSE Append(f[n - 1], [field |-> parts[n].name,
                                                   desc |-> parts[n].sign = "-"])]
           c == CHOOSE f : Is(f)
           step == [n \in 1 .. N |-> [x \in V |->
                        IF parts[n].name = "" THEN x ELSE Append(x, dir(n))]]
<1>0. N \in Nat
  OBVIOUS
<1>a. ASSUME NEW n \in 1 .. N, parts[n].name # "" PROVE dir(n) \in Named(parts)
  <2>1. parts[n] \in Part /\ n \in DOMAIN parts
    OBVIOUS
  <2>2. parts[n].name \in STRING
    BY <2>1 DEF Part
  <2>3. (parts[n].sign = "-") \in BOOLEAN
    BY Zenon
  <2>4. dir(n) \in Directive /\ dir(n).field = parts[n].name
    BY <2>2, <2>3 DEF Directive
  <2> HIDE DEF dir
  <2> QED
    BY <1>a, <2>1, <2>4 DEF Named
<1>2. ASSUME NEW n \in 1 .. N, NEW x \in V, parts[n].name # "" PROVE Append(x, dir(n)) \in V
  <2>1. dir(n) \in Named(parts)
    BY <1>a, <1>2
  <2> HIDE DEF dir, N
  <2> QED
    BY <2>1
<1>3. step \in [1 .. N -> [V -> V]] /\ <<>> \in V
  <2> HIDE DEF N, V, dir
  <2>1. step \in [1 .. N -> [V -> V]]
    BY <1>2
  <2>2. <<>> \in V
    <3> USE DEF V
    <3> QED
      OBVIOUS
  <2> QED
    BY <2>1, <2>2
<1>4. PICK h \in [0 .. N -> V] :
          h = [n \in 0 .. N |-> IF n = 0 THEN <<>> ELSE step[n][h[n - 1]]]
  <2> HIDE DEF step, N, V
  <2>1. Rounds(N, V, <<>>, step)
    BY <1>0, <1>3 DEF Rounds
  <2> QED
    BY <2>1, Loop
<1>5. \A n \in 0 .. N : n # 0 => n \in 1 .. N /\ n - 1 \in 0 .. N
  BY <1>0
<1>6. Is(h)
  <2> SUFFICES ASSUME NEW n \in 0 .. N, n # 0
               PROVE  h[n] = IF parts[n].name = "" THEN h[n - 1] ELSE Append(h[n - 1], dir(n))
    BY <1>4
  <2> HIDE DEF V, dir
  <2>1. n \in 1 .. N /\ h[n - 1] \in V
    BY <1>4, <1>5
  <2>2. h[n] = step[n][h[n - 1]]
    BY <1>4
  <2> QED
    BY <2>1, <2>2
<1>7. Is(c)
  BY <1>6, Zenon
<1>8. ParseSort(parts) = c[Len(parts)]
  BY Zenon DEF ParseSort
<1> HIDE DEF c
<1>9. c = [n \in 0 .. N |-> IF n = 0 THEN <<>>
                          ELSE IF parts[n].name = "" THEN c[n - 1] ELSE Append(c[n - 1], dir(n))]
  BY <1>7
<1> HIDE DEF N, V, dir
<1>10. \A n \in 0 .. N : c[n] \in V
  <2> DEFINE S == 0 .. N
             Good == {n \in S : c[n] \in V}
             m == [n \in S |-> n]
  <2>1. ASSUME NEW n \in S, \A k \in S : m[k] < m[n] => k \in Good
        PROVE  n \in Good
    <3>1. n # 0 => n \in 1 .. N /\ c[n - 1] \in V
      <4>1. n # 0 => n \in 1 .. N /\ n - 1 \in S /\ m[n - 1] < m[n]
        BY <1>0
      <4> QED
        BY <2>1, <4>1
    <3>2. CASE n = 0
      BY <1>3, <1>9, <3>2
    <3>3. CASE n # 0 /\ parts[n].name = ""
      BY <1>9, <3>1, <3>3
    <3>4. CASE n # 0 /\ parts[n].name # ""
      <4>1. c[n] = Append(c[n - 1], dir(n))
        BY <1>9, <3>4
      <4> QED
        BY <1>2, <3>1, <3>4, <4>1
    <3> QED
      BY <3>2, <3>3, <3>4
  <2>2. m \in [S -> Nat]
    BY <1>0
  <2>3. \A n \in S : n \in Good
    <3> HIDE DEF S, Good, m
    <3> QED
      BY <2>1, <2>2, Induction
  <2> QED
    BY <2>3
<1>11. c[N] \in V
  BY <1>0, <1>10
<1> QED
  BY <1>8, <1>11 DEF N, V

\* What a request has to do with its rows depends on its call, tree and sorts.
LEMMA SameRows ==
    ASSUME call' = call, tree' = tree, node' = node, sorts' = sorts
    PROVE  /\ Selected' = Selected /\ Limit' = Limit
           /\ ByColumn' <=> ByColumn
           /\ Separates' <=> Separates
           /\ \A row : Keeps(row)' <=> Keeps(row)
           /\ \A p : (Sorted(p)' <=> Sorted(p)) /\ (Enumeration(p)' <=> Enumeration(p))
           /\ \A p : Order(p)' <=> Order(p)
           /\ \A s, p, m, n : Thinned(s, p, m, n)' <=> Thinned(s, p, m, n)
           /\ \A p, m, n : Remaining(p, m, n)' = Remaining(p, m, n)
<1>1. Selected' = Selected /\ Limit' = Limit
  BY DEF Selected, Limit
<1>2. ByColumn' <=> ByColumn
  BY DEF ByColumn
<1>3. \A row : Place(row)' = Place(row)
  BY DEF Place, InForce, ByColumn
<1>4. Separates' <=> Separates
  BY <1>1, <1>3 DEF Separates
<1>5. \A row : Keeps(row)' <=> Keeps(row)
  BY DEF Keeps
<1>6. \A p : (Sorted(p)' <=> Sorted(p)) /\ (Enumeration(p)' <=> Enumeration(p))
  BY <1>1, <1>3 DEF Sorted, Enumeration
<1>7. \A p : Order(p)' <=> Order(p)
  BY <1>6 DEF Order
<1>8. \A s, p, m, n : Thinned(s, p, m, n)' <=> Thinned(s, p, m, n)
  BY <1>5 DEF Thinned
<1>9. \A p, m, n : Remaining(p, m, n)' = Remaining(p, m, n)
  BY <1>5 DEF Remaining
<1> QED
  BY <1>1, <1>2, <1>4, <1>5, <1>6, <1>7, <1>8, <1>9

\* The directives of a request that has passed ToOption are over its fields.
LEMMA Ranks ==
    ASSUME RequestInv, sorts = ParseSort(call.s), ValidateSorts(sorts)
    PROVE  Ranked
<1>1. sorts \in Seq(Named(call.s))
  BY CallTypes, ParseSortTypes
<1>2. sorts \in Seq(Directive)
  <2>1. Named(call.s) \subseteq Directive
    BY DEF Named
  <2> QED
    BY <1>1, <2>1
<1>3. \A n \in DOMAIN sorts : sorts[n].field \in DOMAIN Sortable
  BY DEF ValidateSorts, CanSort, Range
<1>4. \A row \in Selected : \A f \in DOMAIN Sortable : row[f] \in 0 .. 1
  BY CallTypes
<1> QED
  BY <1>2, <1>3, <1>4 DEF Ranked, Digits

\* ToOption refuses what the schema does not filter or sort by.
LEMMA UnknownRefused ==
    ASSUME RequestInv, pc = "validate", ~(ValidateNode(tree, node) /\ ValidateSorts(sorts))
    PROVE  Refused
<1>1. Accepted(call.q, tree, node) /\ sorts = ParseSort(call.s)
  BY DEF RequestInv
<1> QED
  BY <1>1 DEF Accepted, Refused

\* Until a page is cut, none before it has been, or they go on where it begins.
LEMMA CutFromOrder ==
    ASSUME RequestInv, pc = "query", Ranked, NEW ss,
           \/ ss = collectDBSorts(sorts)
           \/ \E s : ss = Append(collectDBSorts(sorts), s),
           NEW p \in Answers(Selected, ss)
    PROVE  Enumeration(p) /\ Preceded(p)
<1>1. Enumeration(p)
  BY AnswersRows DEF Enumeration
<1>2. ASSUME ByColumn PROVE Order(p)
  BY <1>2, AnswersInOrder
<1>3. ASSUME ByColumn, offset = 0 PROVE Thinned(read, p, 0, offset)
  <2>1. read = <<>>
    BY <1>3 DEF RequestInv, Underway
  <2>2. Thinned(<<>>, p, 0, 0)
    BY ThinnedNone
  <2> QED
    BY <1>3, <2>1, <2>2
<1>4. ASSUME ByColumn, offset # 0, Separates PROVE Thinned(read, p, 0, offset)
  <2>1. PICK q : Order(q) /\ Thinned(read, q, 0, offset)
    BY <1>4 DEF RequestInv, Continues
  <2>2. IsFiniteSet(Selected)
    BY CallTypes
  <2>3. p = q
    BY <1>2, <1>4, <2>1, <2>2, OneOrder
  <2> QED
    BY <2>1, <2>3
<1> QED
  BY <1>1, <1>2, <1>3, <1>4 DEF Preceded, Order

\* The page is as long as the limit and the rows allow.
LEMMA PageCut ==
    ASSUME RequestInv, Underway, NEW p, Drawn(p)
    PROVE  /\ items \in Seq(Selected) /\ Len(items) = Reach - offset /\ Reach = offset + Len(items)
           /\ \A k \in 1 .. Len(items) : items[k] = p[offset + k]
           /\ Reach \in 0 .. Cardinality(Selected)
<1>1. /\ IsFiniteSet(Selected) /\ Cardinality(Selected) \in Nat /\ Limit \in Nat
      /\ offset \in 0 .. Cardinality(Selected)
  BY CallTypes DEF Underway
<1>2. p \in Seq(Selected) /\ Len(p) = Cardinality(Selected)
  BY <1>1, Enumerated DEF Drawn
<1>3. offset \in Nat /\ items = Paginate(p, offset, Limit)
  BY <1>1 DEF Drawn
<1>4. Page(items, Selected, p, offset, Limit)
  BY <1>1, <1>2, <1>3, PageOf
<1>5. /\ items \in Seq(Selected) /\ Len(items) = Size(Cardinality(Selected) - offset, Limit)
      /\ \A k \in DOMAIN items : items[k] = p[offset + k]
  BY <1>1, <1>2, <1>4 DEF Page
<1>6. Size(Cardinality(Selected) - offset, Limit) \in 0 .. Cardinality(Selected) - offset
  BY <1>1 DEF Size
<1>7. Len(items) \in 0 .. Cardinality(Selected) - offset /\ Reach = offset + Len(items)
  BY <1>5, <1>6 DEF Reach
<1>8. Len(items) = Reach - offset /\ Reach \in 0 .. Cardinality(Selected)
  BY <1>1, <1>7
<1>9. DOMAIN items = 1 .. Len(items)
  BY <1>5
<1> QED
  BY <1>5, <1>7, <1>8, <1>9

\* ApplyFilter shows what the predicate leaves of the page.
LEMMA PageKept ==
    ASSUME RequestInv, Underway, Ranked, NEW p, Drawn(p)
    PROVE  /\ Kept(items) \in Seq(Selected) /\ Thinned(Kept(items), p, offset, Reach)
           /\ Range(Kept(items)) = Remaining(p, offset, Reach)
           /\ ~hasMemFilter(tree, node) => Len(Kept(items)) = Reach - offset
           /\ Sorted(p) => Sorted(Kept(items))
<1>1. /\ items \in Seq(Selected) /\ Len(items) = Reach - offset /\ Reach = offset + Len(items)
      /\ \A k \in 1 .. Len(items) : items[k] = p[offset + k]
      /\ Reach \in 0 .. Cardinality(Selected)
  BY PageCut
<1>2. /\ Kept(items) \in Seq(Selected) /\ Thinned(Kept(items), items, 0, Len(items))
      /\ (\A row \in Selected : Keeps(row)) => Len(Kept(items)) = Len(items)
  BY <1>1, KeptIs
<1>3. offset \in Nat /\ Len(items) \in Nat
  BY <1>1, CallTypes DEF Underway
<1>4. Thinned(Kept(items), p, offset, offset + Len(items))
  BY <1>1, <1>2, <1>3, ThinnedShift
<1>5. Thinned(Kept(items), p, offset, Reach)
  BY <1>1, <1>4
<1>6. Range(Kept(items)) = Remaining(p, offset, Reach)
  BY <1>5, ThinnedRows
<1>7. ~hasMemFilter(tree, node) => \A row \in Selected : Keeps(row)
  BY DEF Keeps, Passes
<1>8. offset + 1 .. Reach \subseteq DOMAIN p
  <2>1. DOMAIN p = 1 .. Cardinality(Selected) /\ Cardinality(Selected) \in Nat
    BY CallTypes DEF Drawn, Enumeration
  <2> QED
    BY <1>1, <1>3, <2>1
<1>9. Sorted(p) => Sorted(Kept(items))
  BY <1>2, <1>3, <1>5, <1>8, ThinnedOrder
<1> QED
  BY <1>1, <1>2, <1>5, <1>6, <1>7, <1>9

LEMMA RequestInit == ASSUME Init PROVE RequestInv
BY DEF Init, RequestInv

LEMMA FromRequestKeeps == ASSUME RequestInv, FromRequest PROVE RequestInv'
<1>1. /\ pc = "parse" /\ call \in Calls /\ call' = call /\ read' = read /\ offset' = offset
      /\ offset = 0 /\ read = <<>>
  BY DEF FromRequest, RequestInv
<1>2. CASE ParseFilter(call.q).ok
  <2>1. /\ node' = ParseFilter(call.q).node /\ tree' = ParseFilter(call.q).tree
        /\ sorts' = ParseSort(call.s) /\ pc' = "validate"
    BY <1>2 DEF FromRequest
  <2>2. Accepted(call'.q, tree', node') /\ sorts' = ParseSort(call'.s)
    BY <1>1, <1>2, <2>1 DEF Accepted
  <2> QED
    BY <1>1, <2>1, <2>2 DEF RequestInv
<1>3. CASE ~ParseFilter(call.q).ok
  <2>1. pc' = "rejected"
    BY <1>3 DEF FromRequest
  <2>2. Refused'
    BY <1>1, <1>3 DEF Refused
  <2> QED
    BY <1>1, <2>1, <2>2 DEF RequestInv
<1> QED
  BY <1>2, <1>3

LEMMA ToOptionKeeps == ASSUME RequestInv, ToOption PROVE RequestInv'
<1>1. /\ pc = "validate" /\ call \in Calls /\ call' = call /\ read' = read /\ offset' = offset
      /\ tree' = tree /\ node' = node /\ sorts' = sorts
      /\ Accepted(call.q, tree, node) /\ sorts = ParseSort(call.s) /\ offset = 0 /\ read = <<>>
  BY DEF ToOption, RequestInv
<1>2. Selected' = Selected
  BY <1>1, SameRows
<1>3. CASE ValidateNode(tree, node) /\ ValidateSorts(sorts)
  <2>1. pc' = "query"
    BY <1>3 DEF ToOption
  <2>2. offset' \in 0 .. Cardinality(Selected') /\ read' \in Seq(Selected')
    BY <1>1, <1>2, CallTypes
  <2>3. Underway'
    BY <1>1, <1>3, <2>2 DEF Underway
  <2>4. Continues'
    BY <1>1 DEF Continues
  <2> QED
    BY <1>1, <2>1, <2>3, <2>4 DEF RequestInv
<1>4. CASE ~(ValidateNode(tree, node) /\ ValidateSorts(sorts))
  <2>1. pc' = "rejected"
    BY <1>4 DEF ToOption
  <2>2. Refused
    BY <1>1, <1>4, UnknownRefused
  <2>3. Refused'
    BY <1>1, <2>2 DEF Refused
  <2> QED
    BY <1>1, <2>1, <2>3 DEF RequestInv
<1> QED
  BY <1>3, <1>4

\* The steps that handle the rows leave the rest of the request alone.
LEMMA StillUnderway ==
    ASSUME RequestInv, pc \in {"query", "apply", "found"},
           UNCHANGED <<call, node, tree, sorts, read, offset>>
    PROVE  /\ Underway /\ Underway' /\ Ranked
           /\ call' \in Calls /\ Accepted(call'.q, tree', node') /\ sorts' = ParseSort(call'.s)
           /\ \A p : Preceded(p)' <=> Preceded(p)
           /\ Reach' = Reach
<1>1. Underway /\ call \in Calls /\ Accepted(call.q, tree, node) /\ sorts = ParseSort(call.s)
  BY DEF RequestInv
<1>2. Ranked
  BY <1>1, Ranks DEF Underway
<1>3. Selected' = Selected /\ Limit' = Limit
  BY SameRows
<1>4. Underway'
  BY <1>1, <1>3 DEF Underway
<1>5. \A p : Preceded(p)' <=> Preceded(p)
  BY SameRows DEF Preceded
<1>6. Reach' = Reach
  BY <1>3 DEF Reach
<1> QED
  BY <1>1, <1>2, <1>4, <1>5, <1>6

LEMMA QueryKeeps == ASSUME RequestInv, Find \/ First PROVE RequestInv'
<1>1. /\ pc = "query" /\ pc' = "apply"
      /\ UNCHANGED <<call, node, tree, sorts, read, offset>>
  BY DEF Find, First
<1>2. Ranked /\ Underway
  BY <1>1, StillUnderway
<1>3. \E ss : /\ \/ ss = collectDBSorts(sorts)
                 \/ \E s : ss = Append(collectDBSorts(sorts), s)
              /\ \E p \in Answers(Selected, ss) : items' = Paginate(p, offset, Limit)
  <2>1. CASE Find
    <3>1. Limit = call.limit
      BY <2>1 DEF Find, Limit
    <3>2. \E p \in Answers(Selected, collectDBSorts(sorts)) : items' = Paginate(p, offset, call.limit)
      BY <2>1 DEF Find
    <3> QED
      BY <3>1, <3>2
  <2>2. CASE First
    <3>1. Limit = 1 /\ offset = 0
      BY <1>2, <2>2 DEF First, Limit, Underway
    <3> DEFINE ss == Append(collectDBSorts(sorts), ById)
    <3>2. \E p \in Answers(Selected, ss) : items' = Paginate(p, 0, 1)
      BY <2>2 DEF First
    <3>3. \E p \in Answers(Selected, ss) : items' = Paginate(p, offset, Limit)
      BY <3>1, <3>2
    <3> QED
      BY <3>3
  <2> QED
    BY <2>1, <2>2
<1>4. PICK ss : /\ \/ ss = collectDBSorts(sorts)
                   \/ \E s : ss = Append(collectDBSorts(sorts), s)
                /\ \E p \in Answers(Selected, ss) : items' = Paginate(p, offset, Limit)
  BY <1>3
<1>5. PICK p \in Answers(Selected, ss) : items' = Paginate(p, offset, Limit)
  BY <1>4
<1>6. Enumeration(p) /\ Preceded(p)
  BY <1>1, <1>2, <1>4, CutFromOrder
<1>7. Drawn(p)'
  <2>1. Enumeration(p)' /\ Limit' = Limit
    BY <1>1, <1>6, SameRows
  <2>2. Preceded(p)'
    BY <1>1, <1>6, StillUnderway
  <2>3. items' = Paginate(p, offset', Limit')
    BY <1>1, <1>5, <2>1
  <2> QED
    BY <2>1, <2>2, <2>3 DEF Drawn
<1>8. \E q : Drawn(q)'
  BY <1>7
<1>9. /\ Underway' /\ call' \in Calls
      /\ Accepted(call'.q, tree', node') /\ sorts' = ParseSort(call'.s)
  BY <1>1, StillUnderway
<1> QED
  BY <1>1, <1>8, <1>9 DEF RequestInv

LEMMA ApplyKeeps == ASSUME RequestInv, ApplyFilter PROVE RequestInv'
<1>1. /\ pc = "apply" /\ pc' = "found"
      /\ UNCHANGED <<call, node, tree, sorts, read, offset>>
  BY DEF ApplyFilter
<1>2. Ranked /\ Underway
  BY <1>1, StillUnderway
<1>3. PICK p : Drawn(p)
  BY <1>1 DEF RequestInv
<1>4. /\ Kept(items) \in Seq(Selected) /\ Thinned(Kept(items), p, offset, Reach)
      /\ Range(Kept(items)) = Remaining(p, offset, Reach)
      /\ ~hasMemFilter(tree, node) => Len(Kept(items)) = Reach - offset
      /\ Sorted(p) => Sorted(Kept(items))
  BY <1>2, <1>3, PageKept
<1>5. hasMemSort(sorts) <=> ~ByColumn
  BY DEF hasMemSort, ByColumn
<1>6. PICK t : /\ items' = t /\ t \in Seq(Selected) /\ Sorted(t) /\ Range(t) = Range(Kept(items))
               /\ ByColumn => t = Kept(items)
  <2>1. CASE ByColumn
    <3>1. items' = Kept(items)
      BY <1>5, <2>1 DEF ApplyFilter
    <3>2. Sorted(Kept(items))
      BY <1>3, <1>4, <2>1 DEF Drawn, Preceded
    <3> QED
      BY <1>4, <3>1, <3>2
  <2>2. CASE ~ByColumn
    <3>1. PICK t \in SliceStable(Kept(items), sorts) : items' = t
      BY <1>5, <2>2 DEF ApplyFilter
    <3>2. t \in Seq(Selected) /\ Sorted(t) /\ Range(t) = Range(Kept(items))
      BY <1>2, <1>4, <2>2, StableInOrder
    <3> QED
      BY <2>2, <3>1, <3>2
  <2> QED
    BY <2>1, <2>2
<1>7. Shown(p)'
  <2>1. Enumeration(p)' /\ Sorted(t)' /\ (ByColumn' <=> ByColumn) /\ Selected' = Selected
    BY <1>1, <1>3, <1>6, SameRows DEF Drawn
  <2>2. Preceded(p)' /\ Reach' = Reach
    BY <1>1, <1>3, StillUnderway DEF Drawn
  <2>3. Sorted(items)' /\ items' \in Seq(Selected')
    BY <1>6, <2>1 DEF Sorted
  <2>4. Range(items') = Remaining(p, offset, Reach)'
    BY <1>1, <1>4, <1>6, <2>2, SameRows
  <2>5. ByColumn' => Thinned(items, p, offset, Reach)'
    BY <1>1, <1>4, <1>6, <2>1, <2>2, SameRows
  <2>6. ByColumn' /\ ~hasMemFilter(tree', node') => Len(items') = Reach' - offset'
    BY <1>1, <1>4, <1>6, <2>1, <2>2
  <2> QED
    BY <2>1, <2>2, <2>3, <2>4, <2>5, <2>6 DEF Shown
<1>8. \E q : Shown(q)'
  BY <1>7
<1>9. /\ Underway' /\ call' \in Calls
      /\ Accepted(call'.q, tree', node') /\ sorts' = ParseSort(call'.s)
  BY <1>1, StillUnderway
<1> QED
  BY <1>1, <1>8, <1>9 DEF RequestInv

LEMMA NextPageKeeps == ASSUME RequestInv, NextPage PROVE RequestInv'
<1>1. /\ pc = "found" /\ pc' = "query" /\ UNCHANGED <<call, node, tree, sorts>>
      /\ call.op = "find" /\ call.limit > 0 /\ offset + call.limit <= Cardinality(Selected)
      /\ read' = read \o items /\ offset' = offset + call.limit
  BY DEF NextPage
<1>2. /\ Underway /\ call \in Calls /\ Accepted(call.q, tree, node) /\ sorts = ParseSort(call.s)
  BY <1>1 DEF RequestInv
<1>3. PICK p : Shown(p)
  BY <1>1 DEF RequestInv
<1>4. /\ call.limit \in Nat /\ Limit = call.limit /\ Cardinality(Selected) \in Nat
      /\ offset \in 0 .. Cardinality(Selected)
  BY <1>1, <1>2, CallTypes DEF Limit, Underway
<1>5. Reach = offset'
  BY <1>1, <1>4 DEF Reach, Size
<1>6. offset' \in 1 .. Cardinality(Selected) /\ offset' \in Nat
  BY <1>1, <1>4
<1>7. read' \in Seq(Selected)
  BY <1>1, <1>2, <1>3 DEF Underway, Shown
<1>8. Selected' = Selected
  BY <1>1, SameRows
<1>9. Underway'
  <2>1. offset' \in 0 .. Cardinality(Selected') /\ read' \in Seq(Selected') /\ offset' # 0
    BY <1>6, <1>7, <1>8
  <2>2. ~(call'.op = "first" \/ call'.limit = 0)
    BY <1>1, <1>4
  <2> QED
    BY <1>1, <1>2, <2>1, <2>2 DEF Underway
<1>10. ASSUME ByColumn, Separates PROVE Order(p) /\ Thinned(read \o items, p, 0, offset')
  <2>1. /\ Enumeration(p) /\ Sorted(p) /\ Thinned(read, p, 0, offset)
        /\ Thinned(items, p, offset, Reach)
    BY <1>3, <1>10 DEF Shown, Preceded
  <2>2. read \in Seq(Selected) /\ items \in Seq(Selected)
    BY <1>2, <1>3 DEF Underway, Shown
  <2>3. offset \in Nat /\ 0 \in 0 .. offset /\ offset' \in Nat /\ offset <= offset'
    BY <1>1, <1>4, <1>6
  <2>4. Thinned(items, p, offset, offset')
    BY <1>5, <2>1
  <2>5. Thinned(read \o items, p, 0, offset')
    BY <2>1, <2>2, <2>3, <2>4, ThinnedJoin
  <2> QED
    BY <2>1, <2>5 DEF Order
<1>11. Continues'
  <2> SUFFICES ASSUME ByColumn', Separates' PROVE \E q : Order(q)' /\ Thinned(read, q, 0, offset)'
    BY DEF Continues
  <2>1. Order(p) /\ Thinned(read \o items, p, 0, offset')
    BY <1>1, <1>10, SameRows
  <2>2. Order(p)' /\ Thinned(read, p, 0, offset)'
    BY <1>1, <2>1, SameRows
  <2> QED
    BY <2>2
<1> QED
  BY <1>1, <1>2, <1>9, <1>11 DEF RequestInv

LEMMA RequestIdle == ASSUME RequestInv, UNCHANGED vars PROVE RequestInv'
<1>1. /\ call' = call /\ node' = node /\ tree' = tree /\ sorts' = sorts
      /\ items' = items /\ read' = read /\ offset' = offset /\ pc' = pc
  BY DEF vars
<1>2. /\ Selected' = Selected /\ Limit' = Limit
      /\ ByColumn' <=> ByColumn
      /\ Separates' <=> Separates
      /\ \A p : (Sorted(p)' <=> Sorted(p)) /\ (Enumeration(p)' <=> Enumeration(p))
      /\ \A p : Order(p)' <=> Order(p)
      /\ \A s, p, m, n : Thinned(s, p, m, n)' <=> Thinned(s, p, m, n)
      /\ \A p, m, n : Remaining(p, m, n)' = Remaining(p, m, n)
  BY <1>1, SameRows
<1>3. (Refused' <=> Refused) /\ (Underway' <=> Underway) /\ Reach' = Reach
  BY <1>1, <1>2 DEF Refused, Underway, Reach
<1>4. \A p : Thinned(read, p, 0, offset)' <=> Thinned(read, p, 0, offset)
  BY <1>1, <1>2
<1>5. \A p : Preceded(p)' <=> Preceded(p)
  BY <1>1, <1>2, <1>4 DEF Preceded
<1>6. Continues' <=> Continues
  BY <1>1, <1>2, <1>4 DEF Continues
<1>7. \A p : Drawn(p)' <=> Drawn(p)
  BY <1>1, <1>2, <1>5 DEF Drawn
<1>8. \A p : Shown(p)' <=> Shown(p)
  <2>1. \A p : /\ Thinned(items, p, offset, Reach)' <=> Thinned(items, p, offset, Reach)
               /\ Remaining(p, offset, Reach)' = Remaining(p, offset, Reach)
    BY <1>1, <1>2, <1>3
  <2>2. Sorted(items)' <=> Sorted(items)
    BY <1>1, <1>2
  <2> QED
    BY <1>1, <1>2, <1>3, <1>5, <2>1, <2>2 DEF Shown
<1> QED
  BY <1>1, <1>3, <1>6, <1>7, <1>8 DEF RequestInv

\* Every request keeps the invariant: the pages are what the predicate leaves of
\* one enumeration of the rows that the database selects.
THEOREM RequestInductive == Spec => []RequestInv
<1>1. Init => RequestInv
  BY RequestInit
<1>2. RequestInv /\ [Next]_vars => RequestInv'
  BY FromRequestKeeps, ToOptionKeeps, QueryKeeps, ApplyKeeps, NextPageKeeps, RequestIdle DEF Next
<1> QED
  BY <1>1, <1>2, PTL DEF Spec

-----------------------------------------------------------------------------
(* What the handlers may rely on                                           *)

\* Every filter that is refused is wrong, every other means what its tree means
\* (parser.go), whatever sort the request has besides.
THEOREM TreesMean == Spec => []TreeMeans
<1>1. ASSUME RequestInv PROVE TreeMeans
  <2>0. call.q \in Seq(Token) /\ call.s \in Seq(Part)
    BY <1>1, CallTypes
  <2>1. ASSUME pc = "validate" PROVE call.q = <<>> \/ Derives(call.q)[Whole(call.q)]
    <3>1. Accepted(call.q, tree, node)
      BY <1>1, <2>1 DEF RequestInv
    <3> QED
      BY <2>0, <3>1, InUse
  <2>2. ASSUME pc = "rejected"
        PROVE  \/ call.q # <<>> /\ ~Derives(call.q)[Whole(call.q)]
               \/ \E i \in DOMAIN call.q : call.q[i] \in Field /\ Level[call.q[i]] = "unknown"
               \/ \E i \in DOMAIN call.s : call.s[i].name # "" /\ ~CanSort(call.s[i].name)
    <3>1. Refused
      BY <1>1, <2>2 DEF RequestInv
    <3>2. CASE LET r == ParseFilter(call.q) IN r.ok => ~ValidateNode(r.tree, r.node)
      BY <2>0, <3>2, RefusedIsWrong
    <3>3. CASE ~ValidateSorts(ParseSort(call.s))
      <4> DEFINE ss == ParseSort(call.s)
      <4>1. ss \in Seq(Named(call.s))
        BY <2>0, ParseSortTypes
      <4>2. PICK n \in DOMAIN ss : ~CanSort(ss[n].field)
        BY <3>3 DEF ValidateSorts, Range
      <4> HIDE DEF ss
      <4>3. ss[n] \in Named(call.s)
        BY <4>1, <4>2
      <4> QED
        BY <4>2, <4>3 DEF Named
    <3> QED
      BY <3>1, <3>2, <3>3 DEF Refused
  <2>3. ASSUME pc = "query", call.q # <<>>, NEW is \in Row
        PROVE  Holds(tree, is)[node] <=> Matches(call.q, is)
    <3>1. Accepted(call.q, tree, node)
      BY <1>1, <2>3 DEF RequestInv
    <3> QED
      BY <2>0, <2>3, <3>1, InUse
  <2> QED
    BY <2>1, <2>2, <2>3 DEF TreeMeans
<1> QED
  BY <1>1, RequestInductive, PTL

\* The rows of a call without a limit are all the rows that match, and First has
\* one of them, unless a FilterFn stands in its way (option.go).
THEOREM NoneLost == Spec => []NothingLost
<1>1. ASSUME RequestInv PROVE NothingLost
  <2> SUFFICES ASSUME pc = "found",
                      \/ call.op = "find" /\ call.limit = 0
                      \/ call.op = "first" /\ ~hasMemFilter(tree, node)
               PROVE  /\ call.op = "find" => Hits \subseteq Range(items)
                      /\ call.op = "first" /\ items = <<>> => Hits = {}
    BY DEF NothingLost
  <2>1. PICK p : Shown(p)
    BY <1>1 DEF RequestInv
  <2>2. Enumeration(p) /\ Range(items) = Remaining(p, offset, Reach)
    BY <2>1 DEF Shown
  <2>3. offset = 0 /\ Cardinality(Selected) \in Nat
    BY <1>1, CallTypes DEF RequestInv, Underway
  <2>4. Reach = Size(Cardinality(Selected), Limit)
    <3>1. \A n \in Nat : 0 + Size(n - 0, Limit) = Size(n, Limit)
      BY <1>1, CallTypes DEF Size
    <3> QED
      BY <2>3, <3>1 DEF Reach
  <2>5. CASE call.op = "find"
    <3>1. Reach = Cardinality(Selected)
      BY <2>4, <2>5 DEF Limit, Size
    <3>2. Hits \subseteq Range(items)
      BY <1>1, <2>2, <2>3, <3>1, HitsRemain
    <3> QED
      BY <2>5, <3>2
  <2>6. CASE call.op = "first"
    <3> SUFFICES ASSUME items = <<>>, NEW row \in Hits PROVE FALSE
      BY <2>6
    <3>1. row \in Selected
      BY <1>1, HitsKept
    <3>2. PICK i \in 1 .. Cardinality(Selected) : p[i] = row
      BY <2>2, <3>1 DEF Enumeration
    <3>3. 1 \in 1 .. Cardinality(Selected) /\ Reach = 1
      BY <2>3, <2>4, <2>6, <3>2 DEF Limit, Size
    <3>4. p[1] \in Selected /\ Keeps(p[1])
      BY <2>2, <2>6, <3>3 DEF Enumeration, Keeps, Passes
    <3>5. p[1] \in Remaining(p, 0, 1)
      <4>1. 1 \in 0 + 1 .. 1
        OBVIOUS
      <4> QED
        BY <3>4, <4>1 DEF Remaining
    <3>6. Range(items) = {}
      BY DEF Range
    <3> QED
      BY <2>2, <2>3, <3>3, <3>5, <3>6
  <2> QED
    BY <2>5, <2>6
<1> QED
  BY <1>1, RequestInductive, PTL

\* What is returned matches, for every sort and on every page, unless an OR
\* mixes a FilterFn with SQL (option.go:374).
THEOREM NoneExtra == Spec => []NothingExtra
<1>1. ASSUME RequestInv PROVE NothingExtra
  <2> SUFFICES ASSUME pc = "found", node # Nil => Separable(tree)[node], NEW row \in Range(items)
               PROVE  row \in Hits
    BY DEF NothingExtra
  <2>1. PICK p : Shown(p)
    BY <1>1 DEF RequestInv
  <2>2. row \in Remaining(p, offset, Reach) /\ items \in Seq(Selected)
    BY <2>1 DEF Shown
  <2>3. row \in Selected /\ Keeps(row)
    BY <2>2 DEF Remaining, Range
  <2>4. row \in call.rows /\ Where(tree, node, row.is) /\ Passes(tree, node, row.is)
    BY <2>3 DEF Selected, Keeps
  <2>5. call.q \in Seq(Token) /\ row.is \in Row
    BY <1>1, <2>4, CallTypes
  <2>6. Accepted(call.q, tree, node) /\ ValidateNode(tree, node)
    BY <1>1 DEF RequestInv, Underway
  <2>7. Matches(call.q, row.is)
    BY <2>4, <2>5, <2>6, PassesMatch
  <2> QED
    BY <2>4, <2>7 DEF Hits
<1> QED
  BY <1>1, RequestInductive, PTL

\* The pages up to this one, together, are what is left of the rows up to its end.
LEMMA SeenRemain ==
    ASSUME RequestInv, pc = "found", ByColumn, offset = 0 \/ Separates
    PROVE  \E p : /\ Order(p) /\ Thinned(read \o items, p, 0, Reach)
                  /\ read \o items \in Seq(Selected)
                  /\ Seen = Remaining(p, 0, Reach)
                  /\ Reach \in 0 .. Cardinality(Selected)
                  /\ ~hasMemFilter(tree, node) => Len(items) = Reach - offset
<1>1. PICK p : Shown(p)
  BY DEF RequestInv
<1>2. /\ Order(p) /\ Thinned(read, p, 0, offset) /\ Thinned(items, p, offset, Reach)
      /\ items \in Seq(Selected) /\ (~hasMemFilter(tree, node) => Len(items) = Reach - offset)
  BY <1>1 DEF Shown, Preceded, Order
<1>3. /\ read \in Seq(Selected) /\ offset \in 0 .. Cardinality(Selected)
      /\ Cardinality(Selected) \in Nat /\ Limit \in Nat
  BY CallTypes DEF RequestInv, Underway
<1>4. /\ offset \in Nat /\ 0 \in 0 .. offset /\ Reach \in Nat /\ offset <= Reach
      /\ Reach \in 0 .. Cardinality(Selected)
  BY <1>3 DEF Reach, Size
<1>5. Thinned(read \o items, p, 0, Reach)
  BY <1>2, <1>3, <1>4, ThinnedJoin
<1>6. Seen = Remaining(p, 0, Reach)
  BY <1>5, ThinnedRows DEF Seen
<1>7. read \o items \in Seq(Selected)
  BY <1>2, <1>3
<1> QED
  BY <1>2, <1>4, <1>5, <1>6, <1>7

\* Behind the last page there is no row.
LEMMA LastReaches ==
    ASSUME RequestInv, pc = "found", call.op = "find", LastPage,
           ~hasMemFilter(tree, node) => Len(items) = Reach - offset
    PROVE  Reach = Cardinality(Selected)
<1>1. /\ Cardinality(Selected) \in Nat /\ Limit = call.limit /\ call.limit \in Nat
      /\ offset \in 0 .. Cardinality(Selected)
  BY CallTypes DEF RequestInv, Underway, Limit
<1>2. CASE call.limit = 0 \/ offset + call.limit >= Cardinality(Selected)
  BY <1>1, <1>2 DEF Reach, Size
<1>3. CASE Len(items) < call.limit /\ ~hasMemFilter(tree, node)
  <2>1. Reach - offset < call.limit
    BY <1>3
  <2> QED
    BY <1>1, <2>1 DEF Reach, Size
<1> QED
  BY <1>2, <1>3 DEF LastPage

\* Wherever the sorting takes place a page is in the order of the directives,
\* and the pages that the database sorts are the front of the rows that match
\* and, if the directives separate the rows, together all of them, for any
\* table, any limit, any filter and any number of directives, and whatever a
\* FilterFn takes from each page (option.go:316, helper_repository.go:168).
THEOREM SortsSound == Spec => []SortedPages
<1>1. ASSUME RequestInv PROVE Ordered
  BY <1>1 DEF Ordered, RequestInv, Shown, Sorted
<1>2. ASSUME RequestInv PROVE PageIsFront
  <2> SUFFICES ASSUME pc = "found", ByColumn, offset = 0 \/ Separates,
                      NEW row \in Hits \ Seen, NEW other \in Seen
               PROVE  Place(other) <= Place(row)
    BY DEF PageIsFront
  <2>1. PICK p : /\ Order(p) /\ Seen = Remaining(p, 0, Reach)
                 /\ Reach \in 0 .. Cardinality(Selected)
    BY <1>2, SeenRemain
  <2>2. row \in Selected /\ Keeps(row) /\ Cardinality(Selected) \in Nat
    BY <1>2, HitsKept, CallTypes
  <2>3. PICK i \in 1 .. Cardinality(Selected) : p[i] = row
    BY <2>1, <2>2 DEF Order, Enumeration
  <2>4. PICK j \in 0 + 1 .. Reach : p[j] = other
    BY <2>1 DEF Remaining
  <2>5. i \notin 0 + 1 .. Reach
    BY <2>1, <2>2, <2>3 DEF Remaining
  <2>6. j < i /\ j \in 1 .. Cardinality(Selected)
    BY <2>1, <2>2, <2>3, <2>4, <2>5
  <2>7. DOMAIN p = 1 .. Cardinality(Selected) /\ Sorted(p)
    BY <2>1 DEF Order, Enumeration
  <2> QED
    BY <2>3, <2>4, <2>6, <2>7 DEF Sorted
<1>3. ASSUME RequestInv PROVE PagesComplete
  <2> SUFFICES ASSUME pc = "found", call.op = "find", ByColumn, Separates
               PROVE  IsInjective(read \o items) /\ (LastPage => Hits \subseteq Seen)
    BY DEF PagesComplete
  <2>1. PICK p : /\ Order(p) /\ Thinned(read \o items, p, 0, Reach)
                 /\ read \o items \in Seq(Selected)
                 /\ Seen = Remaining(p, 0, Reach)
                 /\ Reach \in 0 .. Cardinality(Selected)
                 /\ ~hasMemFilter(tree, node) => Len(items) = Reach - offset
    BY <1>3, SeenRemain
  <2>2. DOMAIN p = 1 .. Cardinality(Selected) /\ Cardinality(Selected) \in Nat
    BY <1>3, <2>1, CallTypes DEF Order, Enumeration
  <2>3. 0 + 1 .. Reach \subseteq DOMAIN p
    BY <2>1, <2>2
  <2>4. IsInjective(read \o items)
    BY <2>1, <2>3, ThinnedOrder DEF Order, Enumeration
  <2>5. ASSUME LastPage PROVE Hits \subseteq Seen
    <3>1. Reach = Cardinality(Selected)
      BY <1>3, <2>1, <2>5, LastReaches
    <3> QED
      BY <1>3, <2>1, <3>1, HitsRemain DEF Order
  <2> QED
    BY <2>4, <2>5
<1>4. RequestInv => SortedPages
  BY <1>1, <1>2, <1>3 DEF SortedPages
<1> QED
  BY <1>4, RequestInductive, PTL

-----------------------------------------------------------------------------
(* There is a result                                                       *)

\* R never puts two elements of T before each other, and it passes on.
Strict(R, T) ==
    /\ \A x, y \in T : <<x, y>> \in R => <<y, x>> \notin R
    /\ \A x, y, z \in T : <<x, y>> \in R /\ <<y, z>> \in R => <<x, z>> \in R

\* Some element of a finite set comes before no other.
LEMMA SomeLast ==
    ASSUME NEW T, IsFiniteSet(T), NEW R, Strict(R, T), NEW U \in SUBSET T, U # {}
    PROVE  \E x \in U : \A y \in U : <<x, y>> \notin R
<1> DEFINE S == SUBSET T
           m == [V \in S |-> Cardinality(V)]
           Good == {V \in S : V # {} => \E x \in V : \A y \in V : <<x, y>> \notin R}
<1>1. \A V \in S : IsFiniteSet(V) /\ m[V] = Cardinality(V) /\ m[V] \in Nat
  BY FS_Subset, FS_CardinalityType
<1>2. ASSUME NEW V \in S, \A W \in S : m[W] < m[V] => W \in Good
      PROVE  V \in Good
  <2> SUFFICES ASSUME NEW x \in V PROVE \E z \in V : \A y \in V : <<z, y>> \notin R
    OBVIOUS
  <2> DEFINE W == {y \in V : <<x, y>> \in R}
  <2>1. CASE W = {}
    BY <2>1
  <2>2. CASE W # {}
    <3>1. x \in T /\ x \notin W /\ W \subseteq V /\ W \in S
      BY DEF Strict
    <3>2. m[W] < m[V]
      <4>1. Cardinality(W) < Cardinality(V)
        <5> HIDE DEF W, S, m
        <5>1. IsFiniteSet(V) /\ W \subseteq V /\ W # V
          BY <1>1, <3>1
        <5>2. Cardinality(V) \in Nat /\ Cardinality(W) \in Nat
          BY <5>1, FS_Subset, FS_CardinalityType
        <5>3. Cardinality(W) <= Cardinality(V) /\ Cardinality(W) # Cardinality(V)
          BY <5>1, FS_Subset
        <5> QED
          BY <5>2, <5>3
      <4> QED
        BY <1>1, <3>1, <4>1
    <3>3. PICK z \in W : \A y \in W : <<z, y>> \notin R
      BY <1>2, <2>2, <3>1, <3>2
    <3>4. \A y \in V : <<z, y>> \notin R
      BY <3>1, <3>3 DEF Strict
    <3> QED
      BY <3>1, <3>4
  <2> QED
    BY <2>1, <2>2
<1>3. m \in [S -> Nat]
  BY <1>1
<1>4. \A V \in S : V \in Good
  <2> HIDE DEF S, m, Good
  <2> QED
    BY <1>2, <1>3, Induction
<1> QED
  BY <1>4

\* An enumeration of T, none before one that R puts before it.
Arranged(R, T, p) ==
    /\ p \in [1 .. Cardinality(T) -> T]
    /\ \A i, j \in 1 .. Cardinality(T) : p[i] = p[j] => i = j
    /\ \A x \in T : \E i \in 1 .. Cardinality(T) : p[i] = x
    /\ \A i, j \in 1 .. Cardinality(T) : i < j => <<p[j], p[i]>> \notin R

LEMMA AddLast ==
    ASSUME NEW T, IsFiniteSet(T), NEW R, NEW x \in T, \A y \in T : <<x, y>> \notin R,
           NEW q, Arranged(R, T \ {x}, q)
    PROVE  \E p : Arranged(R, T, p)
<1> DEFINE n == Cardinality(T)
           p == [k \in 1 .. n |-> IF k = n THEN x ELSE q[k]]
<1>1. Cardinality(T \ {x}) = n - 1 /\ n \in Nat /\ n > 0
  BY FS_RemoveElement, FS_EmptySet, FS_CardinalityType
<1> HIDE DEF n
<1>2. \A k \in 1 .. n : k # n => k \in 1 .. n - 1
  BY <1>1
<1>3. /\ q \in [1 .. n - 1 -> T \ {x}]
      /\ \A i, j \in 1 .. n - 1 : q[i] = q[j] => i = j
      /\ \A y \in T \ {x} : \E i \in 1 .. n - 1 : q[i] = y
      /\ \A i, j \in 1 .. n - 1 : i < j => <<q[j], q[i]>> \notin R
  BY <1>1 DEF Arranged
<1>4. \A k \in 1 .. n : k # n => p[k] = q[k] /\ q[k] \in T /\ q[k] # x
  BY <1>2, <1>3
<1>5. n \in 1 .. n /\ p[n] = x /\ \A i \in 1 .. n - 1 : i \in 1 .. n /\ i # n
  BY <1>1
<1>6. p \in [1 .. n -> T]
  BY <1>4
<1> HIDE DEF p
<1>7. \A i, j \in 1 .. n : p[i] = p[j] => i = j
  BY <1>2, <1>3, <1>4, <1>5
<1>8. \A y \in T : \E i \in 1 .. n : p[i] = y
  BY <1>3, <1>4, <1>5
<1>9. ASSUME NEW i \in 1 .. n, NEW j \in 1 .. n, i < j PROVE <<p[j], p[i]>> \notin R
  <2>1. i # n
    BY <1>1, <1>9
  <2>2. CASE j = n
    BY <1>5, <1>6, <2>2
  <2>3. CASE j # n
    BY <1>2, <1>3, <1>4, <1>9, <2>1, <2>3
  <2> QED
    BY <2>2, <2>3
<1> QED
  BY <1>6, <1>7, <1>8, <1>9 DEF Arranged, n

LEMMA Arrangement ==
    ASSUME NEW T, IsFiniteSet(T), NEW R, Strict(R, T)
    PROVE  \E p : Arranged(R, T, p)
<1> DEFINE S == SUBSET T
           m == [V \in S |-> Cardinality(V)]
           Good == {V \in S : \E p : Arranged(R, V, p)}
<1>1. \A V \in S : IsFiniteSet(V) /\ m[V] = Cardinality(V) /\ m[V] \in Nat
  BY FS_Subset, FS_CardinalityType
<1>2. ASSUME NEW V \in S, \A W \in S : m[W] < m[V] => W \in Good
      PROVE  V \in Good
  <2>1. CASE V = {}
    <3>1. Cardinality(V) = 0 /\ 1 .. 0 = {}
      BY <2>1, FS_EmptySet
    <3>2. Arranged(R, V, [k \in 1 .. Cardinality(V) |-> 0])
      BY <2>1, <3>1 DEF Arranged
    <3> QED
      BY <3>2
  <2>2. CASE V # {}
    <3>1. PICK x \in V : \A y \in V : <<x, y>> \notin R
      BY <2>2, SomeLast
    <3>2. V \ {x} \in S /\ m[V \ {x}] < m[V]
      <4>1. IsFiniteSet(V) /\ Cardinality(V \ {x}) = Cardinality(V) - 1
        BY <1>1, FS_RemoveElement
      <4>2. V \ {x} \in S
        OBVIOUS
      <4> HIDE DEF S
      <4> QED
        BY <1>1, <4>1, <4>2
    <3>3. PICK q : Arranged(R, V \ {x}, q)
      BY <1>2, <3>2
    <3>4. \E p : Arranged(R, V, p)
      BY <1>1, <3>1, <3>3, AddLast
    <3> QED
      BY <3>4
  <2> QED
    BY <2>1, <2>2
<1>3. m \in [S -> Nat]
  BY <1>1
<1>4. \A V \in S : V \in Good
  <2> HIDE DEF S, m, Good
  <2> QED
    BY <1>2, <1>3, Induction
<1> QED
  BY <1>4

\* A row that comes before another comes before a third, or that before the
\* other.
LEMMA CompareBetween ==
    ASSUME NEW ss \in Seq(Directive), NEW places \in SUBSET DOMAIN ss,
           NEW a, NEW b, NEW c, Valued(a, ss), Valued(b, ss), Valued(c, ss),
           Compare(a, c, ss, places)
    PROVE  Compare(a, b, ss, places) \/ Compare(b, c, ss, places)
<1>1. PICK n \in places :
          /\ Before(a, c, ss[n])
          /\ \A k \in places : k < n => a[ss[k].field] = c[ss[k].field]
  BY DEF Compare
<1> DEFINE Other(k) == b[ss[k].field] # a[ss[k].field] \/ b[ss[k].field] # c[ss[k].field]
           Apart == {k \in places : k <= n /\ Other(k)}
<1>2. \A k \in places : /\ k \in Nat /\ a[ss[k].field] \in Int /\ b[ss[k].field] \in Int
                        /\ c[ss[k].field] \in Int
  BY DEF Valued
<1>3. n \in Apart
  BY <1>1, <1>2 DEF Before
<1>4. PICK m \in Apart : \A k \in Apart : m <= k
  <2>1. Apart \in SUBSET Nat /\ Apart # {}
    BY <1>2, <1>3
  <2> HIDE DEF Apart
  <2> QED
    BY <2>1, Least
<1>5. m \in places /\ m <= n /\ Other(m) /\ m \in Nat /\ n \in Nat
  BY <1>2, <1>4
<1>6. \A k \in places : k < m => ~Other(k)
  <2> SUFFICES ASSUME NEW k \in places, k < m, Other(k) PROVE FALSE
    OBVIOUS
  <2>1. k \in Nat /\ k <= n /\ ~(m <= k)
    BY <1>2, <1>5
  <2>2. k \in Apart
    BY <2>1
  <2> QED
    BY <1>4, <2>1, <2>2
<1>7. Before(a, b, ss[m]) \/ Before(b, c, ss[m])
  <2>1. CASE m = n
    BY <1>1, <1>2, <2>1 DEF Before
  <2>2. CASE m # n
    <3>1. a[ss[m].field] = c[ss[m].field]
      BY <1>1, <1>5, <2>2
    <3> QED
      BY <1>2, <1>5, <3>1 DEF Before
  <2> QED
    BY <2>1, <2>2
<1>8. \A k \in places : k < m => /\ a[ss[k].field] = b[ss[k].field]
                                 /\ b[ss[k].field] = c[ss[k].field]
  BY <1>6
<1> QED
  BY <1>5, <1>7, <1>8 DEF Compare

\* The database can sort any rows by any directives.
LEMMA AnswersExist ==
    ASSUME IsFiniteSet(Selected), NEW ss \in Seq(Directive), \A row \in Selected : Valued(row, ss)
    PROVE  Answers(Selected, ss) # {}
<1> DEFINE R == {e \in Selected \X Selected : Compare(e[1], e[2], ss, DOMAIN ss)}
           n == Cardinality(Selected)
<1>1. \A a, b \in Selected : <<a, b>> \in R <=> Compare(a, b, ss, DOMAIN ss)
  OBVIOUS
<1>2. \A a, b \in Selected :
          Compare(a, b, ss, DOMAIN ss) => ~Compare(b, a, ss, DOMAIN ss)
  BY CompareAsymmetric
<1>3. \A a, b, c \in Selected :
          Compare(a, c, ss, DOMAIN ss) =>
              Compare(a, b, ss, DOMAIN ss) \/ Compare(b, c, ss, DOMAIN ss)
  BY CompareBetween
<1> HIDE DEF R
<1>4. Strict(R, Selected)
  BY <1>1, <1>2, <1>3 DEF Strict
<1>5. PICK p : Arranged(R, Selected, p)
  BY <1>4, Arrangement
<1>6. /\ p \in [1 .. n -> Selected]
      /\ \A i, j \in 1 .. n : p[i] = p[j] => i = j
      /\ \A row \in Selected : \E i \in 1 .. n : p[i] = row
      /\ \A i, j \in 1 .. n : i < j => <<p[j], p[i]>> \notin R
  BY <1>5 DEF Arranged
<1>7. DOMAIN p = 1 .. n
  BY <1>6
<1>8. \A i, j \in DOMAIN p : i < j => ~Compare(p[j], p[i], ss, DOMAIN ss)
  BY <1>1, <1>6, <1>7
<1>9. p \in Bijection(1 .. n, Selected)
  <2> HIDE DEF n
  <2>1. p \in Injection(1 .. n, Selected)
    BY <1>6 DEF Injection, IsInjective
  <2>2. p \in Surjection(1 .. n, Selected)
    BY <1>6 DEF Surjection
  <2> QED
    BY <2>1, <2>2 DEF Bijection
<1>10. p \in Answers(Selected, ss)
  BY <1>8, <1>9, Zenon DEF Answers
<1> QED
  BY <1>10

\* The sort in memory can sort any page by any directives.
LEMMA SliceExists ==
    ASSUME NEW s \in Seq(Selected), NEW ss \in Seq(Directive), \A row \in Selected : Valued(row, ss)
    PROVE  SliceStable(s, ss) # {}
<1> DEFINE T == DOMAIN s
           C(i, j) == compareItems(s[i], s[j], ss)
           R == {e \in T \X T : C(e[1], e[2]) \/ (~C(e[2], e[1]) /\ e[1] < e[2])}
<1>1. T = 1 .. Len(s) /\ Len(s) \in Nat /\ \A i \in T : s[i] \in Selected /\ i \in Nat
  OBVIOUS
<1>2. IsFiniteSet(T) /\ Cardinality(T) = Len(s)
  <2>1. IsFiniteSet(1 .. Len(s)) /\ Cardinality(1 .. Len(s)) = Len(s)
    <3> SUFFICES ASSUME NEW n \in Nat PROVE IsFiniteSet(1 .. n) /\ Cardinality(1 .. n) = n
      BY <1>1
    <3>1. 1 \in Int /\ n \in Int /\ (IF 1 > n THEN 0 ELSE n - 1 + 1) = n
      OBVIOUS
    <3> QED
      BY <3>1, FS_Interval
  <2> HIDE DEF T
  <2> QED
    BY <1>1, <2>1
<1>3. \A i, j \in T : C(i, j) => ~C(j, i)
  BY <1>1, CompareAsymmetric DEF compareItems
<1>4. \A i, j, k \in T : C(i, k) => C(i, j) \/ C(j, k)
  BY <1>1, CompareBetween DEF compareItems
<1> HIDE DEF C, T
<1>5. \A i, j \in T : <<i, j>> \in R <=> C(i, j) \/ (~C(j, i) /\ i < j)
  OBVIOUS
<1> HIDE DEF R
<1>6. Strict(R, T)
  <2>1. \A i, j \in T : <<i, j>> \in R => <<j, i>> \notin R
    BY <1>1, <1>3, <1>5
  <2>2. ASSUME NEW i \in T, NEW j \in T, NEW k \in T, <<i, j>> \in R, <<j, k>> \in R
        PROVE  <<i, k>> \in R
    <3>1. (C(i, j) \/ (~C(j, i) /\ i < j)) /\ (C(j, k) \/ (~C(k, j) /\ j < k))
      BY <1>5, <2>2
    <3>2. C(i, k) \/ (~C(k, i) /\ i < k)
      <4>1. i < j /\ j < k => i < k
        BY <1>1
      <4> QED
        BY <1>3, <1>4, <3>1, <4>1
    <3> QED
      BY <1>5, <3>2
  <2> QED
    BY <2>1, <2>2 DEF Strict
<1>7. PICK p : Arranged(R, T, p)
  BY <1>2, <1>6, Arrangement
<1>8. /\ p \in [T -> T]
      /\ \A i, j \in T : p[i] = p[j] => i = j
      /\ \A x \in T : \E i \in T : p[i] = x
      /\ \A i, j \in T : i < j => <<p[j], p[i]>> \notin R
  BY <1>1, <1>2, <1>7 DEF Arranged
<1>9. ASSUME NEW i \in T, NEW j \in T, i < j
      PROVE  C(p[i], p[j]) \/ (p[i] < p[j] /\ ~C(p[j], p[i]))
  <2>1. /\ p[i] \in T /\ p[j] \in T /\ <<p[j], p[i]>> \notin R
        /\ i # j
    <3>1. i # j
      BY <1>1, <1>9
    <3>2. p[i] \in T /\ p[j] \in T
      BY <1>8
    <3>3. <<p[j], p[i]>> \notin R
      BY <1>8, <1>9
    <3> QED
      BY <3>1, <3>2, <3>3
  <2>2. p[i] < p[j] \/ p[j] < p[i]
    <3>1. p[i] # p[j]
      BY <1>8, <2>1
    <3> QED
      BY <1>1, <2>1, <3>1
  <2> QED
    BY <1>5, <2>1, <2>2
<1>10. p \in Bijection(T, T)
  <2>1. p \in Injection(T, T)
    BY <1>8 DEF Injection, IsInjective
  <2>2. p \in Surjection(T, T)
    BY <1>8 DEF Surjection
  <2> QED
    BY <2>1, <2>2 DEF Bijection
<1>11. [k \in DOMAIN s |-> s[p[k]]] \in SliceStable(s, ss)
  BY <1>9, <1>10 DEF SliceStable, C, T
<1> QED
  BY <1>11

\* What a request asks for is there: the theorems on its results are not about
\* results that cannot be.
Answered ==
    /\ pc = "query" /\ call.op = "find" => Answers(Selected, collectDBSorts(sorts)) # {}
    /\ pc = "query" /\ call.op = "first" =>
        Answers(Selected, Append(collectDBSorts(sorts), ById)) # {}
    /\ pc = "apply" => SliceStable(Kept(items), sorts) # {}

\* For every table and all directives the database has an order to answer in
\* (Find, First) and the sort in memory one to leave the page in (sort.SliceStable
\* of option.go:336).
THEOREM SortsAnswered == Spec => []Answered
<1>1. ASSUME RequestInv PROVE Answered
  <2> SUFFICES ASSUME pc \in {"query", "apply"} PROVE Answered
    BY DEF Answered
  <2>1. Underway /\ sorts = ParseSort(call.s)
    BY <1>1 DEF RequestInv
  <2>2. Ranked /\ IsFiniteSet(Selected)
    BY <1>1, <2>1, Ranks, CallTypes DEF Underway
  <2>3. sorts \in Seq(Directive) /\ \A row \in Selected : Valued(row, sorts)
    BY <2>2 DEF Ranked, Digits, Valued
  <2> DEFINE ss == collectDBSorts(sorts)
             byId == Append(ss, ById)
  <2>4. ss \in Seq(Directive) /\ \A row \in Selected : Valued(row, ss)
    BY <2>3 DEF collectDBSorts, Valued
  <2>5. ById \in Directive /\ \A row \in Selected : row[ById.field] \in Int
    <3>1. \A row \in Selected : row.id \in Nat
      BY <1>1, CallTypes
    <3>2. ById.field = "id" /\ ById \in Directive
      <4>1. FALSE \in BOOLEAN
        OBVIOUS
      <4> QED
        BY <4>1 DEF ById, Directive
    <3> QED
      BY <3>1, <3>2
  <2> HIDE DEF ss
  <2>6. byId \in Seq(Directive) /\ \A row \in Selected : Valued(row, byId)
    BY <2>4, <2>5 DEF Valued
  <2>7. Answers(Selected, ss) # {} /\ Answers(Selected, byId) # {}
    <3> HIDE DEF byId
    <3> QED
      BY <2>2, <2>4, <2>6, AnswersExist
  <2>8. ASSUME pc = "apply" PROVE SliceStable(Kept(items), sorts) # {}
    <3>1. PICK p : Drawn(p)
      BY <1>1, <2>8 DEF RequestInv
    <3>2. Kept(items) \in Seq(Selected)
      BY <1>1, <2>1, <2>2, <3>1, PageKept
    <3> QED
      BY <2>3, <3>2, SliceExists
  <2> QED
    BY <2>7, <2>8 DEF Answered, ss
<1> QED
  BY <1>1, RequestInductive, PTL

=============================================================================
