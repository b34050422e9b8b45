----------------------- MODULE ProductContextProofs -----------------------
(***************************************************************************)
(* Proofs about ProductContext.  The maps are computed by going through    *)
(* the tables of a product once, which the model writes as folds.  What a  *)
(* fold computes is proved along its run, the sequence of its intermediate *)
(* results: the run exists, it starts with the base, and every element of  *)
(* the table takes it one step further.                                    *)
(***************************************************************************)
EXTENDS ProductContextProperties, QueueLemmas

-----------------------------------------------------------------------------
(* Runs of folds *)

\* What holds at the start of a run and is kept by each of its steps holds
\* all along it.
LEMMA UpTo ==
    ASSUME NEW n \in Nat, NEW T, 0 \in T,
           \A k \in 0 .. n - 1 : k \in T => k + 1 \in T
    PROVE  \A k \in 0 .. n : k \in T
  <1> DEFINE M == {k \in 0 .. n : k \notin T}
  <1>1. ASSUME M # {} PROVE FALSE
    <2>1. M \in SUBSET Nat
      OBVIOUS
    <2>2. Min(M) \in M /\ \A y \in M : Min(M) <= y
      BY <1>1, <2>1, MinIsLeast
    <2> DEFINE m == Min(M)
    <2>3. m \in 0 .. n /\ m \notin T /\ \A y \in M : m <= y
      BY <2>2
    <2> HIDE DEF m
    <2>4. m - 1 \in 0 .. n - 1 /\ (m - 1) + 1 = m
      BY <2>3
    <2>5. m - 1 \in T
      BY <2>3, <2>4
    <2> QED BY <2>3, <2>4, <2>5
  <1> QED BY <1>1

\* The greatest element of a set of positions is one of them.
LEMMA MaxInSet ==
    ASSUME NEW n \in Nat, NEW s \in SUBSET (1 .. n), s # {}
    PROVE  Max(s) \in s /\ \A y \in s : y <= Max(s)
  <1> DEFINE U == {m \in Nat : \A y \in s : y <= m}
  <1>1. U \in SUBSET Nat /\ n \in U
    OBVIOUS
  <1>2. Min(U) \in U /\ \A y \in U : Min(U) <= y
    BY <1>1, MinIsLeast
  <1> DEFINE m == Min(U)
  <1>3. m \in Nat /\ (\A y \in s : y <= m) /\ \A y \in U : m <= y
    BY <1>2
  <1> HIDE DEF m
  <1>4. m \in s
    <2>1. SUFFICES ASSUME m \notin s PROVE FALSE
      OBVIOUS
    <2>2. \A y \in s : y <= m - 1
      BY <1>3, <2>1
    <2>3. PICK y \in s : TRUE
      OBVIOUS
    <2>4. m - 1 \in Nat
      BY <1>3, <2>2, <2>3
    <2>5. m - 1 \in U
      BY <2>2, <2>4
    <2> QED BY <1>3, <2>5
  <1>5. \E x \in s : \A y \in s : x >= y
    BY <1>3, <1>4
  <1>6. Max(s) \in s /\ \A y \in s : Max(s) >= y
    BY <1>5 DEF Max
  <1> QED BY <1>6

\* The last position of the first k + 1 is k + 1, the others are the first k.
LEMMA LastPosition ==
    ASSUME NEW k \in Nat
    PROVE  /\ Max(1 .. k + 1) = k + 1
           /\ (1 .. k + 1) \ {k + 1} = 1 .. k
           /\ 1 .. k + 1 # {}
  <1>1. /\ 1 .. k + 1 # {} /\ k + 1 \in 1 .. k + 1
        /\ (1 .. k + 1) \ {k + 1} = 1 .. k
    OBVIOUS
  <1> DEFINE s == 1 .. k + 1
  <1>2. s \in SUBSET (1 .. k + 1) /\ k + 1 \in Nat
    OBVIOUS
  <1>3. Max(s) \in s /\ \A y \in s : y <= Max(s)
    <2> HIDE DEF s
    <2> QED BY <1>1, <1>2, MaxInSet DEF s
  <1>4. Max(s) = k + 1
    BY <1>1, <1>3
  <1> QED BY <1>1, <1>4

\* g takes every set of positions from the base, the last position last, a
\* step h for each.
IsFoldOf(g, n, base, h) ==
    \A s \in SUBSET (1 .. n) :
       g[s] = IF s = {} THEN base ELSE h[<<g[s \ {Max(s)}], Max(s)>>]

\* Such a function exists.
LEMMA FoldExists ==
    ASSUME NEW n \in Nat, NEW A, NEW base \in A, NEW h \in [A \X (1 .. n) -> A]
    PROVE  \E g \in [SUBSET (1 .. n) -> A] : IsFoldOf(g, n, base, h)
  <1> DEFINE Solves(g, k) == IsFoldOf(g, k, base, h)
             T == {k \in 0 .. n : \E g \in [SUBSET (1 .. k) -> A] : Solves(g, k)}
  <1> USE DEF IsFoldOf
  <1>1. 0 \in T
    <2> DEFINE g == [s \in SUBSET (1 .. 0) |-> base]
    <2>1. 1 .. 0 = {} /\ SUBSET (1 .. 0) = {{}} /\ 0 \in 0 .. n
      OBVIOUS
    <2>2. g \in [SUBSET (1 .. 0) -> A]
      OBVIOUS
    <2>3. Solves(g, 0)
      BY <2>1
    <2> QED BY <2>1, <2>2, <2>3
  <1>2. ASSUME NEW k \in 0 .. n - 1, k \in T PROVE k + 1 \in T
    <2>1. PICK g \in [SUBSET (1 .. k) -> A] : Solves(g, k)
      BY <1>2
    <2> DEFINE f == [s \in SUBSET (1 .. k + 1) |->
                        IF k + 1 \in s THEN h[<<g[s \ {k + 1}], k + 1>>] ELSE g[s]]
    <2>2. k \in Nat /\ k + 1 \in 1 .. n /\ k + 1 \in 0 .. n
      OBVIOUS
    <2>3. \A s \in SUBSET (1 .. k + 1) :
             /\ k + 1 \in s => s \ {k + 1} \in SUBSET (1 .. k)
             /\ k + 1 \notin s => s \in SUBSET (1 .. k)
      BY <2>2
    <2>4. f \in [SUBSET (1 .. k + 1) -> A]
      BY <2>2, <2>3
    <2>5. ASSUME NEW s \in SUBSET (1 .. k + 1), k + 1 \in s
          PROVE  f[s] = h[<<f[s \ {Max(s)}], Max(s)>>] /\ s # {}
      <3> HIDE DEF f
      <3>0. k + 1 \in Nat /\ s # {}
        BY <2>2, <2>5
      <3>1. Max(s) \in s /\ \A y \in s : y <= Max(s)
        BY <3>0, MaxInSet
      <3>2. Max(s) = k + 1
        <4>1. Max(s) \in 1 .. k + 1 /\ k + 1 <= Max(s)
          BY <2>5, <3>1
        <4> QED BY <2>2, <4>1
      <3>3. s \ {k + 1} \in SUBSET (1 .. k + 1) /\ k + 1 \notin s \ {k + 1}
        OBVIOUS
      <3>4. f[s \ {k + 1}] = g[s \ {k + 1}]
        BY <3>3 DEF f
      <3>5. f[s] = h[<<g[s \ {k + 1}], k + 1>>] /\ s # {}
        BY <2>5 DEF f
      <3>6. <<f[s \ {Max(s)}], Max(s)>> = <<g[s \ {k + 1}], k + 1>>
        BY <3>2, <3>4
      <3> QED BY <3>5, <3>6
    <2>6. ASSUME NEW s \in SUBSET (1 .. k + 1), k + 1 \notin s
          PROVE  f[s] = IF s = {} THEN base ELSE h[<<f[s \ {Max(s)}], Max(s)>>]
      <3>1. s \in SUBSET (1 .. k) /\ s \ {Max(s)} \in SUBSET (1 .. k)
        BY <2>3, <2>6
      <3>2. f[s] = g[s] /\ f[s \ {Max(s)}] = g[s \ {Max(s)}]
        BY <2>2, <2>6, <3>1
      <3>3. g[s] = IF s = {} THEN base ELSE h[<<g[s \ {Max(s)}], Max(s)>>]
        BY <2>1, <3>1
      <3> QED BY <3>2, <3>3
    <2> HIDE DEF f
    <2>7. Solves(f, k + 1)
      BY <2>5, <2>6
    <2>8. \E e \in [SUBSET (1 .. k + 1) -> A] : Solves(e, k + 1)
      <3> HIDE DEF Solves
      <3> QED BY <2>4, <2>7
    <2> QED BY <2>2, <2>8
  <1>3. \A k \in 0 .. n : k \in T
    <2> HIDE DEF T
    <2> QED BY <1>1, <1>2, UpTo
  <1>4. n \in T
    <2> HIDE DEF T
    <2>1. n \in 0 .. n
      OBVIOUS
    <2> QED BY <1>3, <2>1
  <1> QED BY <1>4

-----------------------------------------------------------------------------
(* Tables and sequences *)

\* A table is a sequence of its rows.
LEMMA TableShape ==
    ASSUME NEW t, IsTable(t)
    PROVE  /\ t \in Seq(ToSet(t)) /\ Len(t) \in Nat /\ DOMAIN t = 1 .. Len(t)
           /\ \A i \in DOMAIN t : t[i] \in ToSet(t)
           /\ IsFiniteSet(DOMAIN t)
  <1>1. t \in Seq(ToSet(t))
    BY DEF IsTable
  <1>2. Len(t) \in Nat /\ DOMAIN t = 1 .. Len(t)
    BY <1>1
  <1>3. IsFiniteSet(1 .. Len(t))
    BY <1>2, FS_Interval
  <1> QED BY <1>1, <1>2, <1>3 DEF ToSet

\* Where the elements of two sequences put together come from.
LEMMA ConcatShape ==
    ASSUME NEW S, NEW q \in Seq(S), NEW r \in Seq(S), NEW c, c = q \o r
    PROVE  /\ Len(q) \in Nat /\ Len(r) \in Nat
           /\ c \in Seq(S) /\ Len(c) = Len(q) + Len(r)
           /\ DOMAIN c = 1 .. Len(q) + Len(r)
           /\ \A i \in 1 .. Len(q) : c[i] = q[i]
           /\ \A i \in 1 .. Len(r) : c[Len(q) + i] = r[i]
  <1> DEFINE m == Len(q)
             n == Len(r)
  <1>1. /\ m \in Nat /\ n \in Nat /\ q \o r \in Seq(S) /\ Len(q \o r) = m + n
        /\ DOMAIN (q \o r) = 1 .. m + n
        /\ \A i \in 1 .. m : (q \o r)[i] = q[i]
        /\ \A i \in 1 .. m + n : i > m => (q \o r)[i] = r[i - m]
    OBVIOUS
  <1> HIDE DEF m, n
  <1>2. \A i \in 1 .. n : m + i \in 1 .. m + n /\ m + i > m /\ (m + i) - m = i
    BY <1>1
  <1>3. \A i \in 1 .. n : (q \o r)[m + i] = r[i]
    BY <1>1, <1>2
  <1> QED BY <1>1, <1>3 DEF m, n

\* The members of two sequences put together.
LEMMA ConcatMembers ==
    ASSUME NEW S, NEW q \in Seq(S), NEW r \in Seq(S)
    PROVE  q \o r \in Seq(S) /\ ToSet(q \o r) = ToSet(q) \cup ToSet(r)
  <1> DEFINE m == Len(q)
             n == Len(r)
             c == q \o r
  <1>1. /\ m \in Nat /\ n \in Nat /\ c \in Seq(S)
        /\ DOMAIN q = 1 .. m /\ DOMAIN r = 1 .. n /\ DOMAIN c = 1 .. m + n
        /\ \A i \in 1 .. m : c[i] = q[i]
        /\ \A i \in 1 .. n : c[m + i] = r[i]
    <2>1. DOMAIN q = 1 .. m /\ DOMAIN r = 1 .. n
      OBVIOUS
    <2> QED BY <2>1, ConcatShape
  <1> HIDE DEF m, n, c
  <1>2. \A i \in 1 .. m : i \in 1 .. m + n
    BY <1>1
  <1>3. \A i \in 1 .. n : m + i \in 1 .. m + n
    BY <1>1
  <1>4. \A i \in 1 .. m + n : i \in 1 .. m \/ \E k \in 1 .. n : i = m + k
    <2> SUFFICES ASSUME NEW i \in 1 .. m + n, i \notin 1 .. m
                 PROVE  \E k \in 1 .. n : i = m + k
      OBVIOUS
    <2>1. i - m \in 1 .. n /\ i = m + (i - m)
      BY <1>1
    <2> QED BY <2>1
  <1>5. ToSet(c) = ToSet(q) \cup ToSet(r)
    <2>1. ASSUME NEW x \in ToSet(q) PROVE x \in ToSet(c)
      <3>1. PICK i \in 1 .. m : x = q[i]
        BY <1>1 DEF ToSet
      <3> QED BY <1>1, <1>2, <3>1 DEF ToSet
    <2>2. ASSUME NEW x \in ToSet(r) PROVE x \in ToSet(c)
      <3>1. PICK i \in 1 .. n : x = r[i]
        BY <1>1 DEF ToSet
      <3>2. m + i \in DOMAIN c /\ c[m + i] = x
        BY <1>1, <1>3, <3>1
      <3> QED BY <3>2 DEF ToSet
    <2>3. ASSUME NEW x \in ToSet(c) PROVE x \in ToSet(q) \cup ToSet(r)
      <3>1. PICK i \in 1 .. m + n : x = c[i]
        BY <1>1, <2>3 DEF ToSet
      <3>2. CASE i \in 1 .. m
        BY <1>1, <3>1, <3>2 DEF ToSet
      <3>3. CASE \E k \in 1 .. n : i = m + k
        <4>1. PICK k \in 1 .. n : i = m + k
          BY <3>3
        <4>2. x = r[k] /\ k \in DOMAIN r
          BY <1>1, <3>1, <4>1
        <4> QED BY <4>2 DEF ToSet
      <3> QED BY <1>4, <3>2, <3>3
    <2> QED BY <2>1, <2>2, <2>3
  <1> QED BY <1>1, <1>5 DEF c

\* The members of a sequence with one more at its end.
LEMMA AppendMembers ==
    ASSUME NEW S, NEW q \in Seq(S), NEW e \in S
    PROVE  Append(q, e) \in Seq(S) /\ ToSet(Append(q, e)) = ToSet(q) \cup {e}
  <1> DEFINE m == Len(q)
  <1>1. /\ m \in Nat /\ Append(q, e) \in Seq(S)
        /\ DOMAIN q = 1 .. m /\ DOMAIN Append(q, e) = 1 .. m + 1
        /\ \A i \in 1 .. m : Append(q, e)[i] = q[i]
        /\ Append(q, e)[m + 1] = e
    OBVIOUS
  <1> HIDE DEF m
  <1>2. \A i : i \in 1 .. m + 1 <=> i \in 1 .. m \/ i = m + 1
    BY <1>1
  <1> QED BY <1>1, <1>2 DEF ToSet

-----------------------------------------------------------------------------
(* Dependents *)

\* "definition" once for every time it lists "source".
Listed(definition, source) ==
    [k \in 1 .. Cardinality({n \in DOMAIN definition.required :
                                definition.required[n] = source}) |-> definition.id]

DependentsStep(g, definitions, source) ==
    [s \in SUBSET (DOMAIN definitions) |->
        IF s = {} THEN <<>>
        ELSE g[s \ {Max(s)}] \o Listed(definitions[Max(s)], source)]

\* Dependents is the run of a function of that form over the whole table: the
\* one fold that FoldLeft chooses, as there is one at all.
LEMMA DependentsFold ==
    ASSUME NEW definitions, NEW source, NEW g, g = DependentsStep(g, definitions, source)
    PROVE  \E it : /\ it = DependentsStep(it, definitions, source)
                   /\ Dependents(definitions, source) = it[DOMAIN definitions]
  BY DEF Dependents, FoldLeft, MapThenFoldSet, DependentsStep, Listed

\* A definition is listed if and only if it requires the source.
LEMMA ListedMembers ==
    ASSUME NEW definition, IsTable(definition.required), NEW source
    PROVE  /\ Listed(definition, source) \in Seq({definition.id})
           /\ ToSet(Listed(definition, source)) =
                 IF source \in ToSet(definition.required) THEN {definition.id} ELSE {}
  <1> DEFINE r == definition.required
             at == {n \in DOMAIN r : r[n] = source}
             c == Cardinality(at)
             q == [k \in 1 .. c |-> definition.id]
  <1>1. IsFiniteSet(DOMAIN r)
    BY TableShape
  <1>2. IsFiniteSet(at)
    BY <1>1, FS_Subset
  <1>3. c \in Nat /\ (c = 0 <=> at = {})
    BY <1>2, FS_CardinalityType, FS_EmptySet
  <1>4. at = {} <=> source \notin ToSet(r)
    BY DEF ToSet
  <1> HIDE DEF at, c
  <1>5. q \in Seq({definition.id})
    BY <1>3
  <1>6. c # 0 => 1 \in 1 .. c
    BY <1>3
  <1>7. c = 0 => 1 .. c = {}
    BY <1>3
  <1>8. ToSet(q) = IF c = 0 THEN {} ELSE {definition.id}
    BY <1>6, <1>7 DEF ToSet
  <1>9. Listed(definition, source) = q
    BY DEF Listed, c, at
  <1> QED BY <1>3, <1>4, <1>5, <1>8, <1>9

\* The run of the fold.
LEMMA DependentsRun ==
    ASSUME NEW definitions, IsTable(definitions), NEW source,
           \A i \in DOMAIN definitions : IsTable(definitions[i].required)
    PROVE  \E run :
              /\ run[0] = <<>>
              /\ \A k \in 0 .. Len(definitions) - 1 :
                    run[k + 1] = run[k] \o Listed(definitions[k + 1], source)
              /\ Dependents(definitions, source) = run[Len(definitions)]
  <1> DEFINE n == Len(definitions)
             A == Seq(Ids(definitions))
             h == [x \in A \X (1 .. n) |-> x[1] \o Listed(definitions[x[2]], source)]
  <1>1. n \in Nat /\ DOMAIN definitions = 1 .. n
    BY TableShape
  <1>2. h \in [A \X (1 .. n) -> A]
    <2>1. ASSUME NEW i \in 1 .. n PROVE Listed(definitions[i], source) \in A
      <3>1. Listed(definitions[i], source) \in Seq({definitions[i].id})
        BY <1>1, ListedMembers
      <3>2. definitions[i].id \in Ids(definitions)
        BY <1>1 DEF Ids
      <3> QED BY <3>1, <3>2
    <2>2. ASSUME NEW x \in A \X (1 .. n)
          PROVE  x[1] \o Listed(definitions[x[2]], source) \in A
      BY <2>1
    <2> QED BY <2>2
  <1>3. <<>> \in A
    OBVIOUS
  <1> HIDE DEF n, A
  <1>4. PICK g \in [SUBSET (1 .. n) -> A] : IsFoldOf(g, n, <<>>, h)
    <2> HIDE DEF h
    <2> QED BY <1>1, <1>2, <1>3, FoldExists
  <1>5. ASSUME NEW s \in SUBSET (1 .. n)
        PROVE  g[s] = IF s = {} THEN <<>>
                      ELSE g[s \ {Max(s)}] \o Listed(definitions[Max(s)], source)
    <2>1. CASE s = {}
      BY <1>4, <2>1 DEF IsFoldOf
    <2>2. CASE s # {}
      <3>1. Max(s) \in 1 .. n
        BY <1>1, <2>2, MaxInSet
      <3>2. g[s \ {Max(s)}] \in A
        BY <1>4
      <3>3. h[<<g[s \ {Max(s)}], Max(s)>>]
               = g[s \ {Max(s)}] \o Listed(definitions[Max(s)], source)
        BY <3>1, <3>2
      <3> HIDE DEF h
      <3> QED BY <1>4, <2>2, <3>3 DEF IsFoldOf
    <2> QED BY <2>1, <2>2
  <1>6. g = DependentsStep(g, definitions, source)
    BY <1>1, <1>4, <1>5 DEF DependentsStep
  <1>7. PICK it : /\ it = DependentsStep(it, definitions, source)
                  /\ Dependents(definitions, source) = it[DOMAIN definitions]
    BY <1>6, DependentsFold
  <1>8. \A s \in SUBSET (1 .. n) :
           it[s] = IF s = {} THEN <<>>
                   ELSE it[s \ {Max(s)}] \o Listed(definitions[Max(s)], source)
    BY <1>1, <1>7 DEF DependentsStep
  <1> DEFINE run == [k \in 0 .. n |-> it[1 .. k]]
  <1>9. run[0] = <<>>
    <2>1. 1 .. 0 = {} /\ 0 \in 0 .. n /\ {} \in SUBSET (1 .. n)
      BY <1>1
    <2>2. it[{}] = <<>>
      BY <1>8, <2>1
    <2> QED BY <2>1, <2>2
  <1>10. ASSUME NEW k \in 0 .. n - 1
         PROVE  run[k + 1] = run[k] \o Listed(definitions[k + 1], source)
    <2>1. /\ k \in Nat /\ k \in 0 .. n /\ k + 1 \in 0 .. n
          /\ 1 .. k + 1 \in SUBSET (1 .. n)
      BY <1>1
    <2>2. /\ Max(1 .. k + 1) = k + 1 /\ (1 .. k + 1) \ {k + 1} = 1 .. k
          /\ 1 .. k + 1 # {}
      BY <2>1, LastPosition
    <2>3. it[1 .. k + 1] = it[1 .. k] \o Listed(definitions[k + 1], source)
      BY <1>8, <2>1, <2>2
    <2> QED BY <2>1, <2>3
  <1>11. Dependents(definitions, source) = run[n]
    BY <1>1, <1>7
  <1> QED BY <1>9, <1>10, <1>11 DEF n

\* Dependents lists the ids of those that require the source, and only them.
LEMMA DependentsMembers ==
    ASSUME NEW definitions, IsTable(definitions), NEW source, NEW c,
           \A i \in DOMAIN definitions : IsTable(definitions[i].required)
    PROVE  /\ Dependents(definitions, source) \in Seq(Ids(definitions))
           /\ c \in ToSet(Dependents(definitions, source))
                 <=> \E i \in DOMAIN definitions :
                        /\ definitions[i].id = c
                        /\ source \in ToSet(definitions[i].required)
  <1> DEFINE n == Len(definitions)
             Requires(i) == source \in ToSet(definitions[i].required)
             A == Seq(Ids(definitions))
  <1>1. n \in Nat /\ DOMAIN definitions = 1 .. n
    BY TableShape
  <1>2. PICK run : /\ run[0] = <<>>
                   /\ \A k \in 0 .. n - 1 :
                         run[k + 1] = run[k] \o Listed(definitions[k + 1], source)
                   /\ Dependents(definitions, source) = run[n]
    BY DependentsRun
  <1> DEFINE Right(k) ==
                /\ run[k] \in A
                /\ \A x : x \in ToSet(run[k])
                             <=> \E i \in 1 .. k : definitions[i].id = x /\ Requires(i)
             T == {k \in 0 .. n : Right(k)}
  <1>3. 0 \in T
    <2>1. 1 .. 0 = {} /\ 0 \in 0 .. n /\ ToSet(<<>>) = {} /\ <<>> \in A
      BY <1>1 DEF ToSet
    <2> QED BY <1>2, <2>1
  <1>4. ASSUME NEW k \in 0 .. n - 1, k \in T PROVE k + 1 \in T
    <2>1. /\ k + 1 \in DOMAIN definitions /\ k + 1 \in 0 .. n
          /\ \A i : i \in 1 .. k + 1 <=> i \in 1 .. k \/ i = k + 1
      BY <1>1
    <2> DEFINE more == Listed(definitions[k + 1], source)
    <2>2. /\ more \in Seq({definitions[k + 1].id})
          /\ ToSet(more) = IF Requires(k + 1) THEN {definitions[k + 1].id} ELSE {}
      BY <2>1, ListedMembers
    <2>3. more \in A
      <3>1. {definitions[k + 1].id} \subseteq Ids(definitions)
        BY <2>1 DEF Ids
      <3> HIDE DEF more
      <3> QED BY <2>2, <3>1
    <2>4. run[k] \in A /\ run[k + 1] = run[k] \o more
      BY <1>2, <1>4
    <2> HIDE DEF more
    <2>5. run[k + 1] \in A /\ ToSet(run[k + 1]) = ToSet(run[k]) \cup ToSet(more)
      BY <2>3, <2>4, ConcatMembers
    <2>6. \A x : x \in ToSet(run[k]) <=> \E i \in 1 .. k : definitions[i].id = x /\ Requires(i)
      BY <1>4
    <2> HIDE DEF Requires
    <2>7. Right(k + 1)
      BY <2>1, <2>2, <2>5, <2>6
    <2> QED BY <2>1, <2>7
  <1>5. n \in T
    <2> HIDE DEF T
    <2>1. \A k \in 0 .. n : k \in T
      BY <1>1, <1>3, <1>4, UpTo
    <2> QED BY <1>1, <2>1
  <1> QED BY <1>1, <1>2, <1>5

-----------------------------------------------------------------------------
(* RequiredByAll *)

Gathered(acc, row, id) == IF row.id = id THEN acc \o row.required ELSE acc

RequiredByAllStep(g, table, id) ==
    [s \in SUBSET (DOMAIN table) |->
        IF s = {} THEN <<>> ELSE Gathered(g[s \ {Max(s)}], table[Max(s)], id)]

\* The same for the fold of RequiredByAll,
LEMMA RequiredByAllFold ==
    ASSUME NEW table, NEW id, NEW g, g = RequiredByAllStep(g, table, id)
    PROVE  \E it : /\ it = RequiredByAllStep(it, table, id)
                   /\ RequiredByAll(table, id) = it[DOMAIN table]
  BY DEF RequiredByAll, FoldLeft, MapThenFoldSet, RequiredByAllStep, Gathered

\* The run of the fold.
LEMMA RequiredByAllRun ==
    ASSUME NEW table, IsTable(table), NEW id,
           \A i \in DOMAIN table : IsTable(table[i].required)
    PROVE  \E run :
              /\ run[0] = <<>>
              /\ \A k \in 0 .. Len(table) - 1 :
                    run[k + 1] = Gathered(run[k], table[k + 1], id)
              /\ RequiredByAll(table, id) = run[Len(table)]
  <1> DEFINE n == Len(table)
             S == UNION {ToSet(table[i].required) : i \in DOMAIN table}
             A == Seq(S)
             h == [x \in A \X (1 .. n) |-> Gathered(x[1], table[x[2]], id)]
  <1>1. n \in Nat /\ DOMAIN table = 1 .. n
    BY TableShape
  <1>2. h \in [A \X (1 .. n) -> A]
    <2>1. ASSUME NEW i \in 1 .. n PROVE table[i].required \in A
      <3>1. table[i].required \in Seq(ToSet(table[i].required))
        BY <1>1 DEF IsTable
      <3>2. ToSet(table[i].required) \subseteq S
        BY <1>1
      <3> QED BY <3>1, <3>2
    <2> HIDE DEF S
    <2>2. ASSUME NEW x \in A \X (1 .. n)
          PROVE  Gathered(x[1], table[x[2]], id) \in A
      BY <2>1 DEF Gathered
    <2> QED BY <2>2
  <1>3. <<>> \in A
    OBVIOUS
  <1> HIDE DEF n, S, A
  <1>4. PICK g \in [SUBSET (1 .. n) -> A] : IsFoldOf(g, n, <<>>, h)
    <2> HIDE DEF h
    <2> QED BY <1>1, <1>2, <1>3, FoldExists
  <1>5. ASSUME NEW s \in SUBSET (1 .. n)
        PROVE  g[s] = IF s = {} THEN <<>>
                      ELSE Gathered(g[s \ {Max(s)}], table[Max(s)], id)
    <2>1. CASE s = {}
      BY <1>4, <2>1 DEF IsFoldOf
    <2>2. CASE s # {}
      <3>1. Max(s) \in 1 .. n
        BY <1>1, <2>2, MaxInSet
      <3>2. g[s \ {Max(s)}] \in A
        BY <1>4
      <3>3. h[<<g[s \ {Max(s)}], Max(s)>>] = Gathered(g[s \ {Max(s)}], table[Max(s)], id)
        BY <3>1, <3>2
      <3> HIDE DEF h
      <3> QED BY <1>4, <2>2, <3>3 DEF IsFoldOf
    <2> QED BY <2>1, <2>2
  <1>6. g = RequiredByAllStep(g, table, id)
    BY <1>1, <1>4, <1>5 DEF RequiredByAllStep
  <1>7. PICK it : /\ it = RequiredByAllStep(it, table, id)
                  /\ RequiredByAll(table, id) = it[DOMAIN table]
    BY <1>6, RequiredByAllFold
  <1>8. \A s \in SUBSET (1 .. n) :
           it[s] = IF s = {} THEN <<>>
                   ELSE Gathered(it[s \ {Max(s)}], table[Max(s)], id)
    BY <1>1, <1>7 DEF RequiredByAllStep
  <1> DEFINE run == [k \in 0 .. n |-> it[1 .. k]]
  <1>9. run[0] = <<>>
    <2>1. 1 .. 0 = {} /\ 0 \in 0 .. n /\ {} \in SUBSET (1 .. n)
      BY <1>1
    <2>2. it[{}] = <<>>
      BY <1>8, <2>1
    <2> QED BY <2>1, <2>2
  <1>10. ASSUME NEW k \in 0 .. n - 1
         PROVE  run[k + 1] = Gathered(run[k], table[k + 1], id)
    <2>1. /\ k \in Nat /\ k \in 0 .. n /\ k + 1 \in 0 .. n
          /\ 1 .. k + 1 \in SUBSET (1 .. n)
      BY <1>1
    <2>2. /\ Max(1 .. k + 1) = k + 1 /\ (1 .. k + 1) \ {k + 1} = 1 .. k
          /\ 1 .. k + 1 # {}
      BY <2>1, LastPosition
    <2>3. it[1 .. k + 1] = Gathered(it[1 .. k], table[k + 1], id)
      BY <1>8, <2>1, <2>2
    <2> QED BY <2>1, <2>3
  <1>11. RequiredByAll(table, id) = run[n]
    BY <1>1, <1>7
  <1> QED BY <1>9, <1>10, <1>11 DEF n

\* Of a table in which every id is that of one row, one row's list remains.
LEMMA RequiredByAllUnique ==
    ASSUME NEW table, IsTable(table), NEW i \in DOMAIN table,
           \A j \in DOMAIN table : IsTable(table[j].required),
           \A j \in DOMAIN table : table[j].id = table[i].id => j = i
    PROVE  RequiredByAll(table, table[i].id) = table[i].required
  <1> DEFINE n == Len(table)
             r == table[i].required
  <1>1. n \in Nat /\ DOMAIN table = 1 .. n /\ i \in 1 .. n
    BY TableShape
  <1>2. PICK run : /\ run[0] = <<>>
                   /\ \A k \in 0 .. n - 1 :
                         run[k + 1] = Gathered(run[k], table[k + 1], table[i].id)
                   /\ RequiredByAll(table, table[i].id) = run[n]
    BY RequiredByAllRun
  <1> DEFINE T == {k \in 0 .. n : run[k] = IF k < i THEN <<>> ELSE r}
  <1>3. 0 \in T
    BY <1>1, <1>2
  <1>4. ASSUME NEW k \in 0 .. n - 1, k \in T PROVE k + 1 \in T
    <2>1. k + 1 \in DOMAIN table /\ k + 1 \in 0 .. n
      BY <1>1
    <2>2. run[k + 1] = Gathered(run[k], table[k + 1], table[i].id)
      BY <1>2
    <2>3. CASE k + 1 = i
      <3>0. k < i
        BY <1>1, <2>3
      <3>1. run[k] = <<>> /\ run[k + 1] = run[k] \o r
        <4>1. run[k] = <<>>
          BY <1>4, <3>0
        <4>2. table[k + 1] = table[i]
          BY <2>3
        <4>3. run[k + 1] = run[k] \o r
          BY <2>2, <4>2 DEF Gathered
        <4> QED BY <4>1, <4>3
      <3>2. r \in Seq(ToSet(r))
        BY DEF IsTable
      <3>3. <<>> \o r = r
        BY <3>2
      <3> QED BY <1>1, <2>1, <2>3, <3>1, <3>3
    <2>4. CASE k + 1 # i
      <3>1. run[k + 1] = run[k]
        BY <2>1, <2>2, <2>4 DEF Gathered
      <3>2. k + 1 < i <=> k < i
        BY <1>1, <2>4
      <3> QED BY <1>4, <2>1, <3>1, <3>2
    <2> QED BY <2>3, <2>4
  <1>5. n \in T
    <2> HIDE DEF T
    <2>1. \A k \in 0 .. n : k \in T
      BY <1>1, <1>3, <1>4, UpTo
    <2> QED BY <1>1, <2>1
  <1> QED BY <1>1, <1>2, <1>5

-----------------------------------------------------------------------------
(* RequiredDomains *)

DomainAdded(acc, id) ==
    IF id = kInvalidDomainId \/ Contains(acc, id) THEN acc ELSE Append(acc, id)

RequiredDomainsStep(g, dataItems, capability) ==
    [s \in SUBSET (DOMAIN capability.required) |->
        IF s = {} THEN <<>>
        ELSE DomainAdded(g[s \ {Max(s)}],
                         FindDataDomainId(dataItems, capability.required[Max(s)]))]

\* that of RequiredDomains,
LEMMA RequiredDomainsFold ==
    ASSUME NEW dataItems, NEW capability, NEW g,
           g = RequiredDomainsStep(g, dataItems, capability)
    PROVE  \E it : /\ it = RequiredDomainsStep(it, dataItems, capability)
                   /\ RequiredDomains(dataItems, capability)
                         = it[DOMAIN capability.required]
  BY DEF RequiredDomains, FoldLeft, MapThenFoldSet, RequiredDomainsStep, DomainAdded

\* The run of the fold; all its results are sequences of domain numbers.
LEMMA RequiredDomainsRun ==
    ASSUME NEW dataItems, NEW capability, IsTable(capability.required),
           NEW S, \A d \in ToSet(capability.required) : FindDataDomainId(dataItems, d) \in S
    PROVE  \E run :
              /\ run[0] = <<>>
              /\ \A k \in 0 .. Len(capability.required) - 1 :
                    run[k + 1] = DomainAdded(run[k],
                       FindDataDomainId(dataItems, capability.required[k + 1]))
              /\ RequiredDomains(dataItems, capability) = run[Len(capability.required)]
  <1> DEFINE n == Len(capability.required)
             Id(k) == FindDataDomainId(dataItems, capability.required[k])
             A == Seq(S)
             h == [x \in A \X (1 .. n) |-> DomainAdded(x[1], Id(x[2]))]
  <1>1. n \in Nat /\ DOMAIN capability.required = 1 .. n
    BY TableShape
  <1>2. h \in [A \X (1 .. n) -> A]
    <2>1. \A k \in 1 .. n : Id(k) \in S
      BY <1>1 DEF ToSet
    <2> HIDE DEF Id
    <2>2. ASSUME NEW x \in A \X (1 .. n) PROVE DomainAdded(x[1], Id(x[2])) \in A
      BY <2>1 DEF DomainAdded
    <2> QED BY <2>2
  <1>3. <<>> \in A
    OBVIOUS
  <1> HIDE DEF n, A, Id
  <1>4. PICK g \in [SUBSET (1 .. n) -> A] : IsFoldOf(g, n, <<>>, h)
    <2> HIDE DEF h
    <2> QED BY <1>1, <1>2, <1>3, FoldExists
  <1>5. ASSUME NEW s \in SUBSET (1 .. n)
        PROVE  g[s] = IF s = {} THEN <<>>
                      ELSE DomainAdded(g[s \ {Max(s)}], Id(Max(s)))
    <2>1. CASE s = {}
      BY <1>4, <2>1 DEF IsFoldOf
    <2>2. CASE s # {}
      <3>1. Max(s) \in 1 .. n
        BY <1>1, <2>2, MaxInSet
      <3>2. g[s \ {Max(s)}] \in A
        BY <1>4
      <3>3. h[<<g[s \ {Max(s)}], Max(s)>>] = DomainAdded(g[s \ {Max(s)}], Id(Max(s)))
        BY <3>1, <3>2
      <3> HIDE DEF h
      <3> QED BY <1>4, <2>2, <3>3 DEF IsFoldOf
    <2> QED BY <2>1, <2>2
  <1>6. g = RequiredDomainsStep(g, dataItems, capability)
    BY <1>1, <1>4, <1>5 DEF RequiredDomainsStep, Id
  <1>7. PICK it : /\ it = RequiredDomainsStep(it, dataItems, capability)
                  /\ RequiredDomains(dataItems, capability)
                        = it[DOMAIN capability.required]
    BY <1>6, RequiredDomainsFold
  <1>8. \A s \in SUBSET (1 .. n) :
           it[s] = IF s = {} THEN <<>> ELSE DomainAdded(it[s \ {Max(s)}], Id(Max(s)))
    BY <1>1, <1>7 DEF RequiredDomainsStep, Id
  <1> DEFINE run == [k \in 0 .. n |-> it[1 .. k]]
  <1>9. run[0] = <<>>
    <2>1. 1 .. 0 = {} /\ 0 \in 0 .. n /\ {} \in SUBSET (1 .. n)
      BY <1>1
    <2>2. it[{}] = <<>>
      BY <1>8, <2>1
    <2> QED BY <2>1, <2>2
  <1>10. ASSUME NEW k \in 0 .. n - 1 PROVE run[k + 1] = DomainAdded(run[k], Id(k + 1))
    <2>1. /\ k \in Nat /\ k \in 0 .. n /\ k + 1 \in 0 .. n
          /\ 1 .. k + 1 \in SUBSET (1 .. n)
      BY <1>1
    <2>2. /\ Max(1 .. k + 1) = k + 1 /\ (1 .. k + 1) \ {k + 1} = 1 .. k
          /\ 1 .. k + 1 # {}
      BY <2>1, LastPosition
    <2>3. it[1 .. k + 1] = DomainAdded(it[1 .. k], Id(k + 1))
      BY <1>8, <2>1, <2>2
    <2> QED BY <2>1, <2>3
  <1>11. RequiredDomains(dataItems, capability) = run[n]
    BY <1>1, <1>7
  <1> QED BY <1>9, <1>10, <1>11 DEF n, Id

\* The numbers of the domains of the required items, without the invalid one.
LEMMA RequiredDomainsMembers ==
    ASSUME NEW dataItems, NEW capability, IsTable(capability.required)
    PROVE  /\ IsTable(RequiredDomains(dataItems, capability))
           /\ ToSet(RequiredDomains(dataItems, capability)) =
                 {FindDataDomainId(dataItems, d) : d \in ToSet(capability.required)}
                    \ {kInvalidDomainId}
  <1> DEFINE r == capability.required
             n == Len(r)
             S == {FindDataDomainId(dataItems, d) : d \in ToSet(r)}
             Id(k) == FindDataDomainId(dataItems, r[k])
  <1>1. n \in Nat /\ DOMAIN r = 1 .. n
    BY TableShape
  <1>2. \A d \in ToSet(r) : FindDataDomainId(dataItems, d) \in S
    OBVIOUS
  <1>3. S = {Id(k) : k \in 1 .. n}
    BY <1>1 DEF ToSet
  <1> HIDE DEF S
  <1>4. PICK run : /\ run[0] = <<>>
                   /\ \A k \in 0 .. n - 1 : run[k + 1] = DomainAdded(run[k], Id(k + 1))
                   /\ RequiredDomains(dataItems, capability) = run[n]
    BY <1>2, RequiredDomainsRun
  <1> HIDE DEF Id
  <1> DEFINE Right(k) ==
                /\ run[k] \in Seq(S)
                /\ ToSet(run[k]) = {Id(j) : j \in 1 .. k} \ {kInvalidDomainId}
             T == {k \in 0 .. n : Right(k)}
  <1>5. 0 \in T
    <2>1. 1 .. 0 = {} /\ 0 \in 0 .. n /\ ToSet(<<>>) = {} /\ <<>> \in Seq(S)
      BY <1>1 DEF ToSet
    <2> QED BY <1>4, <2>1
  <1>6. ASSUME NEW k \in 0 .. n - 1, k \in T PROVE k + 1 \in T
    <2>1. /\ k + 1 \in 1 .. n /\ k + 1 \in 0 .. n
          /\ \A i : i \in 1 .. k + 1 <=> i \in 1 .. k \/ i = k + 1
      BY <1>1
    <2>2. {Id(j) : j \in 1 .. k + 1} = {Id(j) : j \in 1 .. k} \cup {Id(k + 1)}
      BY <2>1
    <2>3. run[k] \in Seq(S) /\ Id(k + 1) \in S /\ run[k + 1] = DomainAdded(run[k], Id(k + 1))
      BY <1>3, <1>4, <1>6, <2>1
    <2>4. ToSet(run[k]) = {Id(j) : j \in 1 .. k} \ {kInvalidDomainId}
      BY <1>6
    <2>5. CASE Id(k + 1) = kInvalidDomainId \/ Id(k + 1) \in ToSet(run[k])
      <3>1. run[k + 1] = run[k]
        BY <2>3, <2>5 DEF DomainAdded, Contains, ToSet
      <3>2. {Id(j) : j \in 1 .. k + 1} \ {kInvalidDomainId} = ToSet(run[k])
        BY <2>2, <2>4, <2>5
      <3> QED BY <2>1, <2>3, <3>1, <3>2
    <2>6. CASE Id(k + 1) # kInvalidDomainId /\ Id(k + 1) \notin ToSet(run[k])
      <3>1. run[k + 1] = Append(run[k], Id(k + 1))
        BY <2>3, <2>6 DEF DomainAdded, Contains, ToSet
      <3> DEFINE e == Id(k + 1)
                 q == run[k]
      <3>2. q \in Seq(S) /\ e \in S
        BY <2>3
      <3> HIDE DEF e, q
      <3>3. Append(q, e) \in Seq(S) /\ ToSet(Append(q, e)) = ToSet(q) \cup {e}
        BY <3>2, AppendMembers
      <3>4. run[k + 1] \in Seq(S) /\ ToSet(run[k + 1]) = ToSet(run[k]) \cup {Id(k + 1)}
        BY <3>1, <3>3 DEF e, q
      <3>5. ToSet(run[k + 1]) = {Id(j) : j \in 1 .. k + 1} \ {kInvalidDomainId}
        BY <2>2, <2>4, <2>6, <3>4
      <3> QED BY <2>1, <3>4, <3>5
    <2> QED BY <2>5, <2>6
  <1>7. n \in T
    <2> HIDE DEF T
    <2>1. \A k \in 0 .. n : k \in T
      BY <1>1, <1>5, <1>6, UpTo
    <2> QED BY <1>1, <2>1
  <1>8. run[n] \in Seq(S) /\ ToSet(run[n]) = S \ {kInvalidDomainId}
    BY <1>3, <1>7
  <1>9. IsTable(run[n])
    <2>1. DOMAIN run[n] = 1 .. Len(run[n]) /\ Len(run[n]) \in Nat
      BY <1>8
    <2>2. \A i \in 1 .. Len(run[n]) : run[n][i] \in ToSet(run[n])
      BY <2>1 DEF ToSet
    <2>3. run[n] = [i \in 1 .. Len(run[n]) |-> run[n][i]]
      BY <1>8
    <2> QED BY <2>1, <2>2, <2>3 DEF IsTable
  <1> QED BY <1>4, <1>8, <1>9 DEF S

-----------------------------------------------------------------------------
(* DataDomainMap *)

Numbered(acc, item) ==
    LET known == item.domain \in DOMAIN acc.domains
        id    == IF known THEN acc.domains[item.domain] ELSE acc.nextId
    IN  [nextId  |-> IF known THEN acc.nextId ELSE acc.nextId + 1,
         domains |-> Put(acc.domains, item.domain, id),
         map     |-> Put(acc.map, item.id, id)]

NoNumbers == [nextId |-> 1, domains |-> <<>>, map |-> <<>>]

NumberStep(g, dataItems) ==
    [s \in SUBSET (DOMAIN dataItems) |->
        IF s = {} THEN NoNumbers ELSE Numbered(g[s \ {Max(s)}], dataItems[Max(s)])]

\* and that of DataDomainMap.
LEMMA DataDomainMapFold ==
    ASSUME NEW dataItems, NEW g, g = NumberStep(g, dataItems)
    PROVE  \E it : /\ it = NumberStep(it, dataItems)
                   /\ DataDomainMap(dataItems) = it[DOMAIN dataItems].map
  BY DEF DataDomainMap, FoldLeft, MapThenFoldSet, NumberStep, Numbered, NoNumbers

\* Maps from some members of S to members of V.
Maps(S, V) == UNION {[X -> V] : X \in SUBSET S}

\* "put" of a key and a value keeps a map among the maps.
LEMMA PutType ==
    ASSUME NEW S, NEW V, NEW f \in Maps(S, V), NEW x \in S, NEW v \in V
    PROVE  Put(f, x, v) \in Maps(S, V)
  <1>1. PICK X \in SUBSET S : f \in [X -> V]
    BY DEF Maps
  <1>2. {x} \cup X \in SUBSET S /\ DOMAIN f = X
    BY <1>1
  <1>3. Put(f, x, v) \in [{x} \cup X -> V]
    BY <1>1, <1>2 DEF Put
  <1> QED BY <1>2, <1>3 DEF Maps

\* The run of the fold.
LEMMA DataDomainMapRun ==
    ASSUME NEW dataItems, IsTable(dataItems)
    PROVE  \E run :
              /\ run[0] = NoNumbers
              /\ \A k \in 0 .. Len(dataItems) - 1 :
                    run[k + 1] = Numbered(run[k], dataItems[k + 1])
              /\ DataDomainMap(dataItems) = run[Len(dataItems)].map
  <1> DEFINE n == Len(dataItems)
             O == {dataItems[i].domain : i \in DOMAIN dataItems}
             A == [nextId : Nat, domains : Maps(O, Nat), map : Maps(Ids(dataItems), Nat)]
             h == [x \in A \X (1 .. n) |-> Numbered(x[1], dataItems[x[2]])]
  <1>1. n \in Nat /\ DOMAIN dataItems = 1 .. n
    BY TableShape
  <1>2. h \in [A \X (1 .. n) -> A]
    <2>1. ASSUME NEW acc \in A, NEW i \in 1 .. n PROVE Numbered(acc, dataItems[i]) \in A
      <3> DEFINE item == dataItems[i]
                 known == item.domain \in DOMAIN acc.domains
                 id == IF known THEN acc.domains[item.domain] ELSE acc.nextId
      <3>1. item.domain \in O /\ item.id \in Ids(dataItems)
        BY <1>1 DEF Ids
      <3>2. /\ acc.nextId \in Nat /\ acc.domains \in Maps(O, Nat)
            /\ acc.map \in Maps(Ids(dataItems), Nat)
        OBVIOUS
      <3>3. known => acc.domains[item.domain] \in Nat
        BY <3>2 DEF Maps
      <3>4. id \in Nat /\ (IF known THEN acc.nextId ELSE acc.nextId + 1) \in Nat
        BY <3>2, <3>3
      <3> HIDE DEF item, id, known, O
      <3>5. /\ Put(acc.domains, item.domain, id) \in Maps(O, Nat)
            /\ Put(acc.map, item.id, id) \in Maps(Ids(dataItems), Nat)
        BY <3>1, <3>2, <3>4, PutType
      <3>6. Numbered(acc, item) =
               [nextId |-> IF known THEN acc.nextId ELSE acc.nextId + 1,
                domains |-> Put(acc.domains, item.domain, id),
                map |-> Put(acc.map, item.id, id)]
        BY DEF Numbered, id, known
      <3>7. Numbered(acc, item) \in A
        BY <3>4, <3>5, <3>6
      <3> QED BY <3>7 DEF item
    <2> HIDE DEF A
    <2>2. ASSUME NEW x \in A \X (1 .. n) PROVE Numbered(x[1], dataItems[x[2]]) \in A
      BY <2>1
    <2> QED BY <2>2
  <1>3. NoNumbers \in A
    <2>1. <<>> \in [{} -> Nat]
      OBVIOUS
    <2>2. \A S : <<>> \in Maps(S, Nat)
      BY <2>1 DEF Maps
    <2> QED BY <2>2 DEF NoNumbers
  <1> HIDE DEF n, A
  <1>4. PICK g \in [SUBSET (1 .. n) -> A] : IsFoldOf(g, n, NoNumbers, h)
    <2> HIDE DEF h
    <2> QED BY <1>1, <1>2, <1>3, FoldExists
  <1>5. ASSUME NEW s \in SUBSET (1 .. n)
        PROVE  g[s] = IF s = {} THEN NoNumbers
                      ELSE Numbered(g[s \ {Max(s)}], dataItems[Max(s)])
    <2>1. CASE s = {}
      BY <1>4, <2>1 DEF IsFoldOf
    <2>2. CASE s # {}
      <3>1. Max(s) \in 1 .. n
        BY <1>1, <2>2, MaxInSet
      <3>2. g[s \ {Max(s)}] \in A
        BY <1>4
      <3>3. h[<<g[s \ {Max(s)}], Max(s)>>] = Numbered(g[s \ {Max(s)}], dataItems[Max(s)])
        BY <3>1, <3>2
      <3> HIDE DEF h
      <3> QED BY <1>4, <2>2, <3>3 DEF IsFoldOf
    <2> QED BY <2>1, <2>2
  <1>6. g = NumberStep(g, dataItems)
    BY <1>1, <1>4, <1>5 DEF NumberStep
  <1>7. PICK it : /\ it = NumberStep(it, dataItems)
                  /\ DataDomainMap(dataItems) = it[DOMAIN dataItems].map
    BY <1>6, DataDomainMapFold
  <1>8. \A s \in SUBSET (1 .. n) :
           it[s] = IF s = {} THEN NoNumbers
                   ELSE Numbered(it[s \ {Max(s)}], dataItems[Max(s)])
    BY <1>1, <1>7 DEF NumberStep
  <1> DEFINE run == [k \in 0 .. n |-> it[1 .. k]]
  <1>9. run[0] = NoNumbers
    <2>1. 1 .. 0 = {} /\ 0 \in 0 .. n /\ {} \in SUBSET (1 .. n)
      BY <1>1
    <2>2. it[{}] = NoNumbers
      BY <1>8, <2>1
    <2> QED BY <2>1, <2>2
  <1>10. ASSUME NEW k \in 0 .. n - 1
         PROVE  run[k + 1] = Numbered(run[k], dataItems[k + 1])
    <2>1. /\ k \in Nat /\ k \in 0 .. n /\ k + 1 \in 0 .. n
          /\ 1 .. k + 1 \in SUBSET (1 .. n)
      BY <1>1
    <2>2. /\ Max(1 .. k + 1) = k + 1 /\ (1 .. k + 1) \ {k + 1} = 1 .. k
          /\ 1 .. k + 1 # {}
      BY <2>1, LastPosition
    <2>3. it[1 .. k + 1] = Numbered(it[1 .. k], dataItems[k + 1])
      BY <1>8, <2>1, <2>2
    <2> QED BY <2>1, <2>3
  <1>11. DataDomainMap(dataItems) = run[n].map
    BY <1>1, <1>7
  <1> QED BY <1>9, <1>10, <1>11 DEF n

\* The numbers given so far are 1, 2, ... without a gap, each to a domain of
\* the items met so far; every such item has one of them.
NumbersRight(acc, dataItems, k) ==
    /\ acc.nextId \in Nat \ {0}
    /\ DOMAIN acc.domains = {dataItems[j].domain : j \in 1 .. k}
    /\ DOMAIN acc.map = {dataItems[j].id : j \in 1 .. k}
    /\ \A x \in DOMAIN acc.domains : acc.domains[x] \in 1 .. acc.nextId - 1
    /\ \A m \in 1 .. acc.nextId - 1 : \E x \in DOMAIN acc.domains : acc.domains[x] = m
    /\ \A d \in DOMAIN acc.map : acc.map[d] \in 1 .. acc.nextId - 1

\* One more item keeps the numbering as it should be: a known domain has its
\* number, a new one gets the next.
LEMMA NumberedRight ==
    ASSUME NEW dataItems, NEW k \in Nat, NEW acc, NumbersRight(acc, dataItems, k)
    PROVE  NumbersRight(Numbered(acc, dataItems[k + 1]), dataItems, k + 1)
  <1> DEFINE item == dataItems[k + 1]
             known == item.domain \in DOMAIN acc.domains
             id == IF known THEN acc.domains[item.domain] ELSE acc.nextId
             next == IF known THEN acc.nextId ELSE acc.nextId + 1
             domains == Put(acc.domains, item.domain, id)
             map == Put(acc.map, item.id, id)
             new == Numbered(acc, item)
  <1>1. /\ acc.nextId \in Nat \ {0}
        /\ DOMAIN acc.domains = {dataItems[j].domain : j \in 1 .. k}
        /\ DOMAIN acc.map = {dataItems[j].id : j \in 1 .. k}
        /\ \A x \in DOMAIN acc.domains : acc.domains[x] \in 1 .. acc.nextId - 1
        /\ \A m \in 1 .. acc.nextId - 1 : \E x \in DOMAIN acc.domains : acc.domains[x] = m
        /\ \A d \in DOMAIN acc.map : acc.map[d] \in 1 .. acc.nextId - 1
    BY DEF NumbersRight
  <1>2. new.nextId = next /\ new.domains = domains /\ new.map = map
    BY DEF Numbered
  <1>3. /\ DOMAIN domains = {item.domain} \cup DOMAIN acc.domains
        /\ domains[item.domain] = id
        /\ \A y \in DOMAIN acc.domains : y # item.domain => domains[y] = acc.domains[y]
    <2> HIDE DEF item, id
    <2> QED BY DEF Put
  <1>4. /\ DOMAIN map = {item.id} \cup DOMAIN acc.map
        /\ map[item.id] = id
        /\ \A y \in DOMAIN acc.map : y # item.id => map[y] = acc.map[y]
    <2> HIDE DEF item, id
    <2> QED BY DEF Put
  <1>5. \A j : j \in 1 .. k + 1 <=> j \in 1 .. k \/ j = k + 1
    OBVIOUS
  <1>6. /\ DOMAIN domains = {dataItems[j].domain : j \in 1 .. k + 1}
        /\ DOMAIN map = {dataItems[j].id : j \in 1 .. k + 1}
    <2>1. /\ {dataItems[j].domain : j \in 1 .. k + 1}
                = {item.domain} \cup {dataItems[j].domain : j \in 1 .. k}
          /\ {dataItems[j].id : j \in 1 .. k + 1}
                = {item.id} \cup {dataItems[j].id : j \in 1 .. k}
      BY <1>5
    <2> HIDE DEF item, domains, map
    <2> QED BY <1>1, <1>3, <1>4, <2>1
  <1>7. next \in Nat \ {0} /\ id \in 1 .. next - 1
    BY <1>1
  <1>8. \A m \in 1 .. acc.nextId - 1 : m \in 1 .. next - 1
    BY <1>1
  <1>9. \A m \in 1 .. next - 1 : m \in 1 .. acc.nextId - 1 \/ (~known /\ m = id)
    BY <1>1
  <1>10. known => id = acc.domains[item.domain]
    OBVIOUS
  <1> HIDE DEF item, id, next, domains, map, new
  <1>11. \A x \in DOMAIN domains : domains[x] \in 1 .. next - 1
    BY <1>1, <1>3, <1>7, <1>8
  <1>12. \A d \in DOMAIN map : map[d] \in 1 .. next - 1
    BY <1>1, <1>4, <1>7, <1>8
  <1>13. ASSUME NEW m \in 1 .. next - 1 PROVE \E x \in DOMAIN domains : domains[x] = m
    <2>1. CASE m \in 1 .. acc.nextId - 1
      <3>1. PICK x \in DOMAIN acc.domains : acc.domains[x] = m
        BY <1>1, <2>1
      <3>2. domains[x] = m
        BY <1>3, <1>10, <3>1
      <3> QED BY <1>3, <3>1, <3>2
    <2>2. CASE m = id
      BY <1>3, <2>2
    <2> QED BY <1>9, <2>1, <2>2
  <1>14. NumbersRight(new, dataItems, k + 1)
    BY <1>2, <1>6, <1>7, <1>11, <1>12, <1>13 DEF NumbersRight
  <1> QED BY <1>14 DEF new, item

\* The numbers of the data items of a table.
LEMMA DataDomainMapRight ==
    ASSUME NEW dataItems, IsTable(dataItems)
    PROVE  \E acc : /\ NumbersRight(acc, dataItems, Len(dataItems))
                    /\ DataDomainMap(dataItems) = acc.map
  <1> DEFINE n == Len(dataItems)
  <1>1. n \in Nat
    BY TableShape
  <1>2. PICK run : /\ run[0] = NoNumbers
                   /\ \A k \in 0 .. n - 1 : run[k + 1] = Numbered(run[k], dataItems[k + 1])
                   /\ DataDomainMap(dataItems) = run[n].map
    BY DataDomainMapRun
  <1> DEFINE T == {k \in 0 .. n : NumbersRight(run[k], dataItems, k)}
  <1>3. 0 \in T
    <2>1. 1 .. 0 = {} /\ 0 \in 0 .. n /\ 1 .. 1 - 1 = {} /\ DOMAIN <<>> = {}
      BY <1>1
    <2>2. /\ run[0].nextId = 1 /\ run[0].domains = <<>> /\ run[0].map = <<>>
      BY <1>2 DEF NoNumbers
    <2>3. NumbersRight(run[0], dataItems, 0)
      BY <2>1, <2>2 DEF NumbersRight
    <2> QED BY <2>1, <2>3
  <1>4. ASSUME NEW k \in 0 .. n - 1, k \in T PROVE k + 1 \in T
    <2>1. k \in Nat /\ k + 1 \in 0 .. n
      BY <1>1
    <2>2. NumbersRight(run[k], dataItems, k)
      BY <1>4
    <2>3. NumbersRight(run[k + 1], dataItems, k + 1)
      BY <1>2, <2>1, <2>2, NumberedRight
    <2> QED BY <2>1, <2>3
  <1>5. n \in T
    <2> HIDE DEF T
    <2>1. \A k \in 0 .. n : k \in T
      BY <1>1, <1>3, <1>4, UpTo
    <2> QED BY <1>1, <2>1
  <1> QED BY <1>2, <1>5

\* Every data item has a number, and no item has kInvalidDomainId.
LEMMA FindDataDomainIdFound ==
    ASSUME NEW dataItems, IsTable(dataItems), NEW d \in Ids(dataItems)
    PROVE  FindDataDomainId(dataItems, d) \in Nat \ {0}
  <1>1. PICK acc : /\ NumbersRight(acc, dataItems, Len(dataItems))
                   /\ DataDomainMap(dataItems) = acc.map
    BY DataDomainMapRight
  <1>2. DOMAIN acc.map = Ids(dataItems)
    BY <1>1, TableShape DEF NumbersRight, Ids
  <1>3. acc.nextId \in Nat \ {0} /\ acc.map[d] \in 1 .. acc.nextId - 1
    BY <1>1, <1>2 DEF NumbersRight
  <1> QED BY <1>1, <1>2, <1>3 DEF FindDataDomainId

\* As every domain of an item is in the domain table, there are no more
\* numbers than the table has rows: the number that ContextOf gives the first
\* capability is not the number of any data.
LEMMA FindDataDomainIdBound ==
    ASSUME NEW p, IsProduct(p), ValidDataItems(p), NEW d \in Ids(p.dataItems)
    PROVE  FindDataDomainId(p.dataItems, d) \in 1 .. Len(p.domains)
  <1> DEFINE items == p.dataItems
             domains == p.domains
             n == Len(items)
             L == Len(domains)
  <1>1. /\ IsTable(items) /\ IsTable(domains)
        /\ n \in Nat /\ DOMAIN items = 1 .. n
        /\ L \in Nat /\ DOMAIN domains = 1 .. L
    BY TableShape DEF IsProduct
  <1>2. PICK acc : NumbersRight(acc, items, n) /\ DataDomainMap(items) = acc.map
    BY <1>1, DataDomainMapRight
  <1> DEFINE N == acc.nextId - 1
  <1>3. /\ N \in Nat
        /\ DOMAIN acc.domains = {items[j].domain : j \in 1 .. n}
        /\ DOMAIN acc.map = Ids(items)
        /\ \A m \in 1 .. N : \E x \in DOMAIN acc.domains : acc.domains[x] = m
        /\ \A e \in DOMAIN acc.map : acc.map[e] \in 1 .. N
    BY <1>1, <1>2 DEF NumbersRight, Ids
  <1> DEFINE OfNumber(m, i) ==
                \E j \in 1 .. n : /\ acc.domains[items[j].domain] = m
                                  /\ items[j].domain.text = domains[i].text
  <1> HIDE DEF N
  <1>4. ASSUME NEW m \in 1 .. N PROVE \E i \in 1 .. L : OfNumber(m, i)
    <2>1. PICK j \in 1 .. n : acc.domains[items[j].domain] = m
      BY <1>3
    <2>2. items[j].domain.text \in Texts(domains)
      BY <1>1 DEF ValidDataItems
    <2> QED BY <1>1, <2>1, <2>2 DEF Texts
  <1>5. ASSUME NEW m \in 1 .. N, NEW e \in 1 .. N, NEW i \in 1 .. L,
               OfNumber(m, i), OfNumber(e, i)
        PROVE  m = e
    <2>1. PICK j \in 1 .. n : /\ acc.domains[items[j].domain] = m
                              /\ items[j].domain.text = domains[i].text
      BY <1>5
    <2>2. PICK k \in 1 .. n : /\ acc.domains[items[k].domain] = e
                              /\ items[k].domain.text = domains[i].text
      BY <1>5
    <2>3. items[j].domain # Null /\ items[k].domain # Null
      BY <1>1 DEF ValidDataItems
    <2>4. items[j].domain = items[k].domain
      BY <1>1, <2>1, <2>2, <2>3 DEF IsProduct, OneObjectPerName
    <2> QED BY <2>1, <2>2, <2>4
  <1> HIDE DEF OfNumber
  <1> DEFINE f == [m \in 1 .. N |-> CHOOSE i \in 1 .. L : OfNumber(m, i)]
  <1>6. \A m \in 1 .. N : f[m] \in 1 .. L /\ OfNumber(m, f[m])
    BY <1>4
  <1> HIDE DEF f
  <1>7. f \in Injection(1 .. N, 1 .. L)
    <2>1. f \in [1 .. N -> 1 .. L]
      BY <1>6 DEF f
    <2>2. \A m, e \in 1 .. N : f[m] = f[e] => m = e
      BY <1>5, <1>6
    <2> QED BY <2>1, <2>2 DEF Injection, IsInjective
  <1>8. /\ IsFiniteSet(1 .. N) /\ IsFiniteSet(1 .. L)
        /\ Cardinality(1 .. N) = N /\ Cardinality(1 .. L) = L
    <2>1. ASSUME NEW c \in Nat PROVE IsFiniteSet(1 .. c) /\ Cardinality(1 .. c) = c
      BY FS_Interval
    <2> QED BY <1>1, <1>3, <2>1
  <1>9. N <= L
    BY <1>7, <1>8, FS_Injection
  <1>10. FindDataDomainId(items, d) = acc.map[d] /\ acc.map[d] \in 1 .. N
    BY <1>2, <1>3 DEF FindDataDomainId
  <1> QED BY <1>1, <1>3, <1>9, <1>10

-----------------------------------------------------------------------------
(***************************************************************************)
(* What a running library's maps are, whichever revision computed them.    *)
(***************************************************************************)
RequiredBy(table, id) == ToSet(FindById(table, id).required)

\* Data items live in the numbers of the domain table, capabilities and
\* facades above them, each in a partition of its own.
PartitionsApart(partition, p) ==
    /\ DOMAIN partition.data = Ids(p.dataItems)
    /\ \A d \in DOMAIN partition.data : partition.data[d] \in 1 .. Len(p.domains)
    /\ \A kind \in {"capability", "facade"} :
       \A x \in DOMAIN partition[kind] : partition[kind][x] \in Nat \ (0 .. Len(p.domains))
    /\ \A kind, other \in {"capability", "facade"} :
       \A x \in DOMAIN partition[kind], y \in DOMAIN partition[other] :
          partition[kind][x] = partition[other][y] => kind = other /\ x = y

MapsRight(c, p) ==
    /\ DOMAIN c.capabilityDomains = Ids(p.capabilities)
    /\ \A x \in Ids(p.capabilities) :
          /\ IsTable(c.capabilityDomains[x])
          /\ ToSet(c.capabilityDomains[x]) =
                {c.partition.data[d] : d \in RequiredBy(p.capabilities, x)}
    /\ DOMAIN c.capabilityDependencies = Ids(p.dataItems)
    /\ \A d \in Ids(p.dataItems) :
          /\ c.capabilityDependencies[d] \in Seq(Ids(p.capabilities))
          /\ ToSet(c.capabilityDependencies[d]) \subseteq Ids(p.capabilities)
    /\ \A d \in Ids(p.dataItems), x \in Ids(p.capabilities) :
          x \in ToSet(c.capabilityDependencies[d]) <=> d \in RequiredBy(p.capabilities, x)

\* The revisions that have facades.
FacadesRight(c, p) ==
    /\ DOMAIN c.partition.capability = Ids(p.capabilities)
    /\ DOMAIN c.partition.facade = Ids(p.facades)
    /\ \A x \in Ids(p.capabilities) : c.facadeDependencies[x] \in Seq(Ids(p.facades))
    /\ \A x \in Ids(p.capabilities), f \in Ids(p.facades) :
          f \in ToSet(c.facadeDependencies[x]) <=> x \in RequiredBy(p.facades, f)

ContextRight(c, p) == PartitionsApart(c.partition, p) /\ MapsRight(c, p)

\* What the revisions' validations have in common.
Sound(p) ==
    /\ IsProduct(p)
    /\ ValidDataItems(p)
    /\ ValidDerived(p.capabilities, p.dataItems)
    /\ ValidDerived(p.facades, p.capabilities)

(***************************************************************************)
(* The inductive invariant.                                                *)
(***************************************************************************)
Fresh ==
    /\ context = NoContext
    /\ queues = Empty /\ routingTable = Empty
    /\ domainStore = Empty /\ capabilityStore = Empty

\* Only 0820, which does not check the routes of capabilities, can abort.
OnlyUnrouted ==
    phase = "aborted" => /\ revision = "0820" /\ ~RoutesFound0820(product)
                         /\ domainStore = Empty /\ capabilityStore = Empty

\* A partition holds the items whose partition it is, and no others.
StoresRight ==
    \A n \in DOMAIN domainStore :
       /\ n \in Nat \ {0}
       /\ \A x \in DOMAIN domainStore[n] : \E kind \in {"data", "capability", "facade"} :
             x \in DOMAIN context.partition[kind] /\ context.partition[kind][x] = n

Running ==
    /\ ContextRight(context, product)
    /\ StoresRight
    /\ DOMAIN routingTable = Ids(product.dataItems)
    /\ revision \in {"top", "755"} => FacadesRight(context, product)
    /\ revision \in {"0818", "0820"} =>
          /\ DOMAIN context.partition.capability = {}
          /\ DOMAIN context.partition.facade = {}

IInv ==
    /\ revision \in DOMAIN Candidates /\ product \in Candidates[revision]
    /\ phase \in {"written", "accepted", "rejected", "running", "aborted"}
    /\ phase \in {"written", "accepted", "rejected"} => Fresh
    /\ phase \in {"accepted", "running", "aborted"} => Accepts(product) /\ Sound(product)
    /\ phase = "running" => Running
    /\ OnlyUnrouted
    /\ QueuedOnItsRoute

-----------------------------------------------------------------------------
(* Searches in tables *)

\* FindById finds the first row with the id, if there is one.
LEMMA FindByIdRow ==
    ASSUME NEW t, IsTable(t), NEW id
    PROVE  /\ id \in Ids(t) =>
                 \E i \in DOMAIN t : t[i].id = id /\ FindById(t, id) = t[i]
           /\ id \notin Ids(t) => FindById(t, id) = Null
  <1> DEFINE I == {i \in 1 .. Len(t) : t[i].id = id}
  <1>1. Len(t) \in Nat /\ DOMAIN t = 1 .. Len(t)
    BY TableShape
  <1>2. id \in Ids(t) <=> I # {}
    BY <1>1 DEF Ids
  <1>3. SelectInSeq(t, LAMBDA row : row.id = id) = IF I # {} THEN Min(I) ELSE 0
    BY DEF SelectInSeq
  <1>4. I \in SUBSET Nat
    BY <1>1
  <1>5. I # {} => Min(I) \in I
    BY <1>4, MinIsLeast
  <1>6. CASE I = {}
    BY <1>2, <1>3, <1>6 DEF FindById
  <1>7. CASE I # {}
    <2>1. Min(I) \in DOMAIN t /\ t[Min(I)].id = id /\ Min(I) # 0
      BY <1>1, <1>5, <1>7
    <2> HIDE DEF I
    <2>2. FindById(t, id) = t[Min(I)]
      BY <1>3, <1>7, <2>1 DEF FindById
    <2> QED BY <1>2, <1>7, <2>1, <2>2
  <1> QED BY <1>6, <1>7

\* FindByName finds the first row with the name, if there is one.
LEMMA FindByNameRow ==
    ASSUME NEW t, IsTable(t), NEW name
    PROVE  /\ name \in Names(t) =>
                 \E i \in DOMAIN t : t[i].name = name /\ FindByName(t, name) = t[i]
           /\ name \notin Names(t) => FindByName(t, name) = Null
  <1> DEFINE I == {i \in 1 .. Len(t) : t[i].name = name}
  <1>1. Len(t) \in Nat /\ DOMAIN t = 1 .. Len(t)
    BY TableShape
  <1>2. name \in Names(t) <=> I # {}
    BY <1>1 DEF Names
  <1>3. SelectInSeq(t, LAMBDA row : row.name = name) = IF I # {} THEN Min(I) ELSE 0
    BY DEF SelectInSeq
  <1>4. I \in SUBSET Nat
    BY <1>1
  <1>5. I # {} => Min(I) \in I
    BY <1>4, MinIsLeast
  <1>6. CASE I = {}
    BY <1>2, <1>3, <1>6 DEF FindByName
  <1>7. CASE I # {}
    <2>1. Min(I) \in DOMAIN t /\ t[Min(I)].name = name /\ Min(I) # 0
      BY <1>1, <1>5, <1>7
    <2> HIDE DEF I
    <2>2. FindByName(t, name) = t[Min(I)]
      BY <1>3, <1>7, <2>1 DEF FindByName
    <2> QED BY <1>2, <1>7, <2>1, <2>2
  <1> QED BY <1>6, <1>7

\* Keys without a duplicate tell their positions apart.
LEMMA NoDuplicate ==
    ASSUME NEW t, IsTable(t), NEW keys, DOMAIN keys = DOMAIN t, ~HasDuplicate(keys)
    PROVE  \A i, j \in DOMAIN t : keys[i] = keys[j] => i = j
  <1>1. DOMAIN t = 1 .. Len(t) /\ Len(t) \in Nat
    BY TableShape
  <1>2. \A i, j \in DOMAIN t : i < j => keys[i] # keys[j]
    BY DEF HasDuplicate
  <1>3. \A i, j \in 1 .. Len(t) : i < j \/ j < i \/ i = j
    BY <1>1
  <1> QED BY <1>1, <1>2, <1>3

\* A table without a duplicate id: the id tells the row.
LEMMA IdsApart ==
    ASSUME NEW t, IsTable(t), ~HasDuplicateId(t)
    PROVE  \A i, j \in DOMAIN t : t[i].id = t[j].id => i = j
  <1> DEFINE keys == [i \in DOMAIN t |-> t[i].id]
  <1>1. DOMAIN keys = DOMAIN t /\ ~HasDuplicate(keys)
    BY DEF HasDuplicateId
  <1>2. \A i, j \in DOMAIN t : keys[i] = keys[j] => i = j
    <2> HIDE DEF keys
    <2> QED BY <1>1, NoDuplicate
  <1> QED BY <1>2

\* A table without a duplicate name: the name tells the row.
LEMMA NamesApart ==
    ASSUME NEW t, IsTable(t), ~HasDuplicateName(t)
    PROVE  \A i, j \in DOMAIN t : t[i].name = t[j].name => i = j
  <1> DEFINE keys == [i \in DOMAIN t |-> t[i].name]
  <1>1. DOMAIN keys = DOMAIN t /\ ~HasDuplicate(keys)
    BY DEF HasDuplicateName
  <1>2. \A i, j \in DOMAIN t : keys[i] = keys[j] => i = j
    <2> HIDE DEF keys
    <2> QED BY <1>1, NoDuplicate
  <1> QED BY <1>2

\* What a row of a sound table requires is what its id requires.
LEMMA RequiredByRow ==
    ASSUME NEW t, IsTable(t), ~HasDuplicateId(t), NEW i \in DOMAIN t
    PROVE  FindById(t, t[i].id) = t[i] /\ RequiredBy(t, t[i].id) = ToSet(t[i].required)
  <1>1. t[i].id \in Ids(t)
    BY DEF Ids
  <1>2. PICK j \in DOMAIN t : t[j].id = t[i].id /\ FindById(t, t[i].id) = t[j]
    BY <1>1, FindByIdRow
  <1>3. j = i
    BY <1>2, IdsApart
  <1> QED BY <1>2, <1>3 DEF RequiredBy

-----------------------------------------------------------------------------
(* The maps of a sound product *)

\* Dependents, for a table with unique ids: who requires the source.
LEMMA DependentsRight ==
    ASSUME NEW t, IsTable(t), ~HasDuplicateId(t), NEW source, NEW x \in Ids(t),
           \A i \in DOMAIN t : IsTable(t[i].required)
    PROVE  x \in ToSet(Dependents(t, source)) <=> source \in RequiredBy(t, x)
  <1>1. x \in ToSet(Dependents(t, source))
           <=> \E i \in DOMAIN t : t[i].id = x /\ source \in ToSet(t[i].required)
    BY DependentsMembers
  <1>2. PICK i \in DOMAIN t : t[i].id = x
    BY DEF Ids
  <1>3. RequiredBy(t, x) = ToSet(t[i].required)
    BY <1>2, RequiredByRow
  <1>4. \A j \in DOMAIN t : t[j].id = x => j = i
    BY <1>2, IdsApart
  <1> QED BY <1>1, <1>2, <1>3, <1>4

\* Only rows of the table are listed.
LEMMA DependentsKnown ==
    ASSUME NEW t, IsTable(t), NEW source,
           \A i \in DOMAIN t : IsTable(t[i].required)
    PROVE  /\ Dependents(t, source) \in Seq(Ids(t))
           /\ ToSet(Dependents(t, source)) \subseteq Ids(t)
  <1>1. Dependents(t, source) \in Seq(Ids(t))
    BY DependentsMembers
  <1>2. \A i \in 1 .. Len(Dependents(t, source)) : Dependents(t, source)[i] \in Ids(t)
    BY <1>1
  <1> QED BY <1>1, <1>2 DEF ToSet

\* RequiredDomains of the row of a capability: the partitions of its data.
LEMMA DomainsOfRow ==
    ASSUME NEW p, Sound(p), NEW i \in DOMAIN p.capabilities, NEW row,
           row.required = p.capabilities[i].required
    PROVE  /\ IsTable(RequiredDomains(p.dataItems, row))
           /\ ToSet(RequiredDomains(p.dataItems, row)) =
                 {FindDataDomainId(p.dataItems, d) :
                    d \in RequiredBy(p.capabilities, p.capabilities[i].id)}
  <1>1. /\ IsTable(p.capabilities) /\ ~HasDuplicateId(p.capabilities)
        /\ IsTable(row.required) /\ IsTable(p.dataItems)
    BY DEF Sound, IsProduct, ValidDerived
  <1>2. RequiredBy(p.capabilities, p.capabilities[i].id) = ToSet(row.required)
    BY <1>1, RequiredByRow
  <1>3. \A d \in ToSet(row.required) : d \in Ids(p.dataItems)
    BY DEF Sound, ValidDerived
  <1>4. \A d \in ToSet(row.required) :
           FindDataDomainId(p.dataItems, d) # kInvalidDomainId
    BY <1>1, <1>3, FindDataDomainIdFound DEF kInvalidDomainId
  <1> QED BY <1>1, <1>2, <1>4, RequiredDomainsMembers

\* The two ways the revisions find the domains of a capability.
LEMMA CapabilityDomainsRight ==
    ASSUME NEW p, Sound(p), NEW c \in Ids(p.capabilities),
           NEW domains \in {CapabilityDomainMap(p, c), ResolveDomains0818(p, c)}
    PROVE  /\ IsTable(domains)
           /\ ToSet(domains) = {FindDataDomainId(p.dataItems, d) :
                                  d \in RequiredBy(p.capabilities, c)}
  <1>1. /\ IsTable(p.capabilities) /\ ~HasDuplicateId(p.capabilities)
        /\ \A i \in DOMAIN p.capabilities : IsTable(p.capabilities[i].required)
    BY DEF Sound, IsProduct, ValidDerived
  <1>2. PICK i \in DOMAIN p.capabilities : p.capabilities[i].id = c
    BY DEF Ids
  <1>3. CASE domains = ResolveDomains0818(p, c)
    <2>1. FindById(p.capabilities, c) = p.capabilities[i]
      BY <1>1, <1>2, RequiredByRow
    <2> QED BY <1>2, <1>3, <2>1, DomainsOfRow DEF ResolveDomains0818
  <1>4. CASE domains = CapabilityDomainMap(p, c)
    <2>1. \A j \in DOMAIN p.capabilities : p.capabilities[j].id = c => j = i
      BY <1>1, <1>2, IdsApart
    <2>2. RequiredByAll(p.capabilities, c) = p.capabilities[i].required
      BY <1>1, <1>2, <2>1, RequiredByAllUnique
    <2> DEFINE row == [required |-> RequiredByAll(p.capabilities, c)]
    <2>3. row.required = p.capabilities[i].required
      BY <2>2
    <2>4. domains = RequiredDomains(p.dataItems, row)
      BY <1>4 DEF CapabilityDomainMap
    <2> HIDE DEF row
    <2> QED BY <1>2, <2>3, <2>4, DomainsOfRow
  <1> QED BY <1>3, <1>4

\* A capability of a sound product requires data items it has.
LEMMA RequiredIsData ==
    ASSUME NEW p, Sound(p), NEW x \in Ids(p.capabilities)
    PROVE  RequiredBy(p.capabilities, x) \subseteq Ids(p.dataItems)
  <1>1. IsTable(p.capabilities) /\ ~HasDuplicateId(p.capabilities)
    BY DEF Sound, IsProduct, ValidDerived
  <1>2. PICK i \in DOMAIN p.capabilities : p.capabilities[i].id = x
    BY DEF Ids
  <1>3. RequiredBy(p.capabilities, x) = ToSet(p.capabilities[i].required)
    BY <1>1, <1>2, RequiredByRow
  <1> QED BY <1>3 DEF Sound, ValidDerived

\* Numbers of capabilities and facades: after the domain table, by row.
LEMMA DerivedNumbers ==
    ASSUME NEW p, IsProduct(p)
    PROVE  /\ \A c \in Ids(p.capabilities) : \E i \in DOMAIN p.capabilities :
                 /\ p.capabilities[i].id = c
                 /\ FindCapabilityDomainId(p, c) = Len(p.domains) + i
           /\ \A f \in Ids(p.facades) : \E i \in DOMAIN p.facades :
                 /\ p.facades[i].id = f
                 /\ FindFacadeDomainId(p, f) = Len(p.domains) + Len(p.capabilities) + i
  <1>1. IsTable(p.capabilities) /\ IsTable(p.facades)
    BY DEF IsProduct
  <1>2. ASSUME NEW c \in Ids(p.capabilities)
        PROVE  \E i \in DOMAIN p.capabilities :
                  /\ p.capabilities[i].id = c
                  /\ FindCapabilityDomainId(p, c) = Len(p.domains) + i
    <2> DEFINE t == p.capabilities
               I == {i \in 1 .. Len(t) : t[i].id = c}
    <2>1. SelectInSeq(t, LAMBDA row : row.id = c) = IF I # {} THEN Min(I) ELSE 0
      BY DEF SelectInSeq
    <2>2. Min(I) \in DOMAIN t /\ Min(I) # 0 /\ t[Min(I)].id = c /\ I # {}
      <3>1. Len(t) \in Nat /\ DOMAIN t = 1 .. Len(t)
        BY <1>1, TableShape
      <3>2. I # {} /\ I \in SUBSET Nat
        BY <3>1 DEF Ids
      <3>3. Min(I) \in I
        BY <3>2, MinIsLeast
      <3> QED BY <3>1, <3>2, <3>3
    <2> HIDE DEF I
    <2>3. FindCapabilityDomainId(p, c) = Len(p.domains) + Min(I)
      BY <2>1, <2>2 DEF FindCapabilityDomainId
    <2> QED BY <2>2, <2>3
  <1>3. ASSUME NEW f \in Ids(p.facades)
        PROVE  \E i \in DOMAIN p.facades :
                  /\ p.facades[i].id = f
                  /\ FindFacadeDomainId(p, f) = Len(p.domains) + Len(p.capabilities) + i
    <2> DEFINE t == p.facades
               I == {i \in 1 .. Len(t) : t[i].id = f}
    <2>1. SelectInSeq(t, LAMBDA row : row.id = f) = IF I # {} THEN Min(I) ELSE 0
      BY DEF SelectInSeq
    <2>2. Min(I) \in DOMAIN t /\ Min(I) # 0 /\ t[Min(I)].id = f /\ I # {}
      <3>1. Len(t) \in Nat /\ DOMAIN t = 1 .. Len(t)
        BY <1>1, TableShape
      <3>2. I # {} /\ I \in SUBSET Nat
        BY <3>1 DEF Ids
      <3>3. Min(I) \in I
        BY <3>2, MinIsLeast
      <3> QED BY <3>1, <3>2, <3>3
    <2> HIDE DEF I
    <2>3. FindFacadeDomainId(p, f) = Len(p.domains) + Len(p.capabilities) + Min(I)
      BY <2>1, <2>2 DEF FindFacadeDomainId
    <2> QED BY <2>2, <2>3
  <1> QED BY <1>2, <1>3

\* The constructor of ProductContext makes what the readers rely on.
LEMMA ContextOfRight ==
    ASSUME NEW p, Sound(p)
    PROVE  ContextRight(ContextOf(p), p) /\ FacadesRight(ContextOf(p), p)
  <1> DEFINE c == ContextOf(p)
             L == Len(p.domains)
             N == Len(p.capabilities)
  <1>1. /\ IsProduct(p) /\ ValidDataItems(p) /\ IsTable(p.domains)
        /\ IsTable(p.dataItems) /\ IsTable(p.capabilities) /\ IsTable(p.facades)
        /\ \A i \in DOMAIN p.capabilities : IsTable(p.capabilities[i].required)
        /\ \A i \in DOMAIN p.facades : IsTable(p.facades[i].required)
        /\ ~HasDuplicateId(p.capabilities) /\ ~HasDuplicateId(p.facades)
    BY DEF Sound, IsProduct, ValidDerived
  <1>2. /\ c.partition.data =
              [d \in Ids(p.dataItems) |-> FindDataDomainId(p.dataItems, d)]
        /\ c.partition.capability =
              [x \in Ids(p.capabilities) |-> FindCapabilityDomainId(p, x)]
        /\ c.partition.facade = [f \in Ids(p.facades) |-> FindFacadeDomainId(p, f)]
        /\ c.capabilityDomains = [x \in Ids(p.capabilities) |-> CapabilityDomains(p, x)]
        /\ c.capabilityDependencies =
              [d \in Ids(p.dataItems) |-> Dependents(p.capabilities, d)]
        /\ c.facadeDependencies =
              [x \in Ids(p.capabilities) |-> Dependents(p.facades, x)]
    BY DEF ContextOf
  <1>3. L \in Nat /\ N \in Nat /\ DOMAIN p.capabilities = 1 .. N /\ DOMAIN p.facades = 1 .. Len(p.facades)
        /\ Len(p.facades) \in Nat
    BY <1>1, TableShape
  <1> HIDE DEF c
  <1>4. PartitionsApart(c.partition, p)
    <2>1. \A d \in Ids(p.dataItems) : c.partition.data[d] \in 1 .. L
      BY <1>1, <1>2, FindDataDomainIdBound
    <2>2. \A x \in Ids(p.capabilities) : \E i \in 1 .. N :
             p.capabilities[i].id = x /\ c.partition.capability[x] = L + i
      <3> SUFFICES ASSUME NEW x \in Ids(p.capabilities)
                   PROVE  \E i \in 1 .. N : /\ p.capabilities[i].id = x
                                            /\ c.partition.capability[x] = L + i
        OBVIOUS
      <3>1. c.partition.capability[x] = FindCapabilityDomainId(p, x)
        BY <1>2
      <3>2. PICK i \in DOMAIN p.capabilities :
               p.capabilities[i].id = x /\ FindCapabilityDomainId(p, x) = L + i
        BY <1>1, DerivedNumbers
      <3>3. i \in 1 .. N
        BY <1>3
      <3> QED BY <3>1, <3>2, <3>3
    <2>3. \A f \in Ids(p.facades) : \E i \in 1 .. Len(p.facades) :
             p.facades[i].id = f /\ c.partition.facade[f] = L + N + i
      <3> SUFFICES ASSUME NEW f \in Ids(p.facades)
                   PROVE  \E i \in 1 .. Len(p.facades) :
                             p.facades[i].id = f /\ c.partition.facade[f] = L + N + i
        OBVIOUS
      <3>1. c.partition.facade[f] = FindFacadeDomainId(p, f)
        BY <1>2
      <3>2. PICK i \in DOMAIN p.facades :
               p.facades[i].id = f /\ FindFacadeDomainId(p, f) = L + N + i
        BY <1>1, DerivedNumbers
      <3>3. i \in 1 .. Len(p.facades)
        BY <1>3
      <3> QED BY <3>1, <3>2, <3>3
    <2> HIDE DEF L, N
    <2>4. \A x \in Ids(p.capabilities) : c.partition.capability[x] \in Nat \ (0 .. L)
      BY <1>3, <2>2
    <2>5. \A f \in Ids(p.facades) : c.partition.facade[f] \in Nat \ (0 .. L)
      BY <1>3, <2>3
    <2>6. \A x \in Ids(p.capabilities), f \in Ids(p.facades) :
             c.partition.capability[x] # c.partition.facade[f]
      BY <1>3, <2>2, <2>3
    <2>7. \A x, y \in Ids(p.capabilities) :
             c.partition.capability[x] = c.partition.capability[y] => x = y
      BY <1>3, <2>2
    <2>8. \A f, g \in Ids(p.facades) :
             c.partition.facade[f] = c.partition.facade[g] => f = g
      BY <1>3, <2>3
    <2>9. /\ DOMAIN c.partition["capability"] = Ids(p.capabilities)
          /\ DOMAIN c.partition["facade"] = Ids(p.facades)
          /\ DOMAIN c.partition.data = Ids(p.dataItems)
      BY <1>2
    <2> QED BY <2>1, <2>4, <2>5, <2>6, <2>7, <2>8, <2>9 DEF PartitionsApart, L
  <1>5. MapsRight(c, p)
    <2>1. ASSUME NEW x \in Ids(p.capabilities)
          PROVE  /\ IsTable(c.capabilityDomains[x])
                 /\ ToSet(c.capabilityDomains[x]) =
                       {c.partition.data[d] : d \in RequiredBy(p.capabilities, x)}
      <3>1. c.capabilityDomains[x] = CapabilityDomainMap(p, x)
        BY <1>2 DEF CapabilityDomains, CapabilityDomainMap
      <3>2. /\ IsTable(c.capabilityDomains[x])
            /\ ToSet(c.capabilityDomains[x]) = {FindDataDomainId(p.dataItems, d) :
                                                 d \in RequiredBy(p.capabilities, x)}
        BY <3>1, CapabilityDomainsRight
      <3>3. RequiredBy(p.capabilities, x) \subseteq Ids(p.dataItems)
        BY RequiredIsData
      <3>4. \A d \in RequiredBy(p.capabilities, x) :
               c.partition.data[d] = FindDataDomainId(p.dataItems, d)
        BY <1>2, <3>3
      <3> QED BY <3>2, <3>4
    <2>2. /\ \A d \in Ids(p.dataItems) :
                /\ c.capabilityDependencies[d] \in Seq(Ids(p.capabilities))
                /\ ToSet(c.capabilityDependencies[d]) \subseteq Ids(p.capabilities)
          /\ \A d \in Ids(p.dataItems), x \in Ids(p.capabilities) :
                x \in ToSet(c.capabilityDependencies[d])
                   <=> d \in RequiredBy(p.capabilities, x)
      <3>1. \A d \in Ids(p.dataItems) :
               c.capabilityDependencies[d] = Dependents(p.capabilities, d)
        BY <1>2
      <3> QED BY <1>1, <3>1, DependentsRight, DependentsKnown
    <2> QED BY <1>2, <2>1, <2>2 DEF MapsRight
  <1>6. FacadesRight(c, p)
    <2>1. /\ \A x \in Ids(p.capabilities) : c.facadeDependencies[x] \in Seq(Ids(p.facades))
          /\ \A x \in Ids(p.capabilities), f \in Ids(p.facades) :
                f \in ToSet(c.facadeDependencies[x]) <=> x \in RequiredBy(p.facades, f)
      <3>1. \A x \in Ids(p.capabilities) :
               c.facadeDependencies[x] = Dependents(p.facades, x)
        BY <1>2
      <3> QED BY <1>1, <3>1, DependentsRight, DependentsKnown
    <2> QED BY <1>2, <2>1 DEF FacadesRight
  <1> QED BY <1>4, <1>5, <1>6 DEF ContextRight, c

\* The same for the numbers of 755, which go through capabilities and facades
\* as one list.
LEMMA DerivedNumbers755 ==
    ASSUME NEW p, IsProduct(p)
    PROVE  \E list :
              /\ \A c \in Ids(p.capabilities) : \E i \in Nat \ {0} :
                    /\ DerivedDomainId755(p, "capability", c) = Len(p.domains) + i
                    /\ list[i] = <<"capability", c>>
              /\ \A f \in Ids(p.facades) : \E i \in Nat \ {0} :
                    /\ DerivedDomainId755(p, "facade", f) = Len(p.domains) + i
                    /\ list[i] = <<"facade", f>>
  <1> DEFINE cs == [k \in DOMAIN p.capabilities |-> <<"capability", p.capabilities[k].id>>]
             fs == [k \in DOMAIN p.facades |-> <<"facade", p.facades[k].id>>]
             list == cs \o fs
             M == Len(p.capabilities)
             N == Len(p.facades)
  <1>1. /\ M \in Nat /\ DOMAIN p.capabilities = 1 .. M
        /\ N \in Nat /\ DOMAIN p.facades = 1 .. N
    BY TableShape DEF IsProduct
  <1> HIDE DEF M, N
  <1> DEFINE S == ({"capability"} \X Ids(p.capabilities)) \cup ({"facade"} \X Ids(p.facades))
  <1>2. cs \in Seq(S) /\ Len(cs) = M
    <2>1. \A k \in 1 .. M : <<"capability", p.capabilities[k].id>> \in S
      BY <1>1 DEF Ids
    <2>2. cs = [k \in 1 .. M |-> <<"capability", p.capabilities[k].id>>]
      BY <1>1
    <2> HIDE DEF S, cs
    <2> QED BY <1>1, <2>1, <2>2
  <1>3. fs \in Seq(S) /\ Len(fs) = N
    <2>1. \A k \in 1 .. N : <<"facade", p.facades[k].id>> \in S
      BY <1>1 DEF Ids
    <2>2. fs = [k \in 1 .. N |-> <<"facade", p.facades[k].id>>]
      BY <1>1
    <2> HIDE DEF S, fs
    <2> QED BY <1>1, <2>1, <2>2
  <1>4. /\ Len(list) \in Nat /\ DOMAIN list = 1 .. Len(list)
        /\ DOMAIN list = 1 .. M + N
        /\ \A i \in 1 .. M : list[i] = cs[i]
        /\ \A i \in 1 .. N : list[M + i] = fs[i]
    <2>1. list = cs \o fs
      OBVIOUS
    <2> HIDE DEF list, cs, fs, S
    <2>2. /\ list \in Seq(S)
          /\ DOMAIN list = 1 .. Len(cs) + Len(fs)
          /\ \A i \in 1 .. Len(cs) : list[i] = cs[i]
          /\ \A i \in 1 .. Len(fs) : list[Len(cs) + i] = fs[i]
      BY <1>2, <1>3, <2>1, ConcatShape
    <2>3. Len(list) \in Nat /\ DOMAIN list = 1 .. Len(list)
      BY <2>2
    <2> QED BY <1>2, <1>3, <2>2, <2>3
  <1>5. ASSUME NEW kind, NEW id, \E i \in DOMAIN list : list[i] = <<kind, id>>
        PROVE  \E i \in Nat \ {0} : /\ DerivedDomainId755(p, kind, id) = Len(p.domains) + i
                                    /\ list[i] = <<kind, id>>
    <2> DEFINE I == {i \in 1 .. Len(list) : list[i] = <<kind, id>>}
    <2>1. SelectInSeq(list, LAMBDA target : target = <<kind, id>>)
             = IF I # {} THEN Min(I) ELSE 0
      BY DEF SelectInSeq
    <2>2. DerivedDomainId755(p, kind, id) =
             LET at == SelectInSeq(list, LAMBDA target : target = <<kind, id>>)
             IN  IF at = 0 THEN kInvalidDomainId ELSE Len(p.domains) + at
      BY DEF DerivedDomainId755
    <2> HIDE DEF list
    <2>3. I \in SUBSET Nat /\ I # {}
      BY <1>4, <1>5
    <2>4. Min(I) \in I
      BY <2>3, MinIsLeast
    <2>5. \A i \in I : i \in Nat \ {0} /\ list[i] = <<kind, id>>
      BY <1>4
    <2> HIDE DEF I
    <2>6. Min(I) \in Nat \ {0} /\ list[Min(I)] = <<kind, id>>
      BY <2>4, <2>5
    <2>7. DerivedDomainId755(p, kind, id) = Len(p.domains) + Min(I)
      BY <2>1, <2>2, <2>3, <2>6
    <2> QED BY <2>6, <2>7
  <1>6. ASSUME NEW c \in Ids(p.capabilities)
        PROVE  \E i \in DOMAIN list : list[i] = <<"capability", c>>
    <2>1. PICK i \in 1 .. M : p.capabilities[i].id = c
      BY <1>1 DEF Ids
    <2>2. cs[i] = <<"capability", c>>
      BY <1>1, <2>1
    <2>3. i \in 1 .. M + N
      BY <1>1
    <2> HIDE DEF list, cs
    <2> QED BY <1>4, <2>2, <2>3
  <1>7. ASSUME NEW f \in Ids(p.facades)
        PROVE  \E i \in DOMAIN list : list[i] = <<"facade", f>>
    <2>1. PICK i \in 1 .. N : p.facades[i].id = f
      BY <1>1 DEF Ids
    <2>2. fs[i] = <<"facade", f>>
      BY <1>1, <2>1
    <2>3. M + i \in 1 .. M + N
      BY <1>1
    <2> HIDE DEF list, fs
    <2> QED BY <1>4, <2>2, <2>3
  <1> HIDE DEF list
  <1> QED BY <1>5, <1>6, <1>7

\* The constructor of 755's ProductContext, likewise.
LEMMA Context755Right ==
    ASSUME NEW p, Sound(p)
    PROVE  ContextRight(Context755(p), p) /\ FacadesRight(Context755(p), p)
  <1> DEFINE c == Context755(p)
             L == Len(p.domains)
  <1>1. /\ IsProduct(p) /\ ValidDataItems(p) /\ IsTable(p.domains)
        /\ IsTable(p.dataItems) /\ IsTable(p.capabilities) /\ IsTable(p.facades)
        /\ \A i \in DOMAIN p.capabilities : IsTable(p.capabilities[i].required)
        /\ \A i \in DOMAIN p.facades : IsTable(p.facades[i].required)
        /\ ~HasDuplicateId(p.capabilities) /\ ~HasDuplicateId(p.facades)
    BY DEF Sound, IsProduct, ValidDerived
  <1>2. /\ c.partition.data =
              [d \in Ids(p.dataItems) |-> FindDataDomainId(p.dataItems, d)]
        /\ c.partition.capability =
              [x \in Ids(p.capabilities) |-> DerivedDomainId755(p, "capability", x)]
        /\ c.partition.facade =
              [f \in Ids(p.facades) |-> DerivedDomainId755(p, "facade", f)]
        /\ c.capabilityDomains =
              [x \in Ids(p.capabilities) |-> CapabilityDomainMap(p, x)]
        /\ c.capabilityDependencies =
              [d \in Ids(p.dataItems) |-> Dependents(p.capabilities, d)]
        /\ c.facadeDependencies =
              [x \in Ids(p.capabilities) |-> Dependents(p.facades, x)]
    BY DEF Context755, DataDomainMap755, CapabilityRequiredDomains755,
           AffectedCapabilities755, AffectedFacades755
  <1>3. L \in Nat
    BY <1>1, TableShape
  <1> HIDE DEF c, L
  <1>4. PartitionsApart(c.partition, p)
    <2>1. \A d \in Ids(p.dataItems) : c.partition.data[d] \in 1 .. L
      BY <1>1, <1>2, FindDataDomainIdBound DEF L
    <2>2. PICK list :
              /\ \A x \in Ids(p.capabilities) : \E i \in Nat \ {0} :
                    /\ DerivedDomainId755(p, "capability", x) = L + i
                    /\ list[i] = <<"capability", x>>
              /\ \A f \in Ids(p.facades) : \E i \in Nat \ {0} :
                    /\ DerivedDomainId755(p, "facade", f) = L + i
                    /\ list[i] = <<"facade", f>>
      BY <1>1, DerivedNumbers755 DEF L
    <2> DEFINE At(kind, x, i) == c.partition[kind][x] = L + i /\ list[i] = <<kind, x>>
    <2>3. ASSUME NEW kind \in {"capability", "facade"}, NEW x \in DOMAIN c.partition[kind]
          PROVE  \E i \in Nat \ {0} : At(kind, x, i)
      <3>1. CASE kind = "capability"
        <4>1. x \in Ids(p.capabilities)
                 /\ c.partition[kind][x] = DerivedDomainId755(p, "capability", x)
          BY <1>2, <3>1
        <4> QED BY <2>2, <3>1, <4>1
      <3>2. CASE kind = "facade"
        <4>1. x \in Ids(p.facades)
                 /\ c.partition[kind][x] = DerivedDomainId755(p, "facade", x)
          BY <1>2, <3>2
        <4> QED BY <2>2, <3>2, <4>1
      <3> QED BY <3>1, <3>2
    <2>4. \A i \in Nat \ {0} : L + i \in Nat \ (0 .. L)
      BY <1>3
    <2>5. \A kind \in {"capability", "facade"} : \A x \in DOMAIN c.partition[kind] :
             c.partition[kind][x] \in Nat \ (0 .. L)
      BY <2>3, <2>4
    <2>6. ASSUME NEW kind \in {"capability", "facade"}, NEW x \in DOMAIN c.partition[kind],
                 NEW other \in {"capability", "facade"}, NEW y \in DOMAIN c.partition[other],
                 c.partition[kind][x] = c.partition[other][y]
          PROVE  kind = other /\ x = y
      <3>1. PICK i \in Nat \ {0} : At(kind, x, i)
        BY <2>3
      <3>2. PICK j \in Nat \ {0} : At(other, y, j)
        BY <2>3
      <3>3. L + i = L + j
        BY <2>6, <3>1, <3>2
      <3>4. i = j
        BY <1>3, <3>3
      <3> QED BY <3>1, <3>2, <3>4
    <2>7. DOMAIN c.partition.data = Ids(p.dataItems)
      BY <1>2
    <2> QED BY <2>1, <2>5, <2>6, <2>7 DEF PartitionsApart, L
  <1>5. MapsRight(c, p)
    <2>1. ASSUME NEW x \in Ids(p.capabilities)
          PROVE  /\ IsTable(c.capabilityDomains[x])
                 /\ ToSet(c.capabilityDomains[x]) =
                       {c.partition.data[d] : d \in RequiredBy(p.capabilities, x)}
      <3>1. c.capabilityDomains[x] = CapabilityDomainMap(p, x)
        BY <1>2
      <3>2. /\ IsTable(c.capabilityDomains[x])
            /\ ToSet(c.capabilityDomains[x]) = {FindDataDomainId(p.dataItems, d) :
                                                 d \in RequiredBy(p.capabilities, x)}
        BY <3>1, CapabilityDomainsRight
      <3>3. \A d \in RequiredBy(p.capabilities, x) :
               c.partition.data[d] = FindDataDomainId(p.dataItems, d)
        BY <1>2, RequiredIsData
      <3> QED BY <3>2, <3>3
    <2>2. /\ \A d \in Ids(p.dataItems) :
                /\ c.capabilityDependencies[d] \in Seq(Ids(p.capabilities))
                /\ ToSet(c.capabilityDependencies[d]) \subseteq Ids(p.capabilities)
          /\ \A d \in Ids(p.dataItems), x \in Ids(p.capabilities) :
                x \in ToSet(c.capabilityDependencies[d])
                   <=> d \in RequiredBy(p.capabilities, x)
      <3>1. \A d \in Ids(p.dataItems) :
               c.capabilityDependencies[d] = Dependents(p.capabilities, d)
        BY <1>2
      <3> QED BY <1>1, <3>1, DependentsRight, DependentsKnown
    <2> QED BY <1>2, <2>1, <2>2 DEF MapsRight
  <1>6. FacadesRight(c, p)
    <2>1. /\ \A x \in Ids(p.capabilities) : c.facadeDependencies[x] \in Seq(Ids(p.facades))
          /\ \A x \in Ids(p.capabilities), f \in Ids(p.facades) :
                f \in ToSet(c.facadeDependencies[x]) <=> x \in RequiredBy(p.facades, f)
      <3>1. \A x \in Ids(p.capabilities) :
               c.facadeDependencies[x] = Dependents(p.facades, x)
        BY <1>2
      <3> QED BY <1>1, <3>1, DependentsRight, DependentsKnown
    <2> QED BY <1>2, <2>1 DEF FacadesRight
  <1> QED BY <1>4, <1>5, <1>6 DEF ContextRight, c

\* The maps of 0818 and 0820, whichever of the two ways the domains are found.
LEMMA EarlierContextRight ==
    ASSUME NEW p, Sound(p), p.facades = <<>>, NEW domains, NEW c,
           DOMAIN domains = Ids(p.capabilities),
           \A x \in Ids(p.capabilities) :
              domains[x] \in {CapabilityDomainMap(p, x), ResolveDomains0818(p, x)},
           c.partition = EarlierContext(p, domains).partition,
           c.capabilityDomains = EarlierContext(p, domains).capabilityDomains,
           c.capabilityDependencies = EarlierContext(p, domains).capabilityDependencies
    PROVE  ContextRight(c, p)
  <1>1. /\ IsProduct(p) /\ ValidDataItems(p)
        /\ IsTable(p.capabilities) /\ ~HasDuplicateId(p.capabilities)
        /\ \A i \in DOMAIN p.capabilities : IsTable(p.capabilities[i].required)
    BY DEF Sound, IsProduct, ValidDerived
  <1>2. /\ c.partition.data =
              [d \in Ids(p.dataItems) |-> FindDataDomainId(p.dataItems, d)]
        /\ DOMAIN c.partition["capability"] = {} /\ DOMAIN c.partition["facade"] = {}
        /\ c.capabilityDomains = domains
        /\ c.capabilityDependencies =
              [d \in Ids(p.dataItems) |-> Dependents(p.capabilities, d)]
    BY DEF EarlierContext, NoContext, Empty, AffectedCapabilities0818
  <1>3. PartitionsApart(c.partition, p)
    <2>1. \A d \in Ids(p.dataItems) : c.partition.data[d] \in 1 .. Len(p.domains)
      BY <1>1, <1>2, FindDataDomainIdBound
    <2> QED BY <1>2, <2>1 DEF PartitionsApart
  <1>4. MapsRight(c, p)
    <2>1. ASSUME NEW x \in Ids(p.capabilities)
          PROVE  /\ IsTable(c.capabilityDomains[x])
                 /\ ToSet(c.capabilityDomains[x]) =
                       {c.partition.data[d] : d \in RequiredBy(p.capabilities, x)}
      <3>1. /\ IsTable(domains[x])
            /\ ToSet(domains[x]) = {FindDataDomainId(p.dataItems, d) :
                                      d \in RequiredBy(p.capabilities, x)}
        BY CapabilityDomainsRight
      <3>2. \A d \in RequiredBy(p.capabilities, x) :
               c.partition.data[d] = FindDataDomainId(p.dataItems, d)
        BY <1>2, RequiredIsData
      <3> QED BY <1>2, <3>1, <3>2
    <2>2. /\ \A d \in Ids(p.dataItems) :
                /\ c.capabilityDependencies[d] \in Seq(Ids(p.capabilities))
                /\ ToSet(c.capabilityDependencies[d]) \subseteq Ids(p.capabilities)
          /\ \A d \in Ids(p.dataItems), x \in Ids(p.capabilities) :
                x \in ToSet(c.capabilityDependencies[d])
                   <=> d \in RequiredBy(p.capabilities, x)
      <3>1. \A d \in Ids(p.dataItems) :
               c.capabilityDependencies[d] = Dependents(p.capabilities, d)
        BY <1>2
      <3> QED BY <1>1, <3>1, DependentsRight, DependentsKnown
    <2> QED BY <1>2, <2>1, <2>2 DEF MapsRight
  <1> QED BY <1>3, <1>4 DEF ContextRight

-----------------------------------------------------------------------------
(* Accepted products *)

\* What any revision accepts is sound; the routes of data items exist.
LEMMA AcceptedSound ==
    ASSUME revision \in DOMAIN Candidates, product \in Candidates[revision],
           Accepts(product)
    PROVE  /\ revision \in {"top", "755", "0818", "0820"}
           /\ Sound(product)
           /\ revision \in {"top", "755"} => ValidRoutes(product)
           /\ revision \in {"0818", "0820"} =>
                 ValidRoutesByName(product) /\ product.facades = <<>>
  <1>1. /\ revision \in {"top", "755", "0818", "0820"}
        /\ IsProduct(product)
        /\ revision \in {"0818", "0820"} => product.facades = <<>>
    BY ProductAssumption
  <1>2. CASE revision \in {"top", "755"}
    <2>1. ValidateProductDefinition(product)
      BY <1>2 DEF Accepts, Accepts755
    <2> QED BY <1>1, <1>2, <2>1 DEF ValidateProductDefinition, Sound
  <1>3. CASE revision \in {"0818", "0820"}
    <2>1. /\ ValidDataItems(product) /\ ValidRoutesByName(product)
          /\ ValidDerived(product.capabilities, product.dataItems)
      BY <1>3 DEF Accepts, Accepts0818, Accepts0820
    <2>2. product.facades = <<>>
      BY <1>1, <1>3
    <2>3. ValidDerived(product.facades, product.capabilities)
      BY <2>2 DEF ValidDerived, HasDuplicateName, HasDuplicateId, HasDuplicate
    <2> QED BY <1>1, <1>3, <2>1, <2>2, <2>3 DEF Sound
  <1> QED BY <1>1, <1>2, <1>3

\* The row of a data item, and that it is one.
LEMMA ItemRow ==
    ASSUME NEW p, IsProduct(p), NEW d \in Ids(p.dataItems)
    PROVE  \E i \in DOMAIN p.dataItems :
              /\ FindById(p.dataItems, d) = p.dataItems[i]
              /\ p.dataItems[i] # Null
  <1>1. PICK i \in DOMAIN p.dataItems : FindById(p.dataItems, d) = p.dataItems[i]
    BY FindByIdRow DEF IsProduct
  <1>2. p.dataItems[i] \in ToSet(p.dataItems)
    BY DEF ToSet
  <1> QED BY <1>1, <1>2 DEF IsProduct

\* RIManager and 755: one and the same route by id and by name.
LEMMA ItemRouted ==
    ASSUME NEW p, IsProduct(p), ValidRoutes(p), NEW d \in Ids(p.dataItems)
    PROVE  /\ RouteOfItem(p, d) # Null
           /\ RouteOfItem(p, d).name \in DOMAIN QueuesOf(p)
           /\ QueuesOf(p)[RouteOfItem(p, d).name] = RouteOfItem(p, d)
  <1>1. IsTable(p.routes) /\ ~HasDuplicateName(p.routes) /\ Null \notin ToSet(p.routes)
    BY DEF IsProduct, ValidRoutes
  <1>2. PICK i \in DOMAIN p.dataItems : FindById(p.dataItems, d) = p.dataItems[i]
    BY ItemRow
  <1>3. p.dataItems[i].routeId \in Ids(p.routes)
    BY DEF ValidRoutes
  <1>4. PICK j \in DOMAIN p.routes : RouteOfItem(p, d) = p.routes[j]
    BY <1>1, <1>2, <1>3, FindByIdRow DEF RouteOfItem
  <1>5. p.routes[j] # Null
    BY <1>1, TableShape
  <1> DEFINE name == p.routes[j].name
             I == {k \in 1 .. Len(p.routes) : p.routes[k].name = name}
  <1>6. /\ name \in DOMAIN QueuesOf(p)
        /\ QueuesOf(p)[name] =
              p.routes[SelectInSeq(p.routes, LAMBDA route : route.name = name)]
    BY DEF QueuesOf
  <1>7. SelectInSeq(p.routes, LAMBDA route : route.name = name) = j
    <2>1. Len(p.routes) \in Nat /\ DOMAIN p.routes = 1 .. Len(p.routes)
      BY <1>1, TableShape
    <2>2. j \in I /\ I \in SUBSET Nat
      BY <2>1
    <2>3. SelectInSeq(p.routes, LAMBDA route : route.name = name) = Min(I)
      BY <2>2 DEF SelectInSeq
    <2>4. Min(I) \in I
      BY <2>2, MinIsLeast
    <2>5. \A k \in I : k = j
      BY <1>1, <2>1, NamesApart
    <2> HIDE DEF I
    <2> QED BY <2>3, <2>4, <2>5
  <1> QED BY <1>4, <1>5, <1>6, <1>7

\* 0818 and 0820: the route of a data item has queues.
LEMMA ItemRoutedByName ==
    ASSUME NEW p, IsProduct(p), ValidRoutesByName(p)
    PROVE  /\ RoutesFound0818(p)
           /\ \A d \in Ids(p.dataItems) :
                 QueuesByName(p)[FindById(p.dataItems, d).route]
                    = ResolveRoute0818(p, "data", d)
  <1>1. IsTable(p.routes)
    BY DEF IsProduct
  <1>2. ASSUME NEW i \in DOMAIN p.dataItems
        PROVE  /\ p.dataItems[i].route \in DOMAIN QueuesByName(p)
               /\ QueuesByName(p)[p.dataItems[i].route]
                     = FindByName(p.routes, p.dataItems[i].route)
    <2>1. FindByName(p.routes, p.dataItems[i].route) # Null
      BY DEF ValidRoutesByName
    <2>2. p.dataItems[i].route \in Names(p.routes)
      BY <1>1, <2>1, FindByNameRow
    <2> QED BY <2>2 DEF QueuesByName
  <1>3. ASSUME NEW d \in Ids(p.dataItems)
        PROVE  QueuesByName(p)[FindById(p.dataItems, d).route]
                  = ResolveRoute0818(p, "data", d)
    <2>1. PICK i \in DOMAIN p.dataItems :
             FindById(p.dataItems, d) = p.dataItems[i] /\ p.dataItems[i] # Null
      BY ItemRow
    <2> QED BY <1>2, <2>1 DEF ResolveRoute0818
  <1> QED BY <1>2, <1>3 DEF RoutesFound0818

-----------------------------------------------------------------------------
(* Stores *)

\* What FindIn answers, of a store given as a value.
Stored(store, n, x) ==
    IF n \in DOMAIN store /\ x \in DOMAIN store[n] THEN store[n][x] ELSE NoValue

\* StoreIn changes one item of one partition.
LEMMA StoreInGives ==
    ASSUME NEW n, NEW x, NEW v, StoreIn(n, x, v)
    PROVE  /\ DOMAIN domainStore' = {n} \cup DOMAIN domainStore
           /\ \A m \in DOMAIN domainStore : m # n => domainStore'[m] = domainStore[m]
           /\ \A y \in DOMAIN domainStore'[n] :
                 y = x \/ (n \in DOMAIN domainStore /\ y \in DOMAIN domainStore[n])
  <1> DEFINE items == IF n \in DOMAIN domainStore THEN domainStore[n] ELSE Empty
             new == Put(items, x, v)
  <1>1. domainStore' = Put(domainStore, n, new)
    BY DEF StoreIn
  <1>2. DOMAIN new = {x} \cup DOMAIN items
    <2> HIDE DEF items
    <2> QED BY DEF Put
  <1>3. /\ n \in DOMAIN domainStore => items = domainStore[n]
        /\ n \notin DOMAIN domainStore => DOMAIN items = {}
    BY DEF Empty
  <1> HIDE DEF items, new
  <1>4. /\ DOMAIN domainStore' = {n} \cup DOMAIN domainStore
        /\ domainStore'[n] = new
        /\ \A m \in DOMAIN domainStore : m # n => domainStore'[m] = domainStore[m]
    BY <1>1 DEF Put
  <1> QED BY <1>2, <1>3, <1>4

\* What is read afterwards.
LEMMA StoreInReads ==
    ASSUME NEW n, NEW x, NEW v, StoreIn(n, x, v), NEW m, NEW y
    PROVE  Stored(domainStore', m, y) =
              IF m = n /\ y = x THEN v ELSE Stored(domainStore, m, y)
  <1> DEFINE items == IF n \in DOMAIN domainStore THEN domainStore[n] ELSE Empty
             new == Put(items, x, v)
  <1>1. domainStore' = Put(domainStore, n, new)
    BY DEF StoreIn
  <1>2. /\ DOMAIN new = {x} \cup DOMAIN items
        /\ new[x] = v
        /\ y \in DOMAIN items /\ y # x => new[y] = items[y]
    <2> HIDE DEF items
    <2> QED BY DEF Put
  <1>3. /\ n \in DOMAIN domainStore => items = domainStore[n]
        /\ n \notin DOMAIN domainStore => DOMAIN items = {}
    BY DEF Empty
  <1> HIDE DEF items, new
  <1>4. /\ DOMAIN domainStore' = {n} \cup DOMAIN domainStore
        /\ domainStore'[n] = new
        /\ m \in DOMAIN domainStore /\ m # n => domainStore'[m] = domainStore[m]
    BY <1>1 DEF Put
  <1>5. CASE m # n
    BY <1>4, <1>5 DEF Stored
  <1>6. CASE m = n /\ y = x
    BY <1>2, <1>4, <1>6 DEF Stored
  <1>7. CASE m = n /\ y # x
    BY <1>2, <1>3, <1>4, <1>7 DEF Stored
  <1> QED BY <1>5, <1>6, <1>7

\* The lookup of 755, which takes a kind with an id, is that of the others.
LEMMA Lookup755 ==
    ASSUME NEW kind \in {"data", "capability", "facade"}, NEW x
    PROVE  FindDomainId755(<<kind, x>>) = FindDomainId(kind, x)
  BY DEF FindDomainId755, FindDataDomainId755, FindCapabilityDomainId755,
         FindFacadeDomainId755, FindOfKind755, FindDomainId

\* A number that is found is that of the item's partition.
LEMMA FoundPartition ==
    ASSUME NEW kind, NEW x, FindDomainId(kind, x) # kInvalidDomainId
    PROVE  /\ x \in DOMAIN context.partition[kind]
           /\ FindDomainId(kind, x) = context.partition[kind][x]
  BY DEF FindDomainId

\* Every partition has a number of at least one.
LEMMA PartitionPositive ==
    ASSUME NEW p, IsProduct(p), PartitionsApart(context.partition, p),
           NEW kind \in {"data", "capability", "facade"},
           NEW x \in DOMAIN context.partition[kind]
    PROVE  context.partition[kind][x] \in Nat \ {0}
  <1>1. Len(p.domains) \in Nat
    BY TableShape DEF IsProduct
  <1>2. CASE kind = "data"
    <2>1. context.partition.data[x] \in 1 .. Len(p.domains)
      BY <1>2 DEF PartitionsApart
    <2> QED BY <1>1, <1>2, <2>1
  <1>3. CASE kind \in {"capability", "facade"}
    <2>1. context.partition[kind][x] \in Nat \ (0 .. Len(p.domains))
      BY <1>3 DEF PartitionsApart
    <2> QED BY <1>1, <2>1
  <1> QED BY <1>2, <1>3

\* Storing an item in its own partition leaves the library as it should be.
LEMMA StoreKeepsRunning ==
    ASSUME Sound(product), Running,
           NEW kind \in {"data", "capability", "facade"},
           NEW x \in DOMAIN context.partition[kind], NEW v,
           StoreIn(context.partition[kind][x], x, v), LibraryUnchanged
    PROVE  Running'
  <1> DEFINE n == context.partition[kind][x]
  <1>1. n \in Nat \ {0}
    BY PartitionPositive DEF Running, ContextRight, Sound
  <1>2. /\ DOMAIN domainStore' = {n} \cup DOMAIN domainStore
        /\ \A m \in DOMAIN domainStore : m # n => domainStore'[m] = domainStore[m]
        /\ \A y \in DOMAIN domainStore'[n] :
              y = x \/ (n \in DOMAIN domainStore /\ y \in DOMAIN domainStore[n])
    BY StoreInGives
  <1>3. StoresRight'
    <2>1. context' = context
      BY DEF LibraryUnchanged
    <2>2. ASSUME NEW m \in DOMAIN domainStore', NEW y \in DOMAIN domainStore'[m]
          PROVE  \E k \in {"data", "capability", "facade"} :
                    y \in DOMAIN context.partition[k] /\ context.partition[k][y] = m
      <3>1. CASE m = n /\ y = x
        BY <3>1
      <3>2. CASE ~(m = n /\ y = x)
        <4>1. m \in DOMAIN domainStore /\ y \in DOMAIN domainStore[m]
          <5> HIDE DEF n
          <5> QED BY <1>2, <2>2, <3>2
        <4> QED BY <4>1 DEF Running, StoresRight
      <3> QED BY <3>1, <3>2
    <2>3. \A m \in DOMAIN domainStore' : m \in Nat \ {0}
      <3> HIDE DEF n
      <3> QED BY <1>1, <1>2 DEF Running, StoresRight
    <2> QED BY <2>1, <2>2, <2>3 DEF StoresRight
  <1> QED BY <1>3 DEF Running, LibraryUnchanged, ContextRight, FacadesRight

-----------------------------------------------------------------------------
(* The inductive invariant *)

\* A definition that is only written down has no library yet.
LEMMA InitIInv == Init => IInv
  <1> SUFFICES ASSUME Init PROVE IInv
    OBVIOUS
  <1>1. DOMAIN routingTable = {}
    BY DEF Init, Empty
  <1> QED BY <1>1 DEF Init, IInv, Fresh, OnlyUnrouted, QueuedOnItsRoute

\* Validation decides whether the definition may be built into a library.
LEMMA ValidateIInv == IInv /\ Validate => IInv'
  <1> SUFFICES ASSUME IInv, Validate PROVE IInv'
    OBVIOUS
  <1>1. /\ phase = "written" /\ Fresh
        /\ phase' = IF Accepts(product) THEN "accepted" ELSE "rejected"
        /\ UNCHANGED <<revision, product, context, queues, routingTable, domainStore,
                       capabilityStore>>
    BY DEF IInv, Validate
  <1>2. Fresh'
    BY <1>1 DEF Fresh, NoContext, Empty
  <1>3. phase' = "accepted" => Accepts(product)' /\ Sound(product)'
    <2>1. phase' = "accepted" => Accepts(product)
      BY <1>1
    <2>2. Accepts(product) => Sound(product)
      BY AcceptedSound DEF IInv
    <2>3. Accepts(product)' = Accepts(product)
      BY <1>1 DEF Accepts
    <2> QED BY <1>1, <2>1, <2>2, <2>3
  <1>4. QueuedOnItsRoute'
    BY <1>2 DEF QueuedOnItsRoute, Fresh, Empty
  <1> QED BY <1>1, <1>2, <1>3, <1>4 DEF IInv, OnlyUnrouted

\* A store that holds nothing has every item in the right partition.
LEMMA InitialStores ==
    ASSUME NEW S, S \subseteq Nat \ {0}, domainStore' = [n \in S |-> Empty]
    PROVE  StoresRight'
  BY DEF StoresRight, Empty

\* RIManager: no data item of an accepted definition is without a route.
LEMMA InitializeIInv == IInv /\ Initialize => IInv'
  <1> SUFFICES ASSUME IInv, Initialize PROVE IInv'
    OBVIOUS
  <1>1. /\ phase = "accepted" /\ revision = "top"
        /\ context' = ContextOf(product) /\ queues' = QueuesOf(product)
        /\ UNCHANGED <<revision, product, domainStore, capabilityStore>>
    BY DEF Initialize
  <1>2. Accepts(product) /\ Sound(product) /\ Fresh
    BY <1>1 DEF IInv
  <1>3. ValidRoutes(product) /\ IsProduct(product)
    BY <1>1, <1>2, AcceptedSound DEF IInv, Sound
  <1>4. \A d \in Ids(product.dataItems) :
           /\ RouteOfItem(product, d) # Null
           /\ RouteOfItem(product, d).name \in DOMAIN QueuesOf(product)
           /\ QueuesOf(product)[RouteOfItem(product, d).name] = RouteOfItem(product, d)
    BY <1>3, ItemRouted
  <1>5. /\ phase' = "running"
        /\ routingTable' = [d \in Ids(product.dataItems) |-> RouteOfItem(product, d).name]
    BY <1>4 DEF Initialize
  <1>6. QueuedOnItsRoute'
    <2>1. \A d \in DOMAIN routingTable' : queues'[routingTable'[d]] = RouteOfItem(product, d)
      BY <1>1, <1>4, <1>5
    <2>2. ASSUME NEW d PROVE ResolvedRoute(d)' = RouteOfItem(product, d)
      BY <1>1 DEF ResolvedRoute, RouteOfItem
    <2> QED BY <2>1, <2>2 DEF QueuedOnItsRoute
  <1>7. Running'
    <2>1. ContextRight(context, product)' /\ FacadesRight(context, product)'
      BY <1>1, <1>2, ContextOfRight
    <2>2. StoresRight'
      BY <1>1, <1>2 DEF StoresRight, Fresh, Empty
    <2> QED BY <1>1, <1>5, <2>1, <2>2 DEF Running
  <1>8. Accepts(product)' /\ Sound(product)'
    BY <1>1, <1>2 DEF Accepts
  <1> QED BY <1>1, <1>5, <1>6, <1>7, <1>8 DEF IInv, OnlyUnrouted

\* Revision 755, which registers its partitions as well.
LEMMA Initialize755IInv == IInv /\ Initialize755 => IInv'
  <1> SUFFICES ASSUME IInv, Initialize755 PROVE IInv'
    OBVIOUS
  <1>1. /\ phase = "accepted" /\ revision = "755"
        /\ context' = Context755(product) /\ queues' = QueuesOf(product)
        /\ domainStore' = [n \in RegisteredDomains755(product) |-> Empty]
        /\ UNCHANGED <<revision, product, capabilityStore>>
    BY DEF Initialize755
  <1>2. Accepts(product) /\ Sound(product) /\ Fresh
    BY <1>1 DEF IInv
  <1>3. ValidRoutes(product) /\ IsProduct(product)
    BY <1>1, <1>2, AcceptedSound DEF IInv, Sound
  <1>4. \A d \in Ids(product.dataItems) :
           QueuesOf(product)[RouteOfItem(product, d).name] = RouteOfItem(product, d)
    BY <1>3, ItemRouted
  <1>5. RoutesFound755(product)
    BY <1>3 DEF ValidRoutes, RoutesFound755
  <1>6. /\ phase' = "running"
        /\ routingTable' = [d \in Ids(product.dataItems) |-> RouteOfItem(product, d).name]
    BY <1>5 DEF Initialize755
  <1>7. QueuedOnItsRoute'
    <2>1. ASSUME NEW d \in Ids(product.dataItems)
          PROVE  ResolvedRoute(d)' = RouteOfItem(product, d)
      <3>1. FindById(product.dataItems, d) # Null
        BY <1>3, ItemRow
      <3>2. ResolvedRoute(d)' = FindRoute755(d)'
        BY <1>1 DEF ResolvedRoute
      <3>3. FindRoute755(d)' = FindRoute755(d)
        BY <1>1 DEF FindRoute755
      <3>4. FindRoute755(d) = RouteOfItem(product, d)
        BY <3>1 DEF FindRoute755, RouteOfItem
      <3> QED BY <3>2, <3>3, <3>4
    <2> QED BY <1>1, <1>4, <1>6, <2>1 DEF QueuedOnItsRoute
  <1>8. Running'
    <2>1. ContextRight(context, product)' /\ FacadesRight(context, product)'
      BY <1>1, <1>2, Context755Right
    <2>2. StoresRight'
      <3>1. PartitionsApart(Context755(product).partition, product)
        BY <1>2, Context755Right DEF ContextRight
      <3>2. Len(product.domains) \in Nat
        BY <1>3, TableShape DEF IsProduct
      <3>3. /\ \A c \in Ids(product.capabilities) :
                  DerivedDomainId755(product, "capability", c)
                     \in Nat \ (0 .. Len(product.domains))
            /\ \A f \in Ids(product.facades) :
                  DerivedDomainId755(product, "facade", f)
                     \in Nat \ (0 .. Len(product.domains))
        BY <3>1 DEF PartitionsApart, Context755
      <3>4. RegisteredDomains755(product) \subseteq Nat \ {0}
        BY <3>2, <3>3 DEF RegisteredDomains755
      <3> QED BY <1>1, <3>4, InitialStores
    <2> QED BY <1>1, <1>6, <2>1, <2>2 DEF Running
  <1>9. Accepts(product)' /\ Sound(product)'
    BY <1>1, <1>2 DEF Accepts
  <1> QED BY <1>1, <1>6, <1>7, <1>8, <1>9 DEF IInv, OnlyUnrouted

\* 0818, whose routes are referred to by name.
LEMMA Initialize0818IInv == IInv /\ Initialize0818 => IInv'
  <1> SUFFICES ASSUME IInv, Initialize0818 PROVE IInv'
    OBVIOUS
  <1> DEFINE domains ==
         [c \in Ids(product.capabilities) |-> ResolveDomains0818(product, c)]
  <1>1. /\ phase = "accepted" /\ revision = "0818"
        /\ context' = EarlierContext(product, domains) /\ queues' = QueuesByName(product)
        /\ UNCHANGED <<revision, product, domainStore, capabilityStore>>
    BY DEF Initialize0818
  <1>2. Accepts(product) /\ Sound(product) /\ Fresh
    BY <1>1 DEF IInv
  <1>3. ValidRoutesByName(product) /\ IsProduct(product) /\ product.facades = <<>>
    BY <1>1, <1>2, AcceptedSound DEF IInv, Sound
  <1>4. /\ RoutesFound0818(product)
        /\ \A d \in Ids(product.dataItems) :
              QueuesByName(product)[FindById(product.dataItems, d).route]
                 = ResolveRoute0818(product, "data", d)
    BY <1>3, ItemRoutedByName
  <1>5. /\ phase' = "running"
        /\ routingTable' =
              [d \in Ids(product.dataItems) |-> FindById(product.dataItems, d).route]
    BY <1>4 DEF Initialize0818
  <1>6. QueuedOnItsRoute'
    <2>1. ASSUME NEW d PROVE ResolvedRoute(d)' = ResolveRoute0818(product, "data", d)
      BY <1>1 DEF ResolvedRoute
    <2> QED BY <1>1, <1>4, <1>5, <2>1 DEF QueuedOnItsRoute
  <1>7. Running'
    <2>1. ContextRight(context, product)'
      <3>1. /\ DOMAIN domains = Ids(product.capabilities)
            /\ \A c \in Ids(product.capabilities) :
                  domains[c] \in {CapabilityDomainMap(product, c),
                                  ResolveDomains0818(product, c)}
        OBVIOUS
      <3> HIDE DEF domains
      <3> QED BY <1>1, <1>2, <1>3, <3>1, EarlierContextRight
    <2>2. StoresRight'
      BY <1>1, <1>2 DEF StoresRight, Fresh, Empty
    <2>3. /\ DOMAIN context'.partition.capability = {}
          /\ DOMAIN context'.partition.facade = {}
      BY <1>1 DEF EarlierContext, NoContext, Empty
    <2> QED BY <1>1, <1>5, <2>1, <2>2, <2>3 DEF Running
  <1>8. Accepts(product)' /\ Sound(product)'
    BY <1>1, <1>2 DEF Accepts
  <1> QED BY <1>1, <1>5, <1>6, <1>7, <1>8 DEF IInv, OnlyUnrouted

\* 0820, which looks up the routes of the capabilities as well, and aborts if
\* one of them does not exist: nothing has checked that.
LEMMA Initialize0820IInv == IInv /\ Initialize0820 => IInv'
  <1> SUFFICES ASSUME IInv, Initialize0820 PROVE IInv'
    OBVIOUS
  <1> DEFINE domains ==
         [c \in Ids(product.capabilities) |-> CapabilityDomainMap(product, c)]
  <1>1. /\ phase = "accepted" /\ revision = "0820"
        /\ queues' = QueuesByName(product)
        /\ phase' = IF RoutesFound0820(product) THEN "running" ELSE "aborted"
        /\ UNCHANGED <<revision, product, domainStore, capabilityStore>>
    BY DEF Initialize0820
  <1>2. Accepts(product) /\ Sound(product) /\ Fresh
    BY <1>1 DEF IInv
  <1>3. ValidRoutesByName(product) /\ IsProduct(product) /\ product.facades = <<>>
    BY <1>1, <1>2, AcceptedSound DEF IInv, Sound
  <1>4. RoutesFound0818(product)
    BY <1>3, ItemRoutedByName
  <1>5. routingTable' =
           [d \in Ids(product.dataItems) |-> FindById(product.dataItems, d).route]
    BY <1>4 DEF Initialize0820
  <1>6. QueuedOnItsRoute'
    <2>1. ASSUME NEW d \in DOMAIN routingTable'
          PROVE  ResolvedRoute(d)' = queues'[routingTable'[d]]
      BY <1>1, <2>1 DEF ResolvedRoute, FindRoute0820
    <2> QED BY <2>1 DEF QueuedOnItsRoute
  <1>7. Running'
    <2>1. ContextRight(context, product)'
      <3>1. /\ DOMAIN domains = Ids(product.capabilities)
            /\ \A c \in Ids(product.capabilities) :
                  domains[c] \in {CapabilityDomainMap(product, c),
                                  ResolveDomains0818(product, c)}
        OBVIOUS
      <3>2. /\ context'.partition = EarlierContext(product, domains).partition
            /\ context'.capabilityDomains =
                  EarlierContext(product, domains).capabilityDomains
            /\ context'.capabilityDependencies =
                  EarlierContext(product, domains).capabilityDependencies
        BY DEF Initialize0820, EarlierContext, NoContext
      <3> HIDE DEF domains
      <3> QED BY <1>1, <1>2, <1>3, <3>1, <3>2, EarlierContextRight
    <2>2. StoresRight'
      BY <1>1, <1>2 DEF StoresRight, Fresh, Empty
    <2>3. /\ DOMAIN context'.partition.capability = {}
          /\ DOMAIN context'.partition.facade = {}
      BY DEF Initialize0820, EarlierContext, NoContext, Empty
    <2> QED BY <1>1, <1>5, <2>1, <2>2, <2>3 DEF Running
  <1>8. Accepts(product)' /\ Sound(product)'
    BY <1>1, <1>2 DEF Accepts
  <1>9. OnlyUnrouted'
    BY <1>1, <1>2 DEF OnlyUnrouted, Fresh, Empty
  <1> QED BY <1>1, <1>6, <1>7, <1>8, <1>9 DEF IInv

\* A value is stored, by whichever revision's function, in the partition of
\* the item it is for.
StoredRightly(kind, x, v) ==
    /\ x \in DOMAIN context.partition[kind]
    /\ StoreIn(context.partition[kind][x], x, v)

\* Such a step keeps the invariant.
LEMMA StoreIInv ==
    ASSUME IInv, phase = "running", NEW kind \in {"data", "capability", "facade"},
           NEW x, NEW v, StoredRightly(kind, x, v), LibraryUnchanged
    PROVE  IInv'
  <1>1. Accepts(product) /\ Sound(product) /\ Running
    BY DEF IInv
  <1>2. Running'
    BY <1>1, StoreKeepsRunning DEF StoredRightly
  <1>3. UNCHANGED <<revision, product, context, phase, queues, routingTable>>
    BY DEF LibraryUnchanged
  <1>4. Accepts(product)' /\ Sound(product)'
    BY <1>1, <1>3 DEF Accepts
  <1>5. QueuedOnItsRoute'
    <2>1. ASSUME NEW d PROVE ResolvedRoute(d)' = ResolvedRoute(d)
      BY <1>3 DEF ResolvedRoute, FindRoute755, FindRoute0820
    <2> QED BY <1>3, <2>1 DEF QueuedOnItsRoute, IInv
  <1> QED BY <1>2, <1>3, <1>4, <1>5 DEF IInv, OnlyUnrouted

\* All the store functions do that, if they store anything.
LEMMA StoresRightly ==
    ASSUME IInv, NEW x, NEW v
    PROVE  /\ StoreData(x, v) \/ StoreDataEarlier(x, v) => StoredRightly("data", x, v)
           /\ StoreCapability(x, v) => StoredRightly("capability", x, v)
           /\ StoreFacade(x, v) => StoredRightly("facade", x, v)
           /\ \A kind \in {"data", "capability", "facade"} :
                 Store755(kind, x, v) => StoredRightly(kind, x, v)
  <1>1. ASSUME StoreData(x, v) \/ StoreDataEarlier(x, v)
        PROVE  StoredRightly("data", x, v)
    <2>1. FindDomainId("data", x) # kInvalidDomainId /\ StoreIn(FindDomainId("data", x), x, v)
      BY <1>1 DEF StoreData, StoreDataEarlier
    <2> QED BY <2>1, FoundPartition DEF StoredRightly
  <1>2. ASSUME StoreCapability(x, v) PROVE StoredRightly("capability", x, v)
    <2>1. /\ FindDomainId("capability", x) # kInvalidDomainId
          /\ StoreIn(FindDomainId("capability", x), x, v)
      BY <1>2 DEF StoreCapability
    <2> QED BY <2>1, FoundPartition DEF StoredRightly
  <1>3. ASSUME StoreFacade(x, v) PROVE StoredRightly("facade", x, v)
    <2>1. /\ FindDomainId("facade", x) # kInvalidDomainId
          /\ StoreIn(FindDomainId("facade", x), x, v)
      BY <1>3 DEF StoreFacade
    <2> QED BY <2>1, FoundPartition DEF StoredRightly
  <1>4. ASSUME NEW kind \in {"data", "capability", "facade"}, Store755(kind, x, v)
        PROVE  StoredRightly(kind, x, v)
    <2>1. /\ phase = "running" /\ FindDomainId755(<<kind, x>>) \in DOMAIN domainStore
          /\ StoreIn(FindDomainId755(<<kind, x>>), x, v)
      BY <1>4 DEF Store755
    <2>2. FindDomainId755(<<kind, x>>) = FindDomainId(kind, x)
      BY Lookup755
    <2>3. FindDomainId(kind, x) # 0
      BY <2>1, <2>2 DEF IInv, Running, StoresRight
    <2> QED BY <2>1, <2>2, <2>3, FoundPartition DEF StoredRightly, kInvalidDomainId
  <1> QED BY <1>1, <1>2, <1>3, <1>4

\* 0818 and 0820: capabilities are in a map of their own.
LEMMA StoreCapabilityEarlierIInv ==
    ASSUME IInv, NEW c, NEW v, StoreCapabilityEarlier(c, v)
    PROVE  IInv'
  <1>1. /\ phase = "running" /\ Accepts(product) /\ Sound(product) /\ Running
        /\ UNCHANGED <<revision, product, context, phase, queues, routingTable, domainStore>>
    BY DEF IInv, StoreCapabilityEarlier, LibraryUnchanged
  <1>2. Running'
    BY <1>1 DEF Running, StoresRight, ContextRight
  <1>3. Accepts(product)' /\ Sound(product)'
    BY <1>1 DEF Accepts
  <1>4. QueuedOnItsRoute'
    <2>1. ASSUME NEW d PROVE ResolvedRoute(d)' = ResolvedRoute(d)
      BY <1>1 DEF ResolvedRoute, FindRoute755, FindRoute0820
    <2> QED BY <1>1, <2>1 DEF QueuedOnItsRoute, IInv
  <1> QED BY <1>1, <1>2, <1>3, <1>4 DEF IInv, OnlyUnrouted

\* The steps of a running library, as the proofs distinguish them.
LEMMA StoreSteps ==
    ASSUME IInv, Next
    PROVE  \/ Validate \/ Initialize \/ Initialize755 \/ Initialize0818 \/ Initialize0820
           \/ /\ phase = "running" /\ LibraryUnchanged
              /\ \E v \in Values :
                    \/ /\ UNCHANGED capabilityStore
                       /\ \/ \E x \in DataIds : StoredRightly("data", x, v)
                          \/ /\ revision \in {"top", "755"}
                             /\ \/ \E x \in CapabilityIds : StoredRightly("capability", x, v)
                                \/ \E x \in FacadeIds : StoredRightly("facade", x, v)
                    \/ \E x \in CapabilityIds : StoreCapabilityEarlier(x, v)
  <1>1. SUFFICES ASSUME ~Validate, ~Initialize, ~Initialize755, ~Initialize0818,
                        ~Initialize0820, NEW v \in Values,
                        \/ \E d \in DataIds :
                              \/ StoreData(d, v)
                              \/ Store755("data", d, v)
                              \/ StoreDataEarlier(d, v)
                        \/ \E c \in CapabilityIds :
                              \/ StoreCapability(c, v)
                              \/ Store755("capability", c, v)
                              \/ StoreCapabilityEarlier(c, v)
                        \/ \E f \in FacadeIds :
                              \/ StoreFacade(f, v)
                              \/ Store755("facade", f, v)
                 PROVE  /\ phase = "running" /\ LibraryUnchanged
                        /\ \/ /\ UNCHANGED capabilityStore
                              /\ \/ \E x \in DataIds : StoredRightly("data", x, v)
                                 \/ /\ revision \in {"top", "755"}
                                    /\ \/ \E x \in CapabilityIds :
                                             StoredRightly("capability", x, v)
                                       \/ \E x \in FacadeIds : StoredRightly("facade", x, v)
                           \/ \E x \in CapabilityIds : StoreCapabilityEarlier(x, v)
    BY Zenon DEF Next
  <1>2. ASSUME NEW d \in DataIds,
               StoreData(d, v) \/ Store755("data", d, v) \/ StoreDataEarlier(d, v)
        PROVE  /\ phase = "running" /\ LibraryUnchanged /\ UNCHANGED capabilityStore
               /\ StoredRightly("data", d, v)
    <2>1. StoredRightly("data", d, v)
      BY <1>2, StoresRightly
    <2> QED BY <1>2, <2>1 DEF StoreData, Store755, StoreDataEarlier
  <1>3. ASSUME NEW c \in CapabilityIds,
               StoreCapability(c, v) \/ Store755("capability", c, v)
        PROVE  /\ phase = "running" /\ LibraryUnchanged /\ UNCHANGED capabilityStore
               /\ revision \in {"top", "755"} /\ StoredRightly("capability", c, v)
    <2>1. StoredRightly("capability", c, v)
      BY <1>3, StoresRightly
    <2> QED BY <1>3, <2>1 DEF StoreCapability, Store755
  <1>4. ASSUME NEW f \in FacadeIds, StoreFacade(f, v) \/ Store755("facade", f, v)
        PROVE  /\ phase = "running" /\ LibraryUnchanged /\ UNCHANGED capabilityStore
               /\ revision \in {"top", "755"} /\ StoredRightly("facade", f, v)
    <2>1. StoredRightly("facade", f, v)
      BY <1>4, StoresRightly
    <2> QED BY <1>4, <2>1 DEF StoreFacade, Store755
  <1>5. ASSUME NEW c \in CapabilityIds, StoreCapabilityEarlier(c, v)
        PROVE  phase = "running" /\ LibraryUnchanged
    BY <1>5 DEF StoreCapabilityEarlier
  <1> QED BY <1>1, <1>2, <1>3, <1>4, <1>5, Zenon

\* Every step keeps the invariant.
LEMMA StepIInv == IInv /\ [Next]_vars => IInv'
  <1> SUFFICES ASSUME IInv, [Next]_vars PROVE IInv'
    OBVIOUS
  <1>1. CASE UNCHANGED vars
    <2>1. UNCHANGED <<revision, product, context, phase, queues, routingTable,
                      domainStore, capabilityStore>>
      BY <1>1 DEF vars
    <2>2. /\ Accepts(product)' = Accepts(product) /\ Fresh' = Fresh
          /\ Running' = Running /\ OnlyUnrouted' = OnlyUnrouted
      BY <2>1 DEF Accepts, Fresh, Running, StoresRight, ContextRight, OnlyUnrouted
    <2>3. QueuedOnItsRoute'
      <3>1. ASSUME NEW d PROVE ResolvedRoute(d)' = ResolvedRoute(d)
        BY <2>1 DEF ResolvedRoute, FindRoute755, FindRoute0820
      <3> QED BY <2>1, <3>1 DEF QueuedOnItsRoute, IInv
    <2> QED BY <2>1, <2>2, <2>3 DEF IInv
  <1>2. CASE Next
    <2>1. CASE Validate
      BY <2>1, ValidateIInv
    <2>2. CASE Initialize
      BY <2>2, InitializeIInv
    <2>3. CASE Initialize755
      BY <2>3, Initialize755IInv
    <2>4. CASE Initialize0818
      BY <2>4, Initialize0818IInv
    <2>5. CASE Initialize0820
      BY <2>5, Initialize0820IInv
    <2>6. ASSUME phase = "running", LibraryUnchanged,
                 NEW kind \in {"data", "capability", "facade"}, NEW x, NEW v,
                 StoredRightly(kind, x, v)
          PROVE  IInv'
      BY <2>6, StoreIInv
    <2>7. ASSUME NEW c, NEW v, StoreCapabilityEarlier(c, v) PROVE IInv'
      BY <2>7, StoreCapabilityEarlierIInv
    <2> QED BY <1>2, <2>1, <2>2, <2>3, <2>4, <2>5, <2>6, <2>7, StoreSteps
  <1> QED BY <1>1, <1>2

\* The inductive invariant: the maps of a running library are right, a
\* partition holds the items it is for, and only 0820 can have aborted.
THEOREM Spec_IInv == Spec => []IInv
  BY InitIInv, StepIInv, PTL DEF Spec

-----------------------------------------------------------------------------
(* Queues and maps *)

\* A running library's queues and routes: whenever a data item has queues,
\* they are those of the route that is resolved for it.
THEOREM RouteOfQueues == Spec => []QueuedOnItsRoute
  <1>1. IInv => QueuedOnItsRoute
    BY DEF IInv
  <1> QED BY <1>1, Spec_IInv, PTL

\* RouteProvider::Initialize runs into an assertion in 0820 only, and only if
\* the route of a capability does not exist.
THEOREM AbortsUnrouted == Spec => []OnlyUnrouted
  <1>1. IInv => OnlyUnrouted
    BY DEF IInv
  <1> QED BY <1>1, Spec_IInv, PTL

\* What 0820's validation leaves to the author of a definition.
CapabilitiesRouted ==
    "0820" \in DOMAIN Candidates =>
    \A p \in Candidates["0820"] : Accepts0820(p) =>
       \A i \in DOMAIN p.capabilities : FindByName(p.routes, p.capabilities[i].route) # Null

\* If the capabilities' routes exist in the definitions 0820 accepts, no
\* accepted definition of any revision runs RouteProvider::Initialize into an
\* assertion.
THEOREM NoneAborts == ASSUME CapabilitiesRouted PROVE Spec => []NeverAborts
  <1>1. IInv => NeverAborts
    <2> SUFFICES ASSUME IInv, phase = "aborted" PROVE FALSE
      BY DEF NeverAborts
    <2>1. /\ revision = "0820" /\ ~RoutesFound0820(product)
          /\ "0820" \in DOMAIN Candidates /\ product \in Candidates["0820"]
          /\ Accepts(product)
      BY DEF IInv, OnlyUnrouted
    <2>2. Accepts0820(product)
      BY <2>1 DEF Accepts
    <2>3. RoutesFound0818(product)
      <3>1. ValidRoutesByName(product) /\ IsProduct(product)
        BY <2>1, AcceptedSound DEF Sound
      <3> QED BY <3>1, ItemRoutedByName
    <2> QED BY <2>1, <2>2, <2>3 DEF CapabilitiesRouted, RoutesFound0820
  <1> QED BY <1>1, Spec_IInv, PTL

\* What the maps of a running library are, seen by its readers.
LEMMA ReadersMaps ==
    ASSUME IInv, phase = "running"
    PROVE  /\ Sound(product) /\ Running /\ revision \in {"top", "755", "0818", "0820"}
           /\ \A d \in Ids(product.dataItems) :
                 /\ FindDomainId("data", d) = context.partition.data[d]
                 /\ context.partition.data[d] \in 1 .. Len(product.domains)
           /\ \A c \in Ids(product.capabilities) :
                 RequiredBy(product.capabilities, c) \subseteq Ids(product.dataItems)
  <1>1. Accepts(product) /\ Sound(product) /\ Running
    BY DEF IInv
  <1>2. revision \in {"top", "755", "0818", "0820"}
    BY <1>1, AcceptedSound DEF IInv
  <1>3. PartitionsApart(context.partition, product)
    BY <1>1 DEF Running, ContextRight
  <1>4. ASSUME NEW d \in Ids(product.dataItems)
        PROVE  /\ FindDomainId("data", d) = context.partition.data[d]
               /\ context.partition.data[d] \in 1 .. Len(product.domains)
    BY <1>3 DEF FindDomainId, PartitionsApart
  <1> QED BY <1>1, <1>2, <1>4, RequiredIsData

\* What a facade requires are capabilities.
LEMMA RequiredIsCapability ==
    ASSUME NEW p, Sound(p), NEW f \in Ids(p.facades)
    PROVE  RequiredBy(p.facades, f) \subseteq Ids(p.capabilities)
  <1>1. IsTable(p.facades) /\ ~HasDuplicateId(p.facades)
    BY DEF Sound, IsProduct, ValidDerived
  <1>2. PICK i \in DOMAIN p.facades : p.facades[i].id = f
    BY DEF Ids
  <1>3. RequiredBy(p.facades, f) = ToSet(p.facades[i].required)
    BY <1>1, <1>2, RequiredByRow
  <1> QED BY <1>3 DEF Sound, ValidDerived

\* The items of a list, each with its kind.
LEMMA OfKindShape ==
    ASSUME NEW kind, NEW S, NEW ids \in Seq(S)
    PROVE  /\ OfKind(kind, ids) \in Seq({kind} \X S)
           /\ ToSet(OfKind(kind, ids)) = {<<kind, x>> : x \in ToSet(ids)}
  <1> DEFINE n == Len(ids)
  <1>1. n \in Nat /\ DOMAIN ids = 1 .. n /\ \A k \in 1 .. n : ids[k] \in S
    OBVIOUS
  <1> HIDE DEF n
  <1>2. OfKind(kind, ids) = [k \in 1 .. n |-> <<kind, ids[k]>>]
    BY <1>1 DEF OfKind
  <1>3. \A k \in 1 .. n : <<kind, ids[k]>> \in {kind} \X S
    BY <1>1
  <1>4. OfKind(kind, ids) \in Seq({kind} \X S)
    BY <1>1, <1>2, <1>3
  <1>5. ToSet(OfKind(kind, ids)) = {<<kind, ids[k]>> : k \in 1 .. n}
    BY <1>2 DEF ToSet
  <1> QED BY <1>1, <1>4, <1>5 DEF ToSet

\* Such a list has an item if and only if the list without kinds has its id.
LEMMA OfKindHas ==
    ASSUME NEW kind, NEW S, NEW ids \in Seq(S), NEW x
    PROVE  <<kind, x>> \in ToSet(OfKind(kind, ids)) <=> x \in ToSet(ids)
  <1>1. ToSet(OfKind(kind, ids)) = {<<kind, y>> : y \in ToSet(ids)}
    BY OfKindShape
  <1> QED BY <1>1

\* What an item of a sound table requires is a list of items of the table it
\* refers to.
LEMMA RequiredList ==
    ASSUME NEW t, IsTable(t), NEW x \in Ids(t), NEW S, RequiredBy(t, x) \subseteq S,
           \A i \in DOMAIN t : IsTable(t[i].required)
    PROVE  FindById(t, x).required \in Seq(S)
  <1> DEFINE r == FindById(t, x).required
  <1>1. IsTable(r)
    BY FindByIdRow
  <1>2. r \in Seq(ToSet(r)) /\ ToSet(r) \subseteq S
    BY <1>1 DEF IsTable, RequiredBy
  <1> HIDE DEF r
  <1>3. r \in Seq(S)
    BY <1>2
  <1> QED BY <1>3 DEF r

\* The maps of a running library are such as modules Pipeline and Path755
\* assume of theirs.
LEMMA PathFits ==
    ASSUME IInv, phase = "running", revision \in {"top", "755"}
    PROVE  Path!KindsApart /\ Path!MapsFit /\ Path!PartitionsFit
  <1> DEFINE caps == product.capabilities
             Dt == Keys("data", product.dataItems)
             Cs == Keys("capability", caps)
             Fs == Keys("facade", product.facades)
             L == Len(product.domains)
             dom == [d \in Dt |-> FindDomainId("data", d[2])]
             reqData == [c \in Cs |-> OfKind("data", FindById(caps, c[2]).required)]
             reqCaps == [f \in Fs |-> OfKind("capability",
                                             FindById(product.facades, f[2]).required)]
             snap == [c \in Cs |-> context.capabilityDomains[c[2]]]
             capDeps == [d \in Dt |-> OfKind("capability",
                                             context.capabilityDependencies[d[2]])]
             facDeps == [c \in Cs |-> OfKind("facade", context.facadeDependencies[c[2]])]
  <1>1. /\ \A d \in Dt : d[2] \in Ids(product.dataItems) /\ d = <<"data", d[2]>>
        /\ \A c \in Cs : c[2] \in Ids(caps) /\ c = <<"capability", c[2]>>
        /\ \A f \in Fs : f[2] \in Ids(product.facades) /\ f = <<"facade", f[2]>>
    BY DEF Keys
  <1>2. Cs \cap Dt = {} /\ Cs \cap Fs = {} /\ Dt \cap Fs = {}
    BY <1>1
  <1>3. Path!KindsApart
    BY <1>2 DEF Path!KindsApart
  <1>4. /\ MapsRight(context, product) /\ FacadesRight(context, product) /\ Sound(product)
        /\ IsTable(caps) /\ IsTable(product.facades)
        /\ \A i \in DOMAIN caps : IsTable(caps[i].required)
        /\ \A i \in DOMAIN product.facades : IsTable(product.facades[i].required)
        /\ \A d \in Ids(product.dataItems) : FindDomainId("data", d) \in 1 .. L
    BY ReadersMaps DEF Running, ContextRight, Sound, IsProduct
  <1>5. dom \in [Dt -> 1 .. L]
    BY <1>1, <1>4
  <1>6. reqData \in [Cs -> Seq(Dt)]
    <2> SUFFICES ASSUME NEW c \in Cs PROVE reqData[c] \in Seq(Dt)
      OBVIOUS
    <2>1. FindById(caps, c[2]).required \in Seq(Ids(product.dataItems))
      BY <1>1, <1>4, RequiredIsData, RequiredList
    <2> QED BY <2>1, OfKindShape DEF Keys
  <1>7. reqCaps \in [Fs -> Seq(Cs)]
    <2> SUFFICES ASSUME NEW f \in Fs PROVE reqCaps[f] \in Seq(Cs)
      OBVIOUS
    <2>1. FindById(product.facades, f[2]).required \in Seq(Ids(caps))
      BY <1>1, <1>4, RequiredIsCapability, RequiredList
    <2> QED BY <2>1, OfKindShape DEF Keys
  <1>8. snap \in [Cs -> Seq(1 .. L)]
    <2> SUFFICES ASSUME NEW c \in Cs PROVE snap[c] \in Seq(1 .. L)
      OBVIOUS
    <2> DEFINE domains == context.capabilityDomains[c[2]]
    <2>1. IsTable(domains) /\ ToSet(domains) \subseteq 1 .. L
      <3>1. /\ IsTable(domains)
            /\ ToSet(domains) = {context.partition.data[x] : x \in RequiredBy(caps, c[2])}
        BY <1>1, <1>4 DEF MapsRight
      <3>2. ASSUME NEW x \in RequiredBy(caps, c[2]) PROVE context.partition.data[x] \in 1 .. L
        <4>1. x \in Ids(product.dataItems)
          BY <1>1, <1>4, RequiredIsData
        <4> QED BY <4>1, ReadersMaps
      <3> HIDE DEF domains, L
      <3> QED BY <3>1, <3>2
    <2> HIDE DEF domains
    <2>2. domains \in Seq(1 .. L)
      BY <2>1 DEF IsTable
    <2> QED BY <2>2 DEF domains
  <1>9. capDeps \in [Dt -> Seq(Cs)]
    <2> SUFFICES ASSUME NEW d \in Dt PROVE capDeps[d] \in Seq(Cs)
      OBVIOUS
    <2>1. context.capabilityDependencies[d[2]] \in Seq(Ids(caps))
      BY <1>1, <1>4 DEF MapsRight
    <2> QED BY <2>1, OfKindShape DEF Keys
  <1>10. facDeps \in [Cs -> Seq(Fs)]
    <2> SUFFICES ASSUME NEW c \in Cs PROVE facDeps[c] \in Seq(Fs)
      OBVIOUS
    <2>1. context.facadeDependencies[c[2]] \in Seq(Ids(product.facades))
      BY <1>1, <1>4 DEF FacadesRight
    <2> QED BY <2>1, OfKindShape DEF Keys
  <1>11. ASSUME NEW c \in Cs
         PROVE  ToSet(snap[c]) = {dom[d] : d \in ToSet(reqData[c])}
    <2>1. FindById(caps, c[2]).required \in Seq(Ids(product.dataItems))
      BY <1>1, <1>4, RequiredIsData, RequiredList
    <2>2. ToSet(reqData[c]) = {<<"data", x>> : x \in RequiredBy(caps, c[2])}
      BY <2>1, OfKindShape DEF RequiredBy
    <2>3. ASSUME NEW x \in RequiredBy(caps, c[2])
          PROVE  <<"data", x>> \in Dt /\ dom[<<"data", x>>] = context.partition.data[x]
      <3>1. x \in Ids(product.dataItems)
        BY <1>1, <1>4, RequiredIsData
      <3> QED BY <3>1, ReadersMaps DEF Keys
    <2>4. ToSet(snap[c]) = {context.partition.data[x] : x \in RequiredBy(caps, c[2])}
      BY <1>1, <1>4 DEF MapsRight
    <2>5. {dom[d] : d \in {<<"data", x>> : x \in RequiredBy(caps, c[2])}}
             = {dom[<<"data", x>>] : x \in RequiredBy(caps, c[2])}
      <3> HIDE DEF dom, caps
      <3> QED OBVIOUS
    <2>6. {dom[<<"data", x>>] : x \in RequiredBy(caps, c[2])}
             = {context.partition.data[x] : x \in RequiredBy(caps, c[2])}
      <3> HIDE DEF dom, caps
      <3> QED BY <2>3
    <2> HIDE DEF dom, reqData, snap, Dt
    <2> QED BY <2>2, <2>4, <2>5, <2>6
  <1>12. ASSUME NEW d \in Dt, NEW c \in Cs
         PROVE  c \in ToSet(capDeps[d]) <=> d \in ToSet(reqData[c])
    <2>1. FindById(caps, c[2]).required \in Seq(Ids(product.dataItems))
      BY <1>1, <1>4, RequiredIsData, RequiredList
    <2>2. context.capabilityDependencies[d[2]] \in Seq(Ids(caps))
      BY <1>1, <1>4 DEF MapsRight
    <2>3. c \in ToSet(capDeps[d]) <=> c[2] \in ToSet(context.capabilityDependencies[d[2]])
      BY <1>1, <2>2, OfKindHas
    <2>4. d \in ToSet(reqData[c]) <=> d[2] \in RequiredBy(caps, c[2])
      BY <1>1, <2>1, OfKindHas DEF RequiredBy
    <2> QED BY <1>1, <1>4, <2>3, <2>4 DEF MapsRight
  <1>13. ASSUME NEW c \in Cs, NEW f \in Fs
         PROVE  f \in ToSet(facDeps[c]) <=> c \in ToSet(reqCaps[f])
    <2>1. FindById(product.facades, f[2]).required \in Seq(Ids(caps))
      BY <1>1, <1>4, RequiredIsCapability, RequiredList
    <2>2. context.facadeDependencies[c[2]] \in Seq(Ids(product.facades))
      BY <1>1, <1>4 DEF FacadesRight
    <2>3. f \in ToSet(facDeps[c]) <=> f[2] \in ToSet(context.facadeDependencies[c[2]])
      BY <1>1, <2>2, OfKindHas
    <2>4. c \in ToSet(reqCaps[f]) <=> c[2] \in RequiredBy(product.facades, f[2])
      BY <1>1, <2>1, OfKindHas DEF RequiredBy
    <2> QED BY <1>1, <1>4, <2>3, <2>4 DEF FacadesRight
  <1>14. Path!MapsFit
    <2>1. Path!MapsFit <=>
             /\ dom \in [Dt -> 1 .. L]
             /\ reqData \in [Cs -> Seq(Dt)] /\ reqCaps \in [Fs -> Seq(Cs)]
             /\ snap \in [Cs -> Seq(1 .. L)]
             /\ capDeps \in [Dt -> Seq(Cs)] /\ facDeps \in [Cs -> Seq(Fs)]
             /\ \A c \in Cs : ToSet(snap[c]) = {dom[d] : d \in Path!Required(c)}
             /\ \A d \in Dt, c \in Cs : c \in ToSet(capDeps[d]) <=> d \in Path!Required(c)
             /\ \A c \in Cs, f \in Fs : f \in ToSet(facDeps[c]) <=> c \in Path!Required(f)
      BY DEF Path!MapsFit, Path!ToSet, ToSet
    <2> HIDE DEF dom, snap, capDeps, facDeps
    <2>2. \A c \in Cs : Path!Required(c) = ToSet(reqData[c])
      BY DEF Path!Required, Path!ToSet, ToSet
    <2>3. \A f \in Fs : Path!Required(f) = ToSet(reqCaps[f])
      BY <1>2 DEF Path!Required, Path!ToSet, ToSet
    <2> HIDE DEF reqData, reqCaps, Cs, Dt, Fs, L
    <2> QED BY <1>5, <1>6, <1>7, <1>8, <1>9, <1>10, <1>11, <1>12, <1>13, <2>1, <2>2, <2>3
  <1>15. Path!PartitionsFit
    <2> DEFINE num == [t \in Cs \cup Fs |-> FindDomainId(t[1], t[2])]
    <2>1. Path!PartitionsFit <=>
             /\ L \in Nat
             /\ \A d \in Dt : dom[d] \in 1 .. L
             /\ num \in [Cs \cup Fs -> Nat]
             /\ \A t, u \in Cs \cup Fs : num[t] = num[u] => t = u
             /\ \A t \in Cs \cup Fs : num[t] > L
      BY DEF Path!PartitionsFit, Path!Derived, Path!IsInjective
    <2>2. PartitionsApart(context.partition, product) /\ L \in Nat
      BY ReadersMaps, TableShape DEF Running, ContextRight, Sound, IsProduct
    <2>3. ASSUME NEW t \in Cs \cup Fs
          PROVE  /\ t[1] \in {"capability", "facade"} /\ t = <<t[1], t[2]>>
                 /\ t[2] \in DOMAIN context.partition[t[1]]
                 /\ num[t] = context.partition[t[1]][t[2]]
      <3>1. CASE t \in Cs
        BY <1>1, <1>4, <3>1 DEF FacadesRight, FindDomainId
      <3>2. CASE t \in Fs
        BY <1>1, <1>4, <3>2 DEF FacadesRight, FindDomainId
      <3> QED BY <3>1, <3>2
    <2> HIDE DEF num, Cs, Fs, Dt, dom, L
    <2>4. ASSUME NEW t \in Cs \cup Fs PROVE num[t] \in Nat /\ num[t] > L
      <3>1. num[t] \in Nat \ (0 .. L)
        BY <2>2, <2>3 DEF PartitionsApart, L
      <3> QED BY <2>2, <3>1
    <2>5. ASSUME NEW t \in Cs \cup Fs, NEW u \in Cs \cup Fs, num[t] = num[u]
          PROVE  t = u
      <3>1. t[1] = u[1] /\ t[2] = u[2]
        BY <2>2, <2>3, <2>5 DEF PartitionsApart
      <3> QED BY <2>3, <3>1
    <2>6. num \in [Cs \cup Fs -> Nat]
      BY <2>4 DEF num
    <2> QED BY <1>5, <2>1, <2>2, <2>4, <2>5, <2>6
  <1> QED BY <1>3, <1>14, <1>15

\* Whatever revision computed them: the partitions of a capability's snapshot
\* are those of the data it requires, and a capability or a facade is
\* evaluated after exactly what it requires; and the maps of RIManager and of
\* 755 are such as modules Pipeline and Path755 assume (PathFits).
THEOREM MapsAgreeInAll == Spec => []MapsAgree
  <1>1. IInv => MapsAgree
    <2> SUFFICES ASSUME IInv, phase = "running" PROVE MapsAgree
      BY DEF MapsAgree
    <2>1. MapsRight(context, product)
      BY ReadersMaps DEF Running, ContextRight
    <2>2. ASSUME NEW c \in Ids(product.capabilities)
          PROVE  ToSet(context.capabilityDomains[c]) =
                    {FindDomainId("data", d) : d \in RequiredBy(product.capabilities, c)}
      <3>1. \A d \in RequiredBy(product.capabilities, c) :
               FindDomainId("data", d) = context.partition.data[d]
        BY ReadersMaps
      <3>2. ToSet(context.capabilityDomains[c]) =
               {context.partition.data[d] : d \in RequiredBy(product.capabilities, c)}
        BY <2>1 DEF MapsRight
      <3> QED BY <3>1, <3>2
    <2>3. \A d \in Ids(product.dataItems), c \in Ids(product.capabilities) :
             c \in ToSet(context.capabilityDependencies[d])
                <=> d \in RequiredBy(product.capabilities, c)
      BY <2>1 DEF MapsRight
    <2>4. revision \in {"top", "755"} =>
             Path!KindsApart /\ Path!MapsFit /\ Path!PartitionsFit
      BY PathFits
    <2> QED BY <2>2, <2>3, <2>4 DEF MapsAgree, RequiredBy
  <1> QED BY <1>1, Spec_IInv, PTL

-----------------------------------------------------------------------------
(* Snapshots *)

\* A partition of the domain table holds data only, and each data item is in
\* one: an item that is found, is found in its own.
LEMMA DataHome ==
    ASSUME IInv, phase = "running", NEW d \in Ids(product.dataItems),
           NEW n \in 1 .. Len(product.domains), FindIn(n, d) # NoValue
    PROVE  n = context.partition.data[d]
  <1>1. /\ IsProduct(product) /\ StoresRight
        /\ PartitionsApart(context.partition, product)
    BY ReadersMaps DEF Running, ContextRight, Sound
  <1>2. n \in DOMAIN domainStore /\ d \in DOMAIN domainStore[n]
    BY DEF FindIn
  <1>3. PICK kind \in {"data", "capability", "facade"} :
           d \in DOMAIN context.partition[kind] /\ context.partition[kind][d] = n
    BY <1>1, <1>2 DEF StoresRight
  <1>4. Len(product.domains) \in Nat
    BY <1>1, TableShape DEF IsProduct
  <1>5. kind \notin {"capability", "facade"}
    BY <1>1, <1>3, <1>4 DEF PartitionsApart
  <1> QED BY <1>3, <1>5

\* The partition of a capability holds nothing but that capability.
LEMMA CapabilityHome ==
    ASSUME IInv, phase = "running",
           NEW c \in DOMAIN context.partition.capability,
           NEW other \in DOMAIN context.partition.capability,
           FindIn(context.partition.capability[other], c) # NoValue
    PROVE  other = c
  <1> DEFINE n == context.partition.capability[other]
  <1>1. /\ IsProduct(product) /\ StoresRight
        /\ PartitionsApart(context.partition, product)
    BY ReadersMaps DEF Running, ContextRight, Sound
  <1>2. n \in DOMAIN domainStore /\ c \in DOMAIN domainStore[n]
    BY DEF FindIn
  <1>3. PICK kind \in {"data", "capability", "facade"} :
           c \in DOMAIN context.partition[kind] /\ context.partition[kind][c] = n
    BY <1>1, <1>2 DEF StoresRight
  <1>4. n \in Nat \ (0 .. Len(product.domains)) /\ Len(product.domains) \in Nat
    BY <1>1, TableShape DEF IsProduct, PartitionsApart
  <1>5. kind # "data"
    BY <1>1, <1>3, <1>4 DEF PartitionsApart
  <1> QED BY <1>1, <1>3, <1>5 DEF PartitionsApart

\* The first partition, in the order of the list, that has an item: if only
\* one of them can have it, that one.
LEMMA FirstFound ==
    ASSUME NEW t, IsTable(t), NEW d, NEW n \in ToSet(t),
           \A m \in ToSet(t) : FindIn(m, d) # NoValue => m = n,
           NEW at, at = SelectInSeq(t, LAMBDA m : FindIn(m, d) # NoValue)
    PROVE  (IF at = 0 THEN NoValue ELSE FindIn(t[at], d)) = FindIn(n, d)
  <1> DEFINE I == {k \in 1 .. Len(t) : FindIn(t[k], d) # NoValue}
  <1>1. Len(t) \in Nat /\ DOMAIN t = 1 .. Len(t) /\ \A k \in DOMAIN t : t[k] \in ToSet(t)
    BY TableShape
  <1>2. at = IF I # {} THEN Min(I) ELSE 0
    BY DEF SelectInSeq
  <1>3. CASE I = {}
    <2>1. PICK k \in DOMAIN t : t[k] = n
      BY DEF ToSet
    <2>2. FindIn(n, d) = NoValue
      BY <1>1, <1>3, <2>1
    <2>3. at = 0
      BY <1>2, <1>3
    <2> QED BY <2>2, <2>3
  <1>4. CASE I # {}
    <2>1. I \in SUBSET Nat
      BY <1>1
    <2>2. Min(I) \in I
      BY <1>4, <2>1, MinIsLeast
    <2>3. at \in I
      BY <1>2, <1>4, <2>2
    <2>4. at # 0 /\ t[at] = n
      BY <1>1, <2>3
    <2> QED BY <2>4
  <1> QED BY <1>3, <1>4

\* The same in ascending order.
LEMMA FirstFound755 ==
    ASSUME NEW t, NEW d, NEW n \in ToSet(t), n \in Nat,
           \A m \in ToSet(t) : FindIn(m, d) # NoValue => m = n
    PROVE  FindFirst755(t, d) = FindIn(n, d)
  <1> DEFINE found == {m \in ToSet(t) : FindIn(m, d) # NoValue}
  <1>1. CASE found = {}
    BY <1>1 DEF FindFirst755
  <1>2. CASE found # {}
    <2>1. found = {n}
      BY <1>2
    <2>2. Min({n}) = n
      BY MinIsLeast
    <2> QED BY <2>1, <2>2 DEF FindFirst755
  <1> QED BY <1>1, <1>2

\* 0818 and 0820: whatever snapshot is made when data item d changed, an item
\* r that one of the capabilities concerned requires is in it with the value
\* its partition has, if it has one.
LEMMA EarlierSnapshotItems ==
    ASSUME IInv, phase = "running", revision \in {"0818", "0820"},
           NEW d \in Ids(product.dataItems), NEW snapshot \in Snapshots(d),
           NEW c \in ToSet(context.capabilityDependencies[d]),
           NEW r \in RequiredBy(product.capabilities, c)
    PROVE  FoundIn(snapshot, r) = {FindIn(context.partition.data[r], r)} \ {NoValue}
  <1> DEFINE home == context.partition.data[r]
             items == {[id |-> r, value |-> v] : v \in {FindIn(home, r)} \ {NoValue}}
             InHome(s) == {item \in s : item.id = r} = items
  <1>1. /\ MapsRight(context, product) /\ Running
        /\ PartitionsApart(context.partition, product)
        /\ IsProduct(product)
    BY ReadersMaps DEF Running, ContextRight, Sound
  <1>2. c \in Ids(product.capabilities)
    BY <1>1 DEF MapsRight
  <1>3. /\ r \in Ids(product.dataItems) /\ r \in DataIds
        /\ FindDomainId("data", r) = home
        /\ home \in 1 .. Len(product.domains)
    BY <1>1, <1>2, ReadersMaps DEF IsProduct
  <1>4. \A n \in DOMAIN domainStore : FindIn(n, r) # NoValue => n = home
    <2>1. SUFFICES ASSUME NEW n \in DOMAIN domainStore, FindIn(n, r) # NoValue
                   PROVE  n = home
      OBVIOUS
    <2>2. r \in DOMAIN domainStore[n]
      BY <2>1 DEF FindIn
    <2>3. /\ DOMAIN context.partition["capability"] = {}
          /\ DOMAIN context.partition["facade"] = {}
      BY <1>1 DEF Running
    <2>4. PICK kind \in {"data", "capability", "facade"} :
             r \in DOMAIN context.partition[kind] /\ context.partition[kind][r] = n
      BY <1>1, <2>2 DEF Running, StoresRight
    <2> QED BY <2>3, <2>4
  <1>5. FindIn(home, r) # NoValue => home \in DOMAIN domainStore
    BY DEF FindIn
  <1>6. FindDomainId("data", r) # kInvalidDomainId
    <2>1. Len(product.domains) \in Nat
      BY <1>1, TableShape DEF IsProduct
    <2> QED BY <1>3, <2>1 DEF kInvalidDomainId
  <1>7. home \in ResolveSnapshotDomains(d)
    <2>1. PICK k \in DOMAIN context.capabilityDependencies[d] :
             context.capabilityDependencies[d][k] = c
      BY DEF ToSet
    <2>2. home \in ToSet(context.capabilityDomains[c])
      BY <1>1, <1>2 DEF MapsRight
    <2> QED BY <2>1, <2>2 DEF ResolveSnapshotDomains
  <1> HIDE DEF home
  <1>8. InHome(Read0818)
    BY <1>3, <1>4, <1>5 DEF Read0818
  <1>9. InHome(UpdateSnapshot0818(ResolveSnapshotDomains(d)))
    BY <1>3, <1>6, <1>7, <1>8 DEF UpdateSnapshot0818
  <1>10. InHome(SnapshotItems0820(ResolveSnapshotDomains(d)))
    BY <1>3, <1>4, <1>5, <1>7 DEF SnapshotItems0820
  <1>11. CreateSnapshot0818(d) = UpdateSnapshot0818(ResolveSnapshotDomains(d))
    BY <1>7 DEF CreateSnapshot0818
  <1>12. InHome(snapshot)
    BY <1>8, <1>9, <1>10, <1>11 DEF Snapshots
  <1> HIDE DEF items
  <1>13. FoundIn(snapshot, r) = {item.value : item \in items}
    BY <1>12 DEF FoundIn
  <1>14. \A v : v \in {item.value : item \in items} <=> v \in {FindIn(home, r)} \ {NoValue}
    <2>1. \A item \in items : item.value \in {FindIn(home, r)} \ {NoValue}
      BY DEF items
    <2>2. \A v \in {FindIn(home, r)} \ {NoValue} :
             [id |-> r, value |-> v] \in items /\ [id |-> r, value |-> v].value = v
      BY DEF items
    <2> QED BY <2>1, <2>2
  <1>15. FoundIn(snapshot, r) = {FindIn(home, r)} \ {NoValue}
    BY <1>13, <1>14
  <1> QED BY <1>15 DEF home

\* What the accessors of the library read, with the partition it is in.
LEMMA AccessorsRead ==
    ASSUME revision \in {"top", "755", "0818", "0820"}
    PROVE  /\ \A d : TryGet("data", d) = FindIn(FindDomainId("data", d), d)
           /\ revision \in {"top", "755"} =>
                 \A c : TryGet("capability", c) = FindIn(FindDomainId("capability", c), c)
  <1>1. ASSUME NEW d PROVE TryGet("data", d) = FindIn(FindDomainId("data", d), d)
    <2>1. FindDomainId755(<<"data", d>>) = FindDomainId("data", d)
      BY Lookup755
    <2> QED BY <2>1 DEF TryGet, TryGetData, TryGetData755, TryGetData0818, TryGetData0820
  <1>2. ASSUME NEW c, revision \in {"top", "755"}
        PROVE  TryGet("capability", c) = FindIn(FindDomainId("capability", c), c)
    <2>1. FindDomainId755(<<"capability", c>>) = FindDomainId("capability", c)
      BY Lookup755
    <2> QED BY <1>2, <2>1 DEF TryGet, TryGetCapability, TryGetCapability755
  <1> QED BY <1>1, <1>2

\* The snapshots of RIManager and 755, of capabilities ...
LEMMA CapabilitySnapshot ==
    ASSUME IInv, phase = "running", revision \in {"top", "755"},
           NEW c \in Ids(product.capabilities), NEW d \in RequiredBy(product.capabilities, c)
    PROVE  InSnapshot(c, d) = TryGet("data", d)
  <1> DEFINE t == context.capabilityDomains[c]
             n == context.partition.data[d]
  <1>1. /\ IsTable(t) /\ ToSet(t) = {context.partition.data[x] :
                                       x \in RequiredBy(product.capabilities, c)}
    BY ReadersMaps DEF Running, ContextRight, MapsRight
  <1>2. /\ d \in Ids(product.dataItems)
        /\ FindDomainId("data", d) = n
        /\ ToSet(t) \subseteq 1 .. Len(product.domains)
    BY <1>1, ReadersMaps
  <1>3. n \in ToSet(t) /\ n \in Nat
    <2>1. Len(product.domains) \in Nat
      BY ReadersMaps, TableShape DEF Sound, IsProduct
    <2>2. n \in ToSet(t)
      BY <1>1
    <2> QED BY <1>2, <2>1, <2>2
  <1>4. \A m \in ToSet(t) : FindIn(m, d) # NoValue => m = n
    BY <1>2, DataHome
  <1>5. TryGet("data", d) = FindIn(n, d)
    BY <1>2, AccessorsRead
  <1>6. FindInSnapshot(c, d) = FindIn(n, d)
    <2> HIDE DEF n
    <2>1. \A at : at = SelectInSeq(t, LAMBDA m : FindIn(m, d) # NoValue) =>
             (IF at = 0 THEN NoValue ELSE FindIn(t[at], d)) = FindIn(n, d)
      <3> HIDE DEF t
      <3> QED BY <1>1, <1>3, <1>4, FirstFound
    <2> QED BY <2>1 DEF FindInSnapshot
  <1>7. FindInSnapshot755(c, d) = FindIn(n, d)
    <2> HIDE DEF n
    <2>1. FindFirst755(t, d) = FindIn(n, d)
      <3> HIDE DEF t
      <3> QED BY <1>3, <1>4, FirstFound755
    <2> QED BY <2>1 DEF FindInSnapshot755
  <1> QED BY <1>5, <1>6, <1>7 DEF InSnapshot

\* ... and of facades.
LEMMA FacadeSnapshot ==
    ASSUME IInv, phase = "running", revision \in {"top", "755"},
           NEW f \in Ids(product.facades), NEW c \in RequiredBy(product.facades, f)
    PROVE  InFacadeSnapshot(f, c) = TryGet("capability", c)
  <1> DEFINE required == FindById(product.facades, f).required
             t == [k \in DOMAIN required |-> FindDomainId755(<<"capability", required[k]>>)]
             n == context.partition.capability[c]
  <1>1. FindInFacadeSnapshot(f, c) = TryGet("capability", c)
    BY DEF FindInFacadeSnapshot, RequiredBy
  <1>2. /\ RequiredBy(product.facades, f) \subseteq Ids(product.capabilities)
        /\ DOMAIN context.partition["capability"] = Ids(product.capabilities)
        /\ PartitionsApart(context.partition, product) /\ IsProduct(product)
    BY ReadersMaps, RequiredIsCapability DEF Running, ContextRight, FacadesRight, Sound
  <1>3. \A x \in RequiredBy(product.facades, f) :
           FindDomainId755(<<"capability", x>>) = context.partition.capability[x]
    <2>1. \A x : FindDomainId755(<<"capability", x>>) = FindDomainId("capability", x)
      BY Lookup755
    <2> QED BY <1>2, <2>1 DEF FindDomainId
  <1>4. ToSet(t) = {context.partition.capability[x] : x \in RequiredBy(product.facades, f)}
    BY <1>3 DEF ToSet, RequiredBy
  <1>5. n \in ToSet(t) /\ n \in Nat
    <2>1. n \in Nat
      BY <1>2 DEF PartitionsApart
    <2> QED BY <1>4, <2>1
  <1>6. \A m \in ToSet(t) : FindIn(m, c) # NoValue => m = n
    BY <1>2, <1>4, CapabilityHome
  <1>7. TryGet("capability", c) = FindIn(n, c)
    <2>1. FindDomainId("capability", c) = n
      BY <1>2 DEF FindDomainId
    <2>2. revision \in {"top", "755", "0818", "0820"}
      OBVIOUS
    <2> QED BY <2>1, <2>2, AccessorsRead
  <1>8. FindInFacadeSnapshot755(f, c) = FindIn(n, c)
    <2> HIDE DEF n
    <2>1. FindFirst755(t, c) = FindIn(n, c)
      <3> HIDE DEF t
      <3> QED BY <1>5, <1>6, FirstFound755
    <2> QED BY <2>1 DEF FindInFacadeSnapshot755
  <1> QED BY <1>1, <1>7, <1>8 DEF InFacadeSnapshot

\* What a builder finds in its snapshot is what the accessors give to the
\* application, in every revision and for every product that is accepted.
THEOREM SnapshotsAgree == Spec => []SnapshotsMatchAccessors
  <1>1. IInv => SnapshotsMatchAccessors
    <2> SUFFICES ASSUME IInv, phase = "running" PROVE SnapshotsMatchAccessors
      BY DEF SnapshotsMatchAccessors
    <2>1. /\ revision \in {"top", "755", "0818", "0820"}
          /\ MapsRight(context, product)
      BY ReadersMaps DEF Running, ContextRight
    <2>2. CASE revision \in {"0818", "0820"}
      <3>1. ASSUME NEW d \in DOMAIN context.capabilityDependencies,
                   NEW snapshot \in Snapshots(d),
                   NEW c \in ToSet(context.capabilityDependencies[d]),
                   NEW r \in ToSet(FindById(product.capabilities, c).required)
            PROVE  FoundIn(snapshot, r) = {TryGet("data", r)} \ {NoValue}
        <4>1. d \in Ids(product.dataItems) /\ c \in Ids(product.capabilities)
              /\ r \in RequiredBy(product.capabilities, c)
          BY <2>1 DEF MapsRight, RequiredBy
        <4>2. FoundIn(snapshot, r) = {FindIn(context.partition.data[r], r)} \ {NoValue}
          BY <2>2, <4>1, EarlierSnapshotItems
        <4>3. FindDomainId("data", r) = context.partition.data[r]
          BY <4>1, ReadersMaps
        <4>4. TryGet("data", r) = FindIn(context.partition.data[r], r)
          BY <2>1, <4>3, AccessorsRead
        <4> QED BY <4>2, <4>4
      <3> QED BY <2>2, <3>1 DEF SnapshotsMatchAccessors
    <2>3. CASE revision \in {"top", "755"}
      <3>1. /\ \A c \in Ids(product.capabilities) :
               \A d \in ToSet(FindById(product.capabilities, c).required) :
                  InSnapshot(c, d) = TryGet("data", d)
            /\ \A f \in Ids(product.facades) :
               \A c \in ToSet(FindById(product.facades, f).required) :
                  InFacadeSnapshot(f, c) = TryGet("capability", c)
        BY <2>3, CapabilitySnapshot, FacadeSnapshot DEF RequiredBy
      <3> QED BY <2>3, <3>1 DEF SnapshotsMatchAccessors
    <2> QED BY <2>1, <2>2, <2>3
  <1> QED BY <1>1, Spec_IInv, PTL

-----------------------------------------------------------------------------
(* Three name spaces *)

\* What a reader gets, whichever accessor it calls.
Read(kind, x) ==
    IF kind = "data" \/ revision \in {"top", "755"}
    THEN Stored(domainStore, FindDomainId(kind, x), x)
    ELSE IF kind = "capability" /\ x \in DOMAIN capabilityStore
         THEN capabilityStore[x]
         ELSE NoValue

AllRead == \A kind \in {"data", "capability", "facade"} : \A x : TryGet(kind, x) = Read(kind, x)

\* All the accessors read like that.
LEMMA AccessorsAgree == revision \in {"top", "755", "0818", "0820"} => AllRead
  <1> SUFFICES ASSUME revision \in {"top", "755", "0818", "0820"},
                      NEW kind \in {"data", "capability", "facade"}, NEW x
               PROVE  TryGet(kind, x) = Read(kind, x)
    BY DEF AllRead
  <1>1. FindIn(FindDomainId(kind, x), x) = Stored(domainStore, FindDomainId(kind, x), x)
    BY DEF FindIn, Stored
  <1>2. FindDomainId755(<<kind, x>>) = FindDomainId(kind, x)
    BY Lookup755
  <1>3. CASE revision = "top"
    BY <1>1, <1>3 DEF TryGet, TryGetData, TryGetCapability, TryGetFacade, Read
  <1>4. CASE revision = "755"
    BY <1>1, <1>2, <1>4 DEF TryGet, TryGetData755, TryGetCapability755, TryGetFacade755, Read
  <1>5. CASE revision \in {"0818", "0820"}
    BY <1>1, <1>5 DEF TryGet, TryGetData0818, TryGetData0820, TryGetCapabilityEarlier, Read
  <1> QED BY <1>3, <1>4, <1>5

\* The names of items, as in TypedStore.
ItemKeys == ({"data"} \X DataIds) \cup ({"capability"} \X CapabilityIds)
                                  \cup ({"facade"} \X FacadeIds)

\* A name is a kind and an id.
LEMMA KeyParts ==
    ASSUME NEW k \in ItemKeys
    PROVE  k[1] \in {"data", "capability", "facade"} /\ k = <<k[1], k[2]>>
  BY DEF ItemKeys

\* The storage as its readers see it.
View == [k \in ItemKeys |-> TryGet(k[1], k[2])]

\* An item's name and partition: the same number for the same id is the same
\* item.
LEMMA OneKey ==
    ASSUME IInv, phase = "running",
           NEW kind \in {"data", "capability", "facade"}, NEW x \in DOMAIN context.partition[kind],
           NEW other \in {"data", "capability", "facade"},
           FindDomainId(other, x) = context.partition[kind][x]
    PROVE  other = kind
  <1>1. IsProduct(product) /\ PartitionsApart(context.partition, product)
    BY ReadersMaps DEF Running, ContextRight, Sound
  <1>2. context.partition[kind][x] # 0
    BY <1>1, PartitionPositive
  <1>3. /\ x \in DOMAIN context.partition[other]
        /\ context.partition[other][x] = context.partition[kind][x]
    BY <1>2, FoundPartition DEF kInvalidDomainId
  <1>4. Len(product.domains) \in Nat
    BY <1>1, TableShape DEF IsProduct
  <1>5. CASE kind \in {"capability", "facade"} /\ other \in {"capability", "facade"}
    BY <1>1, <1>3, <1>5 DEF PartitionsApart
  <1>6. CASE kind = "data" /\ other \in {"capability", "facade"}
    BY <1>1, <1>3, <1>4, <1>6 DEF PartitionsApart
  <1>7. CASE kind \in {"capability", "facade"} /\ other = "data"
    BY <1>1, <1>3, <1>4, <1>7 DEF PartitionsApart
  <1> QED BY <1>5, <1>6, <1>7

\* Storing an item in its partition changes what is read under its own name.
LEMMA StoreIsWrite ==
    ASSUME IInv, phase = "running", AllRead, AllRead',
           NEW kind \in {"data", "capability", "facade"}, NEW x, NEW v,
           kind = "data" \/ revision \in {"top", "755"},
           <<kind, x>> \in ItemKeys, StoredRightly(kind, x, v),
           LibraryUnchanged, UNCHANGED capabilityStore
    PROVE  View' = [View EXCEPT ![<<kind, x>>] = v]
  <1> DEFINE n == context.partition[kind][x]
  <1>1. x \in DOMAIN context.partition[kind] /\ StoreIn(n, x, v)
    BY DEF StoredRightly
  <1>2. \A m, y : Stored(domainStore', m, y) =
           IF m = n /\ y = x THEN v ELSE Stored(domainStore, m, y)
    <2> HIDE DEF n
    <2> SUFFICES ASSUME NEW m, NEW y
                 PROVE  Stored(domainStore', m, y) =
                           IF m = n /\ y = x THEN v ELSE Stored(domainStore, m, y)
      OBVIOUS
    <2> QED BY <1>1, StoreInReads
  <1>3. FindDomainId(kind, x) = n
    BY <1>1 DEF FindDomainId
  <1>4. /\ UNCHANGED <<revision, context, capabilityStore>>
        /\ \A other, y : FindDomainId(other, y)' = FindDomainId(other, y)
    BY DEF LibraryUnchanged, FindDomainId
  <1>5. ASSUME NEW other \in {"data", "capability", "facade"}, NEW y
        PROVE  Read(other, y)' =
                  IF other = kind /\ y = x THEN v ELSE Read(other, y)
    <2>1. CASE other = "data" \/ revision \in {"top", "755"}
      <3>1. /\ Read(other, y) = Stored(domainStore, FindDomainId(other, y), y)
            /\ Read(other, y)' = Stored(domainStore', FindDomainId(other, y), y)
        BY <1>4, <2>1 DEF Read
      <3>2. FindDomainId(other, y) = n /\ y = x => other = kind
        BY <1>1, OneKey
      <3> HIDE DEF n
      <3> QED BY <1>2, <1>3, <3>1, <3>2
    <2>2. CASE ~(other = "data" \/ revision \in {"top", "755"})
      BY <1>4, <2>2 DEF Read
    <2> QED BY <2>1, <2>2
  <1>6. ASSUME NEW k \in ItemKeys
        PROVE  View'[k] = IF k = <<kind, x>> THEN v ELSE View[k]
    <2>1. k[1] \in {"data", "capability", "facade"} /\ k = <<k[1], k[2]>>
      BY KeyParts
    <2>2. View'[k] = Read(k[1], k[2])' /\ View[k] = Read(k[1], k[2])
      BY <2>1 DEF View, AllRead
    <2>3. k = <<kind, x>> <=> k[1] = kind /\ k[2] = x
      BY <2>1
    <2> QED BY <1>5, <2>1, <2>2, <2>3
  <1>7. View' = [k \in ItemKeys |-> IF k = <<kind, x>> THEN v ELSE View[k]]
    <2>1. DOMAIN View' = ItemKeys /\ View' = [k \in ItemKeys |-> View'[k]]
      BY DEF View
    <2> QED BY <1>6, <2>1
  <1> QED BY <1>7 DEF View

\* So does storing a capability in the map of 0818 and 0820.
LEMMA StoreEarlierIsWrite ==
    ASSUME IInv, AllRead, AllRead', NEW c \in CapabilityIds, NEW v,
           StoreCapabilityEarlier(c, v)
    PROVE  View' = [View EXCEPT ![<<"capability", c>>] = v]
  <1>1. /\ revision \in {"0818", "0820"}
        /\ UNCHANGED <<revision, context, domainStore>>
        /\ capabilityStore' = Put(capabilityStore, c, v)
    BY DEF StoreCapabilityEarlier, LibraryUnchanged
  <1>2. /\ DOMAIN capabilityStore' = {c} \cup DOMAIN capabilityStore
        /\ capabilityStore'[c] = v
        /\ \A y \in DOMAIN capabilityStore : y # c => capabilityStore'[y] = capabilityStore[y]
    BY <1>1 DEF Put
  <1>3. ASSUME NEW other \in {"data", "capability", "facade"}, NEW y
        PROVE  Read(other, y)' =
                  IF other = "capability" /\ y = c THEN v ELSE Read(other, y)
    <2>1. FindDomainId(other, y)' = FindDomainId(other, y)
      BY <1>1 DEF FindDomainId
    <2> QED BY <1>1, <1>2, <2>1 DEF Read
  <1>4. ASSUME NEW k \in ItemKeys
        PROVE  View'[k] = IF k = <<"capability", c>> THEN v ELSE View[k]
    <2>1. k[1] \in {"data", "capability", "facade"} /\ k = <<k[1], k[2]>>
      BY KeyParts
    <2>2. View'[k] = Read(k[1], k[2])' /\ View[k] = Read(k[1], k[2])
      BY <2>1 DEF View, AllRead
    <2>3. k = <<"capability", c>> <=> k[1] = "capability" /\ k[2] = c
      BY <2>1
    <2> QED BY <1>3, <2>1, <2>2, <2>3
  <1>5. View' = [k \in ItemKeys |-> IF k = <<"capability", c>> THEN v ELSE View[k]]
    <2>1. DOMAIN View' = ItemKeys /\ View' = [k \in ItemKeys |-> View'[k]]
      BY DEF View
    <2> QED BY <1>4, <2>1
  <1> QED BY <1>5 DEF View

\* Before a library runs, nothing is read.
NothingRead == View = [k \in ItemKeys |-> NoValue]

\* Empty stores hold nothing, whichever partitions are registered.
LEMMA EmptyReads ==
    ASSUME NEW S, domainStore = [n \in S |-> Empty], capabilityStore = Empty, AllRead
    PROVE  NothingRead
  <1>1. \A n, x : Stored(domainStore, n, x) = NoValue
    BY DEF Stored, Empty
  <1>2. \A kind, x : Read(kind, x) = NoValue
    BY <1>1 DEF Read, Empty
  <1>3. ASSUME NEW k \in ItemKeys PROVE TryGet(k[1], k[2]) = NoValue
    BY <1>2, KeyParts DEF AllRead
  <1> QED BY <1>3 DEF NothingRead, View

\* The same after a step.
LEMMA EmptyReadsNext ==
    ASSUME NEW S, domainStore' = [n \in S |-> Empty], capabilityStore' = Empty, AllRead'
    PROVE  NothingRead'
  <1>1. \A n, x : Stored(domainStore', n, x) = NoValue
    BY DEF Stored, Empty
  <1>2. \A kind, x : Read(kind, x)' = NoValue
    BY <1>1 DEF Read, Empty
  <1>3. ASSUME NEW k \in ItemKeys PROVE TryGet(k[1], k[2])' = NoValue
    BY <1>2, KeyParts DEF AllRead
  <1> QED BY <1>3 DEF NothingRead, View

\* Every step of the library is a write of one item, or nothing its readers
\* could see.
LEMMA StepIsWrite ==
    ASSUME IInv, [Next]_vars, AllRead, AllRead'
    PROVE  \/ \E k \in ItemKeys, v \in Values : View' = [View EXCEPT ![k] = v]
           \/ View' = View
  <1>1. CASE UNCHANGED vars
    <2>1. UNCHANGED <<revision, context, domainStore, capabilityStore>>
      BY <1>1 DEF vars
    <2>2. \A kind, x : Read(kind, x)' = Read(kind, x)
      BY <2>1 DEF Read, FindDomainId
    <2>3. ASSUME NEW k \in ItemKeys PROVE TryGet(k[1], k[2])' = TryGet(k[1], k[2])
      BY <2>2, KeyParts DEF AllRead
    <2> QED BY <2>3 DEF View
  <1>2. CASE Validate \/ Initialize \/ Initialize755 \/ Initialize0818 \/ Initialize0820
    <2>1. /\ phase \in {"written", "accepted"}
          /\ UNCHANGED capabilityStore
          /\ \/ UNCHANGED domainStore
             \/ domainStore' = [n \in RegisteredDomains755(product) |-> Empty]
      BY <1>2 DEF Validate, Initialize, Initialize755, Initialize0818, Initialize0820
    <2>2. domainStore = Empty /\ capabilityStore = Empty
      BY <2>1 DEF IInv, Fresh
    <2>3. Empty = [n \in {} |-> Empty]
      BY DEF Empty
    <2>4. NothingRead
      BY <2>2, <2>3, EmptyReads
    <2>5. NothingRead'
      BY <2>1, <2>2, <2>3, EmptyReadsNext
    <2> QED BY <2>4, <2>5 DEF NothingRead
  <1>3. CASE /\ phase = "running" /\ LibraryUnchanged
             /\ \E v \in Values :
                   \/ /\ UNCHANGED capabilityStore
                      /\ \/ \E x \in DataIds : StoredRightly("data", x, v)
                         \/ /\ revision \in {"top", "755"}
                            /\ \/ \E x \in CapabilityIds : StoredRightly("capability", x, v)
                               \/ \E x \in FacadeIds : StoredRightly("facade", x, v)
                   \/ \E x \in CapabilityIds : StoreCapabilityEarlier(x, v)
    <2>1. ASSUME NEW v \in Values, NEW x \in CapabilityIds, StoreCapabilityEarlier(x, v)
          PROVE  \E k \in ItemKeys, w \in Values : View' = [View EXCEPT ![k] = w]
      <3>1. View' = [View EXCEPT ![<<"capability", x>>] = v]
        BY <2>1, StoreEarlierIsWrite
      <3>2. <<"capability", x>> \in ItemKeys
        BY DEF ItemKeys
      <3> QED BY <3>1, <3>2
    <2>2. ASSUME NEW v \in Values, UNCHANGED capabilityStore,
                 NEW kind \in {"data", "capability", "facade"}, NEW x,
                 <<kind, x>> \in ItemKeys, kind = "data" \/ revision \in {"top", "755"},
                 StoredRightly(kind, x, v)
          PROVE  \E k \in ItemKeys, w \in Values : View' = [View EXCEPT ![k] = w]
      <3>1. View' = [View EXCEPT ![<<kind, x>>] = v]
        BY <1>3, <2>2, StoreIsWrite
      <3> QED BY <2>2, <3>1
    <2>3. /\ \A x \in DataIds : <<"data", x>> \in ItemKeys
          /\ \A x \in CapabilityIds : <<"capability", x>> \in ItemKeys
          /\ \A x \in FacadeIds : <<"facade", x>> \in ItemKeys
      BY DEF ItemKeys
    <2> QED BY <1>3, <2>1, <2>2, <2>3
  <1>4. CASE Next
    BY <1>2, <1>3, <1>4, StoreSteps
  <1> QED BY <1>1, <1>4

\* The library implements three separate name spaces: a value of one kind
\* never shows up under, replaces or hides a value of another, though ids
\* overlap and all values are in one registry of partitions.
THEOREM ImplementsThreeNameSpaces == Spec => ImplementsTypedStore
  <1>1. IInv => AllRead
    <2> SUFFICES ASSUME IInv PROVE AllRead
      OBVIOUS
    <2>1. revision \in {"top", "755", "0818", "0820"}
      BY ProductAssumption DEF IInv
    <2> QED BY <2>1, AccessorsAgree
  <1>2. Init /\ AllRead => Store!Init
    <2> SUFFICES ASSUME Init, AllRead PROVE Store!Init
      OBVIOUS
    <2>1. domainStore = [n \in {} |-> Empty] /\ capabilityStore = Empty
      BY DEF Init, Empty
    <2>2. NothingRead
      BY <2>1, EmptyReads
    <2> QED BY <2>2 DEF NothingRead, View, ItemKeys, Store!Init, Store!Keys
  <1>3. IInv /\ AllRead /\ AllRead' /\ [Next]_vars => [Store!Next]_View
    <2> SUFFICES ASSUME IInv, AllRead, AllRead', [Next]_vars
                 PROVE  (\E k \in ItemKeys, v \in Values : View' = [View EXCEPT ![k] = v])
                           \/ View' = View
      BY DEF Store!Next, Store!Write, Store!Keys, ItemKeys, View
    <2> QED BY StepIsWrite
  <1>4. Store!Spec <=> Store!Init /\ [][Store!Next]_View
    BY DEF Store!Spec, View, ItemKeys
  <1> QED BY <1>1, <1>2, <1>3, <1>4, InitIInv, Spec_IInv, PTL DEF Spec, ImplementsTypedStore
=============================================================================
