---------------------------- MODULE QueueLemmas ----------------------------
(***************************************************************************)
(* What the insertion policies of QueuePolicies do to a queue, proved for  *)
(* queues of any length.  The proofs about the data path cite these facts  *)
(* and never open the policies.                                            *)
(***************************************************************************)
EXTENDS QueuePolicies, SequenceTheorems, FiniteSetTheorems, WellFoundedInduction, TLAPS

\* The least index the erase and insert loops stop at exists.
LEMMA MinIsLeast ==
    ASSUME NEW M \in SUBSET Nat, M # {}
    PROVE  Min(M) \in M /\ \A y \in M : Min(M) <= y
  <1>1. M \subseteq Nat
    OBVIOUS
  <1>2. \E n \in M : \A m \in M : ~ (<<m, n>> \in OpToRel(<, Nat))
    BY <1>1, WFMin, NatLessThanWellFounded, Zenon
  <1>3. \A m, n \in Nat : m < n => <<m, n>> \in OpToRel(<, Nat)
    BY Zenon DEF OpToRel
  <1>4. \E n \in M : \A m \in M : ~ (m < n)
    BY <1>1, <1>2, <1>3, Zenon
  <1>5. \E n \in M : \A m \in M : n <= m
    BY <1>1, <1>4
  <1>6. QED
    BY <1>5 DEF Min

\* std::list::erase at position i keeps the order of the others.
LEMMA RemoveAtProperties ==
    ASSUME NEW S, NEW q \in Seq(S), NEW i \in 1 .. Len(q)
    PROVE  /\ RemoveAt(q, i) \in Seq(S)
           /\ Len(RemoveAt(q, i)) = Len(q) - 1
           /\ \A k \in 1 .. Len(q) - 1 :
                 RemoveAt(q, i)[k] = IF k < i THEN q[k] ELSE q[k + 1]
  <1> DEFINE front == SubSeq(q, 1, i - 1)
             back  == SubSeq(q, i + 1, Len(q))
  <1>1. /\ front \in Seq(S)
        /\ Len(front) = i - 1
        /\ \A k \in 1 .. i - 1 : front[k] = q[k]
    BY SubSeqProperties, LenProperties, ElementOfSeq
  <1>2. /\ back \in Seq(S)
        /\ Len(back) = Len(q) - i
        /\ \A k \in 1 .. Len(q) - i : back[k] = q[i + k]
    BY SubSeqProperties, LenProperties, ElementOfSeq
  <1> HIDE DEF front, back
  <1>3. /\ front \o back \in Seq(S)
        /\ Len(front \o back) = Len(front) + Len(back)
        /\ \A k \in 1 .. Len(front) + Len(back) :
              (front \o back)[k] = IF k <= Len(front) THEN front[k]
                                   ELSE back[k - Len(front)]
    BY <1>1, <1>2, ConcatProperties
  <1>4. ASSUME NEW k \in 1 .. Len(q) - 1
        PROVE  (front \o back)[k] = IF k < i THEN q[k] ELSE q[k + 1]
    <2>1. CASE k < i
      BY <2>1, <1>1, <1>2, <1>3, LenProperties
    <2>2. CASE i <= k
      <3>1. k - (i - 1) \in 1 .. Len(q) - i
        BY <2>2, LenProperties
      <3>2. (front \o back)[k] = back[k - (i - 1)]
        BY <2>2, <1>1, <1>2, <1>3, LenProperties
      <3>3. back[k - (i - 1)] = q[i + (k - (i - 1))]
        BY <3>1, <1>2
      <3>4. i + (k - (i - 1)) = k + 1
        BY LenProperties
      <3>5. ~(k < i)
        BY <2>2, LenProperties
      <3>6. QED
        BY <3>2, <3>3, <3>4, <3>5
    <2>3. k < i \/ i <= k
      BY LenProperties
    <2>4. QED
      BY <2>1, <2>2, <2>3, Zenon
  <1>5. RemoveAt(q, i) = front \o back
    BY DEF RemoveAt, front, back
  <1>6. Len(front) + Len(back) = Len(q) - 1
    BY <1>1, <1>2, LenProperties
  <1>7. QED
    BY <1>3, <1>4, <1>5, <1>6

\* std::list::insert before position i keeps the order of the others.
LEMMA InsertAtProperties ==
    ASSUME NEW S, NEW q \in Seq(S), NEW i \in 1 .. Len(q), NEW e \in S
    PROVE  /\ InsertAt(q, i, e) \in Seq(S)
           /\ Len(InsertAt(q, i, e)) = Len(q) + 1
           /\ \A k \in 1 .. Len(q) + 1 :
                 InsertAt(q, i, e)[k] = IF k < i THEN q[k]
                                        ELSE IF k = i THEN e ELSE q[k - 1]
  <1> DEFINE front == SubSeq(q, 1, i - 1)
             back  == SubSeq(q, i, Len(q))
  <1>1. /\ front \in Seq(S)
        /\ Len(front) = i - 1
        /\ \A k \in 1 .. i - 1 : front[k] = q[k]
    BY SubSeqProperties, LenProperties, ElementOfSeq
  <1>2. /\ back \in Seq(S)
        /\ Len(back) = Len(q) - i + 1
        /\ \A k \in 1 .. Len(q) - i + 1 : back[k] = q[i + k - 1]
    BY SubSeqProperties, LenProperties, ElementOfSeq
  <1>3. <<e>> \in Seq(S) /\ Len(<<e>>) = 1 /\ <<e>>[1] = e
    OBVIOUS
  <1> HIDE DEF front, back
  <1> DEFINE head == front \o <<e>>
  <1>4. /\ head \in Seq(S)
        /\ Len(head) = i
        /\ \A k \in 1 .. i : head[k] = IF k < i THEN q[k] ELSE e
    BY <1>1, <1>3, ConcatProperties DEF head
  <1> HIDE DEF head
  <1>5. /\ head \o back \in Seq(S)
        /\ Len(head \o back) = i + Len(back)
        /\ \A k \in 1 .. i + Len(back) :
              (head \o back)[k] = IF k <= i THEN head[k]
                                  ELSE back[k - i]
    BY <1>2, <1>4, ConcatProperties
  <1>6. i + Len(back) = Len(q) + 1
    BY <1>2, LenProperties
  <1>7. ASSUME NEW k \in 1 .. Len(q) + 1
        PROVE  (head \o back)[k] = IF k < i THEN q[k]
                                 ELSE IF k = i THEN e ELSE q[k - 1]
    <2>1. CASE k <= i
      BY <2>1, <1>4, <1>5, <1>6, LenProperties
    <2>2. CASE i < k
      <3>1. k - i \in 1 .. Len(q) - i + 1
        BY <2>2, LenProperties
      <3>2. (head \o back)[k] = back[k - i]
        BY <2>2, <1>5, <1>6, LenProperties
      <3>3. back[k - i] = q[i + (k - i) - 1]
        BY <3>1, <1>2
      <3>4. i + (k - i) - 1 = k - 1
        BY LenProperties
      <3>5. ~(k < i) /\ k # i
        BY <2>2, LenProperties
      <3>6. QED
        BY <3>2, <3>3, <3>4, <3>5
    <2>3. k <= i \/ i < k
      BY LenProperties
    <2>4. QED
      BY <2>1, <2>2, <2>3, Zenon
  <1>8. InsertAt(q, i, e) = head \o back
    BY DEF InsertAt, head, front, back
  <1>9. QED
    BY <1>5, <1>6, <1>7, <1>8
-----------------------------------------------------------------------------
\* Erasing the first match removes one matching event and nothing else.
LEMMA EraseFirstProperties ==
    ASSUME NEW S, NEW q \in Seq(S), NEW M \in SUBSET DOMAIN q
    PROVE  /\ EraseFirst(q, M) \in Seq(S)
           /\ M = {} => EraseFirst(q, M) = q
           /\ M # {} =>
                 /\ Len(EraseFirst(q, M)) = Len(q) - 1
                 /\ \E m \in M : \A k \in 1 .. Len(q) - 1 :
                       EraseFirst(q, M)[k] = IF k < m THEN q[k] ELSE q[k + 1]
  <1>1. CASE M = {}
    BY <1>1 DEF EraseFirst
  <1>2. CASE M # {}
    <2>1. M \in SUBSET Nat /\ M \subseteq 1 .. Len(q)
      BY LenProperties
    <2>2. Min(M) \in M /\ Min(M) \in 1 .. Len(q)
      BY <1>2, <2>1, MinIsLeast
    <2> DEFINE m == Min(M)
    <2> HIDE DEF m
    <2>3. /\ RemoveAt(q, m) \in Seq(S)
          /\ Len(RemoveAt(q, m)) = Len(q) - 1
          /\ \A k \in 1 .. Len(q) - 1 :
                RemoveAt(q, m)[k] = IF k < m THEN q[k] ELSE q[k + 1]
      BY <2>2, RemoveAtProperties DEF m
    <2>4. EraseFirst(q, M) = RemoveAt(q, m) /\ m \in M
      BY <1>2, <2>2 DEF EraseFirst, m
    <2>5. QED
      BY <1>2, <2>3, <2>4
  <1>3. QED
    BY <1>1, <1>2

\* A prioritised event takes one place; the others keep their order.
LEMMA PriorityInsertProperties ==
    ASSUME NEW S, NEW q \in Seq(S), NEW e \in S
    PROVE  /\ PriorityInsert(q, e) \in Seq(S)
           /\ Len(PriorityInsert(q, e)) = Len(q) + 1
           /\ \E p \in 1 .. Len(q) + 1 : \A k \in 1 .. Len(q) + 1 :
                 PriorityInsert(q, e)[k] = IF k < p THEN q[k]
                                           ELSE IF k = p THEN e ELSE q[k - 1]
  <1> DEFINE lower == {i \in DOMAIN q : e.priority > q[i].priority}
  <1>1. lower \in SUBSET Nat /\ lower \subseteq 1 .. Len(q)
    BY LenProperties
  <1>2. PriorityInsert(q, e) = IF lower = {} THEN Append(q, e)
                               ELSE InsertAt(q, Min(lower), e)
    BY DEF PriorityInsert
  <1> HIDE DEF lower
  <1>3. CASE lower = {}
    <2>1. /\ Append(q, e) \in Seq(S)
          /\ Len(Append(q, e)) = Len(q) + 1
          /\ \A k \in 1 .. Len(q) + 1 :
                Append(q, e)[k] = IF k < Len(q) + 1 THEN q[k] ELSE e
      BY AppendProperties, LenProperties
    <2>2. Len(q) + 1 \in 1 .. Len(q) + 1
      BY LenProperties
    <2>3. \A k \in 1 .. Len(q) + 1 :
             Append(q, e)[k] = IF k < Len(q) + 1 THEN q[k]
                               ELSE IF k = Len(q) + 1 THEN e ELSE q[k - 1]
      BY <2>1, LenProperties
    <2>4. PriorityInsert(q, e) = Append(q, e)
      BY <1>2, <1>3
    <2>5. QED
      BY <2>1, <2>2, <2>3, <2>4
  <1>4. CASE lower # {}
    <2> DEFINE p == Min(lower)
    <2>0. p \in lower
      BY <1>1, <1>4, MinIsLeast
    <2> HIDE DEF p
    <2>1. p \in 1 .. Len(q) /\ p \in 1 .. Len(q) + 1
      BY <2>0, <1>1, LenProperties
    <2>2. /\ InsertAt(q, p, e) \in Seq(S)
          /\ Len(InsertAt(q, p, e)) = Len(q) + 1
          /\ \A k \in 1 .. Len(q) + 1 :
                InsertAt(q, p, e)[k] = IF k < p THEN q[k]
                                       ELSE IF k = p THEN e ELSE q[k - 1]
      BY <2>1, InsertAtProperties
    <2>3. PriorityInsert(q, e) = InsertAt(q, p, e) /\ p \in 1 .. Len(q) + 1
      BY <1>2, <1>4, <2>1 DEF p
    <2>4. QED
      BY <2>2, <2>3
  <1>5. QED
    BY <1>3, <1>4
-----------------------------------------------------------------------------
\* Popping the front leaves the rest in order.
LEMMA TailProperties ==
    ASSUME NEW S, NEW q \in Seq(S), q # <<>>
    PROVE  /\ Len(q) \in Nat \ {0}
           /\ DOMAIN q = 1 .. Len(q)
           /\ Head(q) \in S
           /\ Head(q) = q[1]
           /\ Tail(q) \in Seq(S)
           /\ DOMAIN Tail(q) = 1 .. Len(q) - 1
           /\ \A k \in 1 .. Len(q) - 1 : Tail(q)[k] = q[k + 1]
  <1>1. Len(q) \in Nat \ {0} /\ DOMAIN q = 1 .. Len(q)
    BY EmptySeq, LenProperties
  <1>2. Head(q) \in S /\ Tail(q) \in Seq(S) /\ Head(q) = q[1]
    BY HeadTailProperties
  <1>3. Len(Tail(q)) = Len(q) - 1
    BY HeadTailProperties
  <1>4. DOMAIN Tail(q) = 1 .. Len(Tail(q))
    BY <1>2, LenProperties
  <1>5. \A k \in 1 .. Len(q) - 1 : Tail(q)[k] = q[k + 1]
    BY <1>1, HeadTailProperties
  <1>6. QED
    BY <1>1, <1>2, <1>3, <1>4, <1>5

(***************************************************************************)
(* r is q after a push of e that leaves n events: e is last, the others    *)
(* come from the places "from" of q in their old order, and every event of *)
(* another id is kept.                                                     *)
(***************************************************************************)
Pushed(r, q, e, n, from) ==
    /\ DOMAIN r = 1 .. n
    /\ r[n] = e
    /\ \A k \in 1 .. n - 1 : r[k] = q[from[k]]
    /\ \A j, k \in 1 .. n - 1 : j < k => from[j] < from[k]
    /\ \A j \in DOMAIN q : q[j].id # e.id => \E k \in 1 .. n - 1 : from[k] = j

\* That is what a push on a route queue does.
LEMMA RouteInsertProperties ==
    ASSUME NEW S, NEW q \in Seq(S), NEW e \in S, NEW kind
    PROVE  /\ RouteInsert(kind, q, e) \in Seq(S)
           /\ \E n \in Nat \ {0} : \E from \in [1 .. n - 1 -> DOMAIN q] :
                 Pushed(RouteInsert(kind, q, e), q, e, n, from)
  <1> DEFINE same == {i \in DOMAIN q : q[i].id = e.id}
             r    == RouteInsert(kind, q, e)
             L    == Len(q)
  <1>1. L \in Nat /\ DOMAIN q = 1 .. L
    BY LenProperties
  <1>2. CASE kind # "Coalescing" \/ same = {}
    <2>1. r = Append(q, e)
      BY <1>2 DEF RouteInsert, FifoInsert, CoalescingInsert, EraseFirst
    <2>2. /\ r \in Seq(S)
          /\ Len(r) = L + 1
          /\ \A k \in 1 .. L : r[k] = q[k]
          /\ r[L + 1] = e
      BY <2>1, AppendProperties
    <2>3. DOMAIN r = 1 .. L + 1
      BY <2>2, LenProperties
    <2> DEFINE from == [k \in 1 .. L |-> k]
    <2> HIDE DEF r, same, L
    <2>4. /\ from \in [1 .. L -> DOMAIN q]
          /\ \A k \in 1 .. L : r[k] = q[from[k]]
          /\ \A j, k \in 1 .. L : j < k => from[j] < from[k]
          /\ \A j \in DOMAIN q : q[j].id # e.id => \E k \in 1 .. L : from[k] = j
      BY <1>1, <2>2
    <2> HIDE DEF from
    <2>5. L + 1 \in Nat \ {0} /\ (L + 1) - 1 = L
      BY <1>1
    <2>6. Pushed(r, q, e, L + 1, from)
      BY <2>2, <2>3, <2>4, <2>5 DEF Pushed
    <2>7. QED
      BY <2>2, <2>4, <2>5, <2>6 DEF r
  <1>3. CASE kind = "Coalescing" /\ same # {}
    <2> DEFINE rest == EraseFirst(q, same)
    <2>1. r = Append(rest, e)
      BY <1>3 DEF RouteInsert, CoalescingInsert
    <2>2. same \in SUBSET DOMAIN q
      OBVIOUS
    <2> HIDE DEF rest
    <2>3. rest \in Seq(S) /\ Len(rest) = L - 1
      BY <1>3, <2>2, EraseFirstProperties DEF rest
    <2>4. PICK m \in same : \A k \in 1 .. L - 1 :
                               rest[k] = IF k < m THEN q[k] ELSE q[k + 1]
      BY <1>3, <2>2, EraseFirstProperties DEF rest
    <2>5. m \in 1 .. L /\ q[m].id = e.id
      BY <1>1, <2>4
    <2> HIDE DEF r, same, L
    <2>6. L \in Nat \ {0}
      BY <1>1, <2>5
    <2>7. /\ r \in Seq(S)
          /\ Len(r) = (L - 1) + 1
          /\ \A k \in 1 .. L - 1 : r[k] = rest[k]
          /\ r[(L - 1) + 1] = e
      BY <2>1, <2>3, AppendProperties
    <2>8. (L - 1) + 1 = L
      BY <2>6
    <2>9. DOMAIN r = 1 .. L
      BY <2>7, <2>8, LenProperties
    <2> DEFINE from == [k \in 1 .. L - 1 |-> IF k < m THEN k ELSE k + 1]
    <2>10. from \in [1 .. L - 1 -> DOMAIN q]
      BY <1>1, <2>5, <2>6
    <2>11. \A j, k \in 1 .. L - 1 : j < k => from[j] < from[k]
      BY <2>5, <2>6
    <2>12. \A k \in 1 .. L - 1 : r[k] = q[from[k]]
      BY <2>4, <2>7
    <2>13. ASSUME NEW j \in DOMAIN q, q[j].id # e.id
           PROVE  \E k \in 1 .. L - 1 : from[k] = j
      <3>1. j \in 1 .. L /\ j # m
        BY <1>1, <2>5, <2>13
      <3>2. CASE j < m
        <4>1. j \in 1 .. L - 1 /\ from[j] = j
          BY <3>1, <3>2, <2>5, <2>6
        <4>2. QED
          BY <4>1
      <3>3. CASE m < j
        <4>1. j - 1 \in 1 .. L - 1 /\ ~(j - 1 < m) /\ (j - 1) + 1 = j
          BY <3>1, <3>3, <2>5, <2>6
        <4>2. QED
          BY <4>1
      <3>4. QED
        BY <3>1, <3>2, <3>3, <2>5
    <2> HIDE DEF from
    <2>14. r[L] = e
      BY <2>7, <2>8
    <2>15. Pushed(r, q, e, L, from)
      BY <2>9, <2>11, <2>12, <2>13, <2>14 DEF Pushed
    <2>16. QED
      BY <2>6, <2>7, <2>10, <2>15 DEF r
  <1>4. QED
    BY <1>2, <1>3

\* A push makes a route queue longer by one at most.
LEMMA RouteInsertLength ==
    ASSUME NEW S, NEW q \in Seq(S), NEW e \in S, NEW kind
    PROVE  Len(RouteInsert(kind, q, e)) <= Len(q) + 1
  <1> DEFINE same == {i \in DOMAIN q : q[i].id = e.id}
             rest == EraseFirst(q, same)
  <1>1. Len(Append(q, e)) = Len(q) + 1
    BY AppendProperties
  <1>2. same \in SUBSET DOMAIN q
    OBVIOUS
  <1> HIDE DEF same
  <1>3. rest \in Seq(S) /\ (Len(rest) = Len(q) \/ Len(rest) = Len(q) - 1)
    BY <1>2, EraseFirstProperties
  <1>4. Len(q) \in Nat
    BY LenProperties
  <1> HIDE DEF rest
  <1>5. Len(Append(rest, e)) = Len(rest) + 1
    BY <1>3, AppendProperties
  <1>6. RouteInsert(kind, q, e) = Append(q, e) \/ RouteInsert(kind, q, e) = Append(rest, e)
    BY DEF RouteInsert, FifoInsert, CoalescingInsert, rest, same
  <1>7. QED
    BY <1>1, <1>3, <1>4, <1>5, <1>6

\* After a push the ids queued are the old ones and the new one.
LEMMA RouteInsertIds ==
    ASSUME NEW S, NEW q \in Seq(S), NEW e \in S, NEW kind, NEW d
    PROVE  HoldsId(RouteInsert(kind, q, e), d) <=> d = e.id \/ HoldsId(q, d)
  <1> DEFINE r == RouteInsert(kind, q, e)
  <1>1. PICK n \in Nat \ {0} : \E from \in [1 .. n - 1 -> DOMAIN q] :
           Pushed(r, q, e, n, from)
    BY RouteInsertProperties
  <1>2. PICK from \in [1 .. n - 1 -> DOMAIN q] : Pushed(r, q, e, n, from)
    BY <1>1
  <1>3. /\ DOMAIN r = 1 .. n
        /\ r[n] = e
        /\ \A i \in 1 .. n - 1 : r[i] = q[from[i]]
        /\ \A i, j \in 1 .. n - 1 : i < j => from[i] < from[j]
        /\ \A j \in DOMAIN q : q[j].id # e.id => \E i \in 1 .. n - 1 : from[i] = j
    BY <1>2 DEF Pushed
  <1> HIDE DEF r
  <1>4. ASSUME NEW k \in DOMAIN r, r[k].id = d
        PROVE  d = e.id \/ \E j \in DOMAIN q : q[j].id = d
    <2>1. k = n \/ k \in 1 .. n - 1
      BY <1>3
    <2>2. k \in 1 .. n - 1 => r[k] = q[from[k]] /\ from[k] \in DOMAIN q
      BY <1>3
    <2>3. QED
      BY <1>3, <1>4, <2>1, <2>2
  <1>5. ASSUME NEW j \in DOMAIN q, q[j].id = d, d # e.id
        PROVE  \E k \in DOMAIN r : r[k].id = d
    <2>1. PICK k \in 1 .. n - 1 : from[k] = j
      BY <1>3, <1>5
    <2>2. k \in 1 .. n
      BY <2>1
    <2>3. QED
      BY <2>1, <2>2, <1>3, <1>5
  <1>6. n \in 1 .. n
    OBVIOUS
  <1>7. QED
    BY <1>3, <1>4, <1>5, <1>6 DEF r, HoldsId

\* The last event of an id is the one pushed, or the one that was last.
LEMMA RouteInsertLast ==
    ASSUME NEW S, NEW q \in Seq(S), NEW e \in S, NEW kind, NEW d, NEW k,
           IsLastOf(RouteInsert(kind, q, e), d, k)
    PROVE  IF d = e.id THEN RouteInsert(kind, q, e)[k] = e
           ELSE \E j : IsLastOf(q, d, j) /\ RouteInsert(kind, q, e)[k] = q[j]
  <1> DEFINE r == RouteInsert(kind, q, e)
  <1>1. PICK n \in Nat \ {0} : \E from \in [1 .. n - 1 -> DOMAIN q] :
           Pushed(r, q, e, n, from)
    BY RouteInsertProperties
  <1>2. PICK from \in [1 .. n - 1 -> DOMAIN q] : Pushed(r, q, e, n, from)
    BY <1>1
  <1>3. /\ DOMAIN r = 1 .. n
        /\ r[n] = e
        /\ \A i \in 1 .. n - 1 : r[i] = q[from[i]]
        /\ \A i, j \in 1 .. n - 1 : i < j => from[i] < from[j]
        /\ \A j \in DOMAIN q : q[j].id # e.id => \E i \in 1 .. n - 1 : from[i] = j
    BY <1>2 DEF Pushed
  <1>4. k \in 1 .. n /\ r[k].id = d /\ \A j \in 1 .. n : j > k => r[j].id # d
    BY <1>3 DEF IsLastOf
  <1> HIDE DEF r
  <1>5. n \in 1 .. n /\ \A i \in 1 .. n - 1 : i \in 1 .. n /\ n > i
    OBVIOUS
  <1>6. CASE d = e.id
    <2>1. k = n
      BY <1>3, <1>4, <1>5, <1>6
    <2>2. QED
      BY <2>1, <1>3, <1>6 DEF r
  <1>7. CASE d # e.id
    <2>1. k \in 1 .. n - 1
      BY <1>3, <1>4, <1>7
    <2>2. from[k] \in DOMAIN q /\ r[k] = q[from[k]] /\ q[from[k]].id = d
      BY <2>1, <1>3, <1>4
    <2>3. ASSUME NEW j \in DOMAIN q, j > from[k] PROVE q[j].id # d
      <3>1. SUFFICES ASSUME q[j].id = d PROVE FALSE
        OBVIOUS
      <3>2. PICK i \in 1 .. n - 1 : from[i] = j
        BY <3>1, <1>3, <1>7
      <3>3. ~(i > k)
        BY <3>1, <3>2, <1>3, <1>4, <1>5
      <3>4. i = k \/ i < k
        BY <3>3, <2>1
      <3>5. ~(j > from[k])
        <4>1. j \in 1 .. Len(q) /\ from[k] \in 1 .. Len(q)
          BY <2>2, LenProperties
        <4>2. CASE i = k
          BY <4>1, <4>2, <3>2
        <4>3. CASE i < k
          <5>1. from[i] < from[k]
            BY <4>3, <2>1, <3>2, <1>3
          <5>2. QED
            BY <5>1, <4>1, <3>2
        <4>4. QED
          BY <3>4, <4>2, <4>3
      <3>6. QED
        BY <2>3, <3>5
    <2>4. IsLastOf(q, d, from[k])
      BY <2>2, <2>3 DEF IsLastOf
    <2>5. QED
      BY <2>2, <2>4, <1>7 DEF r
  <1>8. QED
    BY <1>6, <1>7

\* Popping the front loses the ids of no other event.
LEMMA TailIds ==
    ASSUME NEW S, NEW q \in Seq(S), q # <<>>, NEW d
    PROVE  HoldsId(q, d) <=> d = Head(q).id \/ HoldsId(Tail(q), d)
  <1>1. /\ Len(q) \in Nat \ {0}
        /\ DOMAIN q = 1 .. Len(q)
        /\ Head(q) = q[1]
        /\ DOMAIN Tail(q) = 1 .. Len(q) - 1
        /\ \A k \in 1 .. Len(q) - 1 : Tail(q)[k] = q[k + 1]
    BY TailProperties
  <1>2. ASSUME NEW k \in 1 .. Len(q), k # 1
        PROVE  k - 1 \in 1 .. Len(q) - 1 /\ (k - 1) + 1 = k
    BY <1>1, <1>2
  <1>3. \A k \in 1 .. Len(q) - 1 : k + 1 \in 1 .. Len(q)
    BY <1>1
  <1>4. 1 \in 1 .. Len(q)
    BY <1>1
  <1>5. ASSUME NEW k \in DOMAIN q, q[k].id = d, Head(q).id # d
        PROVE  \E j \in DOMAIN Tail(q) : Tail(q)[j].id = d
    <2>1. k - 1 \in DOMAIN Tail(q) /\ Tail(q)[k - 1] = q[k]
      BY <1>1, <1>2, <1>5
    <2>2. QED
      BY <2>1, <1>5
  <1>6. QED
    BY <1>1, <1>3, <1>4, <1>5 DEF HoldsId

\* The last event of an id stays last while it is queued.
LEMMA TailLast ==
    ASSUME NEW S, NEW q \in Seq(S), q # <<>>, NEW d, NEW k,
           IsLastOf(Tail(q), d, k)
    PROVE  IsLastOf(q, d, k + 1) /\ Tail(q)[k] = q[k + 1]
  <1>1. /\ Len(q) \in Nat \ {0}
        /\ DOMAIN q = 1 .. Len(q)
        /\ DOMAIN Tail(q) = 1 .. Len(q) - 1
        /\ \A j \in 1 .. Len(q) - 1 : Tail(q)[j] = q[j + 1]
    BY TailProperties
  <1>2. /\ k \in 1 .. Len(q) - 1
        /\ Tail(q)[k].id = d
        /\ \A j \in 1 .. Len(q) - 1 : j > k => Tail(q)[j].id # d
    BY <1>1 DEF IsLastOf
  <1>3. k + 1 \in DOMAIN q
    BY <1>1, <1>2
  <1>4. ASSUME NEW j \in DOMAIN q, j > k + 1 PROVE q[j].id # d
    <2>1. j - 1 \in 1 .. Len(q) - 1 /\ j - 1 > k /\ (j - 1) + 1 = j
      BY <1>1, <1>2, <1>4
    <2>2. Tail(q)[j - 1] = q[j]
      BY <2>1, <1>1
    <2>3. QED
      BY <2>1, <2>2, <1>2
  <1>5. q[k + 1].id = d /\ Tail(q)[k] = q[k + 1]
    BY <1>1, <1>2
  <1>6. QED
    BY <1>3, <1>4, <1>5 DEF IsLastOf

\* The front is the last event of its id when no other is queued behind it.
LEMMA HeadLast ==
    ASSUME NEW S, NEW q \in Seq(S), q # <<>>,
           ~ HoldsId(Tail(q), Head(q).id)
    PROVE  IsLastOf(q, Head(q).id, 1)
  <1>1. /\ Len(q) \in Nat \ {0}
        /\ DOMAIN q = 1 .. Len(q)
        /\ Head(q) = q[1]
        /\ DOMAIN Tail(q) = 1 .. Len(q) - 1
        /\ \A k \in 1 .. Len(q) - 1 : Tail(q)[k] = q[k + 1]
    BY TailProperties
  <1>2. ASSUME NEW j \in DOMAIN q, j > 1 PROVE q[j].id # Head(q).id
    <2>1. j - 1 \in DOMAIN Tail(q) /\ (j - 1) + 1 = j
      BY <1>1, <1>2
    <2>2. Tail(q)[j - 1] = q[j]
      BY <2>1, <1>1
    <2>3. QED
      BY <2>1, <2>2 DEF HoldsId
  <1>3. 1 \in DOMAIN q
    BY <1>1
  <1>4. QED
    BY <1>1, <1>2, <1>3 DEF IsLastOf
-----------------------------------------------------------------------------
\* The targets queued after a prioritised insertion.
LEMMA PriorityInsertTargets ==
    ASSUME NEW S, NEW q \in Seq(S), NEW e \in S, NEW t
    PROVE  HoldsTarget(PriorityInsert(q, e), t) <=> t = e.target \/ HoldsTarget(q, t)
  <1> DEFINE r == PriorityInsert(q, e)
             L == Len(q)
  <1>1. L \in Nat /\ DOMAIN q = 1 .. L
    BY LenProperties
  <1>2. r \in Seq(S) /\ Len(r) = L + 1
    BY PriorityInsertProperties
  <1>3. DOMAIN r = 1 .. L + 1
    BY <1>2, LenProperties
  <1>4. PICK p \in 1 .. L + 1 :
           \A k \in 1 .. L + 1 : r[k] = IF k < p THEN q[k]
                                        ELSE IF k = p THEN e ELSE q[k - 1]
    BY PriorityInsertProperties
  <1> HIDE DEF r, L
  <1>5. ASSUME NEW k \in DOMAIN r, r[k].target = t
        PROVE  t = e.target \/ \E j \in DOMAIN q : q[j].target = t
    <2>1. k \in 1 .. L + 1
      BY <1>3
    <2>2. CASE k < p
      <3>1. k \in DOMAIN q /\ r[k] = q[k]
        BY <2>1, <2>2, <1>1, <1>4
      <3>2. QED
        BY <3>1, <1>5
    <2>3. CASE k = p
      BY <2>1, <2>3, <1>4, <1>5
    <2>4. CASE p < k
      <3>1. k - 1 \in DOMAIN q
        BY <2>1, <2>4, <1>1
      <3>2. r[k] = q[k - 1]
        BY <2>1, <2>4, <1>4
      <3>3. QED
        BY <3>1, <3>2, <1>5
    <2>5. QED
      BY <2>1, <2>2, <2>3, <2>4
  <1>6. ASSUME NEW j \in DOMAIN q, q[j].target = t
        PROVE  \E k \in DOMAIN r : r[k].target = t
    <2>1. CASE j < p
      <3>1. j \in DOMAIN r /\ r[j] = q[j]
        BY <2>1, <1>1, <1>3, <1>4
      <3>2. QED
        BY <3>1, <1>6
    <2>2. CASE p <= j
      <3>1. j + 1 \in 1 .. L + 1 /\ ~(j + 1 < p) /\ j + 1 # p /\ (j + 1) - 1 = j
        BY <2>2, <1>1
      <3>2. r[j + 1] = q[j]
        BY <3>1, <1>4
      <3>3. QED
        BY <3>1, <3>2, <1>3, <1>6
    <2>3. QED
      BY <2>1, <2>2, <1>1
  <1>7. t = e.target => \E k \in DOMAIN r : r[k].target = t
    BY <1>3, <1>4
  <1>8. QED
    BY <1>5, <1>6, <1>7 DEF r, HoldsTarget

\* Erasing an event of the same target keeps the events of the others.
LEMMA EraseSameTarget ==
    ASSUME NEW S, NEW q \in Seq(S), NEW e, NEW t, t # e.target
    PROVE  /\ EraseFirst(q, SameTarget(q, e)) \in Seq(S)
           /\ HoldsTarget(EraseFirst(q, SameTarget(q, e)), t) <=> HoldsTarget(q, t)
  <1> DEFINE M == SameTarget(q, e)
             r == EraseFirst(q, M)
             L == Len(q)
  <1>1. M \in SUBSET DOMAIN q /\ \A k \in M : q[k].target = e.target
    BY DEF SameTarget
  <1>2. L \in Nat /\ DOMAIN q = 1 .. L
    BY LenProperties
  <1> HIDE DEF M
  <1>3. r \in Seq(S)
    BY <1>1, EraseFirstProperties
  <1>4. CASE M = {}
    <2>1. r = q
      BY <1>1, <1>4, EraseFirstProperties
    <2>2. QED
      BY <1>3, <2>1 DEF M
  <1>5. CASE M # {}
    <2>1. Len(r) = L - 1
      BY <1>1, <1>5, EraseFirstProperties
    <2>2. PICK m \in M : \A k \in 1 .. L - 1 : r[k] = IF k < m THEN q[k] ELSE q[k + 1]
      BY <1>1, <1>5, EraseFirstProperties
    <2>3. DOMAIN r = 1 .. L - 1
      BY <2>1, <1>3, LenProperties
    <2>4. m \in 1 .. L /\ q[m].target # t
      BY <1>1, <1>2
    <2> HIDE DEF r, L
    <2>5. ASSUME NEW k \in DOMAIN r, r[k].target = t
          PROVE  \E j \in DOMAIN q : q[j].target = t
      <3>1. k \in 1 .. L - 1 /\ k \in DOMAIN q /\ k + 1 \in DOMAIN q
        BY <2>3, <1>2
      <3>2. r[k] = q[k] \/ r[k] = q[k + 1]
        BY <3>1, <2>2
      <3>3. QED
        BY <3>1, <3>2, <2>5
    <2>6. ASSUME NEW j \in DOMAIN q, q[j].target = t
          PROVE  \E k \in DOMAIN r : r[k].target = t
      <3>1. j # m
        BY <2>4, <2>6
      <3>2. CASE j < m
        <4>1. j \in 1 .. L - 1
          BY <3>2, <1>2, <2>4
        <4>2. r[j] = q[j]
          BY <4>1, <3>2, <2>2
        <4>3. QED
          BY <4>1, <4>2, <2>3, <2>6
      <3>3. CASE m < j
        <4>1. j - 1 \in 1 .. L - 1 /\ ~(j - 1 < m) /\ (j - 1) + 1 = j
          BY <3>3, <1>2, <2>4
        <4>2. r[j - 1] = q[j]
          BY <4>1, <2>2
        <4>3. QED
          BY <4>1, <4>2, <2>3, <2>6
      <3>4. QED
        BY <3>1, <3>2, <3>3, <1>2, <2>4
    <2>7. QED
      BY <1>3, <2>5, <2>6 DEF r, M, HoldsTarget
  <1>6. QED
    BY <1>4, <1>5

(***************************************************************************)
(* Compression never loses a target: after a push the targets queued are   *)
(* the old ones and the new one, whatever the policy.                      *)
(***************************************************************************)
LEMMA CompressionKeepsTargets ==
    ASSUME NEW S, NEW q \in Seq(S), NEW e \in S, NEW t
    PROVE  HoldsTarget(PriorityCompressionInsert(q, e), t)
              <=> t = e.target \/ HoldsTarget(q, t)
  <1> DEFINE rest == EraseFirst(q, SameTarget(q, e))
  <1>1. rest \in Seq(S)
    <2>1. SameTarget(q, e) \in SUBSET DOMAIN q
      BY DEF SameTarget
    <2>2. QED
      BY <2>1, EraseFirstProperties
  <1>2. HoldsTarget(PriorityInsert(q, e), t) <=> t = e.target \/ HoldsTarget(q, t)
    BY PriorityInsertTargets
  <1>3. t # e.target => (HoldsTarget(rest, t) <=> HoldsTarget(q, t))
    BY EraseSameTarget
  <1> HIDE DEF rest
  <1>4. HoldsTarget(PriorityInsert(rest, e), t) <=> t = e.target \/ HoldsTarget(rest, t)
    BY <1>1, PriorityInsertTargets
  <1>5. SameTarget(q, e) # {} => HoldsTarget(q, e.target)
    BY DEF SameTarget, HoldsTarget
  <1>6. QED
    BY <1>2, <1>3, <1>4, <1>5 DEF PriorityCompressionInsert, rest

\* The publisher's queue stays a queue of its events.
LEMMA CompressionInsertType ==
    ASSUME NEW S, NEW q \in Seq(S), NEW e \in S
    PROVE  PriorityCompressionInsert(q, e) \in Seq(S)
  <1>1. SameTarget(q, e) \in SUBSET DOMAIN q
    BY DEF SameTarget
  <1>2. EraseFirst(q, SameTarget(q, e)) \in Seq(S)
    BY <1>1, EraseFirstProperties
  <1>3. /\ PriorityInsert(q, e) \in Seq(S)
        /\ PriorityInsert(EraseFirst(q, SameTarget(q, e)), e) \in Seq(S)
    BY <1>2, PriorityInsertProperties
  <1>4. QED
    BY <1>3 DEF PriorityCompressionInsert

\* Popping a notification takes one target off the queue.
LEMMA TailTargets ==
    ASSUME NEW S, NEW q \in Seq(S), q # <<>>, NEW t
    PROVE  HoldsTarget(q, t) <=> t = Head(q).target \/ HoldsTarget(Tail(q), t)
  <1>1. /\ Len(q) \in Nat \ {0}
        /\ DOMAIN q = 1 .. Len(q)
        /\ Head(q) = q[1]
        /\ DOMAIN Tail(q) = 1 .. Len(q) - 1
        /\ \A k \in 1 .. Len(q) - 1 : Tail(q)[k] = q[k + 1]
    BY TailProperties
  <1>2. ASSUME NEW k \in 1 .. Len(q), k # 1
        PROVE  k - 1 \in 1 .. Len(q) - 1 /\ (k - 1) + 1 = k
    BY <1>1, <1>2
  <1>3. \A k \in 1 .. Len(q) - 1 : k + 1 \in 1 .. Len(q)
    BY <1>1
  <1>4. ASSUME HoldsTarget(q, t)
        PROVE  t = Head(q).target \/ HoldsTarget(Tail(q), t)
    <2>1. PICK k \in 1 .. Len(q) : q[k].target = t
      BY <1>1, <1>4 DEF HoldsTarget
    <2>2. CASE k = 1
      BY <1>1, <2>1, <2>2
    <2>3. CASE k # 1
      <3>1. k - 1 \in DOMAIN Tail(q) /\ Tail(q)[k - 1] = q[k]
        BY <1>1, <1>2, <2>3
      <3>2. QED
        BY <2>1, <3>1 DEF HoldsTarget
    <2>4. QED
      BY <2>2, <2>3
  <1>5. 1 \in DOMAIN q
    BY <1>1
  <1>6. HoldsTarget(Tail(q), t) => HoldsTarget(q, t)
    BY <1>1, <1>3 DEF HoldsTarget
  <1>7. QED
    BY <1>1, <1>4, <1>5, <1>6 DEF HoldsTarget

\* Appending a notification adds its subscriber to those the queue is for.
LEMMA FifoIds ==
    ASSUME NEW S, NEW q \in Seq(S), NEW e \in S, NEW d
    PROVE  HoldsId(FifoInsert(q, e), d) <=> d = e.id \/ HoldsId(q, d)
  <1>1. FifoInsert(q, e) = RouteInsert("Buffered", q, e)
    BY DEF RouteInsert
  <1>2. HoldsId(RouteInsert("Buffered", q, e), d) <=> d = e.id \/ HoldsId(q, d)
    BY RouteInsertIds
  <1>3. QED
    BY <1>1, <1>2
-----------------------------------------------------------------------------
\* A list made of a finite set has each of its elements once.
LEMMA SetToSeqsLists ==
    ASSUME NEW S, IsFiniteSet(S), NEW f \in SetToSeqs(S)
    PROVE  /\ f \in Seq(S)
           /\ \A i, j \in DOMAIN f : i # j => f[i] # f[j]
           /\ ToSet(f) = S
  <1> DEFINE n == Cardinality(S)
  <1>1. n \in Nat
    BY FS_CardinalityType
  <1>2. f \in [1 .. n -> S] /\ \A i, j \in 1 .. n : i # j => f[i] # f[j]
    BY DEF SetToSeqs
  <1>3. f \in Seq(S) /\ DOMAIN f = 1 .. n
    BY <1>1, <1>2, IsASeq, LenProperties
  <1>4. f \in Surjection(1 .. n, S)
    <2>1. f \in Injection(1 .. n, S)
      BY <1>2 DEF Injection, IsInjective
    <2>2. IsFiniteSet(1 .. n) /\ Cardinality(1 .. n) = n
      BY <1>1, FS_Interval
    <2>3. QED
      BY <2>1, <2>2, FS_Injection
  <1>5. QED
    BY <1>2, <1>3, <1>4 DEF ToSet, Surjection
-----------------------------------------------------------------------------
(***************************************************************************)
(* An event queued with an id of D is one of G, or an event behind it is.  *)
(***************************************************************************)
LastIn(q, D, G) ==
    \A k \in DOMAIN q :
        q[k].id \in D =>
            \E j \in DOMAIN q : j >= k /\ q[j].id \in D /\ q[j] \in G

\* A pushed event is the last; one of another id erases no event of D and reorders none.
LEMMA RouteInsertLastIn ==
    ASSUME NEW S, NEW q \in Seq(S), NEW e \in S, NEW kind, NEW D, NEW G,
           IF e.id \in D THEN e \in G ELSE LastIn(q, D, G)
    PROVE  LastIn(RouteInsert(kind, q, e), D, G)
  <1> DEFINE r == RouteInsert(kind, q, e)
  <1>1. PICK n \in Nat \ {0} : \E from \in [1 .. n - 1 -> DOMAIN q] :
           Pushed(r, q, e, n, from)
    BY RouteInsertProperties
  <1>2. PICK from \in [1 .. n - 1 -> DOMAIN q] : Pushed(r, q, e, n, from)
    BY <1>1
  <1>3. /\ DOMAIN r = 1 .. n
        /\ r[n] = e
        /\ \A i \in 1 .. n - 1 : r[i] = q[from[i]]
        /\ \A i, j \in 1 .. n - 1 : i < j => from[i] < from[j]
        /\ \A j \in DOMAIN q : q[j].id # e.id => \E i \in 1 .. n - 1 : from[i] = j
    BY <1>2 DEF Pushed
  <1> HIDE DEF r
  <1>4. ASSUME NEW k \in DOMAIN r, r[k].id \in D
        PROVE  \E j \in DOMAIN r : j >= k /\ r[j].id \in D /\ r[j] \in G
    <2>1. CASE e.id \in D
      <3>1. n \in DOMAIN r /\ n >= k
        BY <1>3, <1>4
      <3>2. QED
        BY <2>1, <3>1, <1>3
    <2>2. CASE e.id \notin D
      <3>1. k \in 1 .. n - 1 /\ r[k] = q[from[k]] /\ from[k] \in DOMAIN q
        BY <1>3, <1>4, <2>2
      <3>2. PICK j \in DOMAIN q : j >= from[k] /\ q[j].id \in D /\ q[j] \in G
        BY <1>4, <2>2, <3>1 DEF LastIn
      <3>3. PICK i \in 1 .. n - 1 : from[i] = j
        BY <1>3, <2>2, <3>2
      <3>4. i >= k
        <4>1. SUFFICES ASSUME i < k PROVE FALSE
          BY <3>1, <3>3
        <4>2. from[i] < from[k]
          BY <4>1, <3>1, <3>3, <1>3
        <4>3. j \in 1 .. Len(q) /\ from[k] \in 1 .. Len(q)
          BY <3>1, <3>2, LenProperties
        <4>4. QED
          BY <3>2, <3>3, <4>2, <4>3
      <3>5. i \in DOMAIN r /\ r[i] = q[j]
        BY <1>3, <3>3
      <3>6. QED
        BY <3>2, <3>4, <3>5
    <2>3. QED
      BY <2>1, <2>2
  <1>5. QED
    BY <1>4 DEF LastIn, r

\* Popping the front takes no event from behind another.
LEMMA TailLastIn ==
    ASSUME NEW S, NEW q \in Seq(S), q # <<>>, NEW D, NEW G, LastIn(q, D, G)
    PROVE  /\ LastIn(Tail(q), D, G)
           /\ Head(q).id \in D =>
                 Head(q) \in G \/ \E d \in D : HoldsId(Tail(q), d)
  <1>1. /\ Len(q) \in Nat \ {0}
        /\ DOMAIN q = 1 .. Len(q)
        /\ Head(q) = q[1]
        /\ DOMAIN Tail(q) = 1 .. Len(q) - 1
        /\ \A k \in 1 .. Len(q) - 1 : Tail(q)[k] = q[k + 1]
    BY TailProperties
  <1>2. ASSUME NEW k \in 1 .. Len(q), k # 1
        PROVE  k - 1 \in DOMAIN Tail(q) /\ Tail(q)[k - 1] = q[k]
    <2>1. k - 1 \in 1 .. Len(q) - 1 /\ (k - 1) + 1 = k
      BY <1>1, <1>2
    <2>2. QED
      BY <1>1, <2>1
  <1>3. ASSUME NEW k \in DOMAIN Tail(q), Tail(q)[k].id \in D
        PROVE  \E j \in DOMAIN Tail(q) :
                  j >= k /\ Tail(q)[j].id \in D /\ Tail(q)[j] \in G
    <2>1. k \in Nat /\ k + 1 \in DOMAIN q /\ q[k + 1].id \in D
      BY <1>1, <1>3
    <2>2. PICK j \in DOMAIN q : j >= k + 1 /\ q[j].id \in D /\ q[j] \in G
      BY <2>1 DEF LastIn
    <2>3. j \in 1 .. Len(q) /\ j # 1 /\ j - 1 >= k
      BY <1>1, <1>3, <2>1, <2>2
    <2>4. QED
      BY <1>2, <2>2, <2>3
  <1>4. ASSUME Head(q).id \in D, Head(q) \notin G
        PROVE  \E d \in D : HoldsId(Tail(q), d)
    <2>1. 1 \in DOMAIN q
      BY <1>1
    <2>2. PICK j \in DOMAIN q : q[j].id \in D /\ q[j] \in G
      BY <1>1, <1>4, <2>1 DEF LastIn
    <2>3. j \in 1 .. Len(q) /\ j # 1
      BY <1>1, <1>4, <2>2
    <2>4. QED
      BY <1>2, <2>2, <2>3 DEF HoldsId
  <1>5. QED
    BY <1>3, <1>4 DEF LastIn
-----------------------------------------------------------------------------
(***************************************************************************)
(* RouteInsert makes the value of the new event the last one of its id,    *)
(* and leaves the last value of every other id.                            *)
(***************************************************************************)
LEMMA InsertLastIs ==
    ASSUME NEW S, NEW q \in Seq(S), NEW e \in S, NEW kind, NEW d, NEW v,
           IF d = e.id THEN e.value = v ELSE LastIs(q, d, v)
    PROVE  LastIs(RouteInsert(kind, q, e), d, v)
  <1> DEFINE r == RouteInsert(kind, q, e)
  <1> HIDE DEF r
  <1>1. ASSUME NEW k \in DOMAIN r, IsLastOf(r, d, k) PROVE r[k].value = v
    <2>1. IF d = e.id THEN r[k] = e ELSE \E j : IsLastOf(q, d, j) /\ r[k] = q[j]
      BY <1>1, RouteInsertLast DEF r
    <2>2. QED
      BY <2>1 DEF LastIs, IsLastOf
  <1>2. QED
    BY <1>1 DEF LastIs, r

\* Popping leaves the last event of an item last, or takes it in hand.
LEMMA PopLastIs ==
    ASSUME NEW S, NEW q \in Seq(S), q # <<>>, NEW d, NEW v, LastIs(q, d, v)
    PROVE  /\ LastIs(Tail(q), d, v)
           /\ ~HoldsId(Tail(q), d) /\ Head(q).id = d => Head(q).value = v
  <1>1. ASSUME NEW k \in DOMAIN Tail(q), IsLastOf(Tail(q), d, k)
        PROVE  Tail(q)[k].value = v
    <2>1. IsLastOf(q, d, k + 1) /\ Tail(q)[k] = q[k + 1]
      BY <1>1, TailLast
    <2>2. QED
      BY <2>1 DEF LastIs, IsLastOf
  <1>2. ASSUME ~HoldsId(Tail(q), d), Head(q).id = d PROVE Head(q).value = v
    <2>1. IsLastOf(q, d, 1) /\ q[1] = Head(q)
      BY <1>2, HeadLast, TailProperties
    <2>2. QED
      BY <2>1 DEF LastIs, IsLastOf
  <1>3. QED
    BY <1>1, <1>2 DEF LastIs
=============================================================================
