-------------------------- MODULE CacheOrderProofs --------------------------
(***************************************************************************)
(* The LRU index is the queue it replaced, and holds the pages of the      *)
(* cache, for every number of pages and every limit.  First what each      *)
(* operation of the index does to the queue: unlinking a node is taking    *)
(* its id out, linking it at an end is putting it there.  Then the steps   *)
(* of the cache, each of which keeps the invariant OrderInv.  Last, how    *)
(* far above its limit the cache can be.                                   *)
(***************************************************************************)
EXTENDS CacheOrder, TLAPS

-----------------------------------------------------------------------------
(* The operations of the index.                                            *)

Injective(q) == \A i, j \in 1..Len(q) : q[i] = q[j] => i = j
Items(q) == {q[k] : k \in 1..Len(q)}

\* Where an id stands in a queue without repetitions.
LEMMA IndexOfIs ==
    ASSUME NEW S, NEW q \in Seq(S), Injective(q), NEW k \in 1..Len(q)
    PROVE  IndexOf(q, q[k]) = k /\ Queued(q, q[k])
BY DEF IndexOf, Queued, Injective

\* What is left of a queue when its k-th id is taken out.
LEMMA WithoutIs ==
    ASSUME NEW S, NEW q \in Seq(S), Injective(q), NEW k \in 1..Len(q)
    PROVE  LET w == Without(q, q[k]) IN
           /\ w \in Seq(S) /\ Len(w) = Len(q) - 1
           /\ \A i \in 1..Len(w) : w[i] = IF i < k THEN q[i] ELSE q[i + 1]
           /\ Injective(w)
           /\ \A i \in 1..Len(w) : w[i] # q[k]
<1> DEFINE w == [i \in 1..(Len(q) - 1) |-> IF i < k THEN q[i] ELSE q[i + 1]]
<1>1. Without(q, q[k]) = w
  BY SMTT(30), IndexOfIs DEF Without
<1>2. Len(q) \in Nat /\ Len(q) - 1 \in Nat /\ k \in Nat
  OBVIOUS
<1>3. \A i \in 1..(Len(q) - 1) : w[i] \in S
  BY <1>2
<1>4. w \in Seq(S) /\ Len(w) = Len(q) - 1
  BY <1>2, <1>3
<1>5. Injective(w)
  <2> SUFFICES ASSUME NEW i \in 1..(Len(q) - 1), NEW j \in 1..(Len(q) - 1),
                      w[i] = w[j]
               PROVE  i = j
    BY <1>4 DEF Injective
  <2>1. CASE i < k /\ j < k
    BY <2>1, <1>2 DEF Injective
  <2>2. CASE ~(i < k) /\ ~(j < k)
    <3>1. q[i + 1] = q[j + 1] /\ i + 1 \in 1..Len(q) /\ j + 1 \in 1..Len(q)
      BY <2>2, <1>2
    <3> QED BY <3>1, <1>2 DEF Injective
  <2>3. CASE i < k /\ ~(j < k)
    <3>1. q[i] = q[j + 1] /\ i \in 1..Len(q) /\ j + 1 \in 1..Len(q)
      BY <2>3, <1>2
    <3> QED BY <3>1, <2>3, <1>2 DEF Injective
  <2>4. CASE ~(i < k) /\ j < k
    <3>1. q[i + 1] = q[j] /\ i + 1 \in 1..Len(q) /\ j \in 1..Len(q)
      BY <2>4, <1>2
    <3> QED BY <3>1, <2>4, <1>2 DEF Injective
  <2> QED BY <2>1, <2>2, <2>3, <2>4
<1>6. \A i \in 1..(Len(q) - 1) : w[i] # q[k]
  <2> SUFFICES ASSUME NEW i \in 1..(Len(q) - 1)
               PROVE  w[i] # q[k]
    BY ZenonT(30)
  <2>1. CASE i < k
    BY <2>1, <1>2 DEF Injective
  <2>2. CASE ~(i < k)
    <3>1. w[i] = q[i + 1] /\ i + 1 \in 1..Len(q) /\ i + 1 # k
      BY <2>2, <1>2
    <3> QED BY <3>1 DEF Injective
  <2> QED BY <2>1, <2>2
<1> QED BY <1>1, <1>2, <1>4, <1>5, <1>6

\* unlink patches the neighbours and the ends as taking the id out of the queue
\* does, and keeps the node in the map.
LEMMA UnlinkLinked ==
    ASSUME NEW S, Nil \notin S, NEW q \in Seq(S), NEW l, Linked(l, q),
           NEW k \in 1..Len(q)
    PROVE  /\ Linked(unlink(l, q[k]), Without(q, q[k]))
           /\ DOMAIN unlink(l, q[k]).nodes = DOMAIN l.nodes
<1> DEFINE w == Without(q, q[k])
           n == Len(q)
           u == unlink(l, q[k])
<1>1. Injective(q) /\ n \in Nat /\ k \in Nat /\ \A i \in 1..n : q[i] \in S /\ q[i] # Nil
  BY DEF Linked, Injective
<1>2. /\ w \in Seq(S) /\ Len(w) = n - 1 /\ Injective(w)
      /\ \A i \in 1..(n - 1) : w[i] = IF i < k THEN q[i] ELSE q[i + 1]
  BY <1>1, WithoutIs
<1>3. \A i \in 1..n : /\ q[i] \in DOMAIN l.nodes
                      /\ l.nodes[q[i]].prev = IF i = 1 THEN Nil ELSE q[i - 1]
                      /\ l.nodes[q[i]].next = IF i = n THEN Nil ELSE q[i + 1]
  <2> SUFFICES ASSUME NEW i \in 1..n
               PROVE  /\ q[i] \in DOMAIN l.nodes
                      /\ l.nodes[q[i]].prev = IF i = 1 THEN Nil ELSE q[i - 1]
                      /\ l.nodes[q[i]].next = IF i = n THEN Nil ELSE q[i + 1]
    BY SMTT(30)
  <2>1. q[i] \in DOMAIN l.nodes /\ l.nodes[q[i]] = NodeOf(q, i)
    BY DEF Linked, contains
  <2>2. NodeOf(q, i) = [prev |-> IF i = 1 THEN Nil ELSE q[i - 1],
                        next |-> IF i = n THEN Nil ELSE q[i + 1]]
    BY DEF NodeOf, Node
  <2> QED BY <2>1, <2>2
<1> DEFINE before == IF k = 1 THEN Nil ELSE q[k - 1]
           after == IF k = n THEN Nil ELSE q[k + 1]
<1>4. l.nodes[q[k]].prev = before /\ l.nodes[q[k]].next = after
  BY <1>3
<1>5. /\ u.head = IF before = Nil THEN after ELSE l.head
      /\ u.tail = IF after = Nil THEN before ELSE l.tail
      /\ DOMAIN u.nodes = DOMAIN l.nodes
      /\ \A i \in DOMAIN l.nodes :
            u.nodes[i] = Node(IF i = after THEN before ELSE l.nodes[i].prev,
                              IF i = before THEN after ELSE l.nodes[i].next)
  BY <1>4 DEF unlink
<1>6. before = Nil <=> k = 1
  BY <1>1
<1>7. after = Nil <=> k = n
  BY <1>1
<1>8. l.head = q[1] /\ l.tail = q[n]
  BY <1>1 DEF Linked
<1> HIDE DEF u
<1>9. u.head = IF n - 1 = 0 THEN Nil ELSE w[1]
  <2>1. CASE k = 1
    <3>1. u.head = IF n = 1 THEN Nil ELSE q[2]
      BY <2>1, <1>5, <1>6
    <3>2. ASSUME n # 1 PROVE w[1] = q[2]
      <4>1. 1 \in 1..(n - 1) /\ ~(1 < k)
        <5>1. n \in Nat /\ n >= 1 /\ n # 1
          BY <3>2
        <5> HIDE DEF n
        <5>2. n - 1 \in Nat /\ 1 <= n - 1
          BY <5>1
        <5> QED BY <5>2, <2>1
      <4>2. w[1] = q[1 + 1]
        BY <4>1, <1>2
      <4> QED BY <4>2
    <3> QED BY <3>1, <3>2, <1>1
  <2>2. CASE k # 1
    <3>1. u.head = q[1]
      BY <2>2, <1>5, <1>6, <1>8
    <3>2. n # 1 /\ w[1] = q[1]
      BY SMTT(30), <2>2, <1>1, <1>2
    <3> QED BY <3>1, <3>2, <1>1
  <2> QED BY <2>1, <2>2
<1>10. u.tail = IF n - 1 = 0 THEN Nil ELSE w[n - 1]
  <2>1. CASE k = n
    <3>1. u.tail = IF n = 1 THEN Nil ELSE q[n - 1]
      BY <2>1, <1>5, <1>7
    <3>2. n # 1 => w[n - 1] = q[n - 1]
      BY <2>1, <1>1, <1>2
    <3> QED BY <3>1, <3>2, <1>1
  <2>2. CASE k # n
    <3>1. u.tail = q[n]
      BY <2>2, <1>5, <1>7, <1>8
    <3>2. n # 1 /\ w[n - 1] = q[n]
      BY SMTT(30), <2>2, <1>1, <1>2
    <3> QED BY <3>1, <3>2, <1>1
  <2> QED BY <2>1, <2>2
<1>11. ASSUME NEW j \in 1..(n - 1)
       PROVE  w[j] \in DOMAIN u.nodes /\ u.nodes[w[j]] = NodeOf(w, j)
  <2> DEFINE m == IF j < k THEN j ELSE j + 1
  <2>1. m \in 1..n /\ m # k /\ w[j] = q[m]
    BY <1>1, <1>2
  <2>2. /\ q[m] \in DOMAIN l.nodes
        /\ u.nodes[q[m]] = Node(IF q[m] = after THEN before
                                ELSE IF m = 1 THEN Nil ELSE q[m - 1],
                                IF q[m] = before THEN after
                                ELSE IF m = n THEN Nil ELSE q[m + 1])
    <3>1. /\ q[m] \in DOMAIN l.nodes
          /\ l.nodes[q[m]].prev = IF m = 1 THEN Nil ELSE q[m - 1]
          /\ l.nodes[q[m]].next = IF m = n THEN Nil ELSE q[m + 1]
      <4> HIDE DEF m
      <4> QED BY <2>1, <1>3
    <3> HIDE DEF m, before, after
    <3> QED BY <3>1, <1>5
  <2>3. q[m] = after <=> m = k + 1
    BY SMTT(30), <2>1, <1>1 DEF Injective
  <2>4. q[m] = before <=> m = k - 1
    BY <2>1, <1>1 DEF Injective
  <2>5. (IF q[m] = after THEN before ELSE IF m = 1 THEN Nil ELSE q[m - 1])
          = IF j = 1 THEN Nil ELSE w[j - 1]
    <3>1. CASE m = k + 1
      BY SMTT(30), <3>1, <2>1, <2>3, <1>1, <1>2
    <3>2. CASE m # k + 1
      BY <3>2, <2>1, <2>3, <1>1, <1>2
    <3> QED BY <3>1, <3>2
  <2>6. (IF q[m] = before THEN after ELSE IF m = n THEN Nil ELSE q[m + 1])
          = IF j = n - 1 THEN Nil ELSE w[j + 1]
    <3>1. CASE m = k - 1
      BY <3>1, <2>1, <2>4, <1>1, <1>2
    <3>2. CASE m # k - 1
      BY SMTT(30), <3>2, <2>1, <2>4, <1>1, <1>2
    <3> QED BY <3>1, <3>2
  <2>7. NodeOf(w, j) = Node(IF j = 1 THEN Nil ELSE w[j - 1],
                            IF j = n - 1 THEN Nil ELSE w[j + 1])
    BY <1>2 DEF NodeOf
  <2> QED BY <2>1, <2>2, <2>5, <2>6, <2>7, <1>5
<1>12. Linked(u, w)
  BY ZenonT(30), <1>2, <1>9, <1>10, <1>11 DEF Linked, Injective, contains
<1> QED BY <1>5, <1>12 DEF u

\* The same, said of the index the queue stands for.
LEMMA DetachedLinked ==
    ASSUME NEW S, Nil \notin S, NEW q \in Seq(S), NEW l, Represents(l, q), NEW p \in S
    PROVE  /\ Without(q, p) \in Seq(S) /\ Linked(Detached(l, p), Without(q, p))
           /\ DOMAIN Detached(l, p).nodes = DOMAIN l.nodes
           /\ Items(Without(q, p)) = DOMAIN l.nodes \ {p}
           /\ \A i \in 1..Len(Without(q, p)) : Without(q, p)[i] # p
<1> DEFINE w == Without(q, p)
           n == Len(q)
<1>0. /\ Linked(l, q) /\ Injective(q) /\ n \in Nat
      /\ DOMAIN l.nodes = Items(q)
  BY DEF Represents, Linked, Injective, Items
<1>1. CASE contains(l, p)
  <2>1. PICK k \in 1..n : p = q[k]
    BY <1>0, <1>1 DEF contains, Items
  <2>2. Detached(l, p) = unlink(l, q[k]) /\ w = Without(q, q[k])
    BY <1>1, <2>1 DEF Detached
  <2>3. /\ w \in Seq(S) /\ Len(w) = n - 1
        /\ \A i \in 1..Len(w) : w[i] = IF i < k THEN q[i] ELSE q[i + 1]
        /\ \A i \in 1..Len(w) : w[i] # q[k]
    BY SMTT(30), <1>0, <2>2, WithoutIs
  <2>4. /\ Linked(Detached(l, p), w)
        /\ DOMAIN Detached(l, p).nodes = DOMAIN l.nodes
    BY <1>0, <2>2, UnlinkLinked
  <2> HIDE DEF w
  <2>5. ASSUME NEW i \in 1..Len(w)
        PROVE  w[i] \in DOMAIN l.nodes \ {p}
    <3>1. i \in 1..n /\ i + 1 \in 1..n
      BY <2>3, <1>0
    <3>2. \E j \in 1..n : w[i] = q[j]
      BY <3>1, <2>3
    <3> QED BY <3>2, <2>1, <2>3, <1>0 DEF Items
  <2>6. ASSUME NEW x \in DOMAIN l.nodes \ {p}
        PROVE  \E i \in 1..Len(w) : x = w[i]
    <3>1. PICK j \in 1..n : x = q[j]
      BY <1>0 DEF Items
    <3>2. j # k
      BY <3>1, <2>1
    <3>3. CASE j < k
      <4>1. j \in 1..Len(w) /\ w[j] = q[j]
        BY <3>3, <2>3, <1>0
      <4> QED BY <4>1, <3>1
    <3>4. CASE j > k
      <4>1. j - 1 \in 1..Len(w) /\ ~(j - 1 < k) /\ (j - 1) + 1 = j
        BY <3>4, <2>3, <1>0
      <4>2. w[j - 1] = q[(j - 1) + 1]
        BY <4>1, <2>3
      <4> QED BY <4>1, <4>2, <3>1
    <3> QED BY <3>2, <3>3, <3>4
  <2>7. Items(w) = DOMAIN l.nodes \ {p}
    BY <2>5, <2>6 DEF Items
  <2> QED BY <2>1, <2>3, <2>4, <2>7 DEF w
<1>2. CASE ~contains(l, p)
  <2>1. ~Queued(q, p)
    BY <1>0, <1>2 DEF contains, Queued, Items
  <2>2. w = q /\ Detached(l, p) = l
    BY <2>1, <1>2 DEF Without, Detached
  <2>3. p \notin DOMAIN l.nodes
    BY <1>2 DEF contains
  <2> QED BY <1>0, <2>2, <2>3 DEF Items
<1> QED BY <1>1, <1>2

\* push_front, over an index that holds the node detached or not at all.
LEMMA LinkFrontLinked ==
    ASSUME NEW S, Nil \notin S, NEW q \in Seq(S), NEW l, Linked(l, q),
           NEW p \in S, \A i \in 1..Len(q) : q[i] # p
    PROVE  /\ InFront(q, p) \in Seq(S) /\ Linked(LinkFront(l, p), InFront(q, p))
           /\ Len(InFront(q, p)) = Len(q) + 1
<1> DEFINE f == InFront(q, p)
           n == Len(q)
           u == LinkFront(l, p)
<1>1. n \in Nat /\ p # Nil /\ Injective(q) /\ \A i \in 1..n : q[i] \in S
  BY DEF Linked, Injective
<1>2. f = [i \in 1..(n + 1) |-> IF i = 1 THEN p ELSE q[i - 1]]
  BY DEF InFront
<1>3. \A i \in 1..(n + 1) : f[i] \in S
  BY <1>1, <1>2
<1>4. f \in Seq(S) /\ Len(f) = n + 1
  BY <1>1, <1>2, <1>3
<1>5. f[1] = p /\ \A i \in 1..n : f[i + 1] = q[i]
  BY <1>1, <1>2
<1> HIDE DEF f
<1>6. Injective(f)
  <2> SUFFICES ASSUME NEW i \in 1..(n + 1), NEW j \in 1..(n + 1), f[i] = f[j]
               PROVE  i = j
    BY <1>4 DEF Injective
  <2>1. CASE i = 1 /\ j = 1
    BY <2>1
  <2>2. CASE i # 1 /\ j # 1
    <3>1. q[i - 1] = q[j - 1] /\ i - 1 \in 1..n /\ j - 1 \in 1..n
      BY <2>2, <1>1, <1>2
    <3> QED BY <3>1, <1>1 DEF Injective
  <2>3. CASE i = 1 /\ j # 1
    <3>1. p = q[j - 1] /\ j - 1 \in 1..n
      BY <2>3, <1>1, <1>2
    <3> QED BY <3>1
  <2>4. CASE i # 1 /\ j = 1
    <3>1. p = q[i - 1] /\ i - 1 \in 1..n
      BY <2>4, <1>1, <1>2
    <3> QED BY <3>1
  <2> QED BY <2>1, <2>2, <2>3, <2>4
<1>7. l.head = (IF n = 0 THEN Nil ELSE q[1]) /\ l.tail = (IF n = 0 THEN Nil ELSE q[n])
  BY DEF Linked
<1>8. /\ u.head = p
      /\ u.tail = IF l.head = Nil THEN p ELSE l.tail
      /\ DOMAIN u.nodes = DOMAIN l.nodes \cup {p}
      /\ u.nodes[p] = Node(Nil, l.head)
      /\ \A i \in DOMAIN l.nodes \ {p} :
            u.nodes[i] = Node(IF i = l.head THEN p ELSE l.nodes[i].prev, l.nodes[i].next)
  BY DEF LinkFront
<1> HIDE DEF u
<1>9. u.tail = f[n + 1]
  <2>1. CASE n = 0
    BY <2>1, <1>5, <1>7, <1>8
  <2>2. CASE n # 0
    <3>1. l.head # Nil /\ n \in 1..n
      BY <2>2, <1>1, <1>7
    <3> QED BY <3>1, <2>2, <1>5, <1>7, <1>8
  <2> QED BY <2>1, <2>2
<1>10. ASSUME NEW j \in 1..(n + 1)
       PROVE  f[j] \in DOMAIN u.nodes /\ u.nodes[f[j]] = NodeOf(f, j)
  <2>1. NodeOf(f, j) = Node(IF j = 1 THEN Nil ELSE f[j - 1],
                            IF j = n + 1 THEN Nil ELSE f[j + 1])
    BY <1>4 DEF NodeOf
  <2>2. CASE j = 1
    <3>1. l.head = IF j = n + 1 THEN Nil ELSE f[j + 1]
      BY <2>2, <1>1, <1>5, <1>7
    <3> QED BY <3>1, <2>1, <2>2, <1>5, <1>8
  <2>3. CASE j # 1
    <3> DEFINE m == j - 1
    <3>1. m \in 1..n /\ j = m + 1 /\ f[j] = q[m] /\ n # 0
      BY <2>3, <1>1, <1>5
    <3>2. /\ q[m] \in DOMAIN l.nodes
          /\ l.nodes[q[m]] = [prev |-> IF m = 1 THEN Nil ELSE q[m - 1],
                              next |-> IF m = n THEN Nil ELSE q[m + 1]]
      BY ZenonT(30), <3>1 DEF Linked, contains, NodeOf, Node
    <3>3. q[m] = l.head <=> m = 1
      BY <3>1, <1>1, <1>7 DEF Injective
    <3>4. q[m] # p
      BY <3>1
    <3>5. u.nodes[q[m]] = Node(IF m = 1 THEN p ELSE q[m - 1],
                               IF m = n THEN Nil ELSE q[m + 1])
      <4> HIDE DEF m
      <4> QED BY SMTT(30), <3>2, <3>3, <3>4, <1>8
    <3>6. (IF m = 1 THEN p ELSE q[m - 1]) = f[j - 1]
      <4>1. m # 1 => m - 1 \in 1..n /\ (m - 1) + 1 = m
        BY <3>1, <1>1
      <4> QED BY <4>1, <3>1, <1>5
    <3>7. (IF m = n THEN Nil ELSE q[m + 1]) = IF j = n + 1 THEN Nil ELSE f[j + 1]
      BY <3>1, <1>1, <1>5
    <3> QED BY <2>1, <2>3, <3>1, <3>2, <3>5, <3>6, <3>7, <1>8
  <2> QED BY <2>2, <2>3
<1>11. Linked(u, f)
  BY <1>1, <1>4, <1>5, <1>6, <1>8, <1>9, <1>10 DEF Linked, Injective, contains
<1> QED BY <1>4, <1>11 DEF f, u

\* push_back, likewise.
LEMMA LinkBackLinked ==
    ASSUME NEW S, Nil \notin S, NEW q \in Seq(S), NEW l, Linked(l, q),
           NEW p \in S, \A i \in 1..Len(q) : q[i] # p
    PROVE  /\ AtBack(q, p) \in Seq(S) /\ Linked(LinkBack(l, p), AtBack(q, p))
           /\ Len(AtBack(q, p)) = Len(q) + 1
<1> DEFINE f == AtBack(q, p)
           n == Len(q)
           u == LinkBack(l, p)
<1>1. n \in Nat /\ p # Nil /\ Injective(q) /\ \A i \in 1..n : q[i] \in S
  BY DEF Linked, Injective
<1>2. f = [i \in 1..(n + 1) |-> IF i = n + 1 THEN p ELSE q[i]]
  BY DEF AtBack
<1>3. \A i \in 1..(n + 1) : f[i] \in S
  BY <1>1, <1>2
<1>4. f \in Seq(S) /\ Len(f) = n + 1
  BY <1>1, <1>2, <1>3
<1>5. f[n + 1] = p /\ \A i \in 1..n : f[i] = q[i]
  BY <1>1, <1>2
<1> HIDE DEF f
<1>6. Injective(f)
  <2> SUFFICES ASSUME NEW i \in 1..(n + 1), NEW j \in 1..(n + 1), f[i] = f[j]
               PROVE  i = j
    BY <1>4 DEF Injective
  <2>1. CASE i = n + 1 /\ j = n + 1
    BY <2>1
  <2>2. CASE i # n + 1 /\ j # n + 1
    <3>1. q[i] = q[j] /\ i \in 1..n /\ j \in 1..n
      BY <2>2, <1>1, <1>2
    <3> QED BY <3>1, <1>1 DEF Injective
  <2>3. CASE i = n + 1 /\ j # n + 1
    <3>1. p = q[j] /\ j \in 1..n
      BY <2>3, <1>1, <1>2
    <3> QED BY <3>1
  <2>4. CASE i # n + 1 /\ j = n + 1
    <3>1. p = q[i] /\ i \in 1..n
      BY SMTT(30), <2>4, <1>1, <1>2
    <3> QED BY <3>1
  <2> QED BY <2>1, <2>2, <2>3, <2>4
<1>7. l.head = (IF n = 0 THEN Nil ELSE q[1]) /\ l.tail = (IF n = 0 THEN Nil ELSE q[n])
  BY DEF Linked
<1>8. /\ u.tail = p
      /\ u.head = IF l.tail = Nil THEN p ELSE l.head
      /\ DOMAIN u.nodes = DOMAIN l.nodes \cup {p}
      /\ u.nodes[p] = Node(l.tail, Nil)
      /\ \A i \in DOMAIN l.nodes \ {p} :
            u.nodes[i] = Node(l.nodes[i].prev, IF i = l.tail THEN p ELSE l.nodes[i].next)
  BY DEF LinkBack
<1> HIDE DEF u
<1>9. u.head = f[1]
  <2>1. CASE n = 0
    BY <2>1, <1>5, <1>7, <1>8
  <2>2. CASE n # 0
    <3>1. l.tail # Nil /\ 1 \in 1..n
      BY <2>2, <1>1, <1>7
    <3> QED BY <3>1, <2>2, <1>5, <1>7, <1>8
  <2> QED BY <2>1, <2>2
<1>10. ASSUME NEW j \in 1..(n + 1)
       PROVE  f[j] \in DOMAIN u.nodes /\ u.nodes[f[j]] = NodeOf(f, j)
  <2>1. NodeOf(f, j) = Node(IF j = 1 THEN Nil ELSE f[j - 1],
                            IF j = n + 1 THEN Nil ELSE f[j + 1])
    BY <1>4 DEF NodeOf
  <2>2. CASE j = n + 1
    <3>1. l.tail = IF j = 1 THEN Nil ELSE f[j - 1]
      BY <2>2, <1>1, <1>5, <1>7
    <3> QED BY <3>1, <2>1, <2>2, <1>5, <1>8
  <2>3. CASE j # n + 1
    <3>1. j \in 1..n /\ f[j] = q[j] /\ n # 0
      BY <2>3, <1>1, <1>5
    <3>2. /\ q[j] \in DOMAIN l.nodes
          /\ l.nodes[q[j]] = [prev |-> IF j = 1 THEN Nil ELSE q[j - 1],
                              next |-> IF j = n THEN Nil ELSE q[j + 1]]
      BY <3>1 DEF Linked, contains, NodeOf, Node
    <3>3. q[j] = l.tail <=> j = n
      BY <3>1, <1>1, <1>7 DEF Injective
    <3>4. q[j] # p
      BY <3>1
    <3>5. u.nodes[q[j]] = Node(IF j = 1 THEN Nil ELSE q[j - 1],
                               IF j = n THEN p ELSE q[j + 1])
      BY <3>2, <3>3, <3>4, <1>8
    <3>6. (IF j = 1 THEN Nil ELSE q[j - 1]) = IF j = 1 THEN Nil ELSE f[j - 1]
      BY <3>1, <1>1, <1>5
    <3>7. (IF j = n THEN p ELSE q[j + 1]) = f[j + 1]
      BY <3>1, <1>1, <1>5
    <3> QED BY <2>1, <2>3, <3>1, <3>2, <3>5, <3>6, <3>7, <1>8
  <2> QED BY <2>2, <2>3
<1>11. Linked(u, f)
  BY <1>1, <1>4, <1>5, <1>6, <1>8, <1>9, <1>10 DEF Linked, Injective, contains
<1> QED BY <1>4, <1>11 DEF f, u

\* The three operations of the index are the queue's.
LEMMA PushFrontIs ==
    ASSUME NEW S, Nil \notin S, NEW q \in Seq(S), NEW l, Represents(l, q), NEW p \in S
    PROVE  /\ InFront(Without(q, p), p) \in Seq(S)
           /\ Represents(push_front(l, p), InFront(Without(q, p), p))
           /\ DOMAIN push_front(l, p).nodes = DOMAIN l.nodes \cup {p}
<1> DEFINE w == Without(q, p)
           d == Detached(l, p)
           f == InFront(w, p)
<1>1. /\ w \in Seq(S) /\ Linked(d, w) /\ DOMAIN d.nodes = DOMAIN l.nodes
      /\ Items(w) = DOMAIN l.nodes \ {p}
      /\ \A i \in 1..Len(w) : w[i] # p
  BY DetachedLinked
<1> HIDE DEF w, d
<1>2. f \in Seq(S) /\ Linked(LinkFront(d, p), f) /\ Len(f) = Len(w) + 1
  BY <1>1, LinkFrontLinked
<1>3. DOMAIN LinkFront(d, p).nodes = DOMAIN l.nodes \cup {p}
  BY <1>1 DEF LinkFront
<1>4. Len(w) \in Nat
  BY <1>1
<1>5. f[1] = p /\ \A i \in 1..Len(w) : f[i + 1] = w[i] /\ i + 1 \in 1..Len(f)
  BY <1>2, <1>4 DEF InFront
<1>6. \A i \in 1..Len(f) : i = 1 \/ (i - 1 \in 1..Len(w) /\ f[i] = w[i - 1])
  BY <1>2, <1>4 DEF InFront
<1>7. 1 \in 1..Len(f)
  BY <1>2, <1>4
<1> HIDE DEF f
<1>8. Items(f) = Items(w) \cup {p}
  <2>1. ASSUME NEW i \in 1..Len(f) PROVE f[i] \in Items(w) \cup {p}
    BY ZenonT(30), <1>5, <1>6 DEF Items
  <2>2. ASSUME NEW i \in 1..Len(w) PROVE w[i] \in Items(f)
    BY <1>5 DEF Items
  <2>3. p \in Items(f)
    BY <1>5, <1>7 DEF Items
  <2> QED BY SMTT(30), <2>1, <2>2, <2>3 DEF Items
<1>9. Represents(LinkFront(d, p), f)
  BY ZenonT(30), <1>1, <1>2, <1>3, <1>8 DEF Represents, Items
<1> QED BY <1>2, <1>3, <1>9 DEF push_front, f, w, d

\* push_back moves the id, in the queue or not, to the queue's end.
LEMMA PushBackIs ==
    ASSUME NEW S, Nil \notin S, NEW q \in Seq(S), NEW l, Represents(l, q), NEW p \in S
    PROVE  /\ AtBack(Without(q, p), p) \in Seq(S)
           /\ Represents(push_back(l, p), AtBack(Without(q, p), p))
           /\ DOMAIN push_back(l, p).nodes = DOMAIN l.nodes \cup {p}
<1> DEFINE w == Without(q, p)
           d == Detached(l, p)
           f == AtBack(w, p)
<1>1. /\ w \in Seq(S) /\ Linked(d, w) /\ DOMAIN d.nodes = DOMAIN l.nodes
      /\ Items(w) = DOMAIN l.nodes \ {p}
      /\ \A i \in 1..Len(w) : w[i] # p
  BY DetachedLinked
<1> HIDE DEF w, d
<1>2. f \in Seq(S) /\ Linked(LinkBack(d, p), f) /\ Len(f) = Len(w) + 1
  BY <1>1, LinkBackLinked
<1>3. DOMAIN LinkBack(d, p).nodes = DOMAIN l.nodes \cup {p}
  BY <1>1 DEF LinkBack
<1>4. Len(w) \in Nat
  BY <1>1
<1>5. /\ Len(w) + 1 \in 1..Len(f) /\ f[Len(w) + 1] = p
      /\ \A i \in 1..Len(w) : f[i] = w[i] /\ i \in 1..Len(f)
  BY <1>2, <1>4 DEF AtBack
<1>6. \A i \in 1..Len(f) : i = Len(w) + 1 \/ i \in 1..Len(w)
  BY <1>2, <1>4
<1> HIDE DEF f
<1>8. Items(f) = Items(w) \cup {p}
  <2>1. ASSUME NEW i \in 1..Len(f) PROVE f[i] \in Items(w) \cup {p}
    BY <1>5, <1>6 DEF Items
  <2>2. ASSUME NEW i \in 1..Len(w) PROVE w[i] \in Items(f)
    BY <1>5 DEF Items
  <2>3. p \in Items(f)
    BY <1>5 DEF Items
  <2> QED BY <2>1, <2>2, <2>3 DEF Items
<1>9. Represents(LinkBack(d, p), f)
  BY ZenonT(30), <1>1, <1>2, <1>3, <1>8 DEF Represents, Items
<1> QED BY <1>2, <1>3, <1>9 DEF push_back, f, w, d

\* remove takes the id out of the queue, and does nothing to one that is not in it.
LEMMA RemoveIs ==
    ASSUME NEW S, Nil \notin S, NEW q \in Seq(S), NEW l, Represents(l, q), NEW p \in S
    PROVE  /\ Without(q, p) \in Seq(S)
           /\ Represents(remove(l, p), Without(q, p))
           /\ DOMAIN remove(l, p).nodes = DOMAIN l.nodes \ {p}
<1> DEFINE w == Without(q, p)
           d == Detached(l, p)
<1>1. /\ w \in Seq(S) /\ Linked(d, w) /\ DOMAIN d.nodes = DOMAIN l.nodes
      /\ Items(w) = DOMAIN l.nodes \ {p}
      /\ \A i \in 1..Len(w) : w[i] # p
  BY DetachedLinked
<1>2. CASE contains(l, p)
  <2>1. remove(l, p) = Forgotten(d, p)
    BY SMTT(30), <1>2 DEF remove, Detached
  <2> HIDE DEF w, d
  <2>2. /\ Forgotten(d, p).head = d.head /\ Forgotten(d, p).tail = d.tail
        /\ DOMAIN Forgotten(d, p).nodes = DOMAIN l.nodes \ {p}
        /\ \A i \in DOMAIN l.nodes \ {p} : Forgotten(d, p).nodes[i] = d.nodes[i]
    BY <1>1 DEF Forgotten
  <2>3. \A i \in 1..Len(w) : w[i] \in DOMAIN l.nodes \ {p}
    BY SMTT(30), <1>1 DEF Items
  <2>4. Linked(Forgotten(d, p), w)
    BY SMTT(30), <1>1, <2>2, <2>3 DEF Linked, contains
  <2>5. Represents(Forgotten(d, p), w)
    BY ZenonT(30), <1>1, <2>2, <2>4 DEF Represents, Items
  <2> QED BY <1>1, <2>1, <2>2, <2>5 DEF w
<1>3. CASE ~contains(l, p)
  <2>1. remove(l, p) = l /\ d = l /\ p \notin DOMAIN l.nodes
    BY <1>3 DEF remove, Detached, contains
  <2> HIDE DEF w, d
  <2>2. Represents(l, w) /\ DOMAIN l.nodes = DOMAIN l.nodes \ {p}
    BY ZenonT(30), <1>1, <2>1 DEF Represents, Items
  <2> QED BY <1>1, <2>1, <2>2 DEF w
<1> QED BY SMTT(30), <1>2, <1>3

\* Taking out an id that is not the first leaves the first; an id that is out
\* stays out.
LEMMA WithoutFirst ==
    ASSUME NEW S, Nil \notin S, NEW q \in Seq(S), NEW l, Represents(l, q), NEW p \in S,
           Len(q) # 0, q[1] # p
    PROVE  Len(Without(q, p)) # 0 /\ Without(q, p)[1] = q[1]
<1>1. Injective(q) /\ Len(q) \in Nat
  BY DEF Represents, Linked, Injective
<1>2. CASE Queued(q, p)
  <2>1. PICK k \in 1..Len(q) : q[k] = p
    BY <1>2 DEF Queued
  <2>2. k # 1 /\ Len(q) > 1
    BY <2>1, <1>1
  <2>3. /\ Len(Without(q, p)) = Len(q) - 1
        /\ \A i \in 1..Len(Without(q, p)) :
              Without(q, p)[i] = IF i < k THEN q[i] ELSE q[i + 1]
    <3> DEFINE w == Without(q, q[k])
    <3>1. /\ Len(w) = Len(q) - 1
          /\ \A i \in 1..Len(w) : w[i] = IF i < k THEN q[i] ELSE q[i + 1]
      BY <1>1, WithoutIs
    <3>2. w = Without(q, p)
      BY <2>1
    <3> HIDE DEF w
    <3> QED BY <3>1, <3>2
  <2>4. 1 \in 1..Len(Without(q, p)) /\ 1 < k
    BY <2>2, <2>3, <1>1
  <2> QED BY <2>3, <2>4, <1>1
<1>3. CASE ~Queued(q, p)
  BY <1>3 DEF Without
<1> QED BY <1>2, <1>3

\* Taking an id out of the queue a second time changes nothing.
LEMMA WithoutTwice ==
    ASSUME NEW S, Nil \notin S, NEW q \in Seq(S), NEW l, Represents(l, q), NEW p \in S
    PROVE  Without(Without(q, p), p) = Without(q, p)
<1>1. \A i \in 1..Len(Without(q, p)) : Without(q, p)[i] # p
  BY DetachedLinked
<1>2. ~Queued(Without(q, p), p)
  BY <1>1 DEF Queued
<1> QED BY <1>2 DEF Without

\* Taking out the last id and putting it back at the end changes nothing.
LEMMA BackAgain ==
    ASSUME NEW S, NEW q \in Seq(S), Injective(q), Len(q) # 0
    PROVE  AtBack(Without(q, q[Len(q)]), q[Len(q)]) = q
<1> DEFINE n == Len(q)
           w == Without(q, q[n])
<1>1. n \in Nat /\ n \in 1..n
  OBVIOUS
<1>2. /\ Len(w) = n - 1
      /\ \A i \in 1..Len(w) : w[i] = IF i < n THEN q[i] ELSE q[i + 1]
  BY SMTT(30), <1>1, WithoutIs
<1>3. \A i \in 1..(n - 1) : w[i] = q[i]
  BY <1>1, <1>2
<1> HIDE DEF w
<1>4. AtBack(w, q[n]) = [i \in 1..n |-> IF i = n THEN q[n] ELSE w[i]]
  BY <1>1, <1>2 DEF AtBack
<1>5. \A i \in 1..n : (IF i = n THEN q[n] ELSE w[i]) = q[i]
  BY <1>1, <1>3
<1>6. q = [i \in 1..n |-> q[i]]
  OBVIOUS
<1> QED BY <1>4, <1>5, <1>6 DEF w

-----------------------------------------------------------------------------
(* The steps of the cache.                                                 *)

INSTANCE FiniteSetTheorems

Shape == queue \in Seq(PageIds) /\ IndexIsQueue /\ IndexTracksEntries

\* The inductive invariant.  A page that is being allocated stands first, which
\* is what keeps it from being the victim.
OrderInv ==
    /\ Shape
    /\ entries \subseteq PageIds /\ dirty \subseteq entries
    /\ maxPages \in CacheSizes
    /\ next \in 0..MaxPage /\ total \in 0..MaxPage
    /\ call \in Calls
    /\ call.kind = "load" => call.arg \in PageIds
    /\ call.kind = "alloc" =>
          call.arg \in dirty /\ Len(queue) # 0 /\ queue[1] = call.arg

\* The end of a link is no page of the file.
LEMMA NilIsNoPage == Nil \notin PageIds
BY OrderAssumption DEF Nil, PageIds

\* What touching, moving to the tail and leaving do to the index.
LEMMA TouchShape ==
    ASSUME Shape, NEW p \in PageIds, touch_lru(p)
    PROVE  /\ queue' \in Seq(PageIds) /\ IndexIsQueue'
           /\ DOMAIN lru'.nodes = entries \cup {p}
           /\ Len(queue') # 0 /\ queue'[1] = p
<1>1. /\ InFront(Without(queue, p), p) \in Seq(PageIds)
      /\ Represents(push_front(lru, p), InFront(Without(queue, p), p))
      /\ DOMAIN push_front(lru, p).nodes = DOMAIN lru.nodes \cup {p}
  BY SMTT(30), PushFrontIs, NilIsNoPage DEF Shape, IndexIsQueue
<1>2. Without(queue, p) \in Seq(PageIds)
  BY DetachedLinked, NilIsNoPage DEF Shape, IndexIsQueue
<1>3. Len(queue') # 0 /\ queue'[1] = p
  <2> DEFINE w == Without(queue, p)
  <2>1. Len(w) \in Nat
    BY <1>2
  <2>2. queue' = [i \in 1..(Len(w) + 1) |-> IF i = 1 THEN p ELSE w[i - 1]]
    BY DEF touch_lru, InFront
  <2>3. Len(queue') = Len(w) + 1 /\ queue'[1] = p
    BY <2>1, <2>2
  <2> QED BY <2>1, <2>3
<1> QED BY <1>1, <1>3 DEF Shape, IndexIsQueue, IndexTracksEntries, touch_lru

\* Moving a page to the LRU end, as a failed spill does with its victim, adds it to
\* the index once.
LEMMA TailShape ==
    ASSUME Shape, NEW p \in PageIds, ToTail(p)
    PROVE  /\ queue' \in Seq(PageIds) /\ IndexIsQueue'
           /\ DOMAIN lru'.nodes = entries \cup {p}
BY PushBackIs, NilIsNoPage DEF Shape, IndexIsQueue, IndexTracksEntries, ToTail

\* Taking a page out of the index and of the entries keeps the two in step.
LEMMA DiscardShape ==
    ASSUME Shape, NEW p \in PageIds, discard(p)
    PROVE  Shape' /\ entries' = entries \ {p} /\ dirty' = dirty \ {p}
<1>1. /\ Without(queue, p) \in Seq(PageIds)
      /\ Represents(remove(lru, p), Without(queue, p))
      /\ DOMAIN remove(lru, p).nodes = DOMAIN lru.nodes \ {p}
  BY RemoveIs, NilIsNoPage DEF Shape, IndexIsQueue
<1> QED BY <1>1 DEF Shape, IndexIsQueue, IndexTracksEntries, discard, LeaveLru

\* The page at the LRU end is a page of the cache, the last of the queue.
LEMMA TailIsPage ==
    ASSUME Shape, entries \subseteq PageIds, lru.tail # Nil
    PROVE  /\ lru.tail \in entries /\ lru.tail \in PageIds
           /\ Len(queue) # 0 /\ lru.tail = queue[Len(queue)] /\ Injective(queue)
<1>1. Represents(lru, queue) /\ Len(queue) \in Nat /\ DOMAIN lru.nodes = entries
  BY DEF Shape, IndexIsQueue, IndexTracksEntries
<1>2. Len(queue) # 0 /\ lru.tail = queue[Len(queue)] /\ Injective(queue)
  BY <1>1 DEF Represents, Linked, Injective
<1>3. queue[Len(queue)] \in DOMAIN lru.nodes
  BY <1>1, <1>2 DEF Represents, Linked, contains
<1> QED BY <1>1, <1>2, <1>3

\* The empty cache satisfies the inductive invariant.
LEMMA InitOrder == Init => OrderInv
<1> SUFFICES ASSUME Init PROVE OrderInv
  OBVIOUS
<1>1. queue = <<>> /\ Len(queue) = 0 /\ queue \in Seq(PageIds)
  BY DEF Init
<1>2. lru.head = Nil /\ lru.tail = Nil /\ DOMAIN lru.nodes = {}
  BY DEF Init, EmptyIndex
<1>3. \A k \in 1..Len(queue) : FALSE
  BY <1>1
<1>4. Represents(lru, queue)
  BY <1>1, <1>2, <1>3 DEF Represents, Linked
<1>5. Shape
  BY <1>1, <1>2, <1>4 DEF Shape, IndexIsQueue, IndexTracksEntries, Init
<1> QED BY <1>1, <1>5, OrderAssumption DEF Init, OrderInv, Calls, NoCall

\* What a step does not touch.
LEMMA SameOrder ==
    ASSUME OrderInv, UNCHANGED cacheVars
    PROVE  Shape' /\ entries' \subseteq PageIds /\ dirty' \subseteq entries'
BY DEF OrderInv, Shape, IndexIsQueue, IndexTracksEntries, cacheVars

\* Every step keeps the inductive invariant.
LEMMA StepOrder == OrderInv /\ [Next]_vars => OrderInv'
<1> SUFFICES ASSUME OrderInv, [Next]_vars PROVE OrderInv'
  OBVIOUS
<1> DEFINE Same == UNCHANGED cacheVars
<1>0. /\ Shape /\ entries \subseteq PageIds /\ dirty \subseteq entries
      /\ maxPages \in CacheSizes /\ next \in 0..MaxPage /\ total \in 0..MaxPage
      /\ call \in Calls /\ call.arg \in 0..MaxPage /\ MaxPage \in Nat
      /\ CacheSizes \subseteq Nat \ {0}
      /\ call.kind = "load" => call.arg \in PageIds
      /\ call.kind = "alloc" =>
            call.arg \in dirty /\ Len(queue) # 0 /\ queue[1] = call.arg
  BY SMTT(30), OrderAssumption DEF OrderInv, Calls
<1>1. CASE UNCHANGED vars
  BY <1>0, <1>1 DEF OrderInv, vars, Shape, IndexIsQueue, IndexTracksEntries
<1>2. CASE Begin
  BY <1>0, <1>2, SameOrder DEF Begin, OrderInv, cacheVars, limits, txnVars, Ready, NoCall
<1>3. ASSUME NEW p \in PageIds, get(p) PROVE OrderInv'
  <2>1. Shape'
    BY ZenonT(30), <1>0, <1>3, TouchShape DEF get, Shape, IndexTracksEntries
  <2> QED BY <1>0, <1>3, <2>1 DEF get, OrderInv, limits, txnVars, Ready, NoCall
<1>4. ASSUME NEW p \in PageIds, get_mut(p) PROVE OrderInv'
  <2>1. Shape'
    BY ZenonT(30), <1>0, <1>4, TouchShape DEF get_mut, Shape, IndexTracksEntries
  <2> QED BY <1>0, <1>4, <2>1 DEF get_mut, OrderInv, limits, txnVars, Ready, NoCall
<1>5. ASSUME NEW p \in PageIds, Miss(p) PROVE OrderInv'
  <2>1. call' \in Calls /\ call'.kind = "load" /\ call'.arg = p
    BY <1>0, <1>5 DEF Miss, Calls, PageIds
  <2> QED BY <1>0, <1>5, <2>1, SameOrder DEF Miss, OrderInv, cacheVars, limits, txnVars
<1>6. CASE new_page
  <2>1. next' \in PageIds
    BY <1>0, <1>6 DEF new_page, PageIds
  <2>2. Shape' /\ Len(queue') # 0 /\ queue'[1] = next'
    BY <1>0, <1>6, <2>1, TouchShape DEF new_page, Enter, Shape, IndexTracksEntries
  <2>3. call' \in Calls /\ call'.kind = "alloc" /\ call'.arg = next'
    BY <1>6, <2>1 DEF new_page, Enter, Calls, PageIds
  <2> QED BY <1>0, <1>6, <2>1, <2>2, <2>3 DEF new_page, Enter, OrderInv, limits, PageIds
<1>7. ASSUME NEW p \in PageIds, reissue_page(p) PROVE OrderInv'
  <2>1. Shape' /\ Len(queue') # 0 /\ queue'[1] = p
    BY <1>0, <1>7, TouchShape DEF reissue_page, Enter, Shape, IndexTracksEntries
  <2>2. call' \in Calls /\ call'.kind = "alloc" /\ call'.arg = p
    BY <1>7 DEF reissue_page, Enter, Calls, PageIds
  <2> QED BY SMTT(30), <1>0, <1>7, <2>1, <2>2 DEF reissue_page, Enter, OrderInv, limits, txnVars
<1>8. CASE evict_clean
  <2>1. PICK p \in Clean : discard(p)
    BY <1>8 DEF evict_clean
  <2>2. p \in PageIds /\ p \in entries /\ p \notin dirty
    BY <1>0, <2>1 DEF Clean
  <2>3. Shape' /\ entries' = entries \ {p} /\ dirty' = dirty \ {p}
    BY <1>0, <2>1, <2>2, DiscardShape
  <2>4. queue' = Without(queue, p)
    BY <2>1 DEF discard, LeaveLru
  <2>5. call.kind = "alloc" => Len(queue') # 0 /\ queue'[1] = call.arg
    BY SMTT(30), <1>0, <2>2, <2>4, WithoutFirst, NilIsNoPage DEF Shape, IndexIsQueue
  <2> QED BY <1>0, <1>8, <2>2, <2>3, <2>5 DEF evict_clean, OrderInv, limits, txnVars
<1>9. CASE spill
  <2>1. /\ lru.tail \in entries /\ lru.tail \in PageIds
        /\ Len(queue) # 0 /\ lru.tail = queue[Len(queue)] /\ Injective(queue)
    BY <1>0, <1>9, TailIsPage DEF spill
  <2>2. Shape' /\ entries' = entries \ {lru.tail} /\ dirty' = dirty \ {lru.tail}
    BY <1>0, <1>9, <2>1, DiscardShape DEF spill
  <2>3. queue' = Without(queue, lru.tail)
    BY <1>9 DEF spill, discard, LeaveLru
  <2>4. ASSUME call.kind = "alloc" PROVE queue[1] # lru.tail
    <3>1. SUFFICES ASSUME queue[1] = lru.tail PROVE FALSE
      OBVIOUS
    <3>2. Len(queue) \in Nat
      BY <1>0 DEF Shape
    <3>3. Len(queue) = 1
      <4>1. 1 \in 1..Len(queue) /\ Len(queue) \in 1..Len(queue)
        BY <2>1, <3>2
      <4>2. queue[1] = queue[Len(queue)]
        BY <2>1, <3>1
      <4> QED BY <2>1, <4>1, <4>2, ZenonT(30) DEF Injective
    <3>4. entries = {queue[1]}
      <4>1. entries = {queue[k] : k \in 1..Len(queue)}
        BY <1>0 DEF Shape, IndexIsQueue, IndexTracksEntries, Represents
      <4>2. 1..Len(queue) = {1}
        BY <3>3
      <4> QED BY <4>1, <4>2
    <3>5. Cardinality(entries) = 1
      BY <3>4, FS_Singleton
    <3>6. Cardinality(entries) > maxPages
      BY <1>9 DEF spill, NeedsSpill, OverCap
    <3> QED BY <1>0, <3>5, <3>6
  <2>5. call.kind = "alloc" =>
          Len(queue') # 0 /\ queue'[1] = call.arg /\ call.arg # lru.tail
    BY SMTT(30), <1>0, <2>1, <2>3, <2>4, WithoutFirst, NilIsNoPage DEF Shape, IndexIsQueue
  <2> QED BY SMTT(30), <1>0, <1>9, <2>1, <2>2, <2>5 DEF spill, OrderInv, limits, txnVars
<1>10. CASE CacheFull
  BY SMTT(30), <1>0, <1>10, SameOrder DEF CacheFull, EndRefused, OrderInv, cacheVars, limits,
     txnVars, NoCall, Calls
<1>11. CASE SpillwayFull
  <2>1. /\ lru.tail \in entries /\ lru.tail \in PageIds
        /\ Len(queue) # 0 /\ lru.tail = queue[Len(queue)] /\ Injective(queue)
    BY SMTT(30), <1>0, <1>11, TailIsPage DEF SpillwayFull
  <2>2. /\ Without(queue, lru.tail) \in Seq(PageIds)
        /\ Represents(remove(lru, lru.tail), Without(queue, lru.tail))
        /\ DOMAIN remove(lru, lru.tail).nodes = DOMAIN lru.nodes \ {lru.tail}
    BY SMTT(30), <1>0, <2>1, RemoveIs, NilIsNoPage DEF Shape, IndexIsQueue
  <2>3. Without(Without(queue, lru.tail), lru.tail) = Without(queue, lru.tail)
    BY SMTT(30), <1>0, <2>1, WithoutTwice, NilIsNoPage DEF Shape, IndexIsQueue
  <2> DEFINE r == remove(lru, lru.tail)
             w == Without(queue, lru.tail)
             t == lru.tail
  <2> HIDE DEF r, w, t
  <2>4. /\ w \in Seq(PageIds) /\ Represents(r, w) /\ t \in PageIds /\ t \in entries
        /\ DOMAIN r.nodes = DOMAIN lru.nodes \ {t} /\ Without(w, t) = w
    BY SMTT(30), <2>1, <2>2, <2>3 DEF r, w, t
  <2>5. /\ AtBack(Without(w, t), t) \in Seq(PageIds)
        /\ Represents(push_back(r, t), AtBack(Without(w, t), t))
        /\ DOMAIN push_back(r, t).nodes = DOMAIN r.nodes \cup {t}
    BY <2>4, PushBackIs, NilIsNoPage
  <2>6. lru' = push_back(r, t) /\ queue' = AtBack(w, t) /\ entries' = entries
    BY <1>11 DEF SpillwayFull, r, w, t
  <2>7. Shape'
    BY ZenonT(30), <1>0, <2>4, <2>5, <2>6 DEF Shape, IndexIsQueue, IndexTracksEntries
  <2> QED BY <1>0, <1>11, <2>7 DEF SpillwayFull, EndRefused, OrderInv, limits, txnVars,
             NoCall, Calls
<1>12. CASE AllocDone
  BY SMTT(30), <1>0, <1>12, SameOrder DEF AllocDone, OrderInv, cacheVars, limits, txnVars, NoCall, Calls
<1>13. CASE load_page
  <2>1. call.arg \in PageIds
    BY SMTT(30), <1>0, <1>13 DEF load_page
  <2>2. Shape'
    BY SMTT(30), <1>0, <1>13, <2>1, TouchShape DEF load_page, Shape, IndexTracksEntries
  <2> QED BY SMTT(30), <1>0, <1>13, <2>1, <2>2 DEF load_page, OrderInv, limits, txnVars, NoCall, Calls
<1>14. CASE LoadFails
  BY <1>0, <1>14, SameOrder DEF LoadFails, OrderInv, cacheVars, limits, txnVars, NoCall, Calls
<1>15. CASE ResizeDone
  BY SMTT(30), <1>0, <1>15, SameOrder DEF ResizeDone, OrderInv, cacheVars, limits, txnVars, NoCall, Calls
<1>16. ASSUME NEW n \in CacheSizes, set_cache_max_bytes(n) PROVE OrderInv'
  BY SMTT(30), <1>0, <1>16, SameOrder DEF set_cache_max_bytes, OrderInv, cacheVars, txnVars, Calls
<1>17. ASSUME NEW n \in SpillSizes, set_spillway_max_bytes(n) PROVE OrderInv'
  BY <1>0, <1>17, SameOrder DEF set_spillway_max_bytes, OrderInv, cacheVars, txnVars,
     Ready, NoCall
<1>18. ASSUME NEW d \in DrainInsertion, set_drain_insertion(d) PROVE OrderInv'
  BY SMTT(30), <1>0, <1>18, SameOrder DEF set_drain_insertion, OrderInv, cacheVars, txnVars,
     Ready, NoCall
<1>19. CASE flush
  <2>1. Shape'
    BY SMTT(30), <1>0, <1>19 DEF flush, Shape, IndexIsQueue, IndexTracksEntries
  <2> QED BY SMTT(30), <1>0, <1>19, <2>1 DEF flush, OrderInv, limits, txnVars, Calls
<1>20. CASE drain_batch
  BY <1>0, <1>20, SameOrder DEF drain_batch, OrderInv, cacheVars, limits, txnVars
<1>21. ASSUME NEW p \in PageIds, Drain(p) PROVE OrderInv'
  <2>1. Shape'
    <3>1. CASE p \in entries
      BY <1>0, <1>21, <3>1 DEF Drain, Shape, IndexIsQueue, IndexTracksEntries
    <3>2. CASE p \notin entries
      BY <1>0, <1>21, <3>2, TouchShape, TailShape DEF Drain, Shape, IndexTracksEntries
    <3> QED BY <3>1, <3>2
  <2>2. call' \in Calls /\ call'.kind \in {"drain", "trim"}
    BY <1>0, <1>21 DEF Drain, Calls
  <2> QED BY <1>0, <1>21, <2>1, <2>2 DEF Drain, OrderInv, limits, txnVars
<1>22. CASE TrimDone
  <2>1. call' \in Calls /\ call'.kind = "drain"
    BY <1>0, <1>22 DEF TrimDone, Calls
  <2> QED BY <1>0, <1>22, <2>1, SameOrder DEF TrimDone, OrderInv, cacheVars, limits, txnVars
<1>23. CASE FlushEnd
  BY SMTT(30), <1>0, <1>23, SameOrder DEF FlushEnd, OrderInv, cacheVars, limits, NoCall, Calls
<1>24. CASE discard_all_dirty
  BY SMTT(30), <1>0, <1>24, SameOrder DEF discard_all_dirty, OrderInv, cacheVars, limits, txnVars, Calls
<1>25. ASSUME NEW n \in 0..MaxPage, truncate(n) PROVE OrderInv'
  BY SMTT(30), <1>0, <1>25, SameOrder DEF truncate, OrderInv, cacheVars, limits, txnVars, Calls
<1>26. ASSUME NEW p \in PageIds, Drop(p) PROVE OrderInv'
  <2>1. Shape' /\ entries' = entries \ {p} /\ dirty' = dirty \ {p}
    BY <1>0, <1>26, DiscardShape DEF Drop
  <2> QED BY <1>0, <1>26, <2>1 DEF Drop, OrderInv, limits, txnVars
<1>27. CASE Discarded
  <2>1. call' \in Calls /\ call'.kind = "truncate"
    BY SMTT(30), <1>0, <1>27 DEF Discarded, Calls
  <2> QED BY <1>0, <1>27, <2>1, SameOrder DEF Discarded, OrderInv, cacheVars, limits, txnVars
<1>28. CASE Truncated
  BY <1>0, <1>28, SameOrder DEF Truncated, OrderInv, cacheVars, limits, NoCall, Calls
<1>29. CASE MakeRoom
  BY SMTT(30), <1>8, <1>9, <1>10, <1>11, <1>12, <1>13, <1>14, <1>15, <1>29 DEF MakeRoom
<1>30. CASE FlushStep
  BY <1>20, <1>21, <1>22, <1>23, <1>30 DEF FlushStep
<1>31. CASE DropStep
  BY <1>26, <1>27, <1>28, <1>31 DEF DropStep
<1> QED BY SMTT(30), <1>1, <1>2, <1>3, <1>4, <1>5, <1>6, <1>7, <1>16, <1>17, <1>18, <1>19, <1>24,
           <1>25, <1>29, <1>30, <1>31 DEF Next

\* For every number of pages and every limit, after any sequence of calls, the
\* linked index is the queue it replaced.
THEOREM IndexAlwaysQueue == Spec => []IndexIsQueue
<1>1. OrderInv => IndexIsQueue
  BY DEF OrderInv, Shape
<1> QED BY InitOrder, StepOrder, <1>1, PTL DEF Spec

\* Likewise, the index and the entries hold the same pages at every step of an
\* eviction, a spill, a drain or a rollback.
THEOREM IndexAlwaysTracks == Spec => []IndexTracksEntries
<1>1. OrderInv => IndexTracksEntries
  BY DEF OrderInv, Shape
<1> QED BY InitOrder, StepOrder, <1>1, PTL DEF Spec

\* For every limit of at least one page, the loop of maybe_evict never chooses
\* the page that the call is allocating.
THEOREM AllocatedAlwaysStays == Spec => []AllocatedStays
<1>1. OrderInv => AllocatedStays
  BY DEF OrderInv, AllocatedStays
<1> QED BY InitOrder, StepOrder, <1>1, PTL DEF Spec

\* A call that finds no room leaves the order as it was.
THEOREM RefusalsKeepOrder == Spec => RefusalKeepsOrder
<1>1. ASSUME OrderInv, CacheFull PROVE queue' = queue
  BY <1>1 DEF CacheFull, cacheVars
<1>2. ASSUME OrderInv, SpillwayFull PROVE queue' = queue
  <2>1. /\ Len(queue) # 0 /\ lru.tail = queue[Len(queue)] /\ Injective(queue)
        /\ queue \in Seq(PageIds)
    BY <1>2, TailIsPage DEF OrderInv, SpillwayFull, Shape
  <2>2. AtBack(Without(queue, queue[Len(queue)]), queue[Len(queue)]) = queue
    BY <2>1, BackAgain
  <2> QED BY SMTT(30), <1>2, <2>1, <2>2 DEF SpillwayFull
<1>3. OrderInv /\ [Next]_vars => [CacheFull \/ SpillwayFull => queue' = queue]_vars
  BY <1>1, <1>2
<1> QED BY InitOrder, StepOrder, <1>3, PTL DEF Spec, RefusalKeepsOrder

-----------------------------------------------------------------------------
(* The limit on the number of pages.                                        *)

\* Outside a transaction nothing is dirty or spilled, and what the calls under
\* way have left to write or to drop.
Quiet ==
    /\ ~active => dirty = {} /\ spilled = {}
    /\ call.kind \in {"alloc", "drain", "trim", "discard", "truncate", "rewind"} => active
    /\ call.kind = "resize" => ~active
    /\ call.kind \in {"drain", "trim", "truncate"} => dirty = {}
    /\ call.kind = "discard" => dirty \subseteq work
    /\ call.kind = "truncate" => spilled = {}

\* How far above the limit the cache may be: between calls, while a page is being
\* entered, and in a flush before its first batch or after a trim.
WithinOne == Cardinality(entries) <= maxPages + 1 + refused
Room ==
    /\ refused \in Nat
    /\ call.kind = "alloc" => Cardinality(entries) <= maxPages + 2 + refused
    /\ call.kind \in {"none", "load", "discard", "truncate", "rewind"} => WithinOne
    /\ call.kind = "drain" /\ work = {} => WithinOne

\* Entries are finitely many, one page more makes at most one more, and fewer
\* pages are no more.
LEMMA EntriesCount ==
    ASSUME NEW S \in SUBSET PageIds
    PROVE  /\ Cardinality(S) \in Nat
           /\ \A p : /\ Cardinality(S \cup {p}) \in Nat
                     /\ Cardinality(S \cup {p}) <= Cardinality(S) + 1
           /\ \A p : /\ Cardinality(S \ {p}) \in Nat
                     /\ Cardinality(S \ {p}) <= Cardinality(S)
<1>1. IsFiniteSet(PageIds)
  BY OrderAssumption, FS_Interval DEF PageIds
<1>2. IsFiniteSet(S)
  BY <1>1, FS_Subset
<1>3. Cardinality(S) \in Nat
  BY <1>2, FS_CardinalityType
<1>4. ASSUME NEW p
      PROVE  Cardinality(S \cup {p}) \in Nat /\ Cardinality(S \cup {p}) <= Cardinality(S) + 1
  <2>1. Cardinality(S \cup {p}) = IF p \in S THEN Cardinality(S) ELSE Cardinality(S) + 1
    BY <1>2, FS_AddElement
  <2> QED
    BY <1>3, <2>1
<1>5. ASSUME NEW p
      PROVE  Cardinality(S \ {p}) \in Nat /\ Cardinality(S \ {p}) <= Cardinality(S)
  <2>1. /\ IsFiniteSet(S \ {p})
        /\ Cardinality(S \ {p}) = IF p \in S THEN Cardinality(S) - 1 ELSE Cardinality(S)
    BY <1>2, FS_RemoveElement
  <2>2. Cardinality(S \ {p}) \in Nat
    BY <2>1, FS_CardinalityType
  <2> QED
    BY <1>3, <2>1, <2>2
<1> QED
  BY ZenonT(30), <1>3, <1>4, <1>5

LEMMA InitRoom == Init => Quiet /\ Room
<1> SUFFICES ASSUME Init PROVE Quiet /\ Room
  OBVIOUS
<1>1. call.kind = "none" /\ Cardinality(entries) = 0 /\ maxPages \in Nat
  BY FS_EmptySet, OrderAssumption DEF Init, NoCall
<1> QED
  BY <1>1 DEF Init, Quiet, Room, WithinOne

LEMMA StepQuiet == OrderInv /\ Quiet /\ [Next]_vars => Quiet'
<1> SUFFICES ASSUME OrderInv, Quiet, [Next]_vars PROVE Quiet'
  OBVIOUS
<1> USE DEF cacheVars, limits, txnVars, Quiet
<1>1. dirty \subseteq entries /\ entries \subseteq PageIds /\ maxPages \in Nat
  BY OrderAssumption DEF OrderInv
<1>2. OverCap => entries # {}
  BY SMTT(30), <1>1, FS_EmptySet DEF OverCap
<1>3. CASE Begin \/ new_page \/ flush \/ discard_all_dirty
  BY SMTT(30), <1>3 DEF Begin, new_page, flush, discard_all_dirty, Enter, Ready, MayEnter, NoCall
<1>4. ASSUME NEW p \in PageIds, get(p) \/ get_mut(p) \/ Miss(p) \/ reissue_page(p)
      PROVE  Quiet'
  BY <1>4 DEF get, get_mut, Miss, reissue_page, Enter, Ready, MayEnter, NoCall
<1>5. ASSUME NEW n, truncate(n) PROVE Quiet'
  BY <1>5 DEF truncate, Ready, NoCall
<1>6. ASSUME NEW n, set_cache_max_bytes(n) \/ set_spillway_max_bytes(n) \/ set_drain_insertion(n)
      PROVE  Quiet'
  BY <1>6 DEF set_cache_max_bytes, set_spillway_max_bytes, set_drain_insertion, Ready, NoCall
<1>7. CASE evict_clean
  BY <1>7 DEF evict_clean, MakingRoom, discard
<1>8. CASE spill
  <2>1. active
    BY SMTT(30), <1>1, <1>2, <1>8 DEF spill, NeedsSpill, Clean
  <2> QED
    BY <1>8, <2>1 DEF spill, NeedsSpill, discard
<1>9. CASE CacheFull \/ SpillwayFull \/ AllocDone \/ LoadFails \/ ResizeDone
  BY <1>9 DEF CacheFull, SpillwayFull, AllocDone, LoadFails, ResizeDone, EndRefused, NoCall
<1>10. CASE load_page
  BY <1>10 DEF load_page, NoCall
<1>11. CASE drain_batch \/ TrimDone \/ FlushEnd
  BY <1>11 DEF drain_batch, TrimDone, FlushEnd, NoCall, OrderInv, Calls
<1>12. ASSUME NEW p \in PageIds, Drain(p) PROVE Quiet'
  BY <1>12 DEF Drain, OrderInv, Calls
<1>13. ASSUME NEW p \in PageIds, Drop(p) PROVE Quiet'
  BY <1>13 DEF Drop, discard
<1>14. CASE Discarded \/ Truncated
  <2>1. CASE Discarded
    <3>1. call'.kind = "truncate"
      BY <2>1 DEF Discarded, OrderInv, Calls
    <3> QED
      BY <2>1, <3>1 DEF Discarded
  <2>2. CASE Truncated
    <3>1. call'.kind = "none" /\ dirty' = dirty
      BY <2>2 DEF Truncated, NoCall
    <3>2. ~active' => dirty = {} /\ spilled' = {}
      BY ZenonT(30), <2>2 DEF Truncated
    <3> QED
      BY <3>1, <3>2
  <2> QED
    BY <1>14, <2>1, <2>2
<1>15. CASE UNCHANGED vars
  BY <1>15 DEF vars
<1> HIDE DEF Quiet
<1> QED
  BY SMTT(30), <1>3, <1>4, <1>5, <1>6, <1>7, <1>8, <1>9, <1>10, <1>11, <1>12, <1>13, <1>14, <1>15
  DEF Next, MakeRoom, FlushStep, DropStep

LEMMA StepRoom == OrderInv /\ Quiet /\ Room /\ [Next]_vars => Room'
<1> SUFFICES ASSUME OrderInv, Quiet, Room, [Next]_vars PROVE Room'
  OBVIOUS
<1> USE DEF cacheVars, limits, txnVars, Room, WithinOne
<1>1. /\ entries \subseteq PageIds /\ maxPages \in Nat /\ refused \in Nat
      /\ Cardinality(entries) \in Nat /\ call \in Calls
  BY OrderAssumption, EntriesCount DEF OrderInv
<1>2. \A p : /\ Cardinality(entries \cup {p}) \in Nat
             /\ Cardinality(entries \cup {p}) <= Cardinality(entries) + 1
  BY ZenonT(30), <1>1, EntriesCount
<1>3. \A p : /\ Cardinality(entries \ {p}) \in Nat
             /\ Cardinality(entries \ {p}) <= Cardinality(entries)
  BY SMTT(30), <1>1, EntriesCount
<1>4. ~OverCap => Cardinality(entries) <= maxPages
  BY <1>1 DEF OverCap
<1>5. dirty = {} /\ Clean = {} => Cardinality(entries) = 0
  BY FS_EmptySet DEF Clean
<1>6. ASSUME NEW p, Enter(p), Ready, UNCHANGED <<maxPages, refused>> PROVE Room'
  <2>1. Cardinality(entries') \in Nat /\ Cardinality(entries') <= Cardinality(entries) + 1
    BY ZenonT(30), <1>2, <1>6 DEF Enter
  <2>2. call'.kind = "alloc" /\ WithinOne
    BY <1>6 DEF Enter, Ready, NoCall
  <2> QED
    BY <1>1, <1>6, <2>1, <2>2
<1>7. ASSUME Ready, UNCHANGED <<entries, maxPages, refused>>, call'.kind # "alloc" PROVE Room'
  BY <1>1, <1>7 DEF Ready, NoCall
<1>8. ASSUME NEW p, discard(p), UNCHANGED <<maxPages, refused, call, work>> PROVE Room'
  BY SMTT(30), <1>1, <1>3, <1>8 DEF discard
<1>9. ASSUME ~OverCap, call' = NoCall, UNCHANGED <<entries, maxPages>>, refused' \in Nat PROVE Room'
  BY <1>1, <1>4, <1>9 DEF NoCall
<1>10. CASE new_page
  BY <1>6, <1>10 DEF new_page, MayEnter
<1>11. ASSUME NEW p, reissue_page(p) PROVE Room'
  BY SMTT(30), <1>6, <1>11 DEF reissue_page, MayEnter
<1>12. CASE Begin \/ flush \/ discard_all_dirty
  BY SMTT(30), <1>7, <1>12 DEF Begin, flush, discard_all_dirty, Ready, NoCall
<1>13. ASSUME NEW p, get(p) \/ get_mut(p) \/ Miss(p) \/ truncate(p) PROVE Room'
  BY <1>7, <1>13 DEF get, get_mut, Miss, truncate, Ready, NoCall
<1>14. ASSUME NEW n, set_cache_max_bytes(n) PROVE Room'
  BY SMTT(30), <1>1, <1>14 DEF set_cache_max_bytes
<1>15. ASSUME NEW n, set_spillway_max_bytes(n) \/ set_drain_insertion(n) PROVE Room'
  BY SMTT(30), <1>7, <1>15 DEF set_spillway_max_bytes, set_drain_insertion, Ready, NoCall
<1>16. CASE evict_clean \/ spill
  BY SMTT(30), <1>8, <1>16 DEF evict_clean, spill
<1>17. CASE CacheFull \/ SpillwayFull
  BY SMTT(30), <1>1, <1>17 DEF CacheFull, SpillwayFull, EndRefused, NeedsSpill, NoCall
<1>18. CASE AllocDone \/ LoadFails
  BY <1>9, <1>18 DEF AllocDone, LoadFails
<1>19. CASE ResizeDone
  <2>1. Cardinality(entries) <= maxPages
    BY <1>1, <1>4, <1>5, <1>19 DEF ResizeDone, Quiet
  <2> QED
    BY <1>1, <1>19, <2>1 DEF ResizeDone, NoCall
<1>20. CASE load_page
  <2>1. Cardinality(entries') \in Nat /\ Cardinality(entries') <= Cardinality(entries) + 1
    BY ZenonT(30), <1>2, <1>20 DEF load_page
  <2>2. call'.kind = "none" /\ refused' = 0 /\ UNCHANGED maxPages
    BY <1>20 DEF load_page, NoCall
  <2>3. Cardinality(entries) <= maxPages
    BY <1>4, <1>20 DEF load_page
  <2> QED
    BY <1>1, <2>1, <2>2, <2>3
<1>21. CASE drain_batch
  BY <1>1, <1>21 DEF drain_batch
<1>22. CASE TrimDone
  <2>1. Cardinality(entries) <= maxPages
    BY <1>1, <1>4, <1>5, <1>22 DEF TrimDone, Quiet
  <2>2. call'.kind = "drain"
    BY SMTT(30), <1>1, <1>22 DEF TrimDone, Calls
  <2> QED
    BY <1>1, <1>22, <2>1, <2>2 DEF TrimDone
<1>23. CASE FlushEnd
  BY <1>1, <1>23 DEF FlushEnd, NoCall
<1>24. ASSUME NEW p \in PageIds, Drain(p) PROVE Room'
  <2>1. call'.kind = IF work' = {} THEN "trim" ELSE "drain"
    BY SMTT(30), <1>1, <1>24 DEF Drain, Calls
  <2> QED
    BY <1>1, <1>24, <2>1 DEF Drain
<1>25. ASSUME NEW p \in PageIds, Drop(p) PROVE Room'
  BY SMTT(30), <1>1, <1>3, <1>25 DEF Drop, discard
<1>26. CASE Discarded
  <2>1. call'.kind = "truncate"
    BY <1>1, <1>26 DEF Discarded, Calls
  <2> QED
    BY <1>1, <1>26, <2>1 DEF Discarded
<1>27. CASE Truncated
  BY <1>1, <1>27 DEF Truncated, Excused, NoCall
<1>28. CASE UNCHANGED vars
  BY <1>28 DEF vars
<1> HIDE DEF Room
<1> QED
  BY SMTT(30), <1>10, <1>11, <1>12, <1>13, <1>14, <1>15, <1>16, <1>17, <1>18, <1>19, <1>20, <1>21,
     <1>22, <1>23, <1>24, <1>25, <1>26, <1>27, <1>28
  DEF Next, MakeRoom, FlushStep, DropStep

\* Between calls the cache is at most one page above max_pages, and one more for
\* each call since that entered a page and found no room, for every number of
\* pages and every limit, also one that is changed between transactions
\* (maybe_evict, load_page, set_cache_max_bytes).
THEOREM CapAlwaysHolds == Spec => []CapHolds
<1>1. OrderInv /\ Quiet /\ Room /\ [Next]_vars => OrderInv' /\ Quiet' /\ Room'
  BY StepOrder, StepQuiet, StepRoom
<1>2. Init => OrderInv /\ Quiet /\ Room
  BY InitOrder, InitRoom
<1>3. Room => CapHolds
  BY DEF Room, WithinOne, CapHolds, NoCall
<1> QED
  BY <1>1, <1>2, <1>3, PTL DEF Spec

-----------------------------------------------------------------------------
(* The iterator, and the victims.                                           *)

\* A set of naturals has a least element: induction, for facts about what the
\* calls of the iterator return.
LEMMA LeastNat ==
    ASSUME NEW T \in SUBSET Nat, T # {}
    PROVE  \E m \in T : \A k \in T : m <= k
<1> DEFINE R == OpToRel(<, Nat)
<1>1. \E m \in T : \A k \in T : ~(<<k, m>> \in R)
  <2> HIDE DEF R
  <2>1. IsWellFoundedOn(R, Nat)
    BY ZenonT(30), NatLessThanWellFounded DEF R
  <2> QED
    BY ZenonT(30), <2>1, WFMin
<1>2. PICK m \in T : \A k \in T : ~(<<k, m>> \in R)
  BY ZenonT(30), <1>1
<1>3. \A k \in T : ~(k < m)
  BY ZenonT(30), <1>2 DEF OpToRel
<1> QED
  BY <1>3

\* The iterator returns the queue from its end, then nothing.
LEMMA IteratorIs ==
    ASSUME NEW S, Nil \notin S, NEW q \in Seq(S), NEW l, Represents(l, q)
    PROVE  \A k \in Nat : iter_lru_to_mru(l)[k] =
              IF k < Len(q) THEN q[Len(q) - k] ELSE Nil
<1> DEFINE body(f, k) == IF k = 0 THEN l.tail
                         ELSE IF contains(l, f[k - 1]) THEN l.nodes[f[k - 1]].prev ELSE Nil
           w == [k \in Nat |-> IF k < Len(q) THEN q[Len(q) - k] ELSE Nil]
           it == iter_lru_to_mru(l)
<1>1. it = CHOOSE f : f = [k \in Nat |-> body(f, k)]
  BY DEF iter_lru_to_mru
<1>2. /\ Len(q) \in Nat /\ \A k \in 1..Len(q) : q[k] \in S
      /\ l.tail = IF Len(q) = 0 THEN Nil ELSE q[Len(q)]
      /\ \A k \in 1..Len(q) : contains(l, q[k]) /\ l.nodes[q[k]] = NodeOf(q, k)
      /\ ~contains(l, Nil)
  BY DEF Represents, Linked, contains
<1>3. \A k \in 1..Len(q) : l.nodes[q[k]].prev = IF k = 1 THEN Nil ELSE q[k - 1]
  <2> SUFFICES ASSUME NEW k \in 1..Len(q)
               PROVE  l.nodes[q[k]].prev = IF k = 1 THEN Nil ELSE q[k - 1]
    OBVIOUS
  <2>1. l.nodes[q[k]] = NodeOf(q, k)
    BY SMTT(30), <1>2
  <2> QED
    BY <2>1 DEF NodeOf, Node
<1>4. \A k \in Nat : w[k] = body(w, k)
  <2>1. ASSUME NEW k \in Nat, k = 0 PROVE w[k] = l.tail
    BY SMTT(30), <1>2, <2>1
  <2>2. ASSUME NEW k \in Nat, k # 0, k - 1 < Len(q)
        PROVE  w[k] = l.nodes[w[k - 1]].prev /\ contains(l, w[k - 1])
    <3>1. k - 1 \in Nat /\ Len(q) - (k - 1) \in 1..Len(q)
      BY <1>2, <2>2
    <3>2. w[k - 1] = q[Len(q) - (k - 1)]
      BY <2>2, <3>1
    <3>3. l.nodes[w[k - 1]].prev = IF Len(q) - (k - 1) = 1 THEN Nil ELSE q[Len(q) - k]
      <4>1. (Len(q) - (k - 1)) - 1 = Len(q) - k
        BY <1>2, <2>2
      <4> QED
        BY <1>3, <3>1, <3>2, <4>1
    <3> QED
      BY SMTT(30), <1>2, <2>2, <3>1, <3>2, <3>3
  <2>3. ASSUME NEW k \in Nat, k # 0, ~(k - 1 < Len(q))
        PROVE  w[k] = Nil /\ w[k - 1] = Nil
    BY <1>2, <2>3
  <2> HIDE DEF w
  <2> QED
    BY <1>2, <2>1, <2>2, <2>3
<1>5. w = [k \in Nat |-> body(w, k)]
  <2> HIDE DEF body
  <2> QED
    BY <1>4
<1>6. it = [k \in Nat |-> body(it, k)]
  <2> HIDE DEF body, w, it
  <2> QED
    BY <1>1, <1>5
<1> DEFINE T == {k \in Nat : it[k] # w[k]}
<1>7. T = {}
  <2>1. SUFFICES ASSUME T # {} PROVE FALSE
    OBVIOUS
  <2>2. PICK m \in T : \A k \in T : m <= k
    <3>1. T \in SUBSET Nat
      OBVIOUS
    <3> HIDE DEF T
    <3> QED
      BY <2>1, <3>1, LeastNat
  <2> HIDE DEF w, it
  <2>3. m \in Nat /\ it[m] = body(it, m) /\ w[m] = body(w, m)
    <3> HIDE DEF body
    <3> QED
      BY <1>4, <1>6
  <2>4. m # 0 => m - 1 \in Nat /\ it[m - 1] = w[m - 1]
    BY SMTT(30), <2>2, <2>3
  <2>5. it[m] = w[m]
    BY SMTT(30), <2>3, <2>4
  <2> QED
    BY <2>2, <2>5
<1>8. \A k \in Nat : it[k] = w[k]
  <2> HIDE DEF it, w
  <2> QED
    BY <1>7
<1> QED
  BY <1>8

\* The page that find returns stands behind every other page of the set.
LEMMA FindsOldest ==
    ASSUME NEW S, Nil \notin S, NEW q \in Seq(S), NEW l, Represents(l, q),
           NEW C \in SUBSET S, NEW p, find(l, C, p),
           NEW c \in C \ {p}, c \in DOMAIN l.nodes
    PROVE  IndexOf(q, c) < IndexOf(q, p)
<1> DEFINE it == iter_lru_to_mru(l)
<1>1. PICK k \in 0..Cardinality(DOMAIN l.nodes) :
         it[k] = p /\ \A j \in 0..(k - 1) : it[j] \notin C
  BY DEF find
<1>2. p \in C /\ p # Nil
  BY DEF find
<1>3. Len(q) \in Nat /\ Injective(q)
  BY DEF Represents, Linked, Injective
<1>4. PICK n \in 1..Len(q) : q[n] = c
  BY DEF Represents
<1>5. k \in Nat
  OBVIOUS
<1>6. \A j \in Nat : it[j] = IF j < Len(q) THEN q[Len(q) - j] ELSE Nil
  BY SMTT(30), IteratorIs
<1> HIDE DEF it
<1>7. k < Len(q) /\ p = q[Len(q) - k]
  BY SMTT(30), <1>1, <1>2, <1>5, <1>6
<1>8. Len(q) - k \in 1..Len(q)
  BY <1>3, <1>5, <1>7
<1>9. ~(n > Len(q) - k)
  <2>1. SUFFICES ASSUME n > Len(q) - k PROVE FALSE
    OBVIOUS
  <2>2. Len(q) - n \in 0..(k - 1) /\ Len(q) - n \in Nat /\ Len(q) - n < Len(q)
    BY SMTT(30), <1>3, <1>5, <2>1
  <2>3. it[Len(q) - n] = q[Len(q) - (Len(q) - n)]
    BY <1>6, <2>2
  <2>4. Len(q) - (Len(q) - n) = n
    BY <1>3
  <2> QED
    BY <1>1, <1>4, <2>2, <2>3, <2>4
<1>10. n # Len(q) - k
  BY SMTT(30), <1>4, <1>7
<1>11. IndexOf(q, c) = n /\ IndexOf(q, p) = Len(q) - k
  BY SMTT(30), <1>3, <1>4, <1>7, <1>8, IndexOfIs
<1> QED
  BY SMTT(30), <1>3, <1>5, <1>9, <1>10, <1>11

\* The last page of the queue stands behind every other.
LEMMA TailIsOldest ==
    ASSUME NEW S, NEW q \in Seq(S), NEW l, Represents(l, q), Len(q) # 0,
           NEW c \in DOMAIN l.nodes, c # q[Len(q)]
    PROVE  IndexOf(q, c) < IndexOf(q, q[Len(q)])
<1>1. Len(q) \in Nat /\ Injective(q)
  BY DEF Represents, Linked, Injective
<1>2. PICK n \in 1..Len(q) : q[n] = c
  BY DEF Represents
<1>3. IndexOf(q, c) = n /\ IndexOf(q, q[Len(q)]) = Len(q)
  BY <1>1, <1>2, IndexOfIs
<1> QED
  BY <1>1, <1>2, <1>3

\* What a step that makes room may drop.
VictimStep ==
    MakingRoom => \A p \in entries \ entries' :
        /\ p \in dirty => Clean = {}
        /\ \A q \in entries \ {p} :
              (p \in dirty \/ q \in Clean) => Age(q) < Age(p)

LEMMA StepVictim == OrderInv /\ [Next]_vars => VictimStep
<1> SUFFICES ASSUME OrderInv, [Next]_vars PROVE VictimStep
  OBVIOUS
<1> USE DEF cacheVars
<1>1. /\ queue \in Seq(PageIds) /\ Represents(lru, queue) /\ DOMAIN lru.nodes = entries
      /\ entries \subseteq PageIds /\ Shape
  BY DEF OrderInv, Shape, IndexIsQueue, IndexTracksEntries
<1>2. ASSUME entries \subseteq entries' \/ ~MakingRoom PROVE VictimStep
  BY <1>2 DEF VictimStep
<1>3. CASE evict_clean
  <2>1. PICK p \in Clean : find(lru, Clean, p) /\ entries' = entries \ {p}
    BY <1>3 DEF evict_clean, discard
  <2>2. ASSUME NEW q \in Clean \ {p} PROVE Age(q) < Age(p)
    <3>1. Clean \in SUBSET PageIds /\ q \in DOMAIN lru.nodes
      BY <1>1 DEF Clean
    <3> QED
      BY <1>1, <2>1, <3>1, FindsOldest, NilIsNoPage DEF Age
  <2> QED
    BY <2>1, <2>2 DEF VictimStep, Clean
<1>4. CASE spill
  <2>1. Clean = {} /\ lru.tail # Nil /\ entries' = entries \ {lru.tail}
    BY <1>4 DEF spill, NeedsSpill, discard
  <2>2. Len(queue) # 0 /\ lru.tail = queue[Len(queue)]
    BY SMTT(30), <1>1, <2>1, TailIsPage
  <2>3. ASSUME NEW q \in entries \ {lru.tail} PROVE Age(q) < Age(lru.tail)
    BY SMTT(30), <1>1, <2>2, TailIsOldest DEF Age
  <2> QED
    BY <2>1, <2>3 DEF VictimStep
<1>5. CASE Begin \/ new_page \/ flush \/ discard_all_dirty
  BY SMTT(30), <1>2, <1>5 DEF Begin, new_page, flush, discard_all_dirty, Enter
<1>6. ASSUME NEW p, get(p) \/ get_mut(p) \/ Miss(p) \/ reissue_page(p) \/ truncate(p)
      PROVE  VictimStep
  BY SMTT(30), <1>2, <1>6 DEF get, get_mut, Miss, reissue_page, truncate, Enter
<1>7. ASSUME NEW n, set_cache_max_bytes(n) \/ set_spillway_max_bytes(n) \/ set_drain_insertion(n)
      PROVE  VictimStep
  BY SMTT(30), <1>2, <1>7 DEF set_cache_max_bytes, set_spillway_max_bytes, set_drain_insertion
<1>8. CASE CacheFull \/ SpillwayFull \/ AllocDone \/ load_page \/ LoadFails \/ ResizeDone
  BY <1>2, <1>8 DEF CacheFull, SpillwayFull, AllocDone, load_page, LoadFails, ResizeDone
<1>9. ASSUME drain_batch \/ TrimDone \/ FlushEnd \/ \E p \in PageIds : Drain(p)
      PROVE  VictimStep
  BY <1>2, <1>9 DEF drain_batch, TrimDone, FlushEnd, Drain
<1>10. ASSUME Discarded \/ Truncated \/ \E p \in PageIds : Drop(p)
       PROVE  VictimStep
  BY <1>2, <1>10 DEF Discarded, Truncated, Drop, MakingRoom
<1>11. CASE UNCHANGED vars
  BY <1>2, <1>11 DEF vars
<1> QED
  BY SMTT(30), <1>3, <1>4, <1>5, <1>6, <1>7, <1>8, <1>9, <1>10, <1>11
  DEF Next, MakeRoom, FlushStep, DropStep

\* The victim of evict_clean_to_cap has been unused longer than any other clean
\* page, that of maybe_evict longer than any page, in a cache of any size and with
\* any history: the iterator over the linked index is the queue read from its end.
THEOREM VictimAlwaysOldest == Spec => VictimOldest
<1>1. Spec => []OrderInv
  BY InitOrder, StepOrder, PTL DEF Spec
<1>2. OrderInv /\ [Next]_vars => [VictimStep]_vars
  BY StepVictim
<1>3. Spec => [][VictimStep]_vars
  BY <1>1, <1>2, PTL DEF Spec
<1> QED
  BY <1>3 DEF VictimOldest, VictimStep
=============================================================================
