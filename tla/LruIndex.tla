------------------------------ MODULE LruIndex ------------------------------
(***************************************************************************)
(* The LRU index of the page cache (src/src/lru.rs): a doubly linked list  *)
(* over page ids kept as a map from an id to its two neighbours, with the  *)
(* two ends cached.  Beside it, the queue it replaced (a deque from which  *)
(* an id was filtered out and pushed back), and what it means for the one  *)
(* to represent the other.                                                 *)
(***************************************************************************)
EXTENDS Integers, Sequences, FiniteSets

Nil == 0    \* no neighbour, no end: page 0 is a superblock and never cached
Node(p, n) == [prev |-> p, next |-> n]
EmptyIndex == [head |-> Nil, tail |-> Nil, nodes |-> [i \in {} |-> Node(Nil, Nil)]]

contains(l, id) == id \in DOMAIN l.nodes

\* A variant that the runs must reject: the tail is not moved back.
UnlinkKeepsTail(l, id) ==
    LET node == l.nodes[id] IN
    [head |-> IF node.prev = Nil THEN node.next ELSE l.head,
     tail |-> l.tail,
     nodes |-> [i \in DOMAIN l.nodes |->
                  Node(IF i = node.next THEN node.prev ELSE l.nodes[i].prev,
                       IF i = node.prev THEN node.next ELSE l.nodes[i].next)]]

\* Patches both neighbours and the ends; the node itself stays in the map.
unlink(l, id) ==
    LET node == l.nodes[id] IN
    [head |-> IF node.prev = Nil THEN node.next ELSE l.head,
     tail |-> IF node.next = Nil THEN node.prev ELSE l.tail,
     nodes |-> [i \in DOMAIN l.nodes |->
                  Node(IF i = node.next THEN node.prev ELSE l.nodes[i].prev,
                       IF i = node.prev THEN node.next ELSE l.nodes[i].next)]]

Detached(l, id) == IF contains(l, id) THEN unlink(l, id) ELSE l

LinkFront(l, id) ==
    [head |-> id,
     tail |-> IF l.head = Nil THEN id ELSE l.tail,
     nodes |-> [i \in DOMAIN l.nodes \cup {id} |->
                  IF i = id THEN Node(Nil, l.head)
                  ELSE Node(IF i = l.head THEN id ELSE l.nodes[i].prev,
                            l.nodes[i].next)]]

LinkBack(l, id) ==
    [head |-> IF l.tail = Nil THEN id ELSE l.head,
     tail |-> id,
     nodes |-> [i \in DOMAIN l.nodes \cup {id} |->
                  IF i = id THEN Node(l.tail, Nil)
                  ELSE Node(l.nodes[i].prev,
                            IF i = l.tail THEN id ELSE l.nodes[i].next)]]

Forgotten(l, id) ==
    [head |-> l.head, tail |-> l.tail,
     nodes |-> [i \in DOMAIN l.nodes \ {id} |-> l.nodes[i]]]

push_front(l, id) == LinkFront(Detached(l, id), id)
push_back(l, id) == LinkBack(Detached(l, id), id)
remove(l, id) == IF contains(l, id) THEN Forgotten(unlink(l, id), id) ELSE l

\* The iterator, from the LRU end: what its k-th call returns.
iter_lru_to_mru(l) ==
    LET item[k \in Nat] ==
            IF k = 0 THEN l.tail
            ELSE IF contains(l, item[k - 1]) THEN l.nodes[item[k - 1]].prev ELSE Nil
    IN  item

\* p is the first item of the iterator that is in S.
find(l, S, p) ==
    /\ p \in S
    /\ \E k \in 0..Cardinality(DOMAIN l.nodes) :
          /\ iter_lru_to_mru(l)[k] = p
          /\ \A j \in 0..(k - 1) : iter_lru_to_mru(l)[j] \notin S

-----------------------------------------------------------------------------
(* The queue the index replaced, most recently used id first.               *)

IndexOf(q, id) == CHOOSE k \in 1..Len(q) : q[k] = id
Queued(q, id) == \E k \in 1..Len(q) : q[k] = id

Without(q, id) ==
    IF Queued(q, id)
    THEN [i \in 1..(Len(q) - 1) |-> IF i < IndexOf(q, id) THEN q[i] ELSE q[i + 1]]
    ELSE q
InFront(q, id) == [i \in 1..(Len(q) + 1) |-> IF i = 1 THEN id ELSE q[i - 1]]
AtBack(q, id) == [i \in 1..(Len(q) + 1) |-> IF i = Len(q) + 1 THEN id ELSE q[i]]

\* The neighbours of the k-th id of a queue.
NodeOf(q, k) == Node(IF k = 1 THEN Nil ELSE q[k - 1],
                     IF k = Len(q) THEN Nil ELSE q[k + 1])

\* The links of l are those of the queue q; l may hold a detached node too.
Linked(l, q) ==
    /\ \A i, j \in 1..Len(q) : q[i] = q[j] => i = j
    /\ l.head = IF Len(q) = 0 THEN Nil ELSE q[1]
    /\ l.tail = IF Len(q) = 0 THEN Nil ELSE q[Len(q)]
    /\ \A k \in 1..Len(q) : contains(l, q[k]) /\ l.nodes[q[k]] = NodeOf(q, k)

\* l is the queue q.
Represents(l, q) ==
    /\ Linked(l, q)
    /\ DOMAIN l.nodes = {q[k] : k \in 1..Len(q)}
=============================================================================
