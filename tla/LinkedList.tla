------------------------------ MODULE LinkedList ------------------------------
(***************************************************************************)
(* IntrusiveLinkedList                                                     *)
(* (library/try_alloc/src/collection/linked/intrusive.rs): a doubly linked *)
(* list over nodes that belong to the caller.  As its Safety notes ask, a  *)
(* node is pushed only while it is in no list; any node may be given to    *)
(* remove_raw.                                                             *)
(***************************************************************************)
EXTENDS Integers, Sequences

CONSTANTS LNodes,      \* the caller's nodes
          Dangling     \* the address that names no node

ASSUME ListAssumption == Dangling \notin LNodes

VARIABLES list,    \* head, tail, len
          node,    \* prev and next of each node
          order    \* ghost: the nodes the calls have left in the list, front to back

listVars == <<list, node, order>>

NewNode == [prev |-> Dangling, next |-> Dangling]
listInit ==
    /\ list = [head |-> Dangling, tail |-> Dangling, len |-> 0]
    /\ node = [n \in LNodes |-> NewNode] /\ order = <<>>

Members == {order[i] : i \in 1..Len(order)}

push_front_raw(n) ==
    /\ n \notin Members /\ node[n] = NewNode /\ order' = <<n>> \o order
    /\ IF list.head = Dangling
       THEN list' = [head |-> n, tail |-> n, len |-> list.len + 1] /\ UNCHANGED node
       ELSE /\ node' = [node EXCEPT ![n].next = list.head, ![list.head].prev = n]
            /\ list' = [list EXCEPT !.head = n, !.len = @ + 1]

push_back_raw(n) ==
    /\ n \notin Members /\ node[n] = NewNode /\ order' = Append(order, n)
    /\ IF list.head = Dangling
       THEN list' = [head |-> n, tail |-> n, len |-> list.len + 1] /\ UNCHANGED node
       ELSE /\ node' = [node EXCEPT ![n].prev = list.tail, ![list.tail].next = n]
            /\ list' = [list EXCEPT !.tail = n, !.len = @ + 1]

pop_front_raw ==
    LET n == list.head  h == node[n].next IN
    /\ n # Dangling /\ order' = Tail(order)
    /\ list' = [head |-> h, tail |-> IF h = Dangling THEN Dangling ELSE list.tail, len |-> list.len - 1]
    /\ node' = [m \in LNodes |-> IF m = n THEN NewNode
                                 ELSE IF m = h THEN [node[m] EXCEPT !.prev = Dangling] ELSE node[m]]

pop_back_raw ==
    LET n == list.tail  t == node[n].prev IN
    /\ list.head # Dangling /\ order' = SubSeq(order, 1, Len(order) - 1)
    /\ list' = [head |-> IF t = Dangling THEN Dangling ELSE list.head, tail |-> t, len |-> list.len - 1]
    /\ node' = [m \in LNodes |-> IF m = n THEN NewNode
                                 ELSE IF m = t THEN [node[m] EXCEPT !.next = Dangling] ELSE node[m]]

(* The walk from the head on meets n: n is in every set that holds the     *)
(* head and the successor of each of its nodes.                            *)
Met(n) ==
    \A S \in SUBSET LNodes :
        /\ list.head # Dangling => list.head \in S
        /\ \A m \in S : node[m].next # Dangling => node[m].next \in S
        => n \in S

(* The calls' order once n is out of it.                                   *)
Without(n) ==
    LET k == CHOOSE i \in 1..Len(order) : order[i] = n
    IN  [i \in 1..(Len(order) - 1) |-> order[IF i < k THEN i ELSE i + 1]]

\* Variant: a removed tail stays the tail
remove_raw_head(n) ==
    LET p == node[n].prev  x == node[n].next IN
    /\ Met(n) /\ order' = Without(n)
    /\ list' = [list EXCEPT !.head = IF @ = n THEN x ELSE @, !.len = @ - 1]
    /\ node' = [m \in LNodes |-> IF m = n THEN NewNode
                                 ELSE [prev |-> IF m = x THEN p ELSE node[m].prev,
                                       next |-> IF m = p THEN x ELSE node[m].next]]
(* A node the walk does not meet is left alone, with answer false.         *)
remove_raw(n) ==
    LET p == node[n].prev  x == node[n].next IN
    /\ Met(n) /\ order' = Without(n)
    /\ list' = [head |-> IF list.head = n THEN x ELSE list.head,
                tail |-> IF list.tail = n THEN p ELSE list.tail, len |-> list.len - 1]
    /\ node' = [m \in LNodes |-> IF m = n THEN NewNode
                                 ELSE [prev |-> IF m = x THEN p ELSE node[m].prev,
                                       next |-> IF m = p THEN x ELSE node[m].next]]

listNext ==
    \/ \E n \in LNodes : push_front_raw(n) \/ push_back_raw(n) \/ remove_raw(n)
    \/ pop_front_raw \/ pop_back_raw

listSpec == listInit /\ [][listNext]_listVars

-----------------------------------------------------------------------------
(* Who stands at place i of the calls' order.                              *)
Place(i) == IF i \in 1..Len(order) THEN order[i] ELSE Dangling

(* The links are those of the sequence the calls should have left: head,   *)
(* tail and length, the neighbours of every node forwards and backwards,   *)
(* and no link left in a node that is out.  So a walk meets the nodes that *)
(* are in, and no other.                                                   *)
LinksFollowCalls ==
    /\ list = [head |-> Place(1), tail |-> Place(Len(order)), len |-> Len(order)]
    /\ \A i \in 1..Len(order) : node[order[i]] = [prev |-> Place(i - 1), next |-> Place(i + 1)]
    /\ \A n \in LNodes \ Members : node[n] = NewNode
    /\ {n \in LNodes : Met(n)} = Members
==============================================================================
