-------------------------------- MODULE RBTree --------------------------------
(***************************************************************************)
(* RBTreeMap (library/try_alloc/src/collection/rbtree/map.rs and node.rs): *)
(* nodes with parent, two kids and a colour, and one NIL node that is a    *)
(* real node: it has a parent field, and delete_fixup reads it.  A node is *)
(* named by its key; try_insert and remove own their nodes, so one that    *)
(* leaves the tree is freed and a pointer that still names it is Gone.    *)
(* The left and right halves of the fixups are one, for a side s.          *)
(***************************************************************************)
EXTENDS Integers, FiniteSets

CONSTANT Keys   \* a set of positive numbers

NIL == 0
Gone == -1
Nodes == Keys \cup {NIL}
Other(s) == IF s = "left" THEN "right" ELSE "left"

VARIABLES
    tree,     \* root, and per node parent, kid[side] and color; st: how the last operation ended
    stored,   \* ghost: the keys inserted and not removed
    astray    \* ghost: a fixup started at NIL while NIL's parent was not the place it stands for

treeVars == <<tree, stored, astray>>

(* RBNode::new_nil: NIL is black and points at itself.                     *)
NewTree ==
    [root |-> NIL, st |-> "ok",
     p |-> [n \in Nodes |-> NIL], color |-> [n \in Nodes |-> "black"],
     kid |-> [s \in {"left", "right"} |-> [n \in Nodes |-> NIL]]]
treeInit == tree = NewTree /\ stored = {} /\ astray = FALSE

Paint(t, n, c) == [t EXCEPT !.color[n] = c]
SideOf(t, x) == IF t.kid["left"][t.p[x]] = x THEN "left" ELSE "right"

(* y takes the place of x below x's parent.                                *)
Hang(t, x, y) ==
    IF t.p[x] = NIL THEN [t EXCEPT !.root = y] ELSE [t EXCEPT !.kid[SideOf(t, x)][t.p[x]] = y]

\* Variant: the subtree that changes sides keeps its parent
rotate_orphan(t, x, s) ==
    LET o == Other(s)  y == t.kid[o][x]  b == t.kid[s][y]
        h == Hang(t, x, y)
    IN  IF x = NIL \/ y = NIL THEN [t EXCEPT !.st = "panic"]
        ELSE [h EXCEPT !.kid[o][x] = b, !.kid[s][y] = x, !.p = [@ EXCEPT ![y] = t.p[x], ![x] = y]]
(* rotate_left (s = "left") and rotate_right: x goes down on side s.       *)
rotate(t, x, s) ==
    LET o == Other(s)  y == t.kid[o][x]  b == t.kid[s][y]
        h == Hang(t, x, y)
    IN  IF x = NIL \/ y = NIL THEN [t EXCEPT !.st = "panic"]
        ELSE [h EXCEPT !.kid[o][x] = b, !.kid[s][y] = x,
                       !.p = [@ EXCEPT ![b] = IF b = NIL THEN @ ELSE x, ![y] = t.p[x], ![x] = y]]

RECURSIVE Descend(_, _, _)
(* The walk of find and insert: the last node before the place of k, or k. *)
Descend(t, x, k) ==
    LET n == t.kid[IF k < x THEN "left" ELSE "right"][x]
    IN  IF x = k \/ n = NIL THEN x ELSE Descend(t, n, k)
PlaceOf(t, k) == IF t.root = NIL THEN NIL ELSE Descend(t, t.root, k)
find(t, k) == IF PlaceOf(t, k) = k THEN k ELSE NIL

RECURSIVE insert_fixup(_, _)
insert_fixup(t, z) ==
    LET p == t.p[z]  g == t.p[p]
        s == SideOf(t, p)  o == Other(s)
        uncle == t.kid[o][g]
        inner == z = t.kid[o][p]
        t1 == IF inner THEN rotate(t, p, s) ELSE t
        z1 == IF inner THEN p ELSE z
        p1 == t1.p[z1]
        t2 == Paint(Paint(t1, p1, "black"), t1.p[p1], "red")
    IN  IF t.color[p] # "red" THEN Paint(t, t.root, "black")
        ELSE IF t.color[uncle] = "red"
        THEN insert_fixup(Paint(Paint(Paint(t, p, "black"), uncle, "black"), g, "red"), g)
        ELSE insert_fixup(rotate(t2, t2.p[p1], o), z1)

(* replace: the new node takes every link of the old one, which is freed.  *)
replace(t, k) == [t EXCEPT !.p[NIL] = IF @ = k THEN Gone ELSE @]

insert(t, k) ==
    LET y == PlaceOf(t, k)
        t1 == IF y = NIL THEN [t EXCEPT !.root = k] ELSE [t EXCEPT !.kid[IF k < y THEN "left" ELSE "right"][y] = k]
        t2 == [t1 EXCEPT !.p[k] = y, !.kid["left"][k] = NIL, !.kid["right"][k] = NIL, !.color[k] = "red"]
    IN  IF y = k /\ k # NIL THEN replace(t, k) ELSE insert_fixup(t2, k)

(* u leaves its place to v; NIL does not learn its new parent.             *)
transplant(t, u, v) ==
    [Hang(t, u, v) EXCEPT !.p = [@ EXCEPT ![v] = IF v = NIL THEN @ ELSE t.p[u], ![u] = NIL]]

RECURSIVE tree_minimum(_, _)
tree_minimum(t, n) == IF t.kid["left"][n] = NIL THEN n ELSE tree_minimum(t, t.kid["left"][n])

RECURSIVE delete_fixup(_, _, _)
(* The cases 1 to 4 of the source, with x on side s of its parent; fuel    *)
(* runs out when the loop does not end.                                    *)
delete_fixup(t, x, fuel) ==
    LET p == t.p[x]
        s == SideOf(t, x)  o == Other(s)
        y0 == t.kid[o][p]
        red == t.color[y0] = "red"
        t1 == IF red THEN rotate(Paint(Paint(t, y0, t.color[p]), p, "red"), p, s) ELSE t
        y1 == IF red THEN t1.kid[o][t1.p[x]] ELSE y0
        near == t1.color[t1.kid[s][y1]]  far == t1.color[t1.kid[o][y1]]
        up == Paint(t1, y1, "red")
        turn == near = "red" /\ far = "black"
        t3 == IF turn THEN rotate(Paint(Paint(t1, y1, "red"), t1.kid[s][y1], "black"), y1, o) ELSE t1
        y3 == IF turn THEN t3.kid[o][t3.p[x]] ELSE y1
        q == t3.p[x]
        t4 == Paint(Paint(Paint(t3, y3, t3.color[q]), q, "black"), t3.kid[o][y3], "black")
        done == rotate(t4, q, s)
    IN  IF x = t.root THEN Paint(t, t.root, "black")
        ELSE IF fuel = 0 THEN [t EXCEPT !.st = "spins"]
        ELSE IF p = Gone THEN [t EXCEPT !.st = "wild"]
        ELSE IF t.color[x] # "black" \/ t1.st # "ok" \/ t3.st # "ok" THEN [t EXCEPT !.st = "panic"]
        ELSE IF near = "black" /\ far = "black"
        THEN IF up.color[up.p[x]] = "red"
             THEN Paint(Paint(up, up.p[x], "black"), up.root, "black")
             ELSE delete_fixup(up, up.p[x], fuel - 1)
        ELSE Paint(done, done.root, "black")

(* What is left to rebalance: node x, and the node that is really above it.*)
Spliced(t, z) ==
    LET l == t.kid["left"][z]  r == t.kid["right"][z]
        y == tree_minimum(t, r)  x == t.kid["right"][y]
        t1 == IF t.p[y] = z THEN [t EXCEPT !.p[x] = y]
              ELSE LET a == transplant(t, y, x) IN [a EXCEPT !.kid["right"][y] = r, !.p[r] = y]
        t2 == transplant(t1, z, y)
    IN  IF l = NIL THEN [t |-> transplant(t, z, r), x |-> r, above |-> t.p[z], color |-> t.color[z]]
        ELSE IF r = NIL THEN [t |-> transplant(t, z, l), x |-> l, above |-> t.p[z], color |-> t.color[z]]
        ELSE [t |-> [t2 EXCEPT !.kid["left"][y] = l, !.p[l] = y, !.color[y] = t.color[z]],
              x |-> x, above |-> IF t.p[y] = z THEN y ELSE t.p[y], color |-> t.color[y]]

Fixes(d) == d.color = "black" /\ d.t.color[d.x] = "black"
Misled(d) == Fixes(d) /\ d.x # d.t.root /\ d.t.p[d.x] # d.above

delete(t, z) ==
    LET d == Spliced(t, z)
    IN  IF Fixes(d) THEN delete_fixup(d.t, d.x, 2 * Cardinality(Nodes))
        ELSE IF d.color = "black" THEN Paint(d.t, d.x, "black") ELSE d.t

(* The node's memory goes back; its fields are no one's any more.          *)
unbox_value(t, z) ==
    [t EXCEPT !.p[z] = NIL, !.kid["left"][z] = NIL, !.kid["right"][z] = NIL, !.color[z] = "black",
              !.p[NIL] = IF @ = z THEN Gone ELSE @]

(* After a fixup that went astray the tree is not used any further.        *)
try_insert(k) ==
    /\ ~astray
    /\ tree' = insert(tree, k)
    /\ stored' = stored \cup {k} /\ UNCHANGED astray

remove(k) ==
    /\ ~astray /\ find(tree, k) = k
    /\ tree' = unbox_value(delete(tree, k), k)
    /\ stored' = stored \ {k} /\ astray' = Misled(Spliced(tree, k))

treeNext == \E k \in Keys : try_insert(k) \/ remove(k)

-----------------------------------------------------------------------------
RECURSIVE BlackHeight(_, _)
(* The number of black nodes on every way down from n; -1 if it differs.   *)
BlackHeight(t, n) ==
    LET h == BlackHeight(t, t.kid["left"][n])
    IN  IF n = NIL THEN 0
        ELSE IF h = -1 \/ h # BlackHeight(t, t.kid["right"][n]) THEN -1
        ELSE h + (IF t.color[n] = "black" THEN 1 ELSE 0)

(* The five rules of the type's documentation, and parents that undo kids. *)
Balanced(t) ==
    /\ t.color[t.root] = "black" /\ t.color[NIL] = "black"
    /\ \A n \in Keys, s \in {"left", "right"} :
          LET m == t.kid[s][n] IN
          m # NIL => /\ t.p[m] = n
                     /\ IF s = "left" THEN m < n ELSE n < m
                     /\ ~(t.color[n] = "red" /\ t.color[m] = "red")
    /\ BlackHeight(t, t.root) # -1

(* As long as NIL's parent was right whenever a fixup started at NIL, the  *)
(* tree obeys the five rules of its documentation, and find finds the keys *)
(* that were inserted and not removed, and no others.                      *)
BalancedUnlessAstray ==
    ~astray => /\ tree.st = "ok" /\ Balanced(tree)
               /\ {k \in Keys : find(tree, k) = k} = stored
==============================================================================
