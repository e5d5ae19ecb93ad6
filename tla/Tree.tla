-------------------------------- MODULE Tree --------------------------------
(***************************************************************************)
(* The trees of connections (vv-tree.c with TREE_PTHREAD): a treap that is *)
(* never changed in place.  The engine thread clones the nodes on its path *)
(* and publishes a new root; threads of other classes take the root through *)
(* a hazard pointer (get_ptr_multithread_copy of mp-queue.c), walk it at   *)
(* leisure and drop it.  Nodes are counted and shared between versions; an *)
(* old root some thread is about to count goes to the free-later queue     *)
(* (net-connections.c).                                                    *)
(***************************************************************************)
EXTENDS Integers, Sequences, FiniteSets, FiniteSetsExt

CONSTANTS
  Nodes,      \* addresses of the allocator, a set of positive integers
  Keys,       \* the X values: connections, ordered by address
  Prios,      \* the Y values lrand48_j may give
  Readers,    \* threads that are not the engine's
  MaxUpdates, \* bound on the updates of the tree
  MaxReads    \* bound on the snapshots a reader takes

VARIABLES
  heap,       \* [n |-> Nodes -> node or Freed, obj |-> Keys -> j_refcnt held by nodes]
  root,       \* the published pointer, S->conn_tree
  keys,       \* what the tree holds (history)
  writer,     \* the engine thread: pc, the old root it holds, the new root
  reader,     \* reader -> pc, R, the contents it saw when it took R (history)
  hptr,       \* reader -> its mqb_hazard_ptr[.][COMMON_HAZARD_PTR_NUM]
  later,      \* free_later_queue
  updates

vars == <<heap, root, keys, writer, reader, hptr, later, updates>>

NULL == 0
Freed == [refcnt |-> -1]

-----------------------------------------------------------------------------
\* Each operator on the heap returns the heap and the pointers it computes.
tree_alloc(H, x, y) ==
  LET t == Min({i \in Nodes : H.n[i] = Freed})
  IN [h |-> [H EXCEPT !.n[t] = [left |-> NULL, right |-> NULL, x |-> x, y |-> y, refcnt |-> 1]], t |-> t]

Incref(H, t) == IF t = NULL THEN H ELSE [H EXCEPT !.n[t].refcnt = @ + 1]

\* The last reference frees the node, its references to its children and, by
\* TREE_DECREF, the one to its connection.
RECURSIVE tree_free(_, _)
tree_free(H, t) ==
  IF t = NULL THEN H
  ELSE LET T == H.n[t] IN
       IF T.refcnt > 1 THEN [H EXCEPT !.n[t].refcnt = @ - 1]
       ELSE LET K == tree_free(tree_free(H, T.left), T.right)
            IN [K EXCEPT !.n[t] = Freed, !.obj[T.x] = @ - 1]

\* A copy of node t that shares its children; the reference to t is dropped.
tree_clone(H, t) ==
  LET a == tree_alloc([H EXCEPT !.obj[H.n[t].x] = @ + 1], H.n[t].x, H.n[t].y)
      K == [a.h EXCEPT !.n[a.t].left = H.n[t].left, !.n[a.t].right = H.n[t].right]
  IN [h |-> tree_free(Incref(Incref(K, H.n[t].left), H.n[t].right), t), t |-> a.t]

RECURSIVE tree_split(_, _, _)
tree_split(H, t, x) ==
  IF t = NULL THEN [h |-> H, l |-> NULL, r |-> NULL]
  ELSE LET c == tree_clone(H, t)
           T == c.h.n[c.t]
       IN IF x < T.x
          THEN LET s == tree_split(c.h, T.left, x)
               IN [h |-> [s.h EXCEPT !.n[c.t].left = s.r], l |-> s.l, r |-> c.t]
          ELSE LET s == tree_split(c.h, T.right, x)
               IN [h |-> [s.h EXCEPT !.n[c.t].right = s.l], l |-> c.t, r |-> s.r]

RECURSIVE tree_insert(_, _, _, _)
tree_insert(H, t, x, y) ==
  IF t = NULL THEN tree_alloc(H, x, y)
  ELSE LET c == tree_clone(H, t)
           T == c.h.n[c.t]
       IN IF y < T.y
          THEN LET side == IF x < T.x THEN "left" ELSE "right"
                   i == tree_insert(c.h, T[side], x, y)
               IN [h |-> [i.h EXCEPT !.n[c.t][side] = i.t], t |-> c.t]
          ELSE LET p == tree_alloc(c.h, x, y)
                   s == tree_split(p.h, c.t, x)
               IN [h |-> [s.h EXCEPT !.n[p.t].left = s.l, !.n[p.t].right = s.r], t |-> p.t]

RECURSIVE tree_merge(_, _, _)
tree_merge(H, l, r) ==
  CASE l = NULL -> [h |-> H, t |-> r]
    [] l # NULL /\ r = NULL -> [h |-> H, t |-> l]
    [] l # NULL /\ r # NULL /\ H.n[l].y > H.n[r].y ->
         LET c == tree_clone(H, l)
             m == tree_merge(c.h, c.h.n[c.t].right, r)
         IN [h |-> [m.h EXCEPT !.n[c.t].right = m.t], t |-> c.t]
    [] OTHER ->
         LET c == tree_clone(H, r)
             m == tree_merge(c.h, l, c.h.n[c.t].left)
         IN [h |-> [m.h EXCEPT !.n[c.t].left = m.t], t |-> c.t]

RECURSIVE tree_delete(_, _, _)
tree_delete(H, t, x) ==
  LET c == tree_clone(H, t)
      T == c.h.n[c.t]
      side == IF x < T.x THEN "left" ELSE "right"
  IN IF x = T.x
     THEN LET m == tree_merge(c.h, T.left, T.right)
          IN [h |-> tree_free([m.h EXCEPT !.n[c.t].left = NULL, !.n[c.t].right = NULL], c.t), t |-> m.t]
     ELSE LET e == tree_delete(c.h, T[side], x)
          IN [h |-> [e.h EXCEPT !.n[c.t][side] = e.t], t |-> c.t]

RECURSIVE tree_lookup_ptr(_, _, _)
tree_lookup_ptr(H, t, x) ==
  IF t = NULL THEN NULL
  ELSE LET T == H.n[t] IN
       IF x = T.x THEN x ELSE tree_lookup_ptr(H, IF x < T.x THEN T.left ELSE T.right, x)

\* tree_act_ex*: the keys in the order they are visited.
RECURSIVE tree_act(_, _)
tree_act(H, t) ==
  IF t = NULL THEN <<>>
  ELSE tree_act(H, H.n[t].left) \o <<H.n[t].x>> \o tree_act(H, H.n[t].right)

RECURSIVE tree_check(_, _)
tree_check(H, t) ==
  t = NULL \/ LET T == H.n[t] IN
    /\ T.left = NULL \/ (H.n[T.left].y <= T.y /\ H.n[T.left].x < T.x)
    /\ T.right = NULL \/ (H.n[T.right].y <= T.y /\ H.n[T.right].x > T.x)
    /\ tree_check(H, T.left) /\ tree_check(H, T.right)

-----------------------------------------------------------------------------
Idle == [pc |-> "idle", old |-> NULL, new |-> NULL]
Init ==
  /\ heap = [n |-> [i \in Nodes |-> Freed], obj |-> [k \in Keys |-> 0]]
  /\ root = NULL /\ keys = {} /\ writer = Idle /\ later = {} /\ updates = 0
  /\ reader = [r \in Readers |-> [pc |-> "idle", R |-> NULL, saw |-> {}, reads |-> 0]]
  /\ hptr = [r \in Readers |-> NULL]

is_hazard_ptr(t) == \E r \in Readers : hptr[r] = t

\* One update: hold the old root, build the new tree beside it.
Build(op) ==
  /\ writer' = [pc |-> "publish", old |-> root, new |-> op.t]
  /\ heap' = op.h
  /\ updates < MaxUpdates /\ updates' = updates + 1
  /\ UNCHANGED <<root, reader, hptr, later>>

\* rpc_target_insert_conn (and the callers of tree_insert_connection alike):
\* the key is not in the tree, the node takes over the caller's reference.
insert_conn(x, y) ==
  /\ writer.pc = "idle" /\ tree_lookup_ptr(heap, root, x) = NULL
  /\ LET H == [heap EXCEPT !.obj[x] = @ + 1] IN Build(tree_insert(Incref(H, root), root, x, y))
  /\ keys' = keys \cup {x}

\* rpc_target_delete_conn.
delete_conn(x) ==
  /\ writer.pc = "idle" /\ tree_lookup_ptr(heap, root, x) # NULL
  /\ Build(tree_delete(Incref(heap, root), root, x))
  /\ keys' = keys \ {x}

Publish ==
  /\ writer.pc = "publish"
  /\ root' = writer.new
  /\ writer' = [writer EXCEPT !.pc = "free"]
  /\ UNCHANGED <<heap, keys, reader, hptr, later, updates>>

MutantFree(t) == heap' = tree_free(heap, t) /\ later' = later \ {t}

\* free_tree_ptr: a pointer some thread has announced is kept for later.
free_tree_ptr(t) ==
  IF t # NULL /\ is_hazard_ptr(t)
  THEN later' = later \cup {t} /\ UNCHANGED heap
  ELSE heap' = tree_free(heap, t) /\ later' = later \ {t}

FreeOld ==
  /\ writer.pc = "free" /\ free_tree_ptr(writer.old)
  /\ writer' = Idle
  /\ UNCHANGED <<root, keys, reader, hptr, updates>>

\* One turn of free_later_act, which the main loop runs.
free_later_act(t) ==
  /\ t \in later /\ free_tree_ptr(t)
  /\ UNCHANGED <<root, keys, writer, reader, hptr, updates>>

-----------------------------------------------------------------------------
\* get_ptr_multithread_copy, one action per memory access.
At(r, pc) == reader[r].pc = pc
Reader(r, new) == reader' = [reader EXCEPT ![r] = new] /\ UNCHANGED <<root, keys, writer, later, updates>>

copy_read(r) ==
  /\ \/ At(r, "again")
     \/ At(r, "idle") /\ reader[r].reads < MaxReads
  /\ Reader(r, [reader[r] EXCEPT !.pc = "hazard", !.R = root])
  /\ UNCHANGED <<heap, hptr>>

copy_hazard(r) ==
  /\ At(r, "hazard") /\ hptr' = [hptr EXCEPT ![r] = reader[r].R]
  /\ Reader(r, [reader[r] EXCEPT !.pc = "check"])
  /\ UNCHANGED heap

copy_check(r) ==
  /\ At(r, "check") /\ UNCHANGED <<heap, hptr>>
  /\ \/ reader[r].R # root /\ Reader(r, [reader[r] EXCEPT !.pc = "again"])
     \/ /\ reader[r].R = root
        /\ Reader(r, [reader[r] EXCEPT !.pc = "incref", !.saw = tree_act(heap, root)])

\* incref_tree_ptr asserts that the count was positive.
copy_incref(r) ==
  /\ At(r, "incref") /\ heap' = Incref(heap, reader[r].R)
  /\ hptr' = [hptr EXCEPT ![r] = NULL]
  /\ Reader(r, [reader[r] EXCEPT !.pc = "walk"])

\* The end of rpc_target_choose_connection: tree_free_connection (T).
Drop(r) ==
  /\ At(r, "walk") /\ heap' = tree_free(heap, reader[r].R)
  /\ Reader(r, [pc |-> "idle", R |-> NULL, saw |-> {}, reads |-> reader[r].reads + 1])
  /\ UNCHANGED hptr

Next ==
  \/ \E x \in Keys, y \in Prios : insert_conn(x, y)
  \/ \E x \in Keys : delete_conn(x)
  \/ Publish \/ FreeOld
  \/ \E t \in later : free_later_act(t)
  \/ \E r \in Readers : copy_read(r) \/ copy_hazard(r) \/ copy_check(r) \/ copy_incref(r) \/ Drop(r)

Spec == Init /\ [][Next]_vars

-----------------------------------------------------------------------------
TypeOK ==
  /\ \A i \in Nodes : heap.n[i] = Freed \/ heap.n[i].refcnt \in Nat
  /\ root \in Nodes \cup {NULL} /\ keys \subseteq Keys /\ later \subseteq Nodes
  /\ writer.pc \in {"idle", "publish", "free"}

Alive == {i \in Nodes : heap.n[i] # Freed}
Held(r) == IF At(r, "walk") THEN {reader[r].R} ELSE {}

\* How many pointers there are to node i, and to a node from outside the tree.
Pointers(i) ==
  Cardinality({j \in Alive : heap.n[j].left = i}) + Cardinality({j \in Alive : heap.n[j].right = i})
  + Cardinality({r \in Readers : i \in Held(r)}) + (IF i \in later THEN 1 ELSE 0)
  + (IF root = i /\ writer.pc # "publish" THEN 1 ELSE 0)
  + (IF writer.old = i THEN 1 ELSE 0) + (IF writer.pc = "publish" /\ writer.new = i THEN 1 ELSE 0)

\* Readers never touch a freed node and see one version of the tree however
\* many updates happen meanwhile; the published tree is a treap that finds
\* exactly the keys inserted and not deleted; no node and no reference to a
\* connection is lost or dropped twice (a count always equals the pointers).
TreeSound ==
  /\ \A i \in Alive : heap.n[i].refcnt = Pointers(i) /\ Pointers(i) > 0
  /\ \A i \in Nodes \ Alive : Pointers(i) = 0
  /\ \A r \in Readers : At(r, "incref") /\ reader[r].R # NULL => reader[r].R \in Alive
  /\ \A r \in Readers : reader[r].pc \in {"incref", "walk"} => tree_act(heap, reader[r].R) = reader[r].saw
  /\ \A k \in Keys : heap.obj[k] = Cardinality({i \in Alive : heap.n[i].x = k})
  /\ writer.pc # "publish" =>
       /\ tree_check(heap, root)
       /\ \A k \in Keys : tree_lookup_ptr(heap, root, k) = IF k \in keys THEN k ELSE NULL
=============================================================================
