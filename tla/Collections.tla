---------------------------- MODULE Collections -----------------------------
(***************************************************************************)
(* g1/base/src/collections/vec_list.rs: a doubly linked list in a vector.  *)
(* The nodes in use and the free nodes each form a circle; the nodes at    *)
(* the end of the vector that become free are cut off.  Positions start at *)
(* 1 here and Null is None.  vlRef is the sequence the list stands for:    *)
(* what every operation should do to it, cursors included.                 *)
(***************************************************************************)
EXTENDS Integers, SequencesExt

CONSTANTS
  VlValues,
  VlMaxNodes   \* bound: how many nodes are in use

VARIABLES vl, vlRef
vecListVars == <<vl, vlRef>>

Null == 0
Vacant == "vacant"

VecListInit == vl = [nodes |-> <<>>, len |-> 0, used |-> Null, free |-> Null] /\ vlRef = <<>>

(* Circular lists. *)

Link(nodes, i, j) == LET n == [nodes EXCEPT ![i].next = j] IN [n EXCEPT ![j].prev = i]
IsSingle(nodes, i) == nodes[i].prev = i /\ nodes[i].next = i
LinkPrev(nodes, target, source) ==
  LET n == Link(nodes, nodes[target].prev, source) IN Link(n, source, target)
LinkNext(nodes, target, source) ==
  LET n == Link(nodes, source, nodes[target].next) IN Link(n, target, source)
Unlink(nodes, i) == Link(nodes, nodes[i].prev, nodes[i].next)
IsFree(nodes, i) == nodes[i].value = Vacant
IsNull(l, c) == c \notin DOMAIN l.nodes \/ IsFree(l.nodes, c)

(* Allocation. *)

\* Mutant of NewNode: the node stays the head of the free list.
NewNodeKept(l, v) ==
  IF l.free = Null
  THEN [list |-> [l EXCEPT !.nodes = Append(@, [value |-> v, prev |-> Null, next |-> Null])],
        at |-> Len(l.nodes) + 1]
  ELSE [list |-> [l EXCEPT !.nodes = [Unlink(@, l.free) EXCEPT ![l.free].value = v],
                           !.free = IF IsSingle(l.nodes, l.free) THEN Null ELSE @],
        at |-> l.free]

NewNode(l, v) ==
  IF l.free = Null
  THEN [list |-> [l EXCEPT !.nodes = Append(@, [value |-> v, prev |-> Null, next |-> Null])],
        at |-> Len(l.nodes) + 1]
  ELSE [list |-> [l EXCEPT !.nodes = [Unlink(@, l.free) EXCEPT ![l.free].value = v],
                           !.free = IF IsSingle(l.nodes, l.free) THEN Null ELSE l.nodes[l.free].next],
        at |-> l.free]

CutLast(l) ==
  LET i == Len(l.nodes)
  IN [l EXCEPT !.nodes = Front(Unlink(@, i)),
               !.free = IF IsSingle(l.nodes, i) THEN Null ELSE IF i = @ THEN l.nodes[i].next ELSE @]

\* One round for every node is more than there are free nodes at the end.
CleanupFreeList(l) ==
  FoldLeft(LAMBDA m, n : IF m.nodes # <<>> /\ IsFree(m.nodes, Len(m.nodes)) THEN CutLast(m) ELSE m,
           l, l.nodes)

(* Operations. *)

PushNode(l, v, front) ==
  LET new == NewNode(l, v)
      m == new.list
      i == new.at
  IN [m EXCEPT !.nodes = IF l.used = Null THEN Link(@, i, i) ELSE LinkPrev(@, l.used, i),
               !.used = IF front \/ l.used = Null THEN i ELSE @, !.len = @ + 1]

\* Mutant of InsertPrev: the front of the list does not move.
InsertPrevBehind(l, c, v) ==
  LET new == NewNode(l, v)
  IN [new.list EXCEPT !.nodes = LinkPrev(@, c, new.at), !.len = @ + 1]

InsertPrev(l, c, v) ==
  LET new == NewNode(l, v)
  IN [new.list EXCEPT !.nodes = LinkPrev(@, c, new.at), !.used = IF c = @ THEN new.at ELSE @, !.len = @ + 1]

InsertNext(l, c, v) ==
  LET new == NewNode(l, v)
  IN [new.list EXCEPT !.nodes = LinkNext(@, c, new.at), !.len = @ + 1]

Removed(l, c) ==
  LET cut == [Unlink(l.nodes, c) EXCEPT ![c].value = Vacant]
  IN CleanupFreeList(
       [nodes |-> IF l.free = Null THEN Link(cut, c, c) ELSE LinkPrev(cut, l.free, c),
        len |-> l.len - 1,
        used |-> IF IsSingle(l.nodes, c) THEN Null ELSE IF c = l.used THEN l.nodes[c].next ELSE l.used,
        free |-> IF l.free = Null THEN c ELSE l.free])

MovedFront(l, c) ==
  IF c = l.used THEN l
  ELSE LET n == LinkPrev(Unlink(l.nodes, c), l.used, c) IN [l EXCEPT !.nodes = n, !.used = n[l.used].prev]
MovedBack(l, c) ==
  IF c = l.used THEN [l EXCEPT !.used = l.nodes[l.used].next]
  ELSE [l EXCEPT !.nodes = LinkPrev(Unlink(@, c), l.used, c)]

CursorFront(l) == l.used
CursorBack(l) == IF l.used = Null THEN Null ELSE l.nodes[l.used].prev
CursorNext(l, c) == IF l.used = Null \/ c = l.nodes[l.used].prev \/ IsNull(l, c) THEN Null ELSE l.nodes[c].next
CursorPrev(l, c) == IF l.used = Null \/ c = l.used \/ IsNull(l, c) THEN Null ELSE l.nodes[c].prev

\* One call of next or next_back of an iterator; out is what it has returned.
IterStep(l, it, back) ==
  LET this == IF back THEN it.end ELSE it.start
      last == it.start = it.end
  IN IF this = Null THEN it
     ELSE [start |-> IF last THEN Null ELSE IF back THEN it.start ELSE CursorNext(l, this),
           end |-> IF last THEN Null ELSE IF back THEN CursorPrev(l, this) ELSE it.end,
           len |-> it.len - 1, out |-> Append(it.out, this)]
Iterate(l, backs) ==
  FoldLeft(LAMBDA it, b : IterStep(l, it, b),
           [start |-> CursorFront(l), end |-> CursorBack(l), len |-> l.len, out |-> <<>>], backs)

(* What the operations should do: the cursors in use, in order. *)

IndexOfCursor(c) == CHOOSE i \in DOMAIN vlRef : vlRef[i][1] = c
At(c, v) == <<c, v>>

PushAny(front) == \E v \in VlValues :
  /\ Len(vlRef) < VlMaxNodes
  /\ vl' = PushNode(vl, v, front)
  /\ LET n == At(NewNode(vl, v).at, v) IN vlRef' = IF front THEN <<n>> \o vlRef ELSE Append(vlRef, n)

InsertAny(c, next) == \E v \in VlValues :
  /\ Len(vlRef) < VlMaxNodes /\ ~IsNull(vl, c)
  /\ vl' = IF next THEN InsertNext(vl, c, v) ELSE InsertPrev(vl, c, v)
  /\ vlRef' = InsertAt(vlRef, IndexOfCursor(c) + (IF next THEN 1 ELSE 0), At(NewNode(vl, v).at, v))

RemoveAny(c) ==
  /\ ~IsNull(vl, c)
  /\ vl' = Removed(vl, c) /\ vlRef' = RemoveAt(vlRef, IndexOfCursor(c))

MoveAny(c, front) ==
  LET i == IndexOfCursor(c)
  IN /\ ~IsNull(vl, c)
     /\ vl' = IF front THEN MovedFront(vl, c) ELSE MovedBack(vl, c)
     /\ vlRef' = IF front THEN <<vlRef[i]>> \o RemoveAt(vlRef, i) ELSE Append(RemoveAt(vlRef, i), vlRef[i])

ClearList == vl' = [nodes |-> <<>>, len |-> 0, used |-> Null, free |-> Null] /\ vlRef' = <<>>

VecListNext ==
  \/ ClearList
  \/ \E b \in BOOLEAN : PushAny(b) \/ \E c \in DOMAIN vl.nodes : InsertAny(c, b) \/ MoveAny(c, b)
  \/ \E c \in DOMAIN vl.nodes : RemoveAny(c)

-----------------------------------------------------------------------------
\* Read in either direction, or from both ends in any mixture, the list is the
\* sequence it stands for: each node once, in order, with its value, and the cursors
\* of the other nodes survive every operation.
ListIsSequence ==
  LET n == Len(vlRef)
      cursors == [i \in 1 .. n |-> vlRef[i][1]]
  IN /\ vl.len = n /\ \A i \in 1 .. n : vl.nodes[cursors[i]].value = vlRef[i][2]
     /\ \A backs \in [1 .. n + 1 -> BOOLEAN] :
          LET Rank(k) == Cardinality({j \in 1 .. k : backs[j] = backs[k]})
          IN Iterate(vl, backs).out =
               [k \in 1 .. n |-> cursors[IF backs[k] THEN n + 1 - Rank(k) ELSE Rank(k)]]

\* The vector has no dead weight and no leak: its last node is in use, and the free
\* list is one circle through exactly the vacant nodes.
FreeListIsRest ==
  LET vacant == {i \in DOMAIN vl.nodes : IsFree(vl.nodes, i)}
      Reach[k \in 0 .. Len(vl.nodes)] ==
        IF k = 0 THEN {vl.free} ELSE Reach[k - 1] \cup {vl.nodes[i].next : i \in Reach[k - 1]}
  IN /\ vl.nodes # <<>> => ~IsFree(vl.nodes, Len(vl.nodes))
     /\ IF vl.free = Null THEN vacant = {} ELSE Reach[Len(vl.nodes)] = vacant
     /\ \A i \in vacant : vl.nodes[vl.nodes[i].next].prev = i

-----------------------------------------------------------------------------
(***************************************************************************)
(* HashOrderedMap of g1/base/src/collections/ordered.rs: entries in a      *)
(* VecList, found through a hash table of cursors (index_map.rs) that      *)
(* compares the keys of the entries its cursors point to.  omRef is the    *)
(* ordered dictionary it stands for, a sequence of key-value pairs.        *)
(***************************************************************************)

CONSTANTS OmKeys, OmValues

VARIABLES omIndex, omRef
orderedMapVars == <<vl, vlRef, omIndex, omRef>>

OrderedMapInit == VecListInit /\ omIndex = {} /\ omRef = <<>>

KeyAt(l, c) == l.nodes[c].value[1]

\* HashIndexMap::get and find_entry: the cursors whose entry has the key.
FindEntry(k) == {c \in omIndex : KeyAt(vl, c) = k}
RefIndex(k) == CHOOSE i \in DOMAIN omRef : omRef[i][1] = k
RefDrop(k) == SelectSeq(omRef, LAMBDA e : e[1] # k)

Assigned(l, c, k, v) == [l EXCEPT !.nodes[c].value = <<k, v>>]

\* insert: an entry that exists keeps its place.
OmInsert(k, v) ==
  IF FindEntry(k) = {}
  THEN /\ vl' = PushNode(vl, <<k, v>>, FALSE)
       /\ omIndex' = omIndex \cup {NewNode(vl, <<k, v>>).at}
       /\ omRef' = Append(omRef, <<k, v>>)
  ELSE \E c \in FindEntry(k) :
         /\ vl' = Assigned(vl, c, k, v)
         /\ omRef' = [omRef EXCEPT ![RefIndex(k)] = <<k, v>>]
         /\ UNCHANGED omIndex

\* insert_back on an entry that exists, and get_mut_back with an assignment.
OmAssignBack(k, v) == \E c \in FindEntry(k) :
  /\ vl' = Assigned(MovedBack(vl, c), c, k, v)
  /\ omRef' = Append(RefDrop(k), <<k, v>>)
  /\ UNCHANGED omIndex

OmMoveFront(k) == \E c \in FindEntry(k) :
  /\ vl' = MovedFront(vl, c)
  /\ omRef' = <<omRef[RefIndex(k)]>> \o RefDrop(k)
  /\ UNCHANGED omIndex

OmRemove(k) == \E c \in FindEntry(k) :
  /\ vl' = Removed(vl, c)
  /\ omIndex' = omIndex \ {c}
  /\ omRef' = RefDrop(k)

\* Mutant of OmPop: the cursor stays in the table.
OmPopKept(front) ==
  /\ vl.used # Null
  /\ vl' = Removed(vl, IF front THEN CursorFront(vl) ELSE CursorBack(vl))
  /\ UNCHANGED omIndex
  /\ omRef' = IF front THEN Tail(omRef) ELSE Front(omRef)

\* pop_front and pop_back find the entry again by its key.
OmPop(front) ==
  LET at == IF front THEN CursorFront(vl) ELSE CursorBack(vl)
  IN /\ vl.used # Null
     /\ \E c \in FindEntry(KeyAt(vl, at)) : vl' = Removed(vl, c) /\ omIndex' = omIndex \ {c}
     /\ omRef' = IF front THEN Tail(omRef) ELSE Front(omRef)

\* retain, and extract_if when it is run to its end: in the order of the table.
OmRetain(keys) ==
  \E order \in SetToSeqs({c \in omIndex : KeyAt(vl, c) \notin keys}) :
    /\ vl' = FoldLeft(Removed, vl, order)
    /\ omIndex' = omIndex \ ToSet(order)
    /\ omRef' = SelectSeq(omRef, LAMBDA e : e[1] \in keys)

OmClear ==
  /\ vl' = [nodes |-> <<>>, len |-> 0, used |-> Null, free |-> Null]
  /\ omIndex' = {} /\ omRef' = <<>>

OrderedMapNext ==
  /\ \/ \E k \in OmKeys, v \in OmValues : OmInsert(k, v) \/ OmAssignBack(k, v)
     \/ \E k \in OmKeys : OmMoveFront(k) \/ OmRemove(k)
     \/ \E front \in BOOLEAN : OmPop(front)
     \/ \E keys \in SUBSET OmKeys : OmRetain(keys)
     \/ OmClear
  /\ UNCHANGED vlRef

-----------------------------------------------------------------------------
\* The map is the ordered dictionary it stands for, whatever nodes are reused:
\* iterating it gives the pairs in order, and the table holds exactly the cursors
\* of the entries, one per key, so that no lookup meets a vacant node.
MapIsDictionary ==
  LET walk == Iterate(vl, [i \in 1 .. vl.len |-> FALSE]).out
  IN /\ [i \in DOMAIN walk |-> vl.nodes[walk[i]].value] = omRef
     /\ omIndex = ToSet(walk) /\ vl.len = Len(omRef)
     /\ \A i, j \in DOMAIN omRef : omRef[i][1] = omRef[j][1] => i = j

-----------------------------------------------------------------------------
(***************************************************************************)
(* g1/base/src/collections/bitable.rs, with index_map.rs and bimap.rs: a   *)
(* table in which every row and every column has at most one entry.  The   *)
(* entries are in a VecList, whose cursors are used again; two hash        *)
(* indexes hold cursors and no keys of their own, so a lookup, which may   *)
(* compare any entry of the index, panics when one of them is stale.       *)
(* bt.ok is FALSE after such a panic or a failed assertion; btRef is the   *)
(* set of entries that the table stands for.                               *)
(***************************************************************************)

CONSTANTS BtRows, BtColumns, BtValues, BtCursors

VARIABLES bt, btRef
biTableVars == <<bt, btRef>>

EmptyTable == [index |-> [row |-> {}, column |-> {}], entries |-> <<>>, ok |-> TRUE]
BiTableInit == bt = EmptyTable /\ btRef = {}

Crosswise(f) == IF f = "row" THEN "column" ELSE "row"

(* The indexes. *)

IndexFind(t, f, x) == {i \in t.index[f] \cap DOMAIN t.entries : t.entries[i][f] = x}
Consulted(t, f) == [t EXCEPT !.ok = @ /\ t.index[f] \subseteq DOMAIN t.entries]
RemoveIndex(t, f, x) == [Consulted(t, f) EXCEPT !.index[f] = @ \ IndexFind(t, f, x)]
InsertIndex(t, f, k) ==
    LET x == t.entries[k][f]
    IN [Consulted(t, f) EXCEPT !.index[f] = (@ \ IndexFind(t, f, x)) \cup {k},
                               !.ok = @ /\ IndexFind(t, f, x) = {}]

(* The entries. *)

RemoveEntry(t, i) == [t EXCEPT !.entries = Restrict(@, DOMAIN @ \ {i})]

\* remove_i and remove_j: the index f forgets the entry i.
ForgetEntry(t, f, i) ==
    LET x == t.entries[i][f]
    IN [RemoveIndex(t, f, x) EXCEPT !.ok = @ /\ IndexFind(t, f, x) = {i}]

\* The entry whose cursor was taken out of the index f, if there is one, goes.
Displace(t, f, taken) ==
    IF taken = {} THEN t
    ELSE LET i == CHOOSE i \in taken : TRUE IN RemoveEntry(ForgetEntry(t, Crosswise(f), i), i)

\* Mutant of MakeRoom: an entry is displaced by its row only.
MakeRoomInRow(t, r, c) ==
    LET I == IndexFind(t, "row", r)
    IN Displace(RemoveIndex(t, "row", r), "row", I)

\* insert, up to the entry it adds.
MakeRoom(t, r, c) ==
    LET I == IndexFind(t, "row", r)
        J == IndexFind(t, "column", c)
        u == RemoveIndex(RemoveIndex(t, "row", r), "column", c)
    IN IF I = J /\ I # {} THEN RemoveEntry(u, CHOOSE i \in I : TRUE)
       ELSE Displace(Displace(u, "row", I), "column", J)

BtInsert(t, r, c, v, k) ==
    LET u == [t EXCEPT !.entries = @ @@ (k :> [row |-> r, column |-> c, value |-> v])]
    IN InsertIndex(InsertIndex(u, "row", k), "column", k)

RemoveLine(t, f, x) == Displace(RemoveIndex(t, f, x), f, IndexFind(t, f, x))

BtRemove(t, r, c) ==
    LET I == IndexFind(t, "row", r)
        u == Consulted(Consulted(t, "row"), "column")
    IN IF I = {} \/ IndexFind(t, "column", c) # I THEN u
       ELSE RemoveEntry([u EXCEPT !.index = [f \in {"row", "column"} |-> @[f] \ I]],
                        CHOOSE i \in I : TRUE)

(* Lookups. *)

GetRow(t, r) == {t.entries[i] : i \in IndexFind(t, "row", r)}
GetColumn(t, c) == {t.entries[i] : i \in IndexFind(t, "column", c)}
TableGet(t, r, c) == {e \in GetRow(t, r) : e.column = c}

(* The calls. *)

TableInsert(r, c, v) ==
    LET t == MakeRoom(bt, r, c)
    IN /\ \E k \in BtCursors \ DOMAIN t.entries : bt' = BtInsert(t, r, c, v, k)
       /\ btRef' = {e \in btRef : e.row # r /\ e.column # c}
                     \cup {[row |-> r, column |-> c, value |-> v]}

RemoveRow(r) == bt' = RemoveLine(bt, "row", r) /\ btRef' = {e \in btRef : e.row # r}
RemoveColumn(c) == bt' = RemoveLine(bt, "column", c) /\ btRef' = {e \in btRef : e.column # c}
TableRemove(r, c) == bt' = BtRemove(bt, r, c) /\ btRef' = {e \in btRef : e.row # r \/ e.column # c}
TableClear == bt' = [EmptyTable EXCEPT !.ok = bt.ok] /\ btRef' = {}

BiTableNext ==
    \/ \E r \in BtRows, c \in BtColumns, v \in BtValues : TableInsert(r, c, v)
    \/ \E r \in BtRows : RemoveRow(r)
    \/ \E c \in BtColumns : RemoveColumn(c)
    \/ \E r \in BtRows, c \in BtColumns : TableRemove(r, c)
    \/ TableClear

-----------------------------------------------------------------------------

\* The table is the generalized permutation matrix it stands for, read by row, by
\* column or by both, whatever cursors are used again: no lookup meets a stale
\* cursor and no assertion of insert, remove_i and remove_j fails.
TableIsPermutation ==
    /\ bt.ok /\ Range(bt.entries) = btRef /\ Cardinality(DOMAIN bt.entries) = Cardinality(btRef)
    /\ \A r \in BtRows : GetRow(bt, r) = {e \in btRef : e.row = r} /\ Cardinality(GetRow(bt, r)) <= 1
    /\ \A c \in BtColumns :
            GetColumn(bt, c) = {e \in btRef : e.column = c} /\ Cardinality(GetColumn(bt, c)) <= 1
    /\ \A r \in BtRows, c \in BtColumns : TableGet(bt, r, c) = {e \in btRef : e.row = r /\ e.column = c}

-----------------------------------------------------------------------------
(***************************************************************************)
(* g1/base/src/collections/bigraph (hash_ext.rs over hash.rs) and          *)
(* cursor_set.rs: a bipartite graph of keys and values that keeps its      *)
(* elements in two cursor sets and its edges as cursors, in both           *)
(* directions.  An element without edges is removed and its cursor is      *)
(* used again.  bg.ok is FALSE after a panic: an unwrap, an assertion or a *)
(* cursor that is stale.  bgRef is the set of edges it stands for, and     *)
(* bgView what the view that remove_key or remove_value returned shows,    *)
(* beside what it should show.                                             *)
(***************************************************************************)

CONSTANTS BgKeys, BgValues, BgCursors

VARIABLES bg, bgRef, bgView
biGraphVars == <<bg, bgRef, bgView>>

Sides == {"key", "value"}
Opposite(f) == IF f = "key" THEN "value" ELSE "key"
EmptyGraph == [set |-> [f \in Sides |-> <<>>], edges |-> [f \in Sides |-> <<>>], ok |-> TRUE]
NoView == [shown |-> {}, expected |-> {}]
BiGraphInit == bg = EmptyGraph /\ bgRef = {} /\ bgView = NoView

(* The cursor sets. *)

CursorsOf(g, f, e) == {p \in DOMAIN g.set[f] : g.set[f][p] = e}

\* The cursors that insert may return: the one of the element, or one to be used.
Places(g, f, e) == IF CursorsOf(g, f, e) # {} THEN CursorsOf(g, f, e) ELSE BgCursors \ DOMAIN g.set[f]

RemoveCursors(g, f, C) ==
    [g EXCEPT !.set[f] = Restrict(@, DOMAIN @ \ C), !.ok = @ /\ C \subseteq DOMAIN g.set[f]]

(* The graph of cursors. *)

EdgesOf(g, f, p) == IF p \in DOMAIN g.edges[f] THEN g.edges[f][p] ELSE {}

InsertEdge(g, p, q) ==
    [g EXCEPT !.edges = [key |-> (p :> EdgesOf(g, "key", p) \cup {q}) @@ @.key,
                         value |-> (q :> EdgesOf(g, "value", q) \cup {p}) @@ @.value],
              !.ok = @ /\ (q \in EdgesOf(g, "key", p) <=> p \in EdgesOf(g, "value", q))]

\* fn remove: the half edge from p to q, and p with its last one.
RemoveHalf(g, f, p, q) ==
    [g EXCEPT !.edges[f] = IF EdgesOf(g, f, p) = {q} THEN Restrict(@, DOMAIN @ \ {p})
                           ELSE (p :> EdgesOf(g, f, p) \ {q}) @@ @]

\* Mutant of Isolated: an element is isolated when it had at most two edges.
IsolatedEarly(g, f, p, Q) == {q \in Q : Cardinality(EdgesOf(g, Opposite(f), q)) <= 2}

\* The neighbours Q of p that have no other edge.
Isolated(g, f, p, Q) == {q \in Q : EdgesOf(g, Opposite(f), q) = {p}}

\* remove_key_return_isolated and remove_value_return_isolated.
RemoveNode(g, f, p) ==
    LET Q == EdgesOf(g, f, p)
        o == Opposite(f)
        left == DOMAIN g.edges[o] \ Isolated(g, f, p, Q)
    IN [g EXCEPT !.edges = [x \in Sides |->
                              IF x = f THEN Restrict(@[f], DOMAIN @[f] \ {p})
                              ELSE [q \in left |-> @[o][q] \ {p}]],
                 !.ok = @ /\ Q # {} /\ \A q \in Q : p \in EdgesOf(g, o, q)]

(* The calls. *)

AddEdge(k, v) ==
    /\ \E p \in Places(bg, "key", k), q \in Places(bg, "value", v) :
         bg' = InsertEdge([bg EXCEPT !.set = [key |-> (p :> k) @@ @.key,
                                              value |-> (q :> v) @@ @.value]], p, q)
    /\ bgRef' = bgRef \cup {[key |-> k, value |-> v]} /\ bgView' = NoView

\* remove_key and remove_value.  The view shows the elements that are removed with
\* it from a set of their own, and those that stay through their cursors.
RemoveElement(f, e) ==
    LET P == CursorsOf(bg, f, e)
        p == CHOOSE p \in P : TRUE
        o == Opposite(f)
        Q == EdgesOf(bg, f, p)
        isolated == Isolated(bg, f, p, Q)
        g == RemoveCursors(RemoveNode(RemoveCursors(bg, f, {p}), f, p), o, isolated)
    IN IF P = {} THEN UNCHANGED <<bg, bgRef>> /\ bgView' = NoView
       ELSE /\ bg' = [g EXCEPT !.ok = @ /\ Q \ isolated \subseteq DOMAIN g.set[o]]
            /\ bgView' = [shown |-> {bg.set[o][q] : q \in isolated} \cup
                                    {g.set[o][q] : q \in (Q \ isolated) \cap DOMAIN g.set[o]},
                          expected |-> {x[o] : x \in {y \in bgRef : y[f] = e}}]
            /\ bgRef' = {x \in bgRef : x[f] # e}

\* remove: nothing happens unless both are found and joined.
DropEdge(k, v) ==
    /\ bgRef' = bgRef \ {[key |-> k, value |-> v]} /\ bgView' = NoView
    /\ \/ /\ \A p \in CursorsOf(bg, "key", k), q \in CursorsOf(bg, "value", v) : q \notin EdgesOf(bg, "key", p)
          /\ UNCHANGED bg
       \/ \E p \in CursorsOf(bg, "key", k), q \in CursorsOf(bg, "value", v) :
            LET g == RemoveHalf(RemoveHalf(bg, "key", p, q), "value", q, p)
                Gone(f, x) == {x} \ DOMAIN g.edges[f]
                h == RemoveCursors(RemoveCursors(g, "key", Gone("key", p)), "value", Gone("value", q))
            IN /\ q \in EdgesOf(bg, "key", p)
               /\ bg' = [h EXCEPT !.ok = @ /\ p \in EdgesOf(bg, "value", q)]

ClearGraph == bg' = [EmptyGraph EXCEPT !.ok = bg.ok] /\ bgRef' = {} /\ bgView' = NoView

BiGraphNext ==
    \/ \E k \in BgKeys, v \in BgValues : AddEdge(k, v) \/ DropEdge(k, v)
    \/ \E k \in BgKeys : RemoveElement("key", k)
    \/ \E v \in BgValues : RemoveElement("value", v)
    \/ ClearGraph

-----------------------------------------------------------------------------

Neighbours(f, e) == {bg.set[Opposite(f)][q] : q \in UNION {EdgesOf(bg, f, p) : p \in CursorsOf(bg, f, e)}}

\* The graph read from either side is the relation it stands for, its element sets
\* hold exactly the elements with an edge, each once, and no cursor is stale, though
\* cursors of elements that lost their last edge are used again at once.
GraphIsRelation ==
    /\ bg.ok /\ bgView.shown = bgView.expected
    /\ \A f \in Sides :
         /\ DOMAIN bg.set[f] = DOMAIN bg.edges[f] /\ IsInjective(bg.set[f])
         /\ Range(bg.set[f]) = {x[f] : x \in bgRef}
         /\ \A e \in Range(bg.set[f]) :
              Neighbours(f, e) = {x[Opposite(f)] : x \in {y \in bgRef : y[f] = e}}
=============================================================================
