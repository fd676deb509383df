------------------------------ MODULE FastMap --------------------------------
(***************************************************************************)
(* fastmap and its iterators (src/include/yfast/fastmap.h) over YFast.  An *)
(* iterator points at an entry and caches the xleaf whose tree holds it,   *)
(* with the rebuild count at which it last knew that xleaf.  The container *)
(* knows nothing of its iterators: updates destroy xleaves under them.     *)
(*                                                                         *)
(* GONE stands for a pointer to something destroyed.  An iterator whose    *)
(* entry is gone is unset: the README leaves every use of it undefined.    *)
(* An iterator whose xleaf is gone is a valid one; the model has no step   *)
(* that would read the destroyed xleaf.  Whether an iterator is const      *)
(* makes no difference to its state.                                       *)
(***************************************************************************)
EXTENDS YFast

CONSTANT Iterator       \* the iterators the client holds

VARIABLE iters          \* [Iterator -> what IteratorBase keeps]

map_vars == <<value, size, rebuilds, iters>>

GONE == -2

-----------------------------------------------------------------------------
(* Iterators.                                                              *)

Unset == [leaf |-> GONE, xleaf |-> GONE, last |-> 0, reverse |-> FALSE]

(* At the end, nothing reads the xleaf or the count; the model drops them. *)
End(reverse) == [Unset EXCEPT !.leaf = NULL, !.reverse = reverse]

(* IteratorBase(where): the count is the current one, whatever `where' is. *)
Iter(where, reverse) ==
    IF where.leaf = NULL THEN End(reverse)
    ELSE [leaf |-> where.leaf, xleaf |-> where.xleaf,
          last |-> rebuilds, reverse |-> reverse]

IsSet(it) == it.leaf # GONE
OnEntry(it) == it.leaf \notin {NULL, GONE}

(* Mutant: the comparison is off by one.                                   *)
Outdated_OffByOne(it) == rebuilds > it.last + 1

(* The test that makes an iterator look up its xleaf again.                *)
Outdated(it) == rebuilds > it.last

Refreshed(it) ==
    IF Outdated(it)
    THEN [it EXCEPT !.xleaf = Find(it.leaf).xleaf, !.last = rebuilds]
    ELSE it

(* The tree a leaf is really in: its own links lead there, whatever the    *)
(* iterator has cached.                                                    *)
TreeOf(k) == CHOOSE x \in XLeaves : k \in value[x]

InTree(k, down) ==
    IF down THEN PredIn(value[TreeOf(k)], k, TRUE)
    ELSE SuccIn(value[TreeOf(k)], k, TRUE)

Beside(x, down) == IF down THEN Prv(x) ELSE Nxt(x)

Nearest(x, down) == IF down THEN GreatestOf(value[x]) ELSE LeastOf(value[x])

(* Mutant: the cached xleaf is not looked up again.                        *)
Moved_NoRefresh(it, down) ==
    LET near == InTree(it.leaf, down)
        next == Beside(it.xleaf, down)
    IN  IF near # NULL THEN [it EXCEPT !.leaf = near]
        ELSE IF next = NULL THEN End(it.reverse)
        ELSE [it EXCEPT !.xleaf = next, !.leaf = Nearest(next, down)]

(* forward() and, downwards, backward().                                   *)
Moved(it, down) ==
    LET near == InTree(it.leaf, down)
        known == Refreshed(it)
        next == Beside(known.xleaf, down)
    IN  IF near # NULL THEN [it EXCEPT !.leaf = near]
        ELSE IF next = NULL THEN End(it.reverse)
        ELSE [known EXCEPT !.xleaf = next, !.leaf = Nearest(next, down)]

(* Moved(it, down) reads no xleaf that has been destroyed.                 *)
Moves(it, down) ==
    OnEntry(it) /\ InTree(it.leaf, down) = NULL => Refreshed(it).xleaf # GONE

inc(it) == IF it.leaf = NULL THEN it ELSE Moved(it, it.reverse)

dec(it) ==
    IF it.leaf = NULL
    THEN Iter(IF it.reverse THEN Leftmost ELSE Rightmost, it.reverse)
    ELSE Moved(it, ~it.reverse)

(* make_reverse(), and the conversion of an iterator to a const one: both  *)
(* go through IteratorBase(where).                                         *)
make_reverse(it) == LET i == dec(it) IN Iter(Where(i.xleaf, i.leaf), TRUE)
converted(it) == Iter(Where(it.xleaf, it.leaf), it.reverse)

-----------------------------------------------------------------------------
(* What updates leave of the iterators.                                    *)

Survivors(its, erased, destroyed) ==
    [i \in Iterator |->
        IF its[i].leaf \in erased THEN Unset
        ELSE IF its[i].xleaf \in destroyed THEN [its[i] EXCEPT !.xleaf = GONE]
        ELSE its[i]]

(* The xleaves an insert of k into x's tree destroys.                      *)
InsertDestroys(k, x) ==
    IF /\ x # NULL
       /\ k \notin value[x]
       /\ Cardinality(value[x] \cup {k}) > TREE_SPLIT_THRESHOLD
    THEN {x} ELSE {}

Reinserts(x, t) ==
    Cardinality(t) >= TREE_MERGE_THRESHOLD /\ OutOfRange(x, t)

(* The xleaves a removal from x destroys when it leaves t in x's tree.     *)
RemovalDestroys(x, t) ==
    IF Cardinality(t) < TREE_MERGE_THRESHOLD
    THEN IF PickNeighbor(x, t) # NULL THEN {x, PickNeighbor(x, t)}
         ELSE IF t = {} THEN {x} ELSE {}
    ELSE IF OutOfRange(x, t) THEN {x} ELSE {}

-----------------------------------------------------------------------------
(* Operations.                                                             *)

MapInit == Init /\ iters = [i \in Iterator |-> Unset]

(* begin, end, find, pred, succ, lower_bound and upper_bound.              *)
Answers ==
    {Leftmost, Nowhere}
        \cup {Find(k) : k \in Key}
        \cup {Pred(k, strict) : k \in Key, strict \in BOOLEAN}
        \cup {Succ(k, strict) : k \in Key, strict \in BOOLEAN}

(* rbegin and rend.                                                        *)
ReverseAnswers == {Rightmost, Nowhere}

Make(i) ==
    /\ ~IsSet(iters[i])
    /\ \/ \E where \in Answers :
            iters' = [iters EXCEPT ![i] = Iter(where, FALSE)]
       \/ \E where \in ReverseAnswers :
            iters' = [iters EXCEPT ![i] = Iter(where, TRUE)]
    /\ UNCHANGED vars

Drop(i) ==
    /\ IsSet(iters[i])
    /\ iters' = [iters EXCEPT ![i] = Unset]
    /\ UNCHANGED vars

Increment(i) ==
    /\ IsSet(iters[i])
    /\ Moves(iters[i], iters[i].reverse)
    /\ iters' = [iters EXCEPT ![i] = inc(@)]
    /\ UNCHANGED vars

Decrement(i) ==
    /\ IsSet(iters[i])
    /\ Moves(iters[i], ~iters[i].reverse)
    /\ iters' = [iters EXCEPT ![i] = dec(@)]
    /\ UNCHANGED vars

MakeReverse(i) ==
    /\ IsSet(iters[i]) /\ ~iters[i].reverse
    /\ Moves(iters[i], TRUE)
    /\ iters' = [iters EXCEPT ![i] = make_reverse(@)]
    /\ UNCHANGED vars

Convert(i) ==
    /\ IsSet(iters[i])
    /\ iters' = [iters EXCEPT ![i] = converted(@)]
    /\ UNCHANGED vars

(* The iterator insert returns: of the two halves of a split, the one the  *)
(* key went to.                                                            *)
InsertedIter(k) ==
    [leaf |-> k, xleaf |-> TreeOf(k), last |-> rebuilds, reverse |-> FALSE]

(* What _trie.insert(leaf) and the destruction of a replaced leaf leave of *)
(* the iterators.                                                          *)
InsertLeaves(k) == Survivors(iters, {k}, InsertDestroys(k, InsertionLeaf(k)))

(* insert(key, args); the client may keep the iterator.                    *)
InsertEntry(k) ==
    /\ Insert(k)
    /\ \E its \in {InsertLeaves(k)} :
        \/ iters' = its
        \/ \E i \in Iterator :
            /\ ~IsSet(its[i])
            /\ iters' = [its EXCEPT ![i] = InsertedIter(k)']

(* operator []: inserts only where there is no entry.                      *)
Index(k) ==
    /\ Find(k).leaf = NULL
    /\ Insert(k)
    /\ iters' = InsertLeaves(k)

(* _trie.remove(leaf, hint), the destruction of the leaf included, with    *)
(* the iterators being `its' by then.                                      *)
RemoveEntry(k, hint, its) ==
    /\ hint # GONE
    /\ RemoveFrom(k, hint)
    /\ \E x \in {RemovalLeaf(k, hint)} :
        iters' = Survivors(its, {k}, RemovalDestroys(x, value[x] \ {k}))

(* erase(key)                                                              *)
EraseKey(k) ==
    \E where \in {Find(k)} :
        where.leaf # NULL /\ RemoveEntry(k, where.xleaf, iters)

(* erase(i): the iterator steps on before its entry is removed; the hint   *)
(* is what it had cached before.                                           *)
Stepped(i) == [iters EXCEPT ![i] = inc(@)]

EraseAt(i) ==
    /\ OnEntry(iters[i])
    /\ Moves(iters[i], iters[i].reverse)
    /\ \E its \in {Stepped(i)} :
        RemoveEntry(iters[i].leaf, iters[i].xleaf, its)

ClearEntries ==
    /\ Clear
    /\ iters' = Survivors(iters, Contents, XLeaves)

MapNext ==
    \/ \E i \in Iterator :
        \/ Make(i) \/ Drop(i) \/ Increment(i) \/ Decrement(i)
        \/ MakeReverse(i) \/ Convert(i) \/ EraseAt(i)
    \/ \E k \in Key : InsertEntry(k) \/ Index(k) \/ EraseKey(k)
    \/ ClearEntries

MapSpec == MapInit /\ [][MapNext]_map_vars

-----------------------------------------------------------------------------
(* What the code can bear.  Four things send an iterator to a destroyed    *)
(* xleaf, and are left out of the guarded specification: a conversion that *)
(* stamps the current count on an xleaf cached at an earlier one; an       *)
(* erase(i) after a rebuild, whose hint is not looked up again; a removal  *)
(* that replaces the cached xleaf without counting a rebuild; and a count  *)
(* that wraps while an iterator holds a greater one.                       *)

Known(it) == OnEntry(it) => ~Outdated(it)

(* The removal of k replaces, uncounted, an xleaf that some iterator       *)
(* will step from as it is.                                                *)
Misleads(k, hint, its) ==
    \E i \in Iterator :
        /\ its[i].leaf \notin {NULL, GONE, k}
        /\ ~Outdated(its[i])
        /\ \E x \in {RemovalLeaf(k, hint)} :
            its[i].xleaf = x /\ Reinserts(x, value[x] \ {k})

CountReadable ==
    rebuilds' < rebuilds => \A i \in Iterator : ~OnEntry(iters'[i])

GuardedEraseAt(i) ==
    /\ OnEntry(iters[i]) /\ Known(iters[i])
    /\ \A its \in {Stepped(i)} :
        ~Misleads(iters[i].leaf, iters[i].xleaf, its)
    /\ EraseAt(i)

GuardedEraseKey(k) ==
    /\ \A where \in {Find(k)} :
        where.leaf # NULL => ~Misleads(k, where.xleaf, iters)
    /\ EraseKey(k)

GuardedNext ==
    /\ \/ \E i \in Iterator :
            \/ Make(i) \/ Drop(i) \/ Increment(i) \/ Decrement(i)
            \/ MakeReverse(i) /\ Known(dec(iters[i]))
            \/ Convert(i) /\ Known(iters[i])
            \/ GuardedEraseAt(i)
       \/ \E k \in Key : InsertEntry(k) \/ Index(k) \/ GuardedEraseKey(k)
       \/ ClearEntries
    /\ CountReadable

GuardedSpec == MapInit /\ [][GuardedNext]_map_vars

-----------------------------------------------------------------------------
(* Properties.                                                             *)

Iterators ==
    [leaf : Key \cup {NULL, GONE}, xleaf : Key \cup {NULL, GONE},
     last : 0 .. RebuildWrap - 1, reverse : BOOLEAN]

(* An iterator keeps pointers to an entry and an xleaf, or null pointers.  *)
IteratorsTyped == iters \in [Iterator -> Iterators]

(* An iterator that is set and not at the end points at an entry of the    *)
(* container; and where its count is the current one, the xleaf it has     *)
(* cached exists and holds that entry, whatever was split, merged and      *)
(* removed since.  It is all that the next step relies on.                 *)
CacheExact ==
    \A i \in Iterator :
        LET it == iters[i]
        IN  OnEntry(it) =>
                /\ it.leaf \in Contents
                /\ it.last <= rebuilds
                /\ ~Outdated(it) => /\ it.xleaf \in XLeaves
                                    /\ it.leaf \in value[it.xleaf]

(* From every entry both steps are defined and lead to the neighbour in    *)
(* the whole container as it is now, or to the end.                        *)
StepsExact ==
    \A i \in Iterator :
        LET it == iters[i]
        IN  OnEntry(it) =>
                /\ Moves(it, FALSE) /\ Moves(it, TRUE)
                /\ Moved(it, FALSE).leaf = SuccIn(Contents, it.leaf, TRUE)
                /\ Moved(it, TRUE).leaf = PredIn(Contents, it.leaf, TRUE)

(* The iterators are the cursors the README promises.                      *)
Promised == INSTANCE Cursors
    WITH keys <- Contents,
         at <- [i \in Iterator |-> iters[i].leaf],
         reverse <- [i \in Iterator |-> iters[i].reverse]
ImplementsCursors == Promised!Spec

(* src/README.md:155-159: an iterator does not get invalidated and may be  *)
(* safely incremented and decremented if new entries are inserted or other *)
(* entries are erased.  Neither step may then read a destroyed xleaf.      *)
StepsDefined ==
    \A i \in Iterator : Moves(iters[i], FALSE) /\ Moves(iters[i], TRUE)

(* src/include/yfast/impl/yfast.h:269: the hint given to remove must       *)
(* either point to an existing leaf or be nullptr.  erase(i) gives it the  *)
(* xleaf i has cached.                                                     *)
HintExists ==
    \A i \in Iterator : OnEntry(iters[i]) => iters[i].xleaf # GONE
=============================================================================
