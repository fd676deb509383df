# A formal model of yfast

yfast is a header-only C++20 library: `yfast::fastmap` is an ordered map over a
[y-fast trie](https://en.wikipedia.org/wiki/Y-fast_trie). Keys are cut into AVL trees of
bounded size, and every tree hangs from a leaf of an x-fast trie, in which a predecessor is
found by binary search over prefix lengths. The library is "not thread-safe or thread-aware":
nothing runs concurrently, nothing is persisted and nothing times out. What is hard in it is
**sequences**: of inserts, removals, splits and merges that leave links, flags, counts, cached
pointers and separators in a state the next call does not expect. So every public operation is
one action, the inputs are chosen freely at every step, and the properties relate what several
earlier operations left behind.

## Inventory

| component | source | state | operations | what makes it correct |
|---|---|---|---|---|
| BST | `impl/bst.h`, `internal/bst.h` | root; per node left, right, parent, size | insert (fresh, replacing), remove (outer, inner), find, pred, succ by key and by node, leftmost, rightmost | links agree in both directions, sizes exact, walks and queries those of a sorted set |
| AVL | `impl/avl.h`, `internal/avl.h` | two flags per node | insert, remove, rotations, split, merge | flags tell the exact difference of heights, at most one; no node gained or lost |
| XFastTrie | `impl/xfast.h`, `internal/xfast.h` | one hash table per level, root node, doubly linked list of leaves, both ends | insert, remove, clear, find, pred, succ | tables hold exactly the prefixes; descendants lie next to the gap; list sorted |
| YFastTrie | `impl/yfast.h`, `internal/yfast.h` | the trie of xleaves, a tree in each, `_size`, `_rebuilds` | insert (+ split), remove (+ merge, re-split, reinsertion), clear, find, pred, succ, ends | trees do not overlap, separators stay in range, sizes bounded, counters exact |
| fastmap, iterators | `fastmap.h` | per iterator: leaf, xleaf, rebuild count | ++, --, make_reverse, conversions, erase(iterator), erase(key), insert, [], clear | an iterator stays on its entry and never uses an xleaf that has been replaced |
| BitExtractor | `internal/bit_extractor.h` | - | shift, extract_bit for integers, byte vectors, strings | prefixes in the order of `Compare`, for all H bits |
| aligned_ptr | `utils/aligned.h` | a tagged pointer | get, set | tags and pointer do not disturb each other |
| Hash, DefaultHash | `internal/hash.h`, `internal/default_hash.h` | a map | contains, at, [], erase, clear | wrapper of `tsl::hopscotch_map` or `std::unordered_map`, a template parameter |
| the rest | `internal/concepts.h`, `internal/fastmap.h`, `utils/maybe_const.h`, `iterator.h`, `version.h` | - | - | compile-time only |

How they interact: `fastmap` allocates leaves, which are AVL nodes, and calls YFastTrie.
YFastTrie asks the x-fast trie for the xleaf at or before a key, looks at the trees of that xleaf
and of its list neighbour, and changes one of them; beyond the split threshold (`2 * H`) it takes
the xleaf out of the x-fast trie, splits the tree at its root and inserts two new xleaves,
each keyed by **the root of its tree**; below the merge threshold (`H / 4`) it does the converse
with a neighbour. Every such change but one counts in `_rebuilds`, by which iterators see
that the xleaf they cache may be gone. The hazards are listed with their lines in
`PROJECT.json`.

## Modules

| module | models | state | actions |
|---|---|---|---|
| `OrderedKeys` | order queries on a set of keys, `NULL` | | |
| `SortedSet` | the promise of every container here | `keys` | one key inserted, one removed, all removed |
| `Cursors` | the promise of `fastmap`: a sorted set, and cursors that stay on their entries | `keys`, `at`, `reverse` | Make, Drop, Step, Reverse, Insert, Erase, EraseAt, Clear |
| `TreeShape` | which key of a set an AVL tree may have at its root | | |
| `BinaryTree` | `BST` as operators on a heap of nodes: links, sizes, walks, insert, remove | | |
| `BST` | a tree nothing balances | `tree` | Insert, Remove |
| `AVL` | rotations, insert, remove, split, merge on two trees sharing a heap | `heap`, `lo`, `hi` | Insert, Remove, Split, Merge |
| `XFast` | `XFastTrie` on explicit tables, nodes and links | `root`, `hash`, `prv`, `nxt`, `leftmost`, `rightmost` | InsertNew, InsertOnTarget, Remove, Clear |
| `YFast` | `YFastTrie` | `value`, `size`, `rebuilds` | InsertFirst, InsertReplace, InsertGrow, InsertSplit, Remove (Merge, Last, Reinsert, Keep), Clear |
| `FastMap` | `fastmap` and its iterators, over `YFast` | `iters` and the state of YFast | Make, Drop, Increment, Decrement, MakeReverse, Convert, InsertEntry, Index, EraseKey, EraseAt, ClearEntries |
| `BitKeys` | `BitExtractor`: two keys followed down the levels together | `kind`, `a`, `b`, `level`, `order` | Descend |
| `OperatorProofs`, `BinaryTreeProofs`, `AVLTreeProofs` | lemmas: what the operators of `OrderedKeys` and `TreeShape`, of `BinaryTree`, and of one tree of `AVL` do | | |
| `BSTProofs`, `AVLProofs`, `XFastProofs`, `YFastProofs`, `FastMapProofs` | the theorems of the five components | | |
| `MC*` | instances for TLC | | |

Correspondence to the code:

* **BinaryTree / AVL.** A tree is a record of functions from nodes to members; trees on one heap
  differ in the root alone, so moving a tree moves its root. The code spells each
  operation out for left and right; the model takes the side as a parameter, so a rotation is one
  operator for two functions. The two heaviness flags of a node are one field with three values.
  The walks of BST, and `height`, are recursive functions on nodes, and `Path` is the set of nodes that the two loops over sizes
  visit. The four loops of AVL that change something on the way up - rebalancing in insert, in remove and in merge, and the climb of
  merge - are given by what one round makes of what the loop holds (`GrownRound`, `ShrunkRound`, `SpineRound`,
  `ClimbedRound`); `Loop` goes through as many rounds as there are nodes, which is enough, as a loop that goes up one level a round has
  ended by then. All go by the links and flags there are, even where these are wrong. A node outside the trees is kept
  blank, a tree of size 1 by itself: insert overwrites every member.
* **XFast.** `hash[h]` is the table of level h, `root` the node of the empty prefix. Insert and
  remove compute every level from the state before, as the loops of the code do, since no level
  of a loop reads what another one wrote. `approx`, its binary search included, works on the
  tables, not on the set of keys. The BitExtractor is a parameter here as it is in the code: `shift`
  and `extract_bit` are constants, of which `BitsAssumption` says that the prefixes of two keys part at one level and that the
  bits there tell their order. The properties of `BitKeys` are these facts of the extractors the library has, and the
  runs of XFast give numbers cut by `\div`.
* **YFast.** The x-fast trie and the trees are taken at their contracts: an ordered set of xleaf
  keys and sets of keys. What a root may be is *not* fixed: split, merge and
  reinsertion choose any key that `AvlRoots` allows, and the runs of AVL check
  (`RootsInRange`) that real trees obey it. All the control of yfast.h is kept: which of two trees an
  insert goes to, the four-way choice of `pick_neighbor`, the re-split of a merge, the
  reinsertion, the hint of `remove` (`RemoveFrom(k, hint)`), the return paths of `pred` and `succ`.
* **FastMap.** An iterator is the record `IteratorBase` keeps: leaf, xleaf, the rebuild count it last saw,
  and the direction. `GONE` is a pointer to something destroyed: `Survivors` puts it in place of every
  leaf an update deletes and every xleaf it destroys, while the iterator itself learns nothing, as in the code.
  An iterator whose leaf is gone is one the README calls invalidated, and takes no further part. An
  iterator whose *xleaf* is gone is valid; whether it ever reads that xleaf is the question. `inc`, `dec`,
  `make_reverse`, the conversions and the two erases go through the same steps as the code: look in the
  tree the leaf itself is in, refresh by the count, cross to the neighbouring xleaf. `erase(i)` steps first and
  removes afterwards, with the xleaf cached before as hint. Values are left out, as is constness; and of an
  iterator at the end, the xleaf and the count, as nothing reads them.
* **BitKeys.** `1 << n` is an int of `IntBits` bits: its last bit is sign-extended when it meets a wider key, and
  beyond, where C++ leaves the shift undefined, the bit read is a nondeterministic choice of what processors and
  compilers make of it. Byte strings are shifted byte by byte with the carry cut off at the byte's width.
* Definitions whose names end in a suffix such as `_NotCounted` are *mutants*: what a
  plausible slip would have made of the definition below them. No action uses them. TLC finds each
  property violated when its mutant takes the definition's place.

## Runs

| run | instance | states | shows |
|---|---|---|---|
| `yfast` | 9 keys, thresholds 5 and 2 | 26 884 | every property of YFast and that it implements `SortedSet` |
| `xfast` | H = 4, 8 keys | 49 695 | tables, descendants, links and all queries exact; implements `SortedSet` |
| `xfast_gap` | as `xfast`, all inserts | | *violated*: `pred` after an insert that misdirects the root |
| `xfast_twin` | H = 3, two leaves per key | | *violated*: a replaced leaf is still linked |
| `bst` | 7 keys and a twin | 5 169 | every tree shape of 7 keys |
| `avl` | 10 keys and a twin, two trees | 59 567 | sorted, linked, sized, balanced; implements `SortedSet` |
| `avl_merge` | as `avl`, all merges | | *violated*: merge with a single greater node |
| `fastmap` | 7 keys, 1 iterator, thresholds 5 and 2 | 78 978 | under the guards: caches are right or known to be old, every step leads to the neighbouring entry; implements `Cursors` |
| `fastmap_steps` | as `fastmap`, no guards | | *violated*: a step of a valid iterator reads a destroyed xleaf |
| `fastmap_hint` | as `fastmap` | | *violated*: the hint erase(i) would pass on is a destroyed xleaf |
| `bits` | keys of 9 bits: integers, and strings of 3 bytes of 3 bits | 81 920 | shifts and bits tell of one trie, in the order of `Compare` |
| `bits_wide` | 4 levels, an int of 3 bits | | *violated*: keys wider than an int are not in order |

Bounds, and why they are enough:

* *YFast.* `H >= 8` makes the thresholds at least 16 and 2. What matters is their order and
  the ways keys can divide, so they are scaled down to 5 and 2, the least that
  `ThresholdAssumption` admits: nine keys give a split, three trees (a choice for
  `pick_neighbor`), a merge that fits and one that must be split again, and keys to place at either
  end of a tree and in between. The theorems cover the real thresholds, and with them the larger least
  size of trees from H = 12 on (`SizesKept`).
* `RebuildWrap` stands for the width of `_rebuilds`: 2 is the least value at which a counted rebuild
  is still seen; the runs of FastMap take 3, so that an iterator may be one or two rebuilds behind.
* *FastMap.* Iterators change neither the container nor one another, so one meets every case two would.
  Seven keys give two trees, both ways across, and all of split, merge, re-split and reinsertion under the iterator.
* *XFast.* Four levels give a search of two steps with both outcomes, subtrees of every height to
  remove, and a root, inner nodes and bottom nodes. Keys in two halves, with gaps in both, and both
  ends of the range. Two leaf objects per key only where a replacement is the question.
* *BST, AVL.* Seven keys give all shapes in which the successor of a removed node is, or is not, its
  child. Ten keys over two trees give trees of four levels, so a merge climbs at
  least one level up the spine, from either side, and rebalances above.
* *BitKeys.* With bytes of three bits and three to a string there are shifts by whole bytes, by one bit and by
  two, and a carry into an inner and into the last byte. Byte values 0, 1, 4 and 7 set each end bit alone, and all. The passing run
  keeps to H up to the width of an int, strings of one length, and numbers that are not negative. Negative numbers
  and strings of different lengths are not in the order of `std::less`: `src/README.md:111` makes it
  the client's duty that `Compare` matches the order of the bits.

Nothing is scheduled, so no fairness is assumed and no liveness claimed; the specifications are
safety only. A container can always step (an empty one takes an insert), and deadlock is
checked in all runs but those of BitKeys, whose walk ends at level 0.

### What the code does not keep

Six runs end in violations; each quotes what the source says of itself.

1. `xfast.h:183` (`xfast_gap`). The root's descendant is moved to the new leaf if the **bit below the branching level**
   points to the absent half, where all other nodes compare keys. While all keys have the same first bit,
   the root may then leave the leaf next to the gap for one further away, and `pred` and `succ` of
   keys in the empty half are wrong. It can be met through `fastmap`: all keys in the lower half, `pred` of one
   in the upper. `GuardedSpec` of XFast leaves out just the inserts
   for which the two rules differ (`MisdirectsRoot`).
2. `xfast.h:151-153` (`xfast_twin`). An insert with the key of a leaf in the trie replaces it in `_hash[0]` only. YFastTrie never
   does that; `GuardedSpec` leaves it out.
3. `avl.h:268` (`avl_merge`). `merge` with a single greater node, where the end of the other tree's spine has
   a left child: the result is not balanced and its flags do not tell it, or, where that end is
   the root, the greater node is not in the result at all. `GuardedSpec` of AVL leaves out just those merges (`StrandsMerge`). YFast's
   `TreeSizes`, a theorem, shows that YFastTrie never asks for them when H is at least 12; with H from 8 to 11
   (a merge threshold of 2) it can.
4. `yfast.h:315-322` (`fastmap_steps`). The reinsertion of a tree under a new xleaf is not counted in `_rebuilds`. No two keys change
   trees by it (`RegroupingCounted` holds), but the xleaf an iterator has cached is destroyed, the count does not tell, and the
   next step across trees reads it (`fastmap.h:103`). With H = 8: insert 0, 1, 2, ... until there are two trees,
   hold `find(2)`, erase the other keys of its tree, step on.
5. `fastmap.h:696-697` (`fastmap_hint`). `erase(i)` passes on its cached xleaf without the comparison of counts that `++` and `--`
   make; after a split or a merge the hint is a destroyed xleaf, where `yfast.h:269` requires an existing one.
6. `bit_extractor.h:21` (`bits_wide`). `1 << n` is an int. For keys of 64 bits, H up to 32 is answered correctly where the
   upper bits are zero, and H = 33 or more is not.

The passing runs of XFast and AVL therefore say: *apart from these inputs* the component keeps its
promises. YFast is stated over promises kept without exception, so its results hold of the code for
executions that do not meet cases 1 and 3.

`GuardedSpec` of FastMap leaves out, by name, what the code cannot bear:

* `Misleads`: a removal that reinserts, uncounted, the xleaf an iterator trusts (case 4).
* `Known` before `erase(i)`: no rebuild since the iterator last saw the count (case 5).
* `Known` before a conversion, and after the step of `make_reverse`: both go through `IteratorBase(where)`, which stamps
  the current count on whatever xleaf was cached (`fastmap.h:85`, reached from 291-295, 312, 340-344 and 399), so that a
  stale one then passes for current.
* `CountReadable`: the count does not wrap while an iterator holds a greater one (`fastmap.h:98`). The reset of
  the count by `clear()` is allowed and harmless: it invalidates every iterator on an entry.

The guards are as weak as the hazards: an iterator may be any number of rebuilds behind, and steps, finds out and recovers.

## Proofs

Of YFast and FastMap, for every finite set of natural keys, all thresholds with
`TREE_SPLIT_THRESHOLD >= 5` and `TREE_MERGE_THRESHOLD >= 2` (`H >= 8` gives 16 and 2; `BoundsKept` has
the thresholds of the code), every width of
the rebuild count and, in `FastMapProofs`, every set of iterators. Of XFast, for every key length
`H >= 2`, every BitExtractor that satisfies `BitsAssumption`, and every finite set of leaves, any number of them with the same key.
Of BST and AVL, for every finite set of nodes with any keys, equal ones too, and no further assumption:

| module | theorem | statement |
|---|---|---|
| `YFastProofs` | `InvariantHolds` | `Spec => []Invariant` |
| | `TypeCorrect`, `OrderKept`, `SeparatorsKept`, `SizesKept`, `SizeCorrect` | `TypeOK`, `TreesOrdered`, `SeparatorsInRange`, `TreeSizes`, `SizeExact` always hold |
| | `FindCorrect` | `find` answers exactly, always |
| | `Refinement` | `Spec => ImplementsSortedSet` |
| | `NeighboursCorrect` | `pred`, `succ` and both ends answer exactly, always |
| | `RegroupingsCounted` | keys change trees only with the rebuild count |
| | `BoundsKept` | thresholds `2 * H` and `H \div 4`, `H` from 8 to 223: `Spec => []TreesBounded` |
| `FastMapProofs` | `MapInvariantHolds` | `GuardedSpec => []MapInvariant` |
| | `IteratorsTypeCorrect`, `CachesCorrect`, `StepsCorrect` | `IteratorsTyped`, `CacheExact`, `StepsExact` always hold |
| | `CursorsImplemented` | `GuardedSpec => ImplementsCursors` |
| `XFastProofs` | `WholeHolds` | `GuardedSpec => []Whole` |
| | `TypeCorrect`, `LinksCorrect`, `PrefixesCorrect`, `DescendantsCorrect` | `TypeOK`, `LinksSorted`, `PrefixesExact`, `DescendantsExact` always hold |
| | `SearchCorrect` | the binary search finds the longest prefix, always |
| | `QueriesCorrect` | `find`, `pred` and `succ` of every key answer exactly, always |
| | `Refinement` | `GuardedSpec => ImplementsSortedSet` |
| `BSTProofs` | `WholeHolds` | `Spec => []Whole` |
| | `TypeCorrect`, `LinkedCorrect`, `SizedCorrect` | `TypeOK`, `TreeLinked`, `TreeSized` always hold |
| | `WalkedCorrect`, `AnswersCorrect` | walks from node to node and queries by key answer exactly, always |
| | `Refinement` | `Spec => ImplementsSortedSet` |
| `AVLProofs` | `WholeHolds` | `GuardedSpec => []Whole` |
| | `TypeCorrect`, `SortedCorrect`, `LinkedCorrect`, `SizedCorrect` | `TypeOK`, `TreesSorted`, `TreesLinked`, `TreesSized` always hold |
| | `BalancedCorrect` | the flags tell the exact difference of the heights, at most one, always |
| | `RootsCorrect` | the root is a key that `AvlRoots` allows, always |
| | `Refinement` | `GuardedSpec => ImplementsSortedSet` |

**YFast.** The invariant is the conjunction of the five properties of the second row. None of the first
four is inductive by itself. A new key is placed by looking at the keys of two xleaves and the minimum of
one tree; that it falls between the trees on both sides needs the separators to lie in the range of
their trees (`InsertionApart`). The separators stay there after a removal because a tree
below the merge threshold is merged, and any other is reinserted when its separator has left it;
after a split because both halves are non-empty and keyed by one of their own keys. That
they are non-empty, and large enough, comes from the sizes (`SplitSizes`, `HalvesSizes` in
`OperatorProofs`: the parts of an AVL tree of n nodes at its root), and that a tree is merged
with the right neighbour only needs the order again (`NeighborNear`, `OthersApart`). `SizeExact`
follows as each update adds a key that was in no tree or takes out one that was, which is where
`FindExact` is needed: it follows from order and separators (`FindsTree`).

`Slot`, `Around` and the lemmas of `OperatorProofs` say where a key lies among the xleaves;
`Rehung`, `HalvesHung`, `TreeHung` and `TreeKept` what replacing xleaves does to the invariant; `Inserted`
and `Removed` put them together per operation, `InsertEffect` and `RemoveEffect` per action.

**Queries and regroupings.** `pred` and `succ` look at no more than two trees and one end of each. That the answer in
the whole container is among these follows from the order of the trees and the range of the separators, by the side of
the separator the key is on. `RegroupingsCounted` goes through the ways trees change: only splits, merges and
re-splits put two keys in other trees than before, and each of them counts.

**Iterators.** `MapInvariant` joins to YFast's invariant what every iterator keeps (`Good`): on an entry, the entry is in the
container, the count it has seen is not ahead, and if it is the current one the cached xleaf holds the entry. A step
is then exact (`MovedUp`, `MovedDown`): inside a tree by the order of its keys, across trees because the neighbouring xleaf is
that of the neighbouring tree (`AroundTree`). An update keeps the iterators good (`InsertKeeps`, `RemoveKeeps`): where
it counts, all of them are outdated; where it does not, it destroys no xleaf that one of them trusts, which is the
guard `Misleads`. For the refinement, `CursorsLeft` says what an update leaves of the cursors, and one lemma per
action (named `...Outcome`) maps it to a step of `Cursors` or a stutter.

**Trees within the threshold.** `TreesBounded` does not follow from the order of the thresholds: a merge that exceeds the split
threshold is cut at its root, and the larger part must fit. What AVL trees allow there is a matter of numbers: a tree of
height h has from `Sparsest[h]` to `Fullest[h]` nodes (2^h - 1), and the merge of a tree that is full with one just below `H / 4`
can have `9 * H / 4` of them. `HalvesFit` goes through the heights the halves of such a merge may have, for all H from 8 to
223. At H = 224 the argument ends, and not for want of a case: a half of 449 nodes beside one of 54 is
a shape these bounds allow, and `2 * H` is 448. Whether insertions and removals can lead to it is open.

**XFast.** The invariant `Whole` says of the list that `prv` and `nxt` are the neighbours among the leaves (`Linked`), of each
table that it is filled by the leaves below each prefix (`Filed`, `Levelled`), and of each node, the root included (`Rooted`), that its two
bits tell which children have leaves and that with one child its leaf is the end on the side of the gap (`Exact`). It is stated over
the set of leaves, not over neighbouring tables as the checked properties are, since an
update changes all levels at once and each level must be compared with the same set. `DescendantsExact` alone is not inductive: that the leaf an
insert links beside is the neighbour of the new one needs the search to be right, the search needs the tables to be, and the
tables after a removal need each node's bits.

The binary search is a recursive function of an interval of levels. That it is defined at all has to be proved: solutions on intervals of a
length extend to the next length (`SearchSolved`, `SearchDefined`; by the least counterexample, as induction principles are out of the
prover's reach). `SearchFinds` says where it ends, `GapFact` that the leaf beside the
gap is next to the key, and `PredAnswers`, `SuccAnswers` draw the answers from that. Insertion and removal are compared level by level
(`FreshExact`, `WidenedExact`, `BranchedOff`; `RemovedNodeExact`, `PrunedLeft`, `PrunedRight`), the list on its
own (`LinkedIn`, `LinkedOut`). The theorems are about `GuardedSpec`: the inserts left out are the cases 1 and 2 above, and `InsertedRootExact` is where the
guard `MisdirectsRoot` is used.

**BST.** The invariant `Whole` says that the links of the heap are a *forest*: `Forest(C, P, D)` relates the
children C and the parents P of all nodes to the set D[n] of the nodes below each, n included, and has the keys in D of a child
beyond n's on that side. The tree is one of the trees of it (`Standing`), its sizes count D, and every other node
is a tree by itself (`Single`). The last part is what `TreeLinked` and `TreeSized` lack to be inductive: `insert` writes the links of its node
one by one, and would lose or share a subtree if the node still had one, or if another node still named it.

A forest is stated with D given, not computed, so that what an update does to it can be written down as three functions and
checked node by node: a leaf is hung below p (`Hung`), a node with at most one child is cut out (`Cut`), two nodes change
places (`Swapped`). `insert` is the first, or, where it replaces, the third; `remove` is the second, and where the node has two
children the second for its successor and then the third (`InnerForest`); the order in which the code does the relinking, and the special case
of a successor that is the node's own child, must come to the same links (`InsertLeaf`, `InsertFirst`, `InsertOver`, `RemoveOuter`, `RemoveInner`). Along the
way up that corrects the sizes, the nodes found by `parent` must be those that gained or lost a node (`PathFact`), though
the links of the node that leaves are still there.

The loops are recursive functions, and a recursive function on nodes is defined whatever the links are (`WalkDefined`: where it goes on
forever it may have any one value for all the nodes on the way). Where they end follows from the forest, going up it (`BottomUp`) or
down (`TopDown`), each by the counterexample with the fewest or the most nodes below: `NodesAtFact`, `EndFact`, `TurnFact`, `NeighbourFact` and `PlaceFact` say what
the walks find, `SeekFact`, `WalkedFact` and `AnswersFact` what the queries answer.

**AVL.** The invariant `Whole` is stated over one forest for the whole heap: `Both` says that the heap is a forest in which the
trees at lo and hi stand side by side and every other node is a tree by itself, that every size is the sum of those below (`Summed`),
and that there are heights V by which every flag is right (`Exact`); `Lower` says that the keys of the one tree are below those of the
other. Flags and sizes are exact on *all* nodes, blank ones too (of height 1 and size 1), so nothing has to be said of what an
operation leaves behind. None of the checked properties is inductive: a rotation is right only if the flags are, and the flags are kept only
if the loop stops at the right node.

While a rebalancing loop goes on, exactly one node is out of date. `Fits(C, H, V, p, u, w)` says so: p still sees the old height w on side u,
and every node has the height and the flags that follow from what it sees. Insert and merge hold that the subtree there has
grown by one, remove that it has shrunk by one. One round either ends the loop with `Exact` or moves the old height one level up; the
cases are those of the code (`GrownStep`, `ShrunkStep`, `SpineStep`), and the height that a rotation leaves decides between
them (`OnceFits`, `TwiceFits`: an even child is what sets remove and merge apart from insert). That a loop ends within as many rounds as there are
nodes follows as the node it is at has ever more nodes below it (`RoundsEnd`).

A double rotation is two rotations of the forest (`TwiceReplaced`), whatever the code does to the links in between;
`RotateDone` and `RotateTwiceDone` show that its relinking and its flags come to that. Sizes are compared where a rotation recomputes them and
nowhere else (`OnceSummed`, `TwiceSummed`), and a sum over children at every node is a count of the nodes below (`SumsCounts`).

Merge takes the least node out of the greater tree, climbs the spine of the taller tree to a subtree of the other's height or one more
(`ClimbEnds`), joins the two there below the node (`JoinsAt`, `JoinFits`) and rebalances upwards. The one thing this needs, and the code does not
ensure, is that the climb begins no more than one level above that height: with an empty remainder it may begin two above, at the
root even, which is `StrandsMerge`, and `MergeFact` needs its negation. `height` follows the flags down one path, and is the height only because they
are exact (`HeightFact`). `RootsInRange` follows from the heights: a tree of height h has at least `Sparsest[h]` and at most `Fullest[h]`
nodes (`HeightsFit`). It is what YFast assumes of the trees it cuts, so the two modules meet in a theorem on either side. For the refinement
`KeysInsert`, `KeysOnce` and `ContentsBecome` say what the four operations do to the set of keys.

Only model-checked: BitKeys (`PrefixesTyped`, `BitsTellPrefix`, `BitsTellOrder`, `BytesSpellNumber`). It computes with powers of two and with
folds over sequences of bytes, and what a fold computes needs an induction over data, which is out of the prover's reach; `BitsAssumption`, from which the
theorems about XFast start, is checked of the extractors by that run. The six violations are runs, not theorems. There
is no liveness property: nothing is scheduled, and a specification that may stop is what a library is.

## Not modelled

* **The composition of YFastTrie with the real x-fast trie and AVL trees**: the ten keys a split and a merge
  take, times tables, links and tree shapes, are beyond TLC. Each layer is checked alone, and the layer above takes it at its
  contract; the two contracts the real layers do not keep are cases 1 and 3 above.
* **aligned_ptr**: single mask expressions; the models keep tag bits and pointer as separate fields.
* **Values, constness and moves**: values are stored and returned, no control depends on them. Moving a container hands its members
  to a new one, and its iterators may be dereferenced but no longer stepped (`src/README.md:153`); the move constructors are left out.
* **Hash** (a template parameter; used as a function), **concepts**, **version** headers (no state), **allocation** (a leaf is
  made for each insert and destroyed after its removal), and the running times the library promises.
* **Byte strings of different lengths, and negative integers**, in BitKeys (see the bounds).
