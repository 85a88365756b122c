# A model of ModelsPHOG in TLA+

ModelsPHOG learns and evaluates probabilistic models of code. `phog/model/evaluate`
loads a file of JSON syntax trees for training, counts for every node the label it has
under the context that a TGen program computes there, loads a second file, predicts the
label of every node in it, and prints the error rate. This directory holds TLA+ modules
of the code between the text of these files and that number, configurations that check
them with TLC, and theorems about them that TLAPS checks.

Paths are relative to `src/`. `PROJECT.json` lists the components, the runs, the line
range that every definition stands for, a plausible bug for every property (the
definitions named `<Definition>_<Bug>`), the hazards, and the theorems.

## 1. The system

### 1.1 Parts, state and operations

| Part | Files | State | Operations | Model |
|---|---|---|---|---|
| Node storage | `phog/tree/tree.h` | `nodes_`, `first_free_node_` | `AllocateNode`, `DeallocateNode` | `NodeVector`, `NodePool` |
| Tree edits | `phog/tree/tree.cpp`, `tree.h` | the links of the nodes | substitutions, removal, insertion, copies, `Canonicalize`, subtrees up to a size | `TreeStorage` implements `OrderedTree` |
| Local trees | `tree.cpp`, `tree.h` | a second storage, attached to a node of the first | `AttachTo`, `GetSubtreeForCompletion`, `InlineIntoParent`, edits of both | `LocalTrees` implements `PlantedTree` |
| Traversals | `tree.h` | a storage and a position; a node that is not there yet | moves, `write_node`, tree iterators | `TreeStorage`, `LocalTrees` |
| Sliced traversal | `phog/tree/tree_slice.h` | a position and a slice | moves that hide what is to be predicted | `SlicedTraversal`, `LocalTrees` |
| TCond interpreter | `phog/dsl/tcond_language.h` | a cursor, the features written | 14 operations, three of them loops | `TCondExecution` implements `TCondReference`; `TCondNoninterference` |
| JSON values | `json/jsoncpp.cpp` | a tree of maps | conversions, comparisons, arrays and members | `JsonValue` |
| JSON reader and writers | `json/jsoncpp.cpp` | a place in a document, a stack of containers | `Reader::parse`, `FastWriter`, `StyledWriter` | `JsonReader` |
| Tree parser | `tree.cpp` | `nodes_` | `TreeStorage::Parse` | `TreeParse` |
| Actor index | `phog/tree/tree_index.h`, `tree_index.cpp` | nodes by symbol, predecessors by node | `Build`, `MoveLeft` | `ActorIndex` |
| Parallel loader | `tree.cpp`, `base/readerutil.h` | a stream, a counter, a vector of trees, two mutexes | eight threads in `ParseTreesInFileWithParallelJSONParse` | `ParallelParse` |
| Record readers | `base/readerutil.h` | a stream, a list of files, a row counter, a cache | `Read`, `ReachedEnd`, folds, caching, shuffling | `RecordReaders` |
| Tree comparison | `tree.cpp` | two cursors, a depth, six counters | `CompareTrees`, `TreeSize` | `TreeComparison` |
| Comparison statistics | `tree.cpp`, `tree.h` | sums by size and predictor, a lock | `AddTreeCompareInfo`, the tables | `TreeComparison` |
| Pretty printers | `tree.cpp` | one cursor for all calls, a string | the Java and JavaScript printers, the window around a mark, the debug dump | `PrettyPrint`, `TreeDump` |
| TGen programs | `phog/dsl/*` | a vector of programs | `AddProgram`, `FindProgram`, gotos, text in both directions | `TGenProgram` |
| Model | `phog/model/model.cpp`, `model.h` | counters per submodel | train a sample, end training, predict with a beam | `TGenModel` |
| Counters | `phog/tree/pbox.h` | counts by feature and label | `AddValue`, `EndAdding`, four smoothings | `FeatureCounter` |
| Hash table | `base/sparsehash/internal/densehashtable.h` | buckets, two counters, two thresholds | find, insert, erase, resize, copy, serialize | `DenseHashtable` implements `KeyValueMap` |
| String set | `base/stringset.*` | bytes, a hash table | `addString`, `findString`, save and load | `StringSet` implements `KeyValueMap` |
| Evaluation | `phog/model/evaluate.cpp` | the program, the trees, the metric | `main`, `Eval` | `Evaluation` |
| Rest of `base`, of `json` and of `sparsehash` | | | | not modelled (section 7) |

### 1.2 How they interact

* `main` loads a TGen program from a file that another process has written; labels in it
  are names, and get their numbers from the string set of this process.
* `Eval` calls the loader twice, then trains and predicts in one thread. Threads share
  the reader, the counter `records` and the vector of trees, under two mutexes.
* The loader hands every line to the JSON reader, and the value to `TreeStorage::Parse`.
  Its trees are in depth-first order, which the model checks of trees call *canonical*
  (`CanonicalTree` of `SyntaxTree`) and on which slices and the index rely.
* `TGenModel` runs the branch programs, the Eq program and the context program of a
  submodel through the TCond interpreter. The interpreter moves a sliced cursor,
  which reads the storage, and asks the index for earlier nodes. The index was built
  from the same storage without a slice.
* The features that the interpreter passes to its callback go, as a hash, into the
  counters, which are dense hash tables; so does the label. Prediction runs the same
  programs again on another tree.
* A synthesizer on top of the library would keep a completion in a local storage, attach
  it to a tree, walk over both as if they were one, and inline it. Of all this only the
  library is in the repository, and tests of it.
* Only tests call `CompareTrees`; nothing calls the statistics or `DecodeTypeLabel`.
  They are part of the interface.

### 1.3 What is hard, and what makes each part correct

* **Leaking.** The tree on which a label is predicted already has this label and all
  later ones. The slice must hide them, through every move and through the index, also
  when a loop of the interpreter chases pointers. Correct: what a program does depends
  only on what is before the predicted node. (`SameExecution`, `CursorStaysVisible`)
* **Pointer chasing.** PREV_DFS, PREV_LEAF and NEXT_LEAF are loops over sibling and
  parent links. Correct: they end, and end at the node that their name says.
  (`OperationsEnd`, `ImplementsReference`)
* **Stale index.** The entry for the predicted node is for a symbol that the program
  does not see. Correct: the answer is the one a search of the visible tree would give.
  (`AnswersMoveLeft`, `LoadingEnds`)
* **Threads.** Lines are read in one critical section, stored in another, parsed in a
  third. Correct: each schedule gives what one thread would have given, the process
  neither hangs nor uses an element that is being moved. (`SameAsSequential`,
  `SlotsAreExact`, `TreesExclusive`, `CallEnds`)
* **Folds and caches.** The row counter of a fold, the position in the file and the cache
  belong to all threads. Correct: each record goes to one thread, and a replay of the
  cache is a permutation of what was read. (`EachRecordOnce`, `LaterPassesRepeat`,
  `PassesEnd`)
* **Recycled ids.** Freed nodes are linked through a field of their own and used again.
  Correct: no id is given out twice, ids of other nodes stay. (`FreeListIsExact`,
  `LiveNodesUntouched`)
* **Six links per node, two storages.** Correct: after any sequence of edits the links
  agree, the trees are the ones that a description without links gives, and a walk across
  both storages is the walk over the tree they stand for. (`Consistent`,
  `ImplementsPlantedTree`, `WalksAsInWhole`, `SubtreesAreMaximal`)
* **Unchecked input.** Texts are cut, damaged, or have an earlier line behind them;
  children are ids in a file. Correct: what is read is what was written, nothing that was
  consumed is dropped, conversions wrap nothing, trees are read as they are or refused.
  (`ReadsWhatIsWritten`, `AcceptedTextIsKept`, `ValuesAreConsistent`, `TreesAreParsed`)
* **Two cursors in step.** Correct: each pair of places is compared once, the rest is
  counted, the cursors come back together, sums are sums, and what is printed as the
  number of completions is that number, which it is not. (`EveryPlaceCounted`,
  `StatisticsAreExact`, `ComparisonEnds`; `DepthRestored` and `CompletionsCounted`, both
  violated)
* **One cursor for all calls.** A printer that does not restore it misplaces all that
  follows. (`CursorRestored`, `HighlightIsShown`, `DumpIsExact`)
* **Counting and predicting in step.** The same branches have to be taken in training
  and prediction, labels have to be encoded without a clash, smoothed probabilities
  have to be probabilities. (`CountsAreExact`, `ProbabilitiesAreSound`,
  `OnlyUncertainSamplesAreErrors`)
* **Gotos and text.** A program file can send the model round in circles, and its labels
  may look like its syntax. (`BranchLoopEnds`, `ChecksHold`, `ProgramsSurviveTheirFile`)
* **Tombstones and growth.** An open addressing table is searched until an empty bucket,
  erased items are not empty buckets, and growing moves everything. (`TablesAreMaps`,
  `ImplementsMap`, `ResizingSettles`, `NumbersStayValid`)

Nothing restarts in the middle of its work, and no message is lost: there is no network,
and files are written as a whole. What the code does meet is a file that is cut: the
hash table is loaded from one in `HashTables`, which then promises only that searches
end (see 6), and texts are damaged in `TreeLoading`.

## 2. The modules

```
SyntaxTree <- SlicedTraversal <- TCondExecution <- TCondRefinement -> TCondReference
                              <- TCondNoninterference (TCondExecution twice)
                              <- ActorIndex
NodeVector <- NodePool
NodeVector, SyntaxTree <- TreeStorage
TreeStorage, SlicedTraversal <- LocalTrees -> PlantedTree (OrderedTree twice)
JsonValue <- JsonReader; JsonReader, ActorIndex <- TreeLoading (TreeParse)
SyntaxTree, JsonValue <- TreeParse
SyntaxTree <- TreeComparison, TreeUniverse, PrettyPrint <- TreeDump
ParallelParse
RecordReaders
TGenProgram, FeatureCounter <- TGenModel <- Evaluation
DenseHashtable <- HashTables (StringSet) -> KeyValueMap twice
NodePool, HashTables <- Containers
```

`<-` is EXTENDS (or INSTANCE); `->` is a refinement. `TreeUniverse` models no code: it
enumerates the canonical trees of an instance. Beside a module there may be one with
its proofs (`<Module>Proofs`) and one with its instance for TLC (`MC<Module>`); small
instances are at the end of the module itself.

**SyntaxTree** has nodes and the relations between their links. A tree is a function
from ids to nodes. Strings are model numbers: a type or value is an id of the string
set, -1 for none, -2 for one that is still to be predicted.

**SlicedTraversal** has one operator per move of `SlicedTreeTraversal`: where the cursor
gets, or `Stay` when the method returns false. The hash of a context symbol is what is
hashed. `MoveLeft` says what the index answers; `ActorIndex` shows that it does.

**TCondExecution** is the interpreter. A state is a position and where in an operation
the interpreter is; any operation may follow any other, so that a behaviour is the run
of some program. Each iteration of a loop is a step. **TCondReference** describes each
operation without links, by depth-first numbers. **TCondRefinement** adds two history
variables and the refinement. **TCondNoninterference** runs two interpreters on two
trees with the same history.

**ActorIndex** is `Build` with its walk without a stack, one visit a step, and the
binary search of the iterator (`LowerBound` stands for `std::lower_bound`). It runs as
the last part of TreeLoading, and is a module of its own because things are proved of it.

**NodeVector** has the two operations on the vector, **NodePool** any sequence of them,
with a history variable `freed`, the stack that the linked list stands for.

**TreeStorage** has the edits as operators from storages to storages, built of the eps
cursor and the iterators just as the code is. **OrderedTree** is the abstraction:
labels by paths of child indices. A substitution there is a recursive definition on
paths, and is a queue with cursors in the code.

**LocalTrees** has the actions: `store` is a storage, `local` one that is attached to its
node `place` or lies beside it, `cursor` one that walks over both. The root of a local
storage has marks instead of links, and a cursor that reads one goes on in the parent.
**PlantedTree** is two ordered trees and a path. The refinement mapping reads the labels
of each storage along its own links.

**JsonValue** has values with the two integer types, whose widths are constants, arrays
as maps with holes, and comparisons. **JsonReader** is the recursive descent with its
containers on a stack, one token a step, and the two writers as operators. A text is a
sequence of symbols, where a word such as `null` or `"children"` is one symbol;
characters are spelled out where the code looks at them (signs, digits, escapes).

**TreeParse** fills the vector, one child a step. A failed CHECK ends in `failed`, a
conversion that throws in `threw`; the write to `nodes_[0]` of an empty vector is
undefined and ends in `undefined`. **TreeLoading** composes a line of a file: it extends
the reader and the index and instantiates the parser between them. The document is the
line and whatever an earlier line has left behind its end.

**ParallelParse** has a program counter per thread; the labels of its places are the
critical sections of the code. Lines have a kind (blank, too short, not ended by a
bracket, a tree, no JSON) and a number of nodes. The stream notices its end as
`std::getline` does: when the last line is not terminated, or one read later.

**RecordReaders** has the readers behind an input as one state: what is left of the file,
the row counter, the cache. A record reader and the one it wraps are one step, because the
wrapping reader locks, but for the loop over rows of other folds and for the cache, which
is written after the record was read.

**TreeComparison** is `CompareTrees`, one iteration a step, the two loops being two
values of `pc`; then the result is reported for a predictor, and the next pair may come.
The tables are operators on the sums.

**PrettyPrint** gives each type of node the moves of the shared cursor, in order, as the
rows of a table for each language, and executes them with the stack of calls. What is
written is the sequence of nodes printed, of the two color marks and of the ends of
lines; the window around the mark is an operator on it. The debug dump is in
**TreeDump**, since what reads it back is recursive.

**TGenProgram** has the entries, and their text as a sequence of symbols: what a text may
be parsed as is a set of programs, empty when a CHECK fails. **FeatureCounter** has the
counts and the smoothings in exact fractions. **TGenModel** trains and evaluates: a sample
is a node with its label, its links, and what every TCond program writes there (the
interpreter is modelled above). `FingerprintCat` is a constant: any function.
**Evaluation** puts the process that writes a program before it.

**DenseHashtable** has the buckets with probing and tombstones, and the thresholds as the
code computes them. **StringSet** is the other table, by lengths and hashes of strings.
**HashTables** gives both their actions, named after the calls of the clients, and maps
them to **KeyValueMap**, a map and a copy of it. That a step is one of the map does not
say that it is the right one: `OperationsActOnMap`, a part of `TablesAreMaps`, says it of
each operation of the counters in every state. What the code does item by item (copying, inserting a range,
rehashing) is `ForEachItem` or a function on the positions, which can be proved about.

**Containers** puts the node pool beside the hash tables. They share nothing: a behaviour
is about one of them (`container`, and `kind` for the tables), the other one being at
rest, so that one run checks them all. It models no code of its own.

## 3. The runs

All passing runs finish; the bounds are constants of the `.cfg` files.

| Run | Distinct states | Instance | What it shows |
|---|---|---|---|
| `tcond` | 192 633 | all canonical trees to 3 nodes, labelled also with values to be predicted, all shapes to 5; any program | no hidden node is reached, no CHECK fails, loops end, operations are what TCondReference says |
| `tcond_noninterference` | 193 794 | all pairs of such trees with the same history | two executions never differ |
| `parallel_parse` | 328 863 | 3 threads, all files to 2 lines and one of 3, with offsets and limits to 2 | the four properties of the loader |
| `tree_storage` | 14 531 | 4 nodes in both storages together, any sequence of edits, plantings, inlinings and walks | links agree, edits do what PlantedTree says, a walk across both storages is one over the whole |
| `tree_loading` | 79 657 | texts that either writer makes of a set of values, each with one symbol dropped or replaced; all arrays to 3 elements with odd ones among them; all labelled trees to 3 nodes, shapes of 6 | reading inverts writing, nothing consumed is dropped, values agree, trees are read as they are, the index is complete and answers as a search does |
| `tree_comparison` | 195 264 | pairs of trees to 4 nodes, labelled to 2, any two start nodes, two limits of the depth, two predictors, two reports | every place is counted once, the cursors return together, statistics are sums |
| `tree_comparison_depth` | - | trees to 4 nodes | **violated**: see 6 |
| `tree_comparison_count` | - | trees to 2 nodes, one report | **violated**: see 6 |
| `tgen_model` | 247 106 | texts and filters, edited and loaded; 4 kinds of smoothing, two widths of the beam, 2 hash functions, 3 training and 2 evaluation samples | programs survive their file, counts, probabilities, errors, the branch loop |
| `pretty_print` | 303 174 | each type of node with each list of up to 4 children of two types, and programs with nested declarations; four choices of the highlighted node | the cursor is restored, the marks are exact, the window shows them, the dump can be read back |
| `containers` | 41 095 | node vectors to 6 nodes; 5 keys in tables of 4 to 16 buckets, with three hash functions, one of which leads over the last bucket; 4 strings with three | the list of freed nodes is exact, node ids are stable; both tables are maps, each operation does to its map what its name says, searches end, growing settles, numbers stay |
| `record_readers` | 57 398 | 2 threads, 3 passes, five files and lists, 2 or 3 folds or none, with and without a cache and early ends | each record goes to one thread, replays are permutations, passes end |

Why the bounds are enough to be of use:

* 5 nodes give a cursor room to go up twice and down twice, and have a predicted node
  with hidden siblings, children and an uncle. 3 labelled nodes hold two equal symbols
  with the predicted one between or after them. `CursorStaysVisible`, `ChecksHold`,
  `ImplementsReference`, `SameExecution` and the answers of the index are proved for all
  sizes. The index has 6 nodes, because its walk goes up by two levels.
* In the loader, one thread reserves, one parses and one reads at the same time; two
  lines of every kind order the ends of file, and the third line is the one that is
  too large. Safety, to the result itself, is proved for any number of threads and lines.
* A pool of 6 has a list of freed nodes of four while the last node is in use.
* Storages of 4 nodes hold each substitution of the instance with a freed node before it,
  or a local tree of a node with a child, or of two siblings, under a node that has a
  parent and a sibling of its own.
* Integers of 4 and 5 bits have the same limits relative to each other as those of 32
  and 64 bits, and let every number around a limit be written and read. The deepest
  nesting of `stackLimit_g` = 4 is reached and exceeded. One damaged symbol is one error,
  and the reader stops at the first.
* Arrays of 3 elements have a child listed twice, by two nodes, by itself, and out of
  range, before and after trailing elements that are not objects.
* In tree comparison, the second report meets sums that are not zero, for the same or for
  another predictor; labels in 2 nodes make parents agree and children differ, and back.
* Three samples let two agree and one disagree; the two hash functions are one without
  collisions and one with many.
* Four children are more than any node type reads one by one, but for `ForStatement`,
  which reads exactly four. That the cursor is restored is proved for all trees.
* Tables of 4, 8 and 16 buckets grow and shrink twice; with five keys, items and the
  tombstones of other keys fill a table together. `MaxSize` is where `size_type` would
  overflow; 256 is beyond all that these tables are resized to. That searches end at
  their items and numbers stay is proved for all keys, hash functions and sizes.
* Three passes are the one that fills the cache and two that shuffle it; two threads are
  enough for one to come back from a Read after the other has come to the end. Both
  invariants are proved for any files, folds, threads and passes.

Deadlock is checked in every run: where a program may stop, the model stutters
explicitly (`Terminated`, `Returned`, `Ended`, `Finished`).

### Fairness

* `TCondExecution`: the loop step inside of an operation is weakly fair: the
  interpreter is sequential and goes on. Nothing says that a program has a next
  operation.
* `ParallelParse`, `RecordReaders`: each thread is weakly fair, and so is the join. A
  mutex is not fair: a thread that waits may lose it to others each time; `CallEnds` and
  `PassesEnd` need no more.
* `TreeLoading`: Parse and Build are weakly fair: both are sequential. `LoadingEnds`
  begins where the reader has ended, and the reader is given no fairness.
* `TreeComparison`: the function runs on until it returns; a next pair need not come.
* `TGenModel`: the branch loop goes on; training and evaluation may stop anywhere.

## 4. What is proved

The assumptions are those named in the modules: trees are canonical
(`TreesAreCanonical`), requests are lists of lines with natural limits
(`RequestsAreWellFormed`), there is a thread and, for record readers, finitely many of
them, and a cross validation has two folds or more (`ThreadsExist`, `ReaderAssumption`),
nodes in use do not have the parent mark of freed nodes (`DataIsLive`), labels fit in the
type field (`TypeBitAssumption`, `ModelAssumption`, which also has that contexts are
finite sequences and that smoothing is one of the three the code knows), the links of a printed tree agree
(`InputsAssumption`), the marks of empty and erased buckets are no keys, hash values are
natural, a table may be filled to a part of it (at least two items and one per cent, at most
99) and sizes begin as powers of two (`TableAssumption`), the tables that are looked
at are smaller than where sizes overflow (`SizeAssumption`), strings have lengths
(`StringAssumption`). TLC evaluates them on every run.

| Module | Theorems | Argument |
|---|---|---|
| `SlicedTraversalProofs` | lemmas | where each move may end: `LeftReaches`, `UpReaches`, `RightReaches` ... |
| `TCondExecutionProofs` | `TypeCorrect`, `HiddenNodesUnreachable`, `NoCheckFails` | The invariant says that the slice is that of the tree and the cursor is between 0 and `begin`. Depth-first numbers make left siblings and parents smaller, and the moves to the right and down are cut at `begin`. Least and greatest elements come from well-founded induction. |
| | `SearchInvariance`, `Implementation` | The interpreter implements `TCondReference`. `SearchInv` says how far a loop has come: a scan has passed no leaf between the cursor and the node where the operation began, a descent goes down the subtree that ends at the node it looks for. Then the step that ends the loop is the operation of the reference, and the others stutter. |
| `TCondNoninterferenceProofs` | `TypeCorrect`, `Noninterference` | Two trees that agree before `begin` have the same visible links, labels and earlier nodes of a symbol. The two sides are in the same place; each move ends in the same place by `SameLeft`..., the index by `SameMoveLeft`. Two *bridge* lemmas carry the invariant of TCondExecution to each side. |
| | `BuildInvariant`, `IndexAnswers` | `SameMoveLeft` rests on what the index answers; this is why it does. `IndexInv`: the lists hold exactly the nodes with a number up to the one the walk has come to, in their order, each with the predecessor of its symbol; a walk that goes up has left a whole subtree. `BuildSpec` is `Build` on any canonical tree, whose steps TreeLoading takes. |
| `ParallelParseProofs` | `VectorAccessExclusive`, `EverySlotHasOneOwner`, `FileOrderKept`, `RangeIsLoaded`, `SlotsExact` | `SafeInv`: mutexes are held at the places where the code holds them; each unfilled slot has one waiting thread; slots are in order and the line in hand is after all of them. `FullInv` adds that `records` is the rank of the last line read and that the slots and the line in hand are exactly the lines in range so far; a thread ends only past the limit or at the end of file. `SlotsExact` puts the three together: it is the invariant that the run checks. |
| | `LoadsLikeOneThread` | When all threads have ended, the vector is what a loop over the file would make. The loop is described by ranks (the n-th line that counts) and not by recursion, and a sequence in the order of the file with the same lines is the same sequence. |
| `RecordReadersProofs` | `ReaderInvariance`, `GivesEachRecordOnce`, `RepeatsFirstPass` | `ReaderInv` is a balance: of each record, the copies delivered and those in the hands of a thread are as many as the rows of the right fold before the position in the file (or in the cache, which is itself balanced with the first pass). It needs that the row counter is the number of the row but for a multiple of the folds, and that a thread leaves only when the rest is blank. |
| `ContainerProofs` | `TypeCorrect`, `FreeListExact`, `NodeIdsStable` | Of the node pool. The linked list is not a datum a prover can walk. `freed` is the stack it stands for: the list leads through `freed`, without repetition, and its elements are the freed nodes. This is inductive with the types; one lemma for each of the four effects (reuse, grow, pop, push). |
| | `TablesInvHolds`, `TablesAreMapsHolds` | Of the hash tables. `CountersInv`: sizes are powers of two; `num_deleted` is the number of tombstones and `num_elements` the number of buckets that are not empty, below the size; keys are distinct; and on the way of a key to its item no bucket is empty. Triangular steps visit each bucket of a table whose size is a power of two (two places of the first n differ by a product with an odd factor below 2n), so a search ends: it comes by the empty bucket. Filling a bucket at the end of a search, or a tombstone on the way, keeps the ways of all others. Copies, ranges and rehashing are inductions over positions, by the least place where the result is wrong. For a file that is cut, `num_elements` and the ways are given up, and that searches end is kept. |
| | `NumbersStayValidHolds` | `NamesInv`: every string of the set, and nothing else, is in the table by the place where its bytes start, these are distinct, the load is below the size, and linear search leads to it. Then a search returns the place of the string, before the addition and after it. |
| | `ResizingSettlesHolds` | A size that copying finds is the one that is wanted, or its half is too small for the items; and as `HT_EMPTY_PCT` is at most half of `HT_OCCUPANCY_PCT`, such a size is not left again, rounded thresholds included. |
| | `TablesAreMapsHolds` (its part `OperationsActOnMap`), `ImplementsMapHolds` | The map of a table is a function of the set of its items, of which no two have one key (`MapOf`, `IsMap`). The lemmas of `CountersInv` say which items an operation leaves; from these follows which map it leaves (`WithIs`, `WithoutIs`, `MergedIs`), and from that which action of KeyValueMap the step is. A table read in part stands for the empty map until it is cleared, assigned to or read again. For the names, the map is that from each string to its start. |
| | `ContainersAreCorrect` | Of both, as the run has them: a behaviour of Containers is one of NodePool and one of HashTables, so it has all of their properties. |
| `PrettyPrintProofs` | `PrintInvariance`, `CallsRestoreCursor` | `PrintInv` says, for every call on the stack, how many steps below its own node the shared cursor is. Every list of moves of both tables has levels, given explicitly, that each of its moves respects, from 0 to 0, and a jump leads to a place with the same level (`JavaTable`, `JSTable`). So a handler that ends is where it began. |
| `TGenModelProofs` | `LimitIsNotReached`, `CountedLabelsAreDistinct`, `TypeLabelsDecode` | `LoopInv`: when gotos go back, the id and the number of calls add up to less than the length. For labels: masking is injective on the type field, the Eq program names a label by where it met it first, and these names are below all labels. Decoding: quotient and remainder are unique, the links are two bits above the field, and an unsigned label stays in its width. |
| | `ModelInvariance`, `CountsExact` | `PathInv`: the entries that have a goto and can be reached from the first one lead to one entry without a goto, so a sample is counted in one submodel, and it is the one that the loop ends in. `CountInv`: a counter holds, for each feature and label, the number of triples of a sample, a copy and a place whose prefix hashes to the feature; training one more sample adds a set of triples that is disjoint from the others. |
| | `MetricInvariance`, `ErrorsAreUncertain` | `MetricInv`: after EndAdding, the numbers of a feature are determined by its counts; and a sample that counts as an error was not certain. All probabilities are fractions between 0 and 1; where the longest context was seen with one label, the last step of the smoothing puts this label above one half and every other one at one half or below, and this label is the last one that the beam adds. The recursions over contexts are functions: that they exist and what they are follows from the least place where it fails. |

Only checked by TLC:

* liveness (`OperationsEnd`, `CallEnds`, `PassesEnd`, `LoadingEnds`, `ComparisonEnds`,
  `BranchLoopEnds`): fairness and ENABLED are beyond TLAPS;
* what rests on recursive operators, which the code calls for: `TreeStorage`,
  `LocalTrees`, `OrderedTree` with the refinement of PlantedTree, `TreeComparison`,
  `JsonValue`, `JsonReader`, `TreeParse` (its values are those of JsonValue), the rest of
  `TreeLoading`, and `DumpIsExact`;
* `ProbabilitiesAreSound` of `TGenModel`, whose sums over all labels of fractions, and
  `ProgramsSurviveTheirFile` of `Evaluation`, whose texts are folds: both need induction
  over data;
* `HighlightIsShown`, which looks at the whole output.

## 5. What is abstracted, and how

* Strings and hashes are what they stand for. Hashing of contexts into features
  (`phog/tree/pbox.h:477`) is an arbitrary function in `TGenModel`, since its collisions
  change the counts; the 31-bit hash of a context symbol in the index has none in the
  model. The hash tables take hash values as constants, with collisions.
* Texts are sequences of symbols, and bytes that are not ASCII are their numbers: what
  `\u` escapes are decoded to is compared with the standard's encoding at the limits of
  each length. A real is held as its double; decimals are kept to halves.
* Fractions replace logarithms; ENTROPY is a sum of logarithms and is left out. The order
  of equally frequent labels is that of their addresses in the code, and any order in the
  model.
* A local tree of the model is attached to the storage it was made from, one at a time.
* The counters of the model are bags; that the tables which hold them are maps is shown
  in `containers`. Likewise labels are numbers, and `StringSet` shows what they rest on.
* The printers' text is left out but for nodes, marks and ends of lines, and with it the
  two places that look at the last character written.
* A CHECK that fails ends the process; DCHECKs are taken as the caller's duty. Two are
  left out: that the operator of an `UpdateExpression` has three characters
  (`tree.cpp:1105`), as labels have no characters there, and that `prefix_count` is at
  most 1 where smoothing begins (`pbox.h:247`), which always holds.

## 6. Findings and observations

Two statements of the repository are refuted, each by a run of its own:

* `DepthRestored` (`phog/tree/tree.cpp:1837`): the depth drifts up at each pair of leaves;
  `CHECK(depth == 0)` (`tree.cpp:1861`) is unreachable, and `max_depth` cuts too early.
* `CompletionsCounted` (`phog/tree/tree.h:57`): the legend of the table by sizes says
  "count -> number of completions of given size in the evaluation" (`tree.cpp:1876`). A
  default `TreeCompareInfo` counts one tree already, a row starts from one, and `Add`
  counts every completion (`tree.h:80`): after one completion the table says 2. Every
  average (`tree.h:70`) divides by the same number. `StatisticsAreExact` is about the
  sums and not about this number.

Seen while modelling, and either kept in the model as they are or outside of it.

Loading and reading:

* The loader loads one record more than asked when `start_offset` is not 0
  (`tree.cpp:1973-1977`); `InRange` of `ParallelParse` says so. `Eval` uses offset 0.
* A reader of one fold in training, or with a fold that does not exist in the test, never
  leaves its loop (`base/readerutil.h:259-268`); the model assumes two folds or more.
  `ReachedEnd` tests for the end of file only (`readerutil.h:64`): a stream that fails for
  another reason is read for ever. A first pass that is stopped early leaves a partial
  cache, which later passes replay (`LaterPassesRepeat` says so). Creating a reader
  shuffles the cache under readers that are not finished (`readerutil.h:227`).
* Labels get their numbers in the order in which threads come to them (`tree.cpp:1996`),
  so that numbers differ from run to run.
* A node may be its own child (`tree.cpp:1727`, CHECK_GE), though the comment before it
  says that "a child always must have a node id higher than its parent".
* An array without objects is parsed by writing to `nodes_[0]` of an empty vector
  (`tree.cpp:1697`). Null, true and 1.5 are accepted as ids of children. A label is cut at
  its first character 0.

JSON:

* `parse` copies `document.capacity()` bytes (`json/jsoncpp.cpp:288`): what an earlier line
  has left in the string can complete a text that is not terminated.
* After a comment that follows a member any token counts as a comma; `{"":1,}` is
  accepted; `-` alone reads as 0; what follows the value is ignored; `[ /**/ ]` is refused;
  a high surrogate takes any escape for the second half, and a low one alone is encoded in
  three bytes. `AcceptedTextIsKept` names the first two and says nothing of texts with
  `\u` escapes.
* `stackDepth_g` is not decremented on a syntax error, so that many damaged texts use up
  the limit of the nesting.
* `resize` to a smaller size asserts when the new last place is a hole; removing the last
  element takes the hole before it; `removeIndex` of a hole returns false; an array with a
  hole does not equal the one with null in its place. `InRange` with a limit that is no
  double lets `asInt64` of 2^63 and `asUInt64` of 2^64 convert out of range.
* `StyledWriter` cuts names at their first character 0.

Hash tables:

* When the file of a table is cut, `unserialize` leaves `num_elements` as the header has it
  and the buckets that were not read empty. An item that was read may have an empty bucket
  before it on its way: it is in the table, and no search finds it. `TablesAreMaps` says
  of such a table only that searches end, until it is cleared, assigned or read again.

Trees:

* A move out of a local tree changes to the parent storage before it is known whether
  there is a node to go to. Up from a local tree that stands for the root, or a move over a
  mark that is stale, returns false and leaves the cursor at the node that is replaced;
  the tests expect a cursor that does not move then, and try only moves without a mark.
* `GetSubtreeForCompletion` needs everything before the predicted node to be known.
* `SubstituteSingleNode` makes an existing right sibling unknown, and with a type of -1 and
  a link ends at `CHECK(it.down_first_child())`.
* The marks of a local root go stale when the parent is edited while it is attached.

Printing and comparing:

* An ArrayInitializer is printed without its first element (`tree.cpp:758-768`).
  `HighlightIsShown` allows it: nothing is said of nodes that are not printed.
* A method without parameters and body prints its name twice (`tree.cpp:341-355`), a
  class without a body after its name does too (`250-253`), and so does the first child
  of what is no Property in an object (`955-959`). These are excluded by `Regular`.
* Highlighting a Property covers its name only (`tree.cpp:955-959`).
* When the root is highlighted the search for the line before the mark starts at
  `begin_idx - 1`, the end of the text (`tree.cpp:1408`); a window of no lines drops the
  mark that ends the highlight.
* A subtree that only the second tree has is measured in the first (`tree.cpp:1853`).
* The average difference of sizes is divided by 2 in integers (`tree.h:70`). Percentages of
  no comparisons are 0/0.

Model:

* A submodel without samples predicts label -1 (`phog/model/model.cpp:268`), which is
  the label of a node without value, and so can be counted as right.
* `ExecuteEqProgram` of a branched program moves the caller's traversal
  (`phog/model/model.h:132`), unlike `ExecuteContextProgram`. It is only called on
  simple programs.
* The metric of no samples is 0/0 (`model.cpp:88`).
* Laplace smoothing with a context does not add up to one, and Kneser-Ney can exceed one;
  `ProbabilitiesAreSound` says which sums it is about. A fixed `d` can leave a label with
  probability zero, a context that was seen with one label only can give it one half or
  less, and the estimate of `d` fails its CHECK (`pbox.h:781`) when hashes collide.
* `EndAdding` of an empty ValueCounter is not remembered.

Programs as text:

* `p_default` is not initialized when a switch has no else (`phog/dsl/branched_cond.h:69`).
  The models of programs take any target; the programs in `synthesized/` all have an else,
  and all their gotos go back.
* The CHECK for a closing quote tests the opening one (`branched_cond.cpp:81`).
* Cases that go where the default goes are not written. An empty label is written as
  nothing and read as the empty case; after it, `branched_cond.cpp:99` writes out of bounds.
  A carriage return is not escaped, and is trimmed at the end of a case. An unknown escape
  gives an empty label.

## 7. Not modelled

* JSON: the newer reader (`OurReader`, `CharReaderBuilder`), the stream writers, `Path`,
  comments and offsets of values: the program uses none of them.
* Sparsehash: sparse tables, sets, allocators and the iterators of deleted items, which
  nothing uses.
* The containers of `base` that nothing includes (updatable queue, n-best, histogram,
  read-write lock, map helpers); file, printing and time helpers.
* Two readers of one shuffled cache at the same time.
* The feature classes of `pbox.h` that nothing uses, entropy and the rounding of doubles.
* `GetProgramRecursiveSize` and the reports of targets, which change nothing; flags and logs;
  the data in `synthesized/`.

## 8. Plan

Modelled and checked: everything above section 7. Left, the most important first:

1. proofs: the types and links of TreeParse, for which its values have to be split off
   from JsonValue's recursive comparisons; `HighlightIsShown`, from the stack of calls
   that `PrintInv` describes; the accounting of the comparison;
2. two readers of one cache, shuffled while the first still reads.
