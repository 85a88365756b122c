--------------------------- MODULE ParallelParse ---------------------------
(***************************************************************************)
(* ParseTreesInFileWithParallelJSONParse (phog/tree/tree.cpp) over a       *)
(* FileInputRecordReader (base/readerutil.h): a fixed number of threads    *)
(* take lines from one file under read_mutex, reserve a slot in the vector *)
(* `trees' under parse_mutex as well, parse the JSON text under no lock,   *)
(* and fill their slot under parse_mutex. The main thread joins them and   *)
(* removes the trees that are too large.                                   *)
(*                                                                         *)
(* A line is known by its number in the file, and a parsed tree by the     *)
(* line it was read from.                                                  *)
(***************************************************************************)
EXTENDS Integers, Sequences, FiniteSets

CONSTANTS
  Threads,     \* the parsing threads
  Requests,    \* the files and limits the function is called with
  MaxTreeSize  \* FLAGS_max_tree_size

\* What a line is to the parser: empty, at most two characters (this covers
\* the empty JSON array), not ended by a bracket, or a record whose text is or
\* is not JSON.
LineKinds == {"blank", "short", "unfinished", "tree", "no_json"}
Line == [kind : LineKinds, nodes : Nat]

ASSUME RequestsAreWellFormed ==
  \A r \in Requests :
    /\ r.lines \in Seq(Line)
    /\ r.ends_with_newline \in BOOLEAN
    /\ r.start_offset \in Nat
    /\ r.num_records \in Nat
    /\ ~r.ends_with_newline => r.lines # <<>> /\ r.lines[Len(r.lines)].kind # "blank"

VARIABLES
  request,      \* the arguments, fixed during the call
  next_line,    \* the read position of the stream
  eof,          \* the stream's eofbit
  records,      \* the shared counter `records'
  read_mutex,   \* the thread that holds read_mutex, or Nobody
  parse_mutex,  \* the thread that holds parse_mutex, or Nobody
  trees,        \* the vector *trees; a slot is a line number, or Unparsed
  pc,           \* where a thread is
  line,         \* a thread's string s: a line number, or NoLine
  pos,          \* a thread's variable pos
  main,         \* where the main thread is
  aborted       \* LOG(FATAL) ended the process

reader == <<next_line, eof>>
mutexes == <<read_mutex, parse_mutex>>
locals == <<pc, line, pos>>
vars == <<request, reader, records, mutexes, trees, locals, main, aborted>>

Nobody   == "nobody"
NoLine   == 0
NoSlot   == -1
Unparsed == 0

ASSUME ThreadsExist == Threads # {} /\ Nobody \notin Threads

\* test: while (!ReachedEnd()); lock_read, read, filter: the block under
\* read_mutex; lock_push, push: its end, under both; json: under no mutex;
\* lock_parse, parse: the last block.
Places == {"test", "lock_read", "read", "filter", "lock_push", "push", "json",
           "lock_parse", "parse", "done"}

Init ==
  /\ request \in Requests
  /\ next_line = 1 /\ eof = FALSE
  /\ records = 0
  /\ read_mutex = Nobody /\ parse_mutex = Nobody
  /\ trees = <<>>
  /\ pc = [t \in Threads |-> "test"]
  /\ line = [t \in Threads |-> NoLine]
  /\ pos = [t \in Threads |-> NoSlot]
  /\ main = "joining"
  /\ aborted = FALSE

-----------------------------------------------------------------------------
NumLines == Len(request.lines)
Kind(l) == request.lines[l].kind

At(t, place) == ~aborted /\ pc[t] = place
Goto(t, place) == pc' = [pc EXCEPT ![t] = place]

\* while (!reader->ReachedEnd()), under the reader's own mutex.
TestEnd(t) ==
  /\ At(t, "test")
  /\ Goto(t, IF eof THEN "done" ELSE "lock_read")
  /\ pos' = [pos EXCEPT ![t] = NoSlot]
  /\ UNCHANGED <<request, reader, records, mutexes, trees, line, main, aborted>>

LockRead(t) ==
  /\ At(t, "lock_read")
  /\ read_mutex = Nobody
  /\ read_mutex' = t
  /\ Goto(t, "read")
  /\ UNCHANGED <<request, reader, records, parse_mutex, trees, line, pos, main, aborted>>

\* FileInputRecordReader::Read returns the next line that is not empty, or
\* nothing at the end. The end is noticed when a line is not terminated.
NotBlank == {l \in next_line .. NumLines : Kind(l) # "blank"}

ReadLine(t) ==
  /\ \E l \in NotBlank :
       /\ \A m \in NotBlank : l <= m
       /\ line' = [line EXCEPT ![t] = l]
       /\ next_line' = l + 1
       /\ eof' = (l = NumLines /\ ~request.ends_with_newline)

ReadNothing(t) ==
  /\ NotBlank = {}
  /\ line' = [line EXCEPT ![t] = NoLine]
  /\ next_line' = NumLines + 1
  /\ eof' = TRUE

Read(t) ==
  /\ At(t, "read")
  /\ ReadLine(t) \/ ReadNothing(t)
  /\ Goto(t, "filter")
  /\ UNCHANGED <<request, records, mutexes, trees, pos, main, aborted>>

IsRecord(l) == Kind(l) \in {"tree", "no_json"}
HasRecord(t) == line[t] # NoLine /\ IsRecord(line[t])

\* `continue' and `break' leave the block and so release read_mutex.
LeaveReading(t, place) ==
  /\ read_mutex' = Nobody
  /\ Goto(t, place)
  /\ UNCHANGED <<request, reader, parse_mutex, trees, line, pos, main, aborted>>

SkipLine(t) ==
  /\ At(t, "filter")
  /\ ~HasRecord(t)
  /\ LeaveReading(t, "test")
  /\ UNCHANGED records

\* A bug: the counter is compared before it is increased.
Counted_Before == records

Counted == records + 1

CountRecord(t) ==
  /\ At(t, "filter")
  /\ HasRecord(t)
  /\ records' = records + 1

BeforeStart(t) ==
  /\ CountRecord(t)
  /\ Counted < request.start_offset
  /\ LeaveReading(t, "test")

\* A bug: the loop is left without giving the mutex back.
PastLimit_KeepsLock(t) ==
  /\ CountRecord(t)
  /\ Counted >= request.start_offset
  /\ Counted > request.start_offset + request.num_records
  /\ Goto(t, "done")
  /\ UNCHANGED <<request, reader, mutexes, trees, line, pos, main, aborted>>

PastLimit(t) ==
  /\ CountRecord(t)
  /\ Counted >= request.start_offset
  /\ Counted > request.start_offset + request.num_records
  /\ LeaveReading(t, "done")

Accept(t) ==
  /\ CountRecord(t)
  /\ Counted >= request.start_offset
  /\ Counted <= request.start_offset + request.num_records
  /\ Goto(t, "lock_push")
  /\ UNCHANGED <<request, reader, mutexes, trees, line, pos, main, aborted>>

\* A bug: the vector is extended without parse_mutex.
LockPush_Unlocked(t) ==
  /\ At(t, "lock_push")
  /\ Goto(t, "push")
  /\ UNCHANGED <<request, reader, records, mutexes, trees, line, pos, main, aborted>>

LockPush(t) ==
  /\ At(t, "lock_push")
  /\ parse_mutex = Nobody
  /\ parse_mutex' = t
  /\ Goto(t, "push")
  /\ UNCHANGED <<request, reader, records, read_mutex, trees, line, pos, main, aborted>>

\* A placeholder keeps the slot; both mutexes are released.
Push(t) ==
  /\ At(t, "push")
  /\ pos' = [pos EXCEPT ![t] = Len(trees) + 1]
  /\ trees' = Append(trees, Unparsed)
  /\ read_mutex' = Nobody
  /\ parse_mutex' = Nobody
  /\ Goto(t, "json")
  /\ UNCHANGED <<request, reader, records, line, main, aborted>>

\* Json::Reader::parse and, when it fails, LOG(FATAL).
ParseJson(t) ==
  /\ At(t, "json")
  /\ Kind(line[t]) = "tree"
  /\ Goto(t, "lock_parse")
  /\ UNCHANGED <<request, reader, records, mutexes, trees, line, pos, main, aborted>>

Abort(t) ==
  /\ At(t, "json")
  /\ Kind(line[t]) = "no_json"
  /\ aborted' = TRUE
  /\ UNCHANGED <<request, reader, records, mutexes, trees, locals, main>>

LockParse(t) ==
  /\ At(t, "lock_parse")
  /\ parse_mutex = Nobody
  /\ parse_mutex' = t
  /\ Goto(t, "parse")
  /\ UNCHANGED <<request, reader, records, read_mutex, trees, line, pos, main, aborted>>

\* A bug: the tree goes to the slot that was added last.
Parse_LastSlot(t) ==
  /\ At(t, "parse")
  /\ trees' = [trees EXCEPT ![Len(trees)] = line[t]]
  /\ parse_mutex' = Nobody
  /\ Goto(t, "test")
  /\ UNCHANGED <<request, reader, records, read_mutex, line, pos, main, aborted>>

\* TreeStorage::Parse into the thread's own slot.
Parse(t) ==
  /\ At(t, "parse")
  /\ trees' = [trees EXCEPT ![pos[t]] = line[t]]
  /\ parse_mutex' = Nobody
  /\ Goto(t, "test")
  /\ UNCHANGED <<request, reader, records, read_mutex, line, pos, main, aborted>>

ThreadStep(t) ==
  \/ TestEnd(t) \/ LockRead(t) \/ Read(t)
  \/ SkipLine(t) \/ BeforeStart(t) \/ PastLimit(t) \/ Accept(t)
  \/ LockPush(t) \/ Push(t) \/ ParseJson(t) \/ Abort(t)
  \/ LockParse(t) \/ Parse(t)

-----------------------------------------------------------------------------
FitsLimit(l) == request.lines[l].nodes <= MaxTreeSize

\* The k-th least element of a set of numbers, and what a set of positions
\* leaves of a sequence, in the same order.
Nth(S, k) == CHOOSE i \in S : Cardinality({j \in S : j <= i}) = k
Picked(s, S) == [k \in 1 .. Cardinality(S) |-> s[Nth(S, k)]]

\* All threads are joined, then the oversized trees are erased.
JoinAndErase ==
  /\ ~aborted
  /\ main = "joining"
  /\ \A t \in Threads : pc[t] = "done"
  /\ main' = "done"
  /\ trees' = Picked(trees, {slot \in DOMAIN trees : FitsLimit(trees[slot])})
  /\ UNCHANGED <<request, reader, records, mutexes, locals, aborted>>

Terminated == (aborted \/ main = "done") /\ UNCHANGED vars

Next == (\E t \in Threads : ThreadStep(t)) \/ JoinAndErase \/ Terminated

Spec == Init /\ [][Next]_vars

\* The operating system runs every thread that can go on. std::mutex is not
\* fair: a thread that waits for a mutex need not be the next to get it.
FairSpec ==
  /\ Spec
  /\ \A t \in Threads : WF_vars(ThreadStep(t))
  /\ WF_vars(JoinAndErase)

-----------------------------------------------------------------------------
TypeOK ==
  /\ next_line \in 1 .. NumLines + 1
  /\ eof \in BOOLEAN
  /\ records \in 0 .. NumLines
  /\ read_mutex \in Threads \union {Nobody}
  /\ parse_mutex \in Threads \union {Nobody}
  /\ trees \in Seq(Nat)
  /\ pc \in [Threads -> Places]
  /\ line \in [Threads -> 0 .. NumLines]
  /\ pos \in [Threads -> Nat \union {NoSlot}]
  /\ main \in {"joining", "done"}
  /\ aborted \in BOOLEAN

(***************************************************************************)
(* No thread extends the vector, which may move its elements, while        *)
(* another one extends it or parses into one of its elements.              *)
(***************************************************************************)
UsesTrees == {t \in Threads : pc[t] \in {"push", "parse"}}
TreesExclusive == \A t, u \in UsesTrees : t = u

\* The threads that still have to fill a slot.
Owners(slot) == {t \in Threads : pc[t] \in {"json", "lock_parse", "parse"} /\ pos[t] = slot}

\* No tree is parsed twice, lost, or written over another one.
SlotsHaveOneOwner ==
  main = "joining" =>
    \A slot \in DOMAIN trees :
      IF trees[slot] = Unparsed
      THEN \E t \in Owners(slot) : Owners(slot) = {t}
      ELSE Owners(slot) = {}

\* The line whose tree is, or will be, in a slot.
Claims(slot, l) ==
  \/ trees[slot] = l /\ l # Unparsed
  \/ \E t \in Owners(slot) : line[t] = l

SlotsInFileOrder ==
  main = "joining" =>
    \A i, j \in DOMAIN trees : \A l, m \in 1 .. NumLines :
      i < j /\ Claims(i, l) /\ Claims(j, m) => l < m

\* The lines a sequential loop would load: from the record start_offset to
\* the record start_offset + num_records, counted from one.
Rank(l) == Cardinality({k \in 1 .. l : IsRecord(k)})
InRange(l) ==
  /\ IsRecord(l)
  /\ Rank(l) >= request.start_offset
  /\ Rank(l) <= request.start_offset + request.num_records

ThreadsLoadTheRange ==
  main = "joining" /\ (\A t \in Threads : pc[t] = "done") =>
    {trees[slot] : slot \in DOMAIN trees} = {l \in 1 .. NumLines : InRange(l)}

(***************************************************************************)
(* While the threads run a slot is filled, or it waits for exactly one     *)
(* thread, and the slots are in the order of the file, whatever the order  *)
(* in which the threads read, reserve and parse. When the threads have     *)
(* ended every record in range, and nothing else, has been loaded: no      *)
(* thread gives up while there is something to load that no other loads.   *)
(***************************************************************************)
SlotsAreExact == SlotsHaveOneOwner /\ SlotsInFileOrder /\ ThreadsLoadTheRange

Loaded(l) == InRange(l) /\ FitsLimit(l)
SequentialResult ==
  Picked([l \in 1 .. NumLines |-> l], {l \in 1 .. NumLines : Loaded(l)})

(***************************************************************************)
(* In the end *trees is what one thread would have loaded, and if the      *)
(* process was aborted a record in range is not JSON.                      *)
(***************************************************************************)
SameAsSequential ==
  /\ main = "done" => trees = SequentialResult
  /\ aborted => \E l \in 1 .. NumLines : InRange(l) /\ Kind(l) = "no_json"

(***************************************************************************)
(* The call returns or the process is aborted: no thread waits forever for *)
(* a mutex and every thread notices the end of the file.                   *)
(***************************************************************************)
CallEnds == <>(aborted \/ main = "done")

-----------------------------------------------------------------------------
\* For the model checker: files of at most MaxLines lines of any kind, and one
\* with a tree more. The tree of line l has l nodes, so that MaxTreeSize = 2
\* drops the third.
CONSTANTS MaxLines, MaxOffset, MaxRecords

MCFiles ==
  UNION {[1 .. n -> LineKinds] : n \in 0 .. MaxLines} \union [1 .. MaxLines + 1 -> {"tree"}]

LinesOf(file) == [l \in DOMAIN file |-> [kind |-> file[l], nodes |-> l]]

MCRequests ==
  {r \in {[lines |-> LinesOf(file), ends_with_newline |-> newline,
           start_offset |-> offset, num_records |-> num] :
             file \in MCFiles, newline \in BOOLEAN,
             offset \in 0 .. MaxOffset, num \in 0 .. MaxRecords} :
     r.ends_with_newline \/ (r.lines # <<>> /\ r.lines[Len(r.lines)].kind # "blank")}
=============================================================================
