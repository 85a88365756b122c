--------------------------- MODULE RecordReaders ---------------------------
(***************************************************************************)
(* The record readers of base/readerutil.h: a file by lines, or a list of  *)
(* files, split into the folds of a cross validation, and cached with the  *)
(* cache shuffled before every later pass. Threads read from one reader    *)
(* until its end, as those of the loader do; a pass is the life of one     *)
(* reader. A Read is a step, except that one that skips records of other   *)
(* folds takes a step for each, and one that caches takes one to cache.    *)
(***************************************************************************)
EXTENDS Integers, SequencesExt

CONSTANTS
  Threads,
  Files,         \* sources: kind ("lines", "list"), records, terminated
  Inputs,        \* caching, folds (0: no cross validation), fold_id, stops
  Blank,         \* the empty record
  NoThread,
  MaxPasses      \* bound

\* The last line of a terminated file ends with a newline. Threads of an input
\* that stops may leave before the end, as those of the loader do at a limit.
\* Some records are in a fold and some outside: nothing in the code checks it.
ASSUME ReaderAssumption ==
  /\ \A f \in Files : /\ f.kind \in {"lines", "list"} /\ f.terminated \in BOOLEAN
                      /\ f.records \in Seq(Range(f.records))
  /\ \A i \in Inputs : i.folds \in Nat /\ (i.folds > 0 => i.folds > 1 /\ i.fold_id \in 0 .. i.folds - 1)
  /\ IsFiniteSet(Threads) /\ Threads # {} /\ NoThread \notin Threads

VARIABLES
  source, input,         \* fixed
  pass,
  pos, eof,              \* of the file, or the index in the list
  row_id, cv_mutex,      \* of the cross validation
  recorded_cache_, has_recorded_, recording_pos,
  pc, record,            \* per thread: where it is, what it has read
  delivered,             \* history: what was read in each pass, as bags
  stopped                \* history: a thread has left this pass before its end

fixed == <<source, input>>
file == <<pos, eof>>
folding == <<row_id, cv_mutex>>
cache == <<recorded_cache_, has_recorded_, recording_pos>>
thread == <<pc, record>>
history == <<delivered, stopped>>
vars == <<fixed, pass, file, folding, cache, thread, history>>

Records == source.records

\* The first pass with a cache fills it, the others read it.
Caches == input.caching /\ pass = 1
Replays == input.caching /\ pass > 1

\* Whether the cross validation is over the file; its second reader is that of
\* the test records.
IsFolded == input.folds > 0 /\ ~Replays
Training == input.caching \/ pass = 1

-----------------------------------------------------------------------------
(* FileInputRecordReader and FileListRecordReader: one Read, and its end.  *)

NextLine == Min({i \in DOMAIN Records : i >= pos /\ Records[i] # Blank} \union {Len(Records) + 1})

\* A bug: getline fails at the end, and the end is not noticed.
ReadLine_NoEnd(t) ==
  /\ source.kind = "lines"
  /\ record' = [record EXCEPT ![t] = IF ~eof /\ NextLine \in DOMAIN Records THEN Records[NextLine] ELSE Blank]
  /\ pos' = Min({NextLine + 1, Len(Records) + 1})
  /\ eof' = (eof \/ (NextLine = Len(Records) /\ ~source.terminated))

\* Blank lines are skipped; the end of a terminated file is found by reading.
ReadLine(t) ==
  /\ source.kind = "lines"
  /\ record' = [record EXCEPT ![t] = IF ~eof /\ NextLine \in DOMAIN Records THEN Records[NextLine] ELSE Blank]
  /\ pos' = IF eof THEN pos ELSE NextLine + 1
  /\ eof' = (eof \/ NextLine > Len(Records) \/ (NextLine = Len(Records) /\ ~source.terminated))

\* The next file of the list, which may be empty.
ReadNextFile(t) ==
  /\ source.kind = "list"
  /\ record' = [record EXCEPT ![t] = IF pos \in DOMAIN Records THEN Records[pos] ELSE Blank]
  /\ pos' = Min({pos + 1, Len(Records) + 1})
  /\ UNCHANGED eof

ReadUnderlying(t) == ReadLine(t) \/ ReadNextFile(t)

ReachedEnd ==
  IF Replays THEN recording_pos > Len(recorded_cache_)
  ELSE IF source.kind = "lines" THEN eof ELSE pos > Len(Records)

-----------------------------------------------------------------------------
Init ==
  /\ source \in Files /\ input \in Inputs
  /\ pass = 1
  /\ pos = 1 /\ eof = FALSE
  /\ row_id = 0 /\ cv_mutex = NoThread
  /\ recorded_cache_ = <<>> /\ has_recorded_ = input.caching /\ recording_pos = 1
  /\ pc = [t \in Threads |-> "test"]
  /\ record = [t \in Threads |-> Blank]
  /\ delivered = <<EmptyBag>> /\ stopped = FALSE

\* A client tests for the end before it reads.
TestEnd(t) ==
  /\ pc[t] = "test" /\ (IsFolded => cv_mutex = NoThread)
  /\ pc' = [pc EXCEPT ![t] = IF ReachedEnd THEN "done" ELSE "read"]
  /\ UNCHANGED <<fixed, pass, file, folding, cache, record, history>>

\* A client that has read enough leaves.
Stop(t) ==
  /\ pc[t] = "test" /\ input.stops /\ ~ReachedEnd
  /\ pc' = [pc EXCEPT ![t] = "done"]
  /\ stopped' = TRUE
  /\ UNCHANGED <<fixed, pass, file, folding, cache, record, delivered>>

AfterRead == IF Caches THEN "record" ELSE "deliver"

Read(t) ==
  /\ pc[t] = "read" /\ ~IsFolded /\ ~Replays
  /\ ReadUnderlying(t)
  /\ pc' = [pc EXCEPT ![t] = AfterRead]
  /\ UNCHANGED <<fixed, pass, folding, cache, history>>

LockFolds(t) ==
  /\ pc[t] = "read" /\ IsFolded /\ cv_mutex = NoThread
  /\ cv_mutex' = t
  /\ pc' = [pc EXCEPT ![t] = "fold"]
  /\ UNCHANGED <<fixed, pass, file, row_id, cache, record, history>>

IsOfFold(row) ==
  IF Training THEN row % input.folds # input.fold_id ELSE row % input.folds = input.fold_id

\* A bug: the records of other folds are counted, and not read.
SkipRow_Unread(t) ==
  /\ pc[t] = "fold" /\ ~IsOfFold(row_id + 1)
  /\ row_id' = (row_id + 1) % input.folds
  /\ UNCHANGED <<fixed, pass, file, cv_mutex, cache, thread, history>>

\* A round of the loop of CrossValidationReader::Read, for a record of another
\* fold: it is read, and forgotten.
SkipRow(t) ==
  /\ pc[t] = "fold" /\ ~IsOfFold(row_id + 1)
  /\ row_id' = (row_id + 1) % input.folds
  /\ ReadUnderlying(t)
  /\ UNCHANGED <<fixed, pass, cv_mutex, cache, pc, history>>

\* The last round.
ReadRow(t) ==
  /\ pc[t] = "fold" /\ IsOfFold(row_id + 1)
  /\ row_id' = (row_id + 1) % input.folds
  /\ cv_mutex' = NoThread
  /\ ReadUnderlying(t)
  /\ pc' = [pc EXCEPT ![t] = AfterRead]
  /\ UNCHANGED <<fixed, pass, cache, history>>

\* CachingInputRecordReader, after the Read of the underlying reader.
Record(t) ==
  /\ pc[t] = "record"
  /\ recorded_cache_' = IF record[t] = Blank THEN recorded_cache_ ELSE Append(recorded_cache_, record[t])
  /\ pc' = [pc EXCEPT ![t] = "deliver"]
  /\ UNCHANGED <<fixed, pass, file, folding, has_recorded_, recording_pos, record, history>>

\* A bug: the position is moved on at the end of the records only.
ReadRecorded_StaysBehind(t) ==
  /\ pc[t] = "read" /\ Replays
  /\ record' = [record EXCEPT ![t] = IF ReachedEnd THEN Blank ELSE recorded_cache_[recording_pos]]
  /\ recording_pos' \in {recording_pos, recording_pos + 1}
  /\ pc' = [pc EXCEPT ![t] = "deliver"]
  /\ UNCHANGED <<fixed, pass, file, folding, recorded_cache_, has_recorded_, history>>

ReadRecorded(t) ==
  /\ pc[t] = "read" /\ Replays
  /\ record' = [record EXCEPT ![t] = IF ReachedEnd THEN Blank ELSE recorded_cache_[recording_pos]]
  /\ recording_pos' = IF ReachedEnd THEN recording_pos ELSE recording_pos + 1
  /\ pc' = [pc EXCEPT ![t] = "deliver"]
  /\ UNCHANGED <<fixed, pass, file, folding, recorded_cache_, has_recorded_, history>>

\* The client uses what it has read, unless it is empty.
Deliver(t) ==
  /\ pc[t] = "deliver"
  /\ delivered' = IF record[t] = Blank THEN delivered
                  ELSE [delivered EXCEPT ![pass] = @ (+) SetToBag({record[t]})]
  /\ record' = [record EXCEPT ![t] = Blank]
  /\ pc' = [pc EXCEPT ![t] = "test"]
  /\ UNCHANGED <<fixed, pass, file, folding, cache, stopped>>

\* A new reader when the threads have joined. random_shuffle orders the cache
\* in any way, and a new underlying reader starts with the file.
CreateReader ==
  /\ \A t \in Threads : pc[t] = "done"
  /\ pass < MaxPasses
  /\ pass' = pass + 1
  /\ pos' = 1 /\ eof' = FALSE
  /\ row_id' = 0
  /\ recorded_cache_' \in {[i \in DOMAIN recorded_cache_ |-> recorded_cache_[p[i]]] :
                              p \in Bijection(DOMAIN recorded_cache_, DOMAIN recorded_cache_)}
  /\ recording_pos' = 1
  /\ pc' = [t \in Threads |-> "test"]
  /\ delivered' = Append(delivered, EmptyBag) /\ stopped' = FALSE
  /\ UNCHANGED <<fixed, cv_mutex, has_recorded_, record>>

ThreadStep(t) ==
  \/ TestEnd(t) \/ Stop(t)
  \/ Read(t) \/ LockFolds(t) \/ SkipRow(t) \/ ReadRow(t)
  \/ Record(t) \/ ReadRecorded(t) \/ Deliver(t)

Finished == pass = MaxPasses /\ (\A t \in Threads : pc[t] = "done") /\ UNCHANGED vars

Next == (\E t \in Threads : ThreadStep(t)) \/ CreateReader \/ Finished

Spec == Init /\ [][Next]_vars

\* The scheduler runs every thread; a mutex may be given to the same one for
\* ever only while it has something to read.
FairSpec == Spec /\ \A t \in Threads : WF_vars(ThreadStep(t))

-----------------------------------------------------------------------------
PassIsOver == \A t \in Threads : pc[t] = "done"

\* The number of the row that a record is. Blank lines are no rows; an empty
\* file of a list is one, which nobody gets.
IsRow(p) == source.kind = "lines" => Records[p] # Blank
Row(p) == Cardinality({q \in 1 .. p : IsRow(q)})

\* The records that a pass is to deliver.
IsWanted(p) == /\ Records[p] # Blank
               /\ input.folds > 0 => ((Row(p) % input.folds = input.fold_id) <=> ~Training)

\* The bag of what a sequence has at some places.
BagOf(seq, places) ==
  [r \in {seq[p] : p \in places} |-> Cardinality({p \in places : seq[p] = r})]

Wanted == BagOf(Records, {p \in DOMAIN Records : IsWanted(p)})

\* However the threads interleave, a pass gives every record of its folds to
\* one thread and no other, and leaves none when nobody stops early: the
\* training records and the test records make up the file.
EachRecordOnce ==
  ~Replays => /\ delivered[pass] \sqsubseteq Wanted
              /\ PassIsOver /\ ~stopped => delivered[pass] = Wanted

\* Later passes over a cache give out what the first pass has given out, in
\* another order: all of it, or less when the first pass has stopped early.
LaterPassesRepeat ==
  Replays => /\ delivered[pass] \sqsubseteq delivered[1]
             /\ PassIsOver /\ ~stopped => delivered[pass] = delivered[1]

\* Every pass ends: a reader whose file is at its end tells every thread.
PassesEnd == []<>PassIsOver

-----------------------------------------------------------------------------
\* For the model checker: files with blank lines and empty files, equal
\* records, and an end with and without a newline, under every kind of input.
CONSTANTS RecordA, RecordB

MCFiles ==
  {[kind |-> "lines", records |-> <<RecordA, Blank, RecordB, RecordA>>, terminated |-> TRUE],
   [kind |-> "lines", records |-> <<RecordB, RecordA, RecordB>>, terminated |-> FALSE],
   [kind |-> "lines", records |-> <<RecordA, RecordB, Blank>>, terminated |-> TRUE],
   [kind |-> "list", records |-> <<RecordA, Blank, RecordB>>, terminated |-> FALSE],
   [kind |-> "list", records |-> <<>>, terminated |-> FALSE]}

\* Folds without a cache are read twice, for training and for the test.
MCInputs == [caching : BOOLEAN, folds : {0, 2, 3}, fold_id : {0, 1}, stops : BOOLEAN]
=============================================================================
