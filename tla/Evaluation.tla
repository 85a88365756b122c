----------------------------- MODULE Evaluation -----------------------------
(***************************************************************************)
(* A TGen program from the process that makes it, with the operations of   *)
(* TGenProgram, through a file to evaluate.cpp, which loads it and then    *)
(* trains and evaluates a TGenModel of it. The processes share the file    *)
(* and nothing else: each has a StringSet and ids of its own.              *)
(***************************************************************************)
EXTENDS TGenModel

CONSTANTS
  Files,        \* texts of programs
  Filters,      \* texts of filters
  MaxEntries    \* bound on the entries of a program

VARIABLES
  entries,      \* the program that is edited
  names,        \* the StringSet of the process that edits it
  file          \* the text in the file

editVars == <<entries, names, file>>
allVars == <<vars, editVars>>

\* Of evaluate.cpp, nothing has happened yet.
InitEvaluation ==
  /\ file \in Files /\ entries = <<>> /\ names = <<>>
  /\ phase = "editing" /\ pc = "ready" /\ program = <<>>
  /\ flags = CHOOSE f \in Flags : TRUE
  /\ fingerprint = CHOOSE f \in Fingerprints : TRUE
  /\ sample = CHOOSE s \in Samples : TRUE
  /\ counts = <<>> /\ sizes = <<>> /\ stats = <<>> /\ deltas = <<>>
  /\ program_id = -1 /\ call_length = 0 /\ num_samples = 0 /\ value = 0
  /\ trained = EmptyBag /\ uncertain = 0

-----------------------------------------------------------------------------
\* LoadFromStringOrDie, which ends the process when the text is wrong.
Load ==
  /\ phase = "editing"
  /\ names' = NamesOfText(names, file)
  /\ entries' \in LoadFromString(file, names')
  /\ UNCHANGED <<vars, file>>

AddFilter ==
  /\ phase = "editing" /\ Len(entries) < MaxEntries
  /\ \E s \in Filters :
       /\ names' = NamesOfFilter(names, s)
       /\ \E p \in ParseAsSimpleFilter(s, names') :
            entries' \in {AddProgram(entries, p), AddProgramNoDuplicates(entries, p)}
  /\ UNCHANGED <<vars, file>>

Clear ==
  /\ phase = "editing"
  /\ entries' = <<>>
  /\ UNCHANGED <<vars, names, file>>

SaveTGen ==
  /\ phase = "editing"
  /\ file' = SaveToString(entries, names)
  /\ UNCHANGED <<vars, entries, names>>

\* evaluate.cpp, for the programs of the bound. It starts with no names, and
\* what the file and the other process had is not looked at again. Only the
\* file matters: that the other process has cleared its program is a bound.
Evaluate ==
  /\ phase = "editing" /\ entries = <<>>
  /\ program' \in LoadFromString(file, NamesOfText(<<>>, file)) \cap Programs
  /\ flags' \in Flags /\ fingerprint' \in Fingerprints /\ sample' \in Samples
  /\ counts' = [id \in Ids(program') |-> EmptyBag]
  /\ sizes' = [id \in Ids(program') |-> <<>>]
  /\ stats' = sizes' /\ deltas' = sizes'
  /\ phase' = "training"
  /\ program_id' = Len(program') - 1
  /\ entries' = <<>> /\ names' = <<>> /\ file' = <<>>
  /\ UNCHANGED <<pc, call_length, metric, history>>

NextEvaluation ==
  \/ Load \/ AddFilter \/ Clear \/ SaveTGen \/ Evaluate
  \/ phase # "editing" /\ Next /\ UNCHANGED editVars

\* The loop over the branched programs runs until it ends.
EvaluationSpec ==
  InitEvaluation /\ [][NextEvaluation]_allVars /\ WF_vars(TakeBranch \/ NoSuchProgram)

-----------------------------------------------------------------------------
\* What the cases of a switch say, without the ids of the process, and
\* without those that say what the default does.
Spelled(id, known) == IF id < 0 THEN [number |-> id, name |-> <<>>]
                      ELSE [number |-> 0, name |-> known[id + 1]]
Meaning(entry, known) ==
  IF entry.type = "SIMPLE_PROGRAM" THEN entry
  ELSE [entry EXCEPT !.per_case_p =
          {<<[i \in DOMAIN c |-> Spelled(c[i], known)], @[c]>> :
             c \in {d \in DOMAIN @ : @[d] # entry.p_default}}]

\* What the text of a case loses: a label without characters, and a carriage
\* return, which is not escaped, at either end.
IsWritable(entry, known) ==
  entry.type = "BRANCHED_PROGRAM" =>
    \A c \in DOMAIN entry.per_case_p :
      LET text == CaseToString(c, known) IN
      /\ \A i \in DOMAIN c : c[i] < 0 \/ known[c[i] + 1] # <<>>
      /\ text # <<>> => "\r" \notin {Head(text), Last(text)}

(***************************************************************************)
(* A program survives its file: what SaveToString writes is read without a *)
(* failing CHECK, by this process and by one that has other ids for the    *)
(* labels, as one program, which has the same TCond programs and goes from *)
(* every switch to the same entry under every context.                     *)
(***************************************************************************)
ProgramsSurviveTheirFile ==
  phase = "editing" => \A known \in {names, <<>>} :
    LET text   == SaveToString(entries, names)
        now    == NamesOfText(known, text)
        loaded == LoadFromString(text, now)
    IN /\ Cardinality(loaded) = 1
       /\ \A p \in loaded :
            /\ Len(p) = Len(entries)
            /\ \A i \in DOMAIN p :
                 IsWritable(entries[i], names) => Meaning(p[i], now) = Meaning(entries[i], names)
=============================================================================
