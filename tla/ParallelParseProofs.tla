------------------------ MODULE ParallelParseProofs ------------------------
(***************************************************************************)
(* The safety properties of ParallelParse and its result, for any          *)
(* number of threads, any files and any limits.                            *)
(***************************************************************************)
EXTENDS ParallelParse, FiniteSetTheorems, TLAPS

Reads(t)  == pc[t] \in {"read", "filter", "lock_push", "push"}
Uses(t)   == pc[t] \in {"push", "parse"}
Waits(t)  == pc[t] \in {"json", "lock_parse", "parse"}   \* to fill its slot
InHand(t) == pc[t] \in {"filter", "lock_push", "push"}   \* a line without a slot

\* The mutexes are held where the code holds them.
LocksInv ==
  \A t \in Threads : (read_mutex = t <=> Reads(t)) /\ (parse_mutex = t <=> Uses(t))

Types ==
  /\ request \in Requests
  /\ next_line \in 1 .. NumLines + 1
  /\ eof \in BOOLEAN
  /\ records \in Nat
  /\ read_mutex \in Threads \union {Nobody}
  /\ parse_mutex \in Threads \union {Nobody}
  /\ pc \in [Threads -> Places]
  /\ line \in [Threads -> 0 .. NumLines]
  /\ pos \in [Threads -> Nat \union {NoSlot}]
  /\ main \in {"joining", "done"}
  /\ aborted \in BOOLEAN
  /\ main = "joining" => trees \in Seq(0 .. NumLines)
  /\ main = "done" => \A t \in Threads : pc[t] = "done"

\* The slots that are not filled belong to the waiting threads, one each.
SlotsInv ==
  main = "joining" =>
    /\ \A t \in Threads : Waits(t) => pos[t] \in DOMAIN trees /\ trees[pos[t]] = Unparsed
    /\ \A t, u \in Threads : Waits(t) /\ Waits(u) /\ pos[t] = pos[u] => t = u
    /\ \A slot \in DOMAIN trees :
         trees[slot] = Unparsed => \E t \in Threads : Waits(t) /\ pos[t] = slot

\* A thread that reserves or fills a slot has a record.
LinesInv ==
  \A t \in Threads :
    /\ InHand(t) \/ Waits(t) => line[t] < next_line
    /\ pc[t] \in {"lock_push", "push"} \/ Waits(t) => HasRecord(t)

\* The slots are in file order, and the line in hand comes after all of them.
OrderInv ==
  main = "joining" =>
    /\ SlotsInFileOrder
    /\ \A slot \in DOMAIN trees : \A l \in 1 .. NumLines : Claims(slot, l) => l < next_line
    /\ \A t \in Threads : InHand(t) /\ line[t] # NoLine =>
         \A slot \in DOMAIN trees : \A l \in 1 .. NumLines : Claims(slot, l) => l < line[t]

SafeInv == Types /\ LocksInv /\ SlotsInv /\ LinesInv /\ OrderInv

-----------------------------------------------------------------------------
\* What the invariant is for.
LEMMA SafeInvImplies ==
  ASSUME SafeInv
  PROVE  TreesExclusive /\ SlotsHaveOneOwner /\ SlotsInFileOrder
<1>1. TreesExclusive
  BY ThreadsExist DEF SafeInv, Types, LocksInv, TreesExclusive, UsesTrees, Uses
<1>2. SlotsHaveOneOwner
  <2> SUFFICES ASSUME main = "joining", NEW slot \in DOMAIN trees
               PROVE  IF trees[slot] = Unparsed
                      THEN \E t \in Owners(slot) : Owners(slot) = {t}
                      ELSE Owners(slot) = {}
    BY DEF SlotsHaveOneOwner
  <2>1. \A t : t \in Owners(slot) <=> t \in Threads /\ Waits(t) /\ pos[t] = slot
    BY DEF Owners, Waits
  <2>2. CASE trees[slot] = Unparsed
    <3>1. PICK t \in Threads : Waits(t) /\ pos[t] = slot
      BY <2>2 DEF SafeInv, SlotsInv
    <3>2. \A u \in Threads : Waits(u) /\ pos[u] = slot => u = t
      BY <3>1 DEF SafeInv, SlotsInv
    <3>3. Owners(slot) = {t}
      BY <2>1, <3>1, <3>2
    <3>4. QED
      BY <2>2, <3>3
  <2>3. CASE trees[slot] # Unparsed
    <3>1. \A t \in Threads : Waits(t) => pos[t] # slot
      BY <2>3 DEF SafeInv, SlotsInv
    <3>2. QED
      BY <2>1, <2>3, <3>1
  <2>4. QED
    BY <2>2, <2>3
<1>3. SlotsInFileOrder
  BY DEF SafeInv, OrderInv, SlotsInFileOrder
<1>4. QED
  BY <1>1, <1>2, <1>3

\* The call starts in the invariant.
LEMMA InitSafe == Init => SafeInv
<1> SUFFICES ASSUME Init
             PROVE  SafeInv
  OBVIOUS
<1>1. NumLines \in Nat
  BY RequestsAreWellFormed DEF Init, NumLines
<1>2. Types
  <2>1. trees \in Seq(0 .. NumLines)
    BY DEF Init
  <2>2. /\ pc \in [Threads -> Places] /\ line \in [Threads -> 0 .. NumLines]
        /\ pos \in [Threads -> Nat \union {NoSlot}]
    BY <1>1 DEF Init, Places, NoLine
  <2>3. next_line \in 1 .. NumLines + 1 /\ records \in Nat
    BY <1>1 DEF Init
  <2>4. QED
    BY <2>1, <2>2, <2>3 DEF Init, Types
<1>3. LocksInv
  BY ThreadsExist DEF Init, LocksInv, Reads, Uses
<1>4. SlotsInv /\ LinesInv
  BY DEF Init, SlotsInv, LinesInv, Waits, InHand
<1>5. OrderInv
  BY DEF Init, OrderInv, SlotsInFileOrder, Claims, InHand
<1>6. QED
  BY <1>2, <1>3, <1>4, <1>5 DEF SafeInv

\* What every step may use.
LEMMA SafeFacts ==
  ASSUME SafeInv
  PROVE  /\ NumLines \in Nat
         /\ next_line \in 1 .. NumLines + 1
         /\ \A t \in Threads : /\ pc[t] \in Places /\ line[t] \in 0 .. NumLines
                               /\ pos[t] \in Int
         /\ main = "joining" => Len(trees) \in Nat /\ DOMAIN trees = 1 .. Len(trees)
BY RequestsAreWellFormed DEF SafeInv, Types, NumLines, NoSlot

-----------------------------------------------------------------------------
(* Steps that leave slots, lines and the read position alone.              *)

Quiet(t) ==
  \/ TestEnd(t) \/ LockRead(t) \/ SkipLine(t) \/ BeforeStart(t) \/ PastLimit(t)
  \/ Accept(t) \/ LockPush(t) \/ ParseJson(t) \/ Abort(t) \/ LockParse(t)

\* A quiet step keeps the types and takes and gives mutexes as it should.
LEMMA QuietTypes ==
  ASSUME SafeInv, NEW t \in Threads, Quiet(t)
  PROVE  Types' /\ LocksInv'
<1>1. Types'
  <2>1. UNCHANGED <<request, next_line, eof, line, trees, main>>
    BY DEF Quiet, TestEnd, LockRead, SkipLine, BeforeStart, PastLimit, Accept, LockPush,
       ParseJson, Abort, LockParse, LeaveReading, reader, locals
  <2>2. main = "joining"
    BY DEF SafeInv, Types, Quiet, TestEnd, LockRead, SkipLine, BeforeStart, PastLimit,
       Accept, LockPush, ParseJson, Abort, LockParse, CountRecord, At
  <2>3. pc' \in [Threads -> Places] /\ aborted' \in BOOLEAN
    BY DEF SafeInv, Types, Places, Quiet, TestEnd, LockRead, SkipLine, BeforeStart, PastLimit,
       Accept, LockPush, ParseJson, Abort, LockParse, LeaveReading, Goto, locals
  <2>4. pos' \in [Threads -> Nat \union {NoSlot}]
    BY DEF SafeInv, Types, Quiet, TestEnd, LockRead, SkipLine, BeforeStart, PastLimit,
       Accept, LockPush, ParseJson, Abort, LockParse, LeaveReading, locals
  <2>5. records' \in Nat
    BY DEF SafeInv, Types, Quiet, TestEnd, LockRead, SkipLine, BeforeStart, PastLimit,
       Accept, LockPush, ParseJson, Abort, LockParse, CountRecord
  <2>6. /\ read_mutex' \in Threads \union {Nobody}
        /\ parse_mutex' \in Threads \union {Nobody}
    BY DEF SafeInv, Types, Quiet, TestEnd, LockRead, SkipLine, BeforeStart, PastLimit,
       Accept, LockPush, ParseJson, Abort, LockParse, LeaveReading, mutexes
  <2>7. NumLines' = NumLines
    BY <2>1 DEF NumLines
  <2>8. QED
    BY <2>1, <2>2, <2>3, <2>4, <2>5, <2>6, <2>7 DEF SafeInv, Types
<1>2. LocksInv'
  BY ThreadsExist DEF SafeInv, Types, LocksInv, Reads, Uses,
     Quiet, TestEnd, LockRead, SkipLine, BeforeStart, PastLimit,
     Accept, LockPush, ParseJson, Abort, LockParse, At, Goto, LeaveReading, CountRecord,
     mutexes, locals
<1>3. QED
  BY <1>1, <1>2

\* A quiet step keeps the rest, and the claims of the slots.
LEMMA QuietRest ==
  ASSUME SafeInv, NEW t \in Threads, Quiet(t)
  PROVE  /\ SlotsInv' /\ LinesInv' /\ OrderInv'
         /\ \A slot, l : Claims(slot, l)' <=> Claims(slot, l)
<1>1. /\ UNCHANGED <<trees, line, next_line, request, main>>
      /\ \A u \in Threads : (Waits(u)' <=> Waits(u)) /\ (Waits(u) => pos[u]' = pos[u])
      /\ \A u \in Threads : InHand(u)' => InHand(u)
      /\ \A u \in Threads : pc[u]' \in {"lock_push", "push"} => 
            pc[u] \in {"lock_push", "push"} \/ HasRecord(u)
  BY DEF SafeInv, Types, Waits, InHand,
     Quiet, TestEnd, LockRead, SkipLine, BeforeStart, PastLimit,
     Accept, LockPush, ParseJson, Abort, LockParse, At, Goto, LeaveReading, CountRecord,
     reader, mutexes, locals
<1>2. SlotsInv'
  BY <1>1 DEF SafeInv, SlotsInv
<1>3. LinesInv'
  BY <1>1 DEF SafeInv, LinesInv, HasRecord, IsRecord, Kind
<1>4. \A slot, l : Claims(slot, l)' <=> Claims(slot, l)
  BY <1>1 DEF Claims, Owners, Waits
<1>5. OrderInv'
  BY <1>1, <1>4 DEF SafeInv, OrderInv, SlotsInFileOrder, NumLines
<1>6. QED
  BY <1>2, <1>3, <1>4, <1>5

-----------------------------------------------------------------------------
(* Reading moves the read position past every line that is claimed.        *)

\* A thread gets the line l, or nothing, and the read position moves past it.
Takes(t, l) ==
  /\ line' = [line EXCEPT ![t] = l]
  /\ l < next_line'
  /\ l = NoLine \/ next_line <= l

\* What Read does: it keeps the claims and takes a line not before next_line.
LEMMA ReadEffect ==
  ASSUME SafeInv, NEW t \in Threads, Read(t)
  PROVE  /\ UNCHANGED <<request, records, read_mutex, parse_mutex, trees, pos, main, aborted>>
         /\ main = "joining" /\ pc[t] = "read"
         /\ pc' = [pc EXCEPT ![t] = "filter"]
         /\ eof' \in BOOLEAN
         /\ next_line' \in next_line .. NumLines + 1
         /\ \E l \in 0 .. NumLines : Takes(t, l)
<1>1. /\ UNCHANGED <<request, records, read_mutex, parse_mutex, trees, pos, main, aborted>>
      /\ main = "joining" /\ pc[t] = "read"
      /\ pc' = [pc EXCEPT ![t] = "filter"]
  BY DEF SafeInv, Types, Read, At, Goto, mutexes
<1>2. NumLines \in Nat /\ next_line \in 1 .. NumLines + 1
  BY SafeFacts
<1>3. CASE ReadLine(t)
  <2>1. PICK l \in NotBlank : /\ line' = [line EXCEPT ![t] = l]
                              /\ next_line' = l + 1
                              /\ eof' = (l = NumLines /\ ~request.ends_with_newline)
    BY <1>3 DEF ReadLine
  <2>2. l \in next_line .. NumLines
    BY DEF NotBlank
  <2>3. eof' \in BOOLEAN
    BY <2>1
  <2>4. next_line' \in next_line .. NumLines + 1 /\ l \in 0 .. NumLines
    BY <1>2, <2>1, <2>2
  <2>5. Takes(t, l)
    BY <1>2, <2>1, <2>2 DEF Takes
  <2>6. QED
    BY <1>1, <2>3, <2>4, <2>5
<1>4. CASE ReadNothing(t)
  <2>1. /\ line' = [line EXCEPT ![t] = NoLine]
        /\ next_line' = NumLines + 1 /\ eof' \in BOOLEAN
    BY <1>4 DEF ReadNothing
  <2>2. next_line' \in next_line .. NumLines + 1 /\ NoLine \in 0 .. NumLines
    BY <1>2, <2>1 DEF NoLine
  <2>3. Takes(t, NoLine)
    BY <1>2, <2>1 DEF Takes, NoLine
  <2>4. QED
    BY <1>1, <2>1, <2>2, <2>3
<1>5. QED
  BY <1>3, <1>4 DEF Read

\* The line read comes after every claim; the claims stay.
LEMMA ReadSafe ==
  ASSUME SafeInv, NEW t \in Threads, Read(t)
  PROVE  /\ SafeInv'
         /\ \A slot, m : Claims(slot, m)' <=> Claims(slot, m)
<1> USE ReadEffect
<1>0. PICK l \in 0 .. NumLines : Takes(t, l)
  OBVIOUS
<1>1. /\ line' = [line EXCEPT ![t] = l]
      /\ l < next_line'
      /\ l = NoLine \/ next_line <= l
  BY <1>0 DEF Takes
<1>2. /\ NumLines \in Nat /\ NumLines' = NumLines
      /\ next_line \in 1 .. NumLines + 1 /\ next_line' \in 1 .. NumLines + 1
      /\ next_line <= next_line'
  BY SafeFacts DEF NumLines
<1>3. Types'
  <2>1. pc' \in [Threads -> Places]
    BY DEF SafeInv, Types, Places
  <2>2. line' \in [Threads -> 0 .. NumLines]
    BY <1>1 DEF SafeInv, Types
  <2>3. QED
    BY <1>2, <2>1, <2>2 DEF SafeInv, Types
<1>4. /\ \A u \in Threads : u # t => pc[u]' = pc[u] /\ line[u]' = line[u]
      /\ pc[t]' = "filter" /\ line[t]' = l /\ ~Waits(t) /\ Reads(t)
  BY <1>1 DEF SafeInv, Types, Waits, Reads
<1>5. LocksInv'
  BY <1>4 DEF SafeInv, LocksInv, Reads, Uses
<1>6. \A u \in Threads : (Waits(u)' <=> Waits(u)) /\ pos[u]' = pos[u]
  BY <1>4 DEF Waits
<1>7. SlotsInv'
  BY <1>6 DEF SafeInv, SlotsInv
<1>8. LinesInv'
  <2> SUFFICES ASSUME NEW u \in Threads
               PROVE  /\ InHand(u)' \/ Waits(u)' => line[u]' < next_line'
                      /\ pc[u]' \in {"lock_push", "push"} \/ Waits(u)' => HasRecord(u)'
    BY DEF LinesInv
  <2>1. CASE u = t
    BY <1>1, <1>4, <1>6, <2>1 DEF Waits
  <2>2. CASE u # t
    <3>1. /\ InHand(u) \/ Waits(u) => line[u] < next_line
          /\ pc[u] \in {"lock_push", "push"} \/ Waits(u) => HasRecord(u)
          /\ line[u] \in Int
      BY SafeFacts DEF SafeInv, LinesInv
    <3>2. HasRecord(u)' <=> HasRecord(u)
      BY <1>4, <2>2 DEF HasRecord, IsRecord, Kind
    <3>3. QED
      BY <1>2, <1>4, <2>2, <3>1, <3>2 DEF InHand, Waits
  <2>3. QED
    BY <2>1, <2>2
<1>9. \A slot, m : Claims(slot, m)' <=> Claims(slot, m)
  <2>1. ASSUME NEW slot, NEW m
        PROVE  (\E u \in Owners(slot) : line[u] = m)' <=> \E u \in Owners(slot) : line[u] = m
    <3>1. \A u : u \in Owners(slot) <=> u \in Threads /\ Waits(u) /\ pos[u] = slot
      BY DEF Owners, Waits
    <3>2. \A u : u \in Owners(slot)' <=> u \in Threads /\ Waits(u)' /\ pos[u]' = slot
      BY DEF Owners, Waits
    <3>3. \A u : u \in Owners(slot)' <=> u \in Owners(slot)
      BY <1>6, <3>1, <3>2
    <3>4. \A u : u \in Owners(slot) => line[u]' = line[u]
      BY <1>4, <3>1
    <3>5. QED
      BY <3>3, <3>4
  <2>2. QED
    BY <2>1 DEF Claims
<1>10. OrderInv'
  <2>1. \A slot \in DOMAIN trees : \A m \in 1 .. NumLines : Claims(slot, m) => m < next_line
    BY DEF SafeInv, OrderInv
  <2>2. \A slot \in DOMAIN trees : \A m \in 1 .. NumLines : Claims(slot, m) => m < next_line'
    BY <1>2, <2>1
  <2>3. l # NoLine =>
          \A slot \in DOMAIN trees : \A m \in 1 .. NumLines : Claims(slot, m) => m < l
    BY <1>1, <1>2, <2>1
  <2>4. \A u \in Threads : InHand(u)' /\ line[u]' # NoLine =>
          \A slot \in DOMAIN trees : \A m \in 1 .. NumLines : Claims(slot, m) => m < line[u]'
    <3>1. \A u \in Threads : u # t => (InHand(u)' <=> InHand(u))
      BY <1>4 DEF InHand
    <3>2. \A u \in Threads : InHand(u) /\ line[u] # NoLine =>
            \A slot \in DOMAIN trees : \A m \in 1 .. NumLines : Claims(slot, m) => m < line[u]
      BY DEF SafeInv, OrderInv
    <3>3. QED
      BY <1>4, <2>3, <3>1, <3>2
  <2>5. SlotsInFileOrder'
    BY <1>2, <1>9 DEF SafeInv, OrderInv, SlotsInFileOrder
  <2>6. QED
    BY <1>2, <1>9, <2>2, <2>4, <2>5 DEF OrderInv
<1>11. QED
  BY <1>3, <1>5, <1>7, <1>8, <1>9, <1>10 DEF SafeInv

-----------------------------------------------------------------------------
(* Reserving a slot turns the line in hand into the last claim.            *)

\* A claim in terms of the waiting threads.
LEMMA ClaimsAre ==
  ASSUME NEW slot, NEW l
  PROVE  Claims(slot, l) <=>
           \/ trees[slot] = l /\ l # Unparsed
           \/ \E u \in Threads : Waits(u) /\ pos[u] = slot /\ line[u] = l
BY DEF Claims, Owners, Waits

\* The new slot claims the line in hand, and no other slot changes its claim.
LEMMA PushSafe ==
  ASSUME SafeInv, NEW t \in Threads, Push(t)
  PROVE  /\ SafeInv'
         /\ DOMAIN trees' = DOMAIN trees \union {Len(trees) + 1}
         /\ \A slot \in DOMAIN trees : \A l : Claims(slot, l)' <=> Claims(slot, l)
         /\ \A slot, l : slot = Len(trees) + 1 => (Claims(slot, l)' <=> l = line[t])
<1> DEFINE last == Len(trees) + 1
<1>1. /\ UNCHANGED <<request, next_line, eof, records, line, main, aborted>>
      /\ read_mutex' = Nobody /\ parse_mutex' = Nobody
      /\ pc' = [pc EXCEPT ![t] = "json"] /\ pc[t] = "push"
      /\ pos' = [pos EXCEPT ![t] = last]
      /\ trees' = Append(trees, Unparsed)
      /\ main = "joining"
  BY DEF SafeInv, Types, Push, At, Goto, reader
<1>2. /\ NumLines \in Nat /\ NumLines' = NumLines
      /\ trees \in Seq(0 .. NumLines) /\ Len(trees) \in Nat
      /\ DOMAIN trees = 1 .. Len(trees)
  BY <1>1, SafeFacts DEF SafeInv, Types, NumLines
<1>3. /\ trees' \in Seq(0 .. NumLines)
      /\ DOMAIN trees' = 1 .. last
      /\ \A slot \in DOMAIN trees : trees'[slot] = trees[slot]
      /\ trees'[last] = Unparsed
  BY <1>1, <1>2 DEF Unparsed
<1>4. Types'
  <2>1. pc' \in [Threads -> Places] /\ pos' \in [Threads -> Nat \union {NoSlot}]
    BY <1>1, <1>2 DEF SafeInv, Types, Places
  <2>2. QED
    BY <1>1, <1>2, <1>3, <2>1 DEF SafeInv, Types
<1>5. /\ \A u \in Threads : u # t => /\ pc[u]' = pc[u] /\ pos[u]' = pos[u]
                                     /\ ~Reads(u) /\ ~Uses(u)
      /\ pc[t]' = "json" /\ pos[t]' = last /\ ~Waits(t) /\ InHand(t)
      /\ line[t] \in 1 .. NumLines /\ HasRecord(t) /\ line[t] < next_line
  <2>1. pc[t]' = "json" /\ pos[t]' = last /\ ~Waits(t) /\ InHand(t)
    BY <1>1 DEF SafeInv, Types, Waits, InHand
  <2>2. HasRecord(t) /\ line[t] < next_line
    BY <1>1, <2>1 DEF SafeInv, LinesInv
  <2>3. line[t] \in 1 .. NumLines
    BY <2>2, SafeFacts DEF HasRecord, NoLine
  <2>4. \A u \in Threads : u # t => pc[u]' = pc[u] /\ pos[u]' = pos[u]
    BY <1>1 DEF SafeInv, Types
  <2>5. \A u \in Threads : u # t => ~Reads(u) /\ ~Uses(u)
    BY <1>1 DEF SafeInv, LocksInv, Reads, Uses
  <2>6. QED
    BY <2>1, <2>2, <2>3, <2>4, <2>5
<1>6. LocksInv'
  BY <1>1, <1>5, ThreadsExist DEF LocksInv, Reads, Uses
<1>7. \A u \in Threads : /\ u # t => (Waits(u)' <=> Waits(u))
                         /\ Waits(t)'
                         /\ u # t /\ Waits(u) => pos[u] \in 1 .. Len(trees)
  BY <1>1, <1>2, <1>5 DEF Waits, SafeInv, SlotsInv
<1>8. SlotsInv'
  <2>1. \A u \in Threads : Waits(u)' => pos[u]' \in DOMAIN trees' /\ trees'[pos[u]'] = Unparsed
    BY <1>1, <1>2, <1>3, <1>5, <1>7 DEF SafeInv, SlotsInv
  <2>2. \A u, v \in Threads : Waits(u)' /\ Waits(v)' /\ pos[u]' = pos[v]' => u = v
    BY <1>1, <1>2, <1>5, <1>7 DEF SafeInv, SlotsInv
  <2>3. ASSUME NEW slot \in DOMAIN trees', trees'[slot] = Unparsed
        PROVE  \E u \in Threads : Waits(u)' /\ pos[u]' = slot
    <3>1. CASE slot = last
      BY <1>5, <1>7, <3>1
    <3>2. CASE slot \in DOMAIN trees
      <4>1. PICK u \in Threads : Waits(u) /\ pos[u] = slot
        BY <1>1, <1>3, <2>3, <3>2 DEF SafeInv, SlotsInv
      <4>2. u # t
        BY <1>5, <4>1
      <4>3. QED
        BY <1>5, <1>7, <4>1, <4>2
    <3>3. QED
      BY <1>2, <1>3, <3>1, <3>2
  <2>4. QED
    BY <2>1, <2>2, <2>3 DEF SlotsInv
<1>9. LinesInv'
  <2> SUFFICES ASSUME NEW u \in Threads
               PROVE  /\ InHand(u)' \/ Waits(u)' => line[u]' < next_line'
                      /\ pc[u]' \in {"lock_push", "push"} \/ Waits(u)' => HasRecord(u)'
    BY DEF LinesInv
  <2>1. HasRecord(u)' <=> HasRecord(u)
    BY <1>1 DEF HasRecord, IsRecord, Kind
  <2>2. /\ InHand(u) \/ Waits(u) => line[u] < next_line
        /\ pc[u] \in {"lock_push", "push"} \/ Waits(u) => HasRecord(u)
    BY DEF SafeInv, LinesInv
  <2>3. CASE u = t
    BY <1>1, <1>5, <2>1, <2>3
  <2>4. CASE u # t
    BY <1>1, <1>5, <1>7, <2>1, <2>2, <2>4 DEF InHand
  <2>5. QED
    BY <2>3, <2>4
<1>10. \A slot \in DOMAIN trees : \A l : Claims(slot, l)' <=> Claims(slot, l)
  <2>1. ASSUME NEW slot \in DOMAIN trees, NEW l
        PROVE  (\E u \in Threads : Waits(u)' /\ pos[u]' = slot /\ line[u]' = l)
               <=> \E u \in Threads : Waits(u) /\ pos[u] = slot /\ line[u] = l
    <3>1. slot # last
      BY <1>2
    <3>2. \A u \in Threads : (Waits(u)' /\ pos[u]' = slot) <=> (Waits(u) /\ pos[u] = slot)
      BY <1>5, <1>7, <3>1
    <3>3. QED
      BY <1>1, <3>2
  <2>2. \A slot, l : Claims(slot, l)' <=>
           \/ trees'[slot] = l /\ l # Unparsed
           \/ \E u \in Threads : Waits(u)' /\ pos[u]' = slot /\ line[u]' = l
    BY DEF Claims, Owners, Waits
  <2>3. QED
    BY <1>3, <2>1, <2>2, ClaimsAre
<1>11. ASSUME NEW slot, slot = last, NEW l, Claims(slot, l)'
       PROVE  l = line[t]
  <2>1. \A u \in Threads : Waits(u)' /\ pos[u]' = slot => u = t
    BY <1>2, <1>5, <1>7, <1>11
  <2>2. trees'[slot] = Unparsed
    BY <1>3, <1>11
  <2>3. \/ trees'[slot] = l /\ l # Unparsed
        \/ \E u \in Threads : Waits(u)' /\ pos[u]' = slot /\ line[u]' = l
    BY <1>11 DEF Claims, Owners, Waits
  <2>4. QED
    BY <1>1, <2>1, <2>2, <2>3
<1>12. OrderInv'
  <2>1. \A slot \in DOMAIN trees : \A l \in 1 .. NumLines :
          Claims(slot, l) => l < line[t] /\ l < next_line
    BY <1>1, <1>5 DEF SafeInv, OrderInv, HasRecord
  <2>2. \A slot \in DOMAIN trees' : slot = last \/ slot \in DOMAIN trees
    BY <1>2, <1>3
  <2>3. ASSUME NEW i \in DOMAIN trees', NEW j \in DOMAIN trees',
               NEW l \in 1 .. NumLines, NEW m \in 1 .. NumLines,
               i < j, Claims(i, l)', Claims(j, m)'
        PROVE  l < m
    <3>1. i \in DOMAIN trees
      BY <1>2, <1>3, <2>3
    <3>2. Claims(i, l)
      BY <1>10, <2>3, <3>1
    <3>3. CASE j = last
      BY <1>11, <2>1, <2>3, <3>1, <3>2, <3>3
    <3>4. CASE j \in DOMAIN trees
      <4>1. Claims(j, m)
        BY <1>10, <2>3, <3>4
      <4>2. QED
        BY <1>1, <2>3, <3>1, <3>2, <3>4, <4>1 DEF SafeInv, OrderInv, SlotsInFileOrder
    <3>5. QED
      BY <2>2, <3>3, <3>4
  <2>4. SlotsInFileOrder'
    BY <1>2, <2>3 DEF SlotsInFileOrder
  <2>5. \A slot \in DOMAIN trees' : \A l \in 1 .. NumLines : Claims(slot, l)' => l < next_line
    BY <1>5, <1>10, <1>11, <2>1, <2>2
  <2>6. \A u \in Threads : ~InHand(u)'
    BY <1>5 DEF InHand, Reads
  <2>7. QED
    BY <1>1, <1>2, <2>4, <2>5, <2>6 DEF OrderInv
<1>13. \A slot, l : slot = last /\ l = line[t] => Claims(slot, l)'
  BY <1>1, <1>5, <1>7 DEF Claims, Owners, Waits
<1>14. DOMAIN trees' = DOMAIN trees \union {last}
  BY <1>2, <1>3
<1>15. QED
  BY <1>4, <1>6, <1>8, <1>9, <1>10, <1>11, <1>12, <1>13, <1>14 DEF SafeInv

-----------------------------------------------------------------------------
(* Filling a slot leaves all claims as they are.                           *)

\* The slot that is filled keeps the claim its thread had.
LEMMA ParseSafe ==
  ASSUME SafeInv, NEW t \in Threads, Parse(t)
  PROVE  /\ SafeInv'
         /\ DOMAIN trees' = DOMAIN trees
         /\ \A slot \in DOMAIN trees : \A l : Claims(slot, l)' <=> Claims(slot, l)
<1>1. /\ UNCHANGED <<request, next_line, eof, records, read_mutex, line, pos, main, aborted>>
      /\ parse_mutex' = Nobody
      /\ pc' = [pc EXCEPT ![t] = "test"] /\ pc[t] = "parse"
      /\ trees' = [trees EXCEPT ![pos[t]] = line[t]]
      /\ main = "joining"
  BY DEF SafeInv, Types, Parse, At, Goto, reader
<1>2. /\ NumLines \in Nat /\ NumLines' = NumLines
      /\ trees \in Seq(0 .. NumLines)
      /\ line[t] \in 0 .. NumLines
  BY <1>1, SafeFacts DEF SafeInv, Types, NumLines
<1>3. /\ Waits(t) /\ HasRecord(t) /\ line[t] < next_line
      /\ pos[t] \in DOMAIN trees /\ trees[pos[t]] = Unparsed
      /\ line[t] \in 1 .. NumLines
  <2>1. Waits(t)
    BY <1>1 DEF Waits
  <2>2. HasRecord(t) /\ line[t] < next_line
    BY <2>1 DEF SafeInv, LinesInv
  <2>3. pos[t] \in DOMAIN trees /\ trees[pos[t]] = Unparsed
    BY <1>1, <2>1 DEF SafeInv, SlotsInv
  <2>4. QED
    BY <1>2, <2>1, <2>2, <2>3 DEF HasRecord, NoLine
<1>4. /\ trees' \in Seq(0 .. NumLines) /\ DOMAIN trees' = DOMAIN trees
      /\ trees'[pos[t]] = line[t]
      /\ \A slot \in DOMAIN trees : slot # pos[t] => trees'[slot] = trees[slot]
  BY <1>1, <1>2, <1>3
<1>5. Types'
  <2>1. pc' \in [Threads -> Places]
    BY <1>1 DEF SafeInv, Types, Places
  <2>2. QED
    BY <1>1, <1>2, <1>4, <2>1 DEF SafeInv, Types
<1>6. /\ \A u \in Threads : u # t => pc[u]' = pc[u] /\ ~Uses(u)
      /\ pc[t]' = "test"
  BY <1>1 DEF SafeInv, Types, LocksInv, Uses
<1>7. LocksInv'
  BY <1>1, <1>6, ThreadsExist DEF SafeInv, LocksInv, Reads, Uses
<1>8. /\ \A u \in Threads : u # t => (Waits(u)' <=> Waits(u)) /\ (InHand(u)' <=> InHand(u))
      /\ ~Waits(t)' /\ ~InHand(t)'
      /\ \A u \in Threads : Waits(u) /\ pos[u] = pos[t] => u = t
  BY <1>1, <1>3, <1>6 DEF Waits, InHand, SafeInv, SlotsInv
<1>9. SlotsInv'
  <2>1. \A u \in Threads : Waits(u)' => pos[u]' \in DOMAIN trees' /\ trees'[pos[u]'] = Unparsed
    BY <1>1, <1>4, <1>8 DEF SafeInv, SlotsInv
  <2>2. \A u, v \in Threads : Waits(u)' /\ Waits(v)' /\ pos[u]' = pos[v]' => u = v
    BY <1>1, <1>8 DEF SafeInv, SlotsInv
  <2>3. ASSUME NEW slot \in DOMAIN trees', trees'[slot] = Unparsed
        PROVE  \E u \in Threads : Waits(u)' /\ pos[u]' = slot
    <3>1. slot # pos[t]
      BY <1>3, <1>4, <2>3 DEF Unparsed
    <3>2. PICK u \in Threads : Waits(u) /\ pos[u] = slot
      BY <1>1, <1>4, <2>3, <3>1 DEF SafeInv, SlotsInv
    <3>3. QED
      BY <1>1, <1>8, <3>1, <3>2
  <2>4. QED
    BY <2>1, <2>2, <2>3 DEF SlotsInv
<1>10. LinesInv'
  <2>1. \A u \in Threads : HasRecord(u)' <=> HasRecord(u)
    BY <1>1 DEF HasRecord, IsRecord, Kind
  <2>2. QED
    BY <1>1, <1>6, <1>8, <2>1 DEF SafeInv, LinesInv
<1>11. \A slot \in DOMAIN trees : \A l : Claims(slot, l)' <=> Claims(slot, l)
  <2> SUFFICES ASSUME NEW slot \in DOMAIN trees, NEW l
               PROVE  Claims(slot, l)' <=> Claims(slot, l)
    OBVIOUS
  <2>1. Claims(slot, l)' <=>
           \/ trees'[slot] = l /\ l # Unparsed
           \/ \E u \in Threads : Waits(u)' /\ pos[u]' = slot /\ line[u]' = l
    BY DEF Claims, Owners, Waits
  <2>2. CASE slot = pos[t]
    <3>1. Claims(slot, l) <=> l = line[t]
      BY <1>3, <1>8, <2>2, ClaimsAre
    <3>2. Claims(slot, l)' <=> l = line[t]
      BY <1>1, <1>3, <1>4, <1>8, <2>1, <2>2 DEF Unparsed
    <3>3. QED
      BY <3>1, <3>2
  <2>3. CASE slot # pos[t]
    BY <1>1, <1>4, <1>8, <2>1, <2>3, ClaimsAre
  <2>4. QED
    BY <2>2, <2>3
<1>12. OrderInv'
  <2>1. SlotsInFileOrder'
    BY <1>1, <1>2, <1>4, <1>11 DEF SafeInv, OrderInv, SlotsInFileOrder
  <2>2. \A slot \in DOMAIN trees' : \A l \in 1 .. NumLines : Claims(slot, l)' => l < next_line
    BY <1>1, <1>4, <1>11 DEF SafeInv, OrderInv
  <2>3. \A u \in Threads : InHand(u)' /\ line[u] # NoLine =>
          \A slot \in DOMAIN trees' : \A l \in 1 .. NumLines : Claims(slot, l)' => l < line[u]
    BY <1>1, <1>4, <1>8, <1>11 DEF SafeInv, OrderInv
  <2>4. QED
    BY <1>1, <1>2, <2>1, <2>2, <2>3 DEF OrderInv
<1>13. QED
  BY <1>4, <1>5, <1>7, <1>9, <1>10, <1>11, <1>12 DEF SafeInv

-----------------------------------------------------------------------------
\* After the threads are joined nothing of the invariant is left to break.
LEMMA JoinSafe ==
  ASSUME SafeInv, JoinAndErase
  PROVE  SafeInv'
<1>1. /\ UNCHANGED <<request, next_line, eof, records, read_mutex, parse_mutex>>
      /\ UNCHANGED <<pc, line, pos, aborted>>
      /\ main' = "done" /\ \A t \in Threads : pc[t] = "done"
  BY DEF JoinAndErase, reader, mutexes, locals
<1>2. Types' /\ LocksInv'
  BY <1>1 DEF SafeInv, Types, LocksInv, Reads, Uses, NumLines
<1>3. SlotsInv' /\ OrderInv'
  BY <1>1 DEF SlotsInv, OrderInv
<1>4. LinesInv'
  BY <1>1 DEF LinesInv, InHand, Waits
<1>5. QED
  BY <1>2, <1>3, <1>4 DEF SafeInv

\* A stuttering step keeps the invariant.
LEMMA StutterSafe ==
  ASSUME SafeInv, UNCHANGED vars
  PROVE  SafeInv'
<1>1. /\ UNCHANGED <<request, next_line, eof, records, read_mutex, parse_mutex>>
      /\ UNCHANGED <<trees, pc, line, pos, main, aborted>>
  BY DEF vars, reader, mutexes, locals
<1>2. Types' /\ LocksInv'
  BY <1>1 DEF SafeInv, Types, LocksInv, Reads, Uses, NumLines
<1>3. SlotsInv' /\ LinesInv'
  BY <1>1 DEF SafeInv, SlotsInv, LinesInv, InHand, Waits, HasRecord, IsRecord, Kind
<1>4. \A slot, l : Claims(slot, l)' <=> Claims(slot, l)
  BY <1>1 DEF Claims, Owners
<1>5. OrderInv'
  BY <1>1, <1>4 DEF SafeInv, OrderInv, SlotsInFileOrder, NumLines, InHand
<1>6. QED
  BY <1>2, <1>3, <1>5 DEF SafeInv

\* Every step preserves the invariant.
LEMMA NextSafe == SafeInv /\ [Next]_vars => SafeInv'
<1> SUFFICES ASSUME SafeInv, [Next]_vars
             PROVE  SafeInv'
  OBVIOUS
<1>1. CASE \E t \in Threads : ThreadStep(t)
  <2>1. PICK t \in Threads : ThreadStep(t)
    BY <1>1
  <2>2. CASE Quiet(t)
    BY <2>2, QuietTypes, QuietRest DEF SafeInv
  <2>3. CASE Read(t) \/ Push(t) \/ Parse(t)
    BY <2>3, ReadSafe, PushSafe, ParseSafe
  <2>4. QED
    BY <2>1, <2>2, <2>3 DEF ThreadStep, Quiet
<1>2. CASE JoinAndErase
  BY <1>2, JoinSafe
<1>3. CASE Terminated \/ UNCHANGED vars
  BY <1>3, StutterSafe DEF Terminated
<1>4. QED
  BY <1>1, <1>2, <1>3 DEF Next

\* The invariant holds in every reachable state.
THEOREM SafeInvariance == Spec => []SafeInv
BY InitSafe, NextSafe, PTL DEF Spec

(***************************************************************************)
(* However many threads there are, only one at a time touches the vector.  *)
(***************************************************************************)
THEOREM VectorAccessExclusive == Spec => []TreesExclusive
<1>1. SafeInv => TreesExclusive
  BY SafeInvImplies
<1>2. QED
  BY <1>1, SafeInvariance, PTL

(***************************************************************************)
(* Every slot is filled by the one thread that reserved it.                *)
(***************************************************************************)
THEOREM EverySlotHasOneOwner == Spec => []SlotsHaveOneOwner
<1>1. SafeInv => SlotsHaveOneOwner
  BY SafeInvImplies
<1>2. QED
  BY <1>1, SafeInvariance, PTL

(***************************************************************************)
(* The order of the trees is the order of the file under every schedule.   *)
(***************************************************************************)
THEOREM FileOrderKept == Spec => []SlotsInFileOrder
<1>1. SafeInv => SlotsInFileOrder
  BY SafeInvImplies
<1>2. QED
  BY <1>1, SafeInvariance, PTL

-----------------------------------------------------------------------------
(***************************************************************************)
(* Nothing is lost. The counter `records' is the rank of the last line     *)
(* taken, except that a record just read is not counted yet.               *)
(***************************************************************************)
Uncounted(t) == pc[t] = "filter" /\ HasRecord(t)

CountInv ==
  /\ \A t \in Threads : Uncounted(t) =>
       next_line = line[t] + 1 /\ records + 1 = Rank(line[t])
  /\ (\A t \in Threads : ~Uncounted(t)) => records = Rank(next_line - 1)

\* Exactly the records in range are claimed or about to be.
RangeInv ==
  main = "joining" =>
    /\ \A slot \in DOMAIN trees : \A l \in 1 .. NumLines : Claims(slot, l) => InRange(l)
    /\ \A t \in Threads : pc[t] \in {"lock_push", "push"} => InRange(line[t])
    /\ \A l \in 1 .. NumLines : l < next_line /\ InRange(l) =>
         \/ \E slot \in DOMAIN trees : Claims(slot, l)
         \/ \E t \in Threads : InHand(t) /\ line[t] = l

\* A thread ends at the end of the file or past the limit.
PastTheLimit == records > request.start_offset + request.num_records
EndInv ==
  /\ eof => next_line = NumLines + 1
  /\ \A t \in Threads : pc[t] = "done" => eof \/ PastTheLimit

FullInv == SafeInv /\ CountInv /\ RangeInv /\ EndInv

\* Facts about the rank of a line.
LEMMA RankType ==
  ASSUME NEW l \in Nat
  PROVE  Rank(l) \in Nat /\ IsFiniteSet({k \in 1 .. l : IsRecord(k)})
<1>1. IsFiniteSet(1 .. l)
  BY FS_Interval
<1>2. IsFiniteSet({k \in 1 .. l : IsRecord(k)})
  BY <1>1, FS_Subset
<1>3. QED
  BY <1>2, FS_CardinalityType DEF Rank

\* Later lines have no smaller rank.
LEMMA RankMonotone ==
  ASSUME NEW l \in Nat, NEW m \in Nat, l <= m
  PROVE  Rank(l) <= Rank(m)
<1>1. {k \in 1 .. l : IsRecord(k)} \subseteq {k \in 1 .. m : IsRecord(k)}
  OBVIOUS
<1>2. QED
  BY <1>1, RankType, FS_Subset DEF Rank

\* Lines that are no records do not count, a record counts one.
LEMMA RankOver ==
  ASSUME NEW l \in Nat, NEW m \in Nat, l < m,
         \A k \in l + 1 .. m - 1 : ~IsRecord(k)
  PROVE  Rank(m) = IF IsRecord(m) THEN Rank(l) + 1 ELSE Rank(l)
<1> DEFINE S(n) == {k \in 1 .. n : IsRecord(k)}
<1>1. CASE IsRecord(m)
  <2>1. S(m) = S(l) \union {m} /\ m \notin S(l)
    BY <1>1
  <2>2. Cardinality(S(m)) = Cardinality(S(l)) + 1
    BY <2>1, RankType, FS_AddElement
  <2>3. QED
    BY <1>1, <2>2 DEF Rank
<1>2. CASE ~IsRecord(m)
  <2>1. S(m) = S(l)
    BY <1>2
  <2>2. QED
    BY <1>2, <2>1 DEF Rank
<1>3. QED
  BY <1>1, <1>2

\* The rank of a line is a matter of the file alone.
LEMMA LinesFixed ==
  ASSUME UNCHANGED request
  PROVE  /\ NumLines' = NumLines
         /\ \A l : Kind(l)' = Kind(l)
         /\ \A l : IsRecord(l)' <=> IsRecord(l)
         /\ \A l : Rank(l)' = Rank(l)
         /\ \A l : InRange(l)' <=> InRange(l)
<1>1. NumLines' = NumLines /\ \A l : Kind(l)' = Kind(l)
  BY DEF NumLines, Kind
<1>2. \A l : IsRecord(l)' <=> IsRecord(l)
  BY <1>1 DEF IsRecord
<1>3. \A l : Rank(l)' = Rank(l)
  <2>1. ASSUME NEW l
        PROVE  {k \in 1 .. l : IsRecord(k)}' = {k \in 1 .. l : IsRecord(k)}
    BY <1>2
  <2>2. QED
    BY <2>1 DEF Rank
<1>4. \A l : InRange(l)' <=> InRange(l)
  BY <1>2, <1>3 DEF InRange
<1>5. QED
  BY <1>1, <1>2, <1>3, <1>4

\* The limits are natural numbers.
LEMMA RequestFacts ==
  ASSUME SafeInv
  PROVE  request.start_offset \in Nat /\ request.num_records \in Nat
BY RequestsAreWellFormed DEF SafeInv, Types

\* The call starts in the invariant.
LEMMA InitFull == Init => FullInv
<1> SUFFICES ASSUME Init
             PROVE  FullInv
  OBVIOUS
<1>1. SafeInv
  BY InitSafe
<1>2. Rank(0) = 0
  <2>1. {k \in 1 .. 0 : IsRecord(k)} = {}
    OBVIOUS
  <2>2. QED
    BY <2>1, FS_EmptySet DEF Rank
<1>3. next_line - 1 = 0
  BY DEF Init
<1>4. CountInv
  BY <1>2, <1>3 DEF Init, CountInv, Uncounted
<1>5. RangeInv
  <2>1. DOMAIN trees = {}
    BY DEF Init
  <2>2. \A l \in 1 .. NumLines : ~(l < next_line)
    BY <1>1, SafeFacts DEF Init
  <2>3. QED
    BY <2>1, <2>2 DEF Init, RangeInv
<1>6. EndInv
  BY DEF Init, EndInv
<1>7. QED
  BY <1>1, <1>4, <1>5, <1>6 DEF FullInv

\* Steps with no effect on counter, lines, claims and read position.
LEMMA IdleFull ==
  ASSUME FullInv, NEW t \in Threads,
         TestEnd(t) \/ LockRead(t) \/ LockPush(t) \/ ParseJson(t) \/ Abort(t) \/ LockParse(t)
  PROVE  FullInv'
<1>1. SafeInv /\ CountInv /\ RangeInv /\ EndInv
  BY DEF FullInv
<1>2. /\ UNCHANGED <<request, next_line, eof, records, trees, line, main>>
      /\ \A u \in Threads : InHand(u)' <=> InHand(u)
      /\ \A u \in Threads : pc[u]' = "filter" <=> pc[u] = "filter"
      /\ \A u \in Threads : pc[u]' \in {"lock_push", "push"} <=> pc[u] \in {"lock_push", "push"}
      /\ \A u \in Threads : pc[u]' = "done" => pc[u] = "done" \/ eof
  BY <1>1 DEF SafeInv, Types, InHand, TestEnd, LockRead, LockPush, ParseJson, Abort, LockParse,
     At, Goto, reader, locals
<1>3. /\ SafeInv'
      /\ \A slot, l : Claims(slot, l)' <=> Claims(slot, l)
  BY <1>1, QuietTypes, QuietRest DEF Quiet, SafeInv
<1>4. CountInv'
  <2>1. \A u \in Threads : Uncounted(u)' <=> Uncounted(u)
    BY <1>2, LinesFixed DEF Uncounted, HasRecord
  <2>2. QED
    BY <1>1, <1>2, <2>1, LinesFixed DEF CountInv
<1>5. RangeInv'
  BY <1>1, <1>2, <1>3, LinesFixed DEF RangeInv
<1>6. EndInv'
  BY <1>1, <1>2, LinesFixed DEF EndInv, PastTheLimit
<1>7. QED
  BY <1>3, <1>4, <1>5, <1>6 DEF FullInv

\* Reading: everything the thread passes over is blank.
LEMMA ReadFull ==
  ASSUME FullInv, NEW t \in Threads, Read(t)
  PROVE  FullInv'
<1>1. SafeInv /\ CountInv /\ RangeInv /\ EndInv
  BY DEF FullInv
<1>2. /\ SafeInv'
      /\ \A slot, m : Claims(slot, m)' <=> Claims(slot, m)
  BY <1>1, ReadSafe
<1>3. /\ UNCHANGED <<request, records, trees, main>>
      /\ pc[t] = "read" /\ pc' = [pc EXCEPT ![t] = "filter"]
      /\ NumLines \in Nat /\ next_line \in 1 .. NumLines + 1
  BY <1>1, ReadEffect, SafeFacts
<1>4. PICK l \in 0 .. NumLines :
        /\ line' = [line EXCEPT ![t] = l]
        /\ \/ l = NoLine /\ next_line' = NumLines + 1
           \/ l # NoLine /\ next_line <= l /\ next_line' = l + 1
        /\ \A k \in next_line .. next_line' - 1 : k # l => Kind(k) = "blank"
        /\ eof' => next_line' = NumLines + 1
  <2>1. CASE ReadLine(t)
    <3>1. PICK l \in NotBlank : /\ \A m \in NotBlank : l <= m
                                /\ line' = [line EXCEPT ![t] = l]
                                /\ next_line' = l + 1
                                /\ eof' = (l = NumLines /\ ~request.ends_with_newline)
      BY <2>1 DEF ReadLine
    <3>2. l \in next_line .. NumLines
      BY DEF NotBlank
    <3>3. \A k \in next_line .. l : k # l => Kind(k) = "blank"
      BY <1>3, <3>1, <3>2 DEF NotBlank
    <3>4. l \in 0 .. NumLines /\ l # NoLine /\ next_line <= l
      BY <1>3, <3>2 DEF NoLine
    <3>5. next_line' - 1 = l
      BY <1>3, <3>1, <3>2
    <3>6. QED
      BY <3>1, <3>3, <3>4, <3>5
  <2>2. CASE ReadNothing(t)
    <3>1. /\ line' = [line EXCEPT ![t] = NoLine] /\ next_line' = NumLines + 1
      BY <2>2 DEF ReadNothing
    <3>2. \A k \in next_line .. NumLines : Kind(k) = "blank"
      BY <2>2 DEF ReadNothing, NotBlank
    <3>3. next_line' - 1 = NumLines /\ NoLine \in 0 .. NumLines
      BY <1>3, <3>1 DEF NoLine
    <3>4. QED
      BY <3>1, <3>2, <3>3
  <2>3. QED
    BY <2>1, <2>2 DEF Read
<1>5. /\ pc[t]' = "filter" /\ line[t]' = l
      /\ \A u \in Threads : u # t => pc[u]' = pc[u] /\ line[u]' = line[u] /\ ~InHand(u)
      /\ \A u \in Threads : ~InHand(u)
  <2>1. /\ pc[t]' = "filter" /\ line[t]' = l
        /\ \A u \in Threads : u # t => pc[u]' = pc[u] /\ line[u]' = line[u]
    BY <1>1, <1>3, <1>4 DEF SafeInv, Types
  <2>2. \A u \in Threads : Reads(u) => u = t
    BY <1>1, <1>3 DEF SafeInv, LocksInv, Reads
  <2>3. \A u \in Threads : InHand(u) => Reads(u) /\ pc[u] # "read"
    BY DEF InHand, Reads
  <2>4. QED
    BY <1>3, <2>1, <2>2, <2>3
<1>6. \A k \in next_line .. next_line' - 1 : k # l => ~IsRecord(k)
  BY <1>4 DEF IsRecord
<1>7. records = Rank(next_line - 1)
  BY <1>1, <1>5 DEF CountInv, Uncounted, InHand
<1>8. CountInv'
  <2>1. \A u \in Threads : u # t => ~Uncounted(u)'
    BY <1>5 DEF Uncounted, InHand
  <2>2. Uncounted(t)' <=> l # NoLine /\ IsRecord(l)
    BY <1>3, <1>5, LinesFixed DEF Uncounted, HasRecord
  <2>3. CASE l # NoLine /\ next_line <= l /\ next_line' = l + 1
    <3>1. /\ next_line - 1 \in Nat /\ l \in Nat /\ next_line - 1 < l
          /\ \A k \in (next_line - 1) + 1 .. l - 1 : ~IsRecord(k)
      BY <1>3, <1>6, <2>3
    <3>2. Rank(l) = IF IsRecord(l) THEN records + 1 ELSE records
      BY <1>7, <3>1, RankOver
    <3>3. next_line' - 1 = l
      BY <2>3
    <3>4. QED
      BY <1>3, <1>5, <2>1, <2>2, <2>3, <3>2, <3>3, LinesFixed DEF CountInv
  <2>4. CASE l = NoLine /\ next_line' = NumLines + 1
    <3>1. \A k \in next_line .. NumLines : ~IsRecord(k)
      BY <1>3, <1>6, <2>4 DEF NoLine
    <3>2. {k \in 1 .. NumLines : IsRecord(k)} = {k \in 1 .. next_line - 1 : IsRecord(k)}
      BY <1>3, <3>1
    <3>3. records = Rank(NumLines) /\ next_line' - 1 = NumLines
      BY <1>3, <1>7, <2>4, <3>2 DEF Rank
    <3>4. QED
      BY <1>3, <2>1, <2>2, <2>4, <3>3, LinesFixed DEF CountInv
  <2>5. QED
    BY <1>4, <2>3, <2>4
<1>9. RangeInv'
  <2> SUFFICES ASSUME main = "joining"
               PROVE  RangeInv'
    BY <1>3 DEF RangeInv
  <2>1. \A u \in Threads : pc[u]' \notin {"lock_push", "push"}
    BY <1>5 DEF InHand
  <2>2. ASSUME NEW k \in 1 .. NumLines, k < next_line', InRange(k)
        PROVE  \/ \E slot \in DOMAIN trees : Claims(slot, k)
               \/ \E u \in Threads : InHand(u)' /\ line[u]' = k
    <3>1. CASE k < next_line
      BY <1>1, <1>5, <2>2, <3>1 DEF RangeInv
    <3>2. CASE k = l
      BY <1>5, <3>2 DEF InHand
    <3>3. CASE next_line <= k /\ k # l
      <4>1. k \in next_line .. next_line' - 1
        BY <1>3, <1>4, <2>2, <3>3
      <4>2. QED
        BY <1>6, <2>2, <3>3, <4>1 DEF InRange
    <3>4. QED
      BY <1>3, <3>1, <3>2, <3>3
  <2>3. \A slot \in DOMAIN trees : \A k \in 1 .. NumLines : Claims(slot, k) => InRange(k)
    BY <1>1 DEF RangeInv
  <2>4. QED
    BY <1>2, <1>3, <2>1, <2>2, <2>3, LinesFixed DEF RangeInv
<1>10. EndInv'
  <2>1. eof => eof'
    <3>1. eof => NotBlank = {}
      BY <1>1, <1>3 DEF EndInv, NotBlank
    <3>2. NotBlank = {} => ReadNothing(t)
      BY DEF Read, ReadLine
    <3>3. QED
      BY <3>1, <3>2 DEF ReadNothing
  <2>2. PastTheLimit' <=> PastTheLimit
    BY <1>3 DEF PastTheLimit
  <2>3. QED
    BY <1>1, <1>3, <1>4, <1>5, <2>1, <2>2, LinesFixed DEF EndInv
<1>11. QED
  BY <1>2, <1>8, <1>9, <1>10 DEF FullInv

\* The steps that leave the filter have the same frame.
Filters(t) == SkipLine(t) \/ BeforeStart(t) \/ PastLimit(t) \/ Accept(t)

\* They leave lines, slots and the read position alone, and only t is past read.
LEMMA FilterFrame ==
  ASSUME FullInv, NEW t \in Threads, Filters(t)
  PROVE  /\ SafeInv'
         /\ \A slot, l : Claims(slot, l)' <=> Claims(slot, l)
         /\ UNCHANGED <<request, next_line, eof, trees, line, main>>
         /\ pc[t] = "filter" /\ InHand(t)
         /\ \A u \in Threads : u # t => pc[u]' = pc[u] /\ ~InHand(u)
         /\ \A u \in Threads : ~Uncounted(u)'
         /\ records \in Nat /\ line[t] \in Nat /\ next_line \in Nat
<1>1. SafeInv
  BY DEF FullInv
<1>2. Quiet(t)
  BY DEF Filters, Quiet
<1>3. /\ SafeInv'
      /\ \A slot, l : Claims(slot, l)' <=> Claims(slot, l)
  BY <1>1, <1>2, QuietTypes, QuietRest DEF SafeInv
<1>4. /\ UNCHANGED <<request, next_line, eof, trees, line, main>>
      /\ pc[t] = "filter"
      /\ pc[t]' # "filter" /\ \A u \in Threads : u # t => pc[u]' = pc[u]
  BY <1>1 DEF SafeInv, Types, Filters, SkipLine, BeforeStart, PastLimit, Accept, LeaveReading,
     CountRecord, At, Goto, reader
<1>5. \A u \in Threads : u # t => ~InHand(u)
  BY <1>1, <1>4 DEF SafeInv, LocksInv, Reads, InHand
<1>6. \A u \in Threads : ~Uncounted(u)'
  BY <1>4, <1>5 DEF Uncounted, InHand
<1>7. records \in Nat /\ line[t] \in Nat /\ next_line \in Nat
  BY <1>1, SafeFacts DEF SafeInv, Types
<1>8. QED
  BY <1>3, <1>4, <1>5, <1>6, <1>7 DEF InHand

\* A line that is no record is neither counted nor missed.
LEMMA SkipFull ==
  ASSUME FullInv, NEW t \in Threads, SkipLine(t)
  PROVE  FullInv'
<1> USE FilterFrame
<1>1. CountInv /\ RangeInv /\ EndInv
  BY DEF FullInv
<1>2. records' = records /\ ~HasRecord(t) /\ pc' = [pc EXCEPT ![t] = "test"]
  BY DEF SkipLine, LeaveReading, Goto
<1>3. Filters(t)
  BY DEF Filters
<1>4. pc[t]' = "test"
  BY <1>2 DEF FullInv, SafeInv, Types
<1>5. CountInv'
  <2>1. \A u \in Threads : ~Uncounted(u)
    BY <1>2, <1>3 DEF Uncounted, InHand
  <2>2. QED
    BY <1>1, <1>2, <1>3, <2>1, LinesFixed DEF CountInv
<1>6. RangeInv'
  <2> SUFFICES ASSUME main = "joining"
               PROVE  RangeInv'
    BY <1>3 DEF RangeInv
  <2>1. \A u \in Threads : pc[u]' \notin {"lock_push", "push"}
    BY <1>3, <1>4 DEF InHand
  <2>2. ASSUME NEW k \in 1 .. NumLines, k < next_line, InRange(k)
        PROVE  \E slot \in DOMAIN trees : Claims(slot, k)
    <3>1. ~(line[t] = k)
      BY <1>2, <2>2 DEF HasRecord, InRange, NoLine
    <3>2. QED
      BY <1>1, <1>3, <2>2, <3>1 DEF RangeInv
  <2>3. \A slot \in DOMAIN trees : \A k \in 1 .. NumLines : Claims(slot, k) => InRange(k)
    BY <1>1 DEF RangeInv
  <2>4. QED
    BY <1>3, <2>1, <2>2, <2>3, LinesFixed DEF RangeInv
<1>7. EndInv'
  BY <1>1, <1>2, <1>3, <1>4, LinesFixed DEF EndInv, PastTheLimit
<1>8. QED
  BY <1>3, <1>5, <1>6, <1>7 DEF FullInv

\* A record is counted; its rank decides whether it is in range.
LEMMA CountFull ==
  ASSUME FullInv, NEW t \in Threads, BeforeStart(t) \/ PastLimit(t) \/ Accept(t)
  PROVE  FullInv'
<1> USE FilterFrame
<1>1. SafeInv /\ CountInv /\ RangeInv /\ EndInv
  BY DEF FullInv
<1>2. Filters(t)
  BY DEF Filters
<1>3. HasRecord(t) /\ records' = records + 1
  BY DEF BeforeStart, PastLimit, Accept, CountRecord
<1>4. /\ Uncounted(t)
      /\ next_line = line[t] + 1 /\ records' = Rank(line[t])
      /\ line[t] \in 1 .. NumLines /\ IsRecord(line[t])
  BY <1>1, <1>2, <1>3, SafeFacts DEF CountInv, Uncounted, HasRecord, NoLine
<1>5. request.start_offset \in Nat /\ request.num_records \in Nat
  BY <1>1, RequestFacts
<1>6. \/ pc[t]' = "test" /\ ~InRange(line[t])
      \/ pc[t]' = "done" /\ ~InRange(line[t]) /\ PastTheLimit'
      \/ pc[t]' = "lock_push" /\ InRange(line[t])
  <2>1. CASE BeforeStart(t)
    BY <1>1, <1>2, <1>3, <1>4, <1>5, <2>1
    DEF SafeInv, Types, BeforeStart, LeaveReading, Goto, Counted, InRange
  <2>2. CASE PastLimit(t)
    BY <1>1, <1>2, <1>3, <1>4, <1>5, <2>2
    DEF SafeInv, Types, PastLimit, LeaveReading, Goto, Counted, InRange, PastTheLimit
  <2>3. CASE Accept(t)
    BY <1>1, <1>2, <1>3, <1>4, <1>5, <2>3
    DEF SafeInv, Types, Accept, Goto, Counted, InRange
  <2>4. QED
    BY <2>1, <2>2, <2>3
<1>7. CountInv'
  <2>1. records' = Rank(next_line - 1)
    BY <1>2, <1>4
  <2>2. QED
    BY <1>2, <2>1, LinesFixed DEF CountInv
<1>8. RangeInv'
  <2> SUFFICES ASSUME main = "joining"
               PROVE  RangeInv'
    BY <1>2 DEF RangeInv
  <2>1. \A u \in Threads : pc[u]' \in {"lock_push", "push"} => InRange(line[u])
    BY <1>2, <1>6 DEF InHand
  <2>2. ASSUME NEW k \in 1 .. NumLines, k < next_line, InRange(k)
        PROVE  \/ \E slot \in DOMAIN trees : Claims(slot, k)
               \/ \E u \in Threads : InHand(u)' /\ line[u] = k
    <3>1. CASE k = line[t]
      BY <1>6, <2>2, <3>1 DEF InHand
    <3>2. CASE k # line[t]
      BY <1>1, <1>2, <2>2, <3>2 DEF RangeInv
    <3>3. QED
      BY <3>1, <3>2
  <2>3. \A slot \in DOMAIN trees : \A k \in 1 .. NumLines : Claims(slot, k) => InRange(k)
    BY <1>1 DEF RangeInv
  <2>4. QED
    BY <1>2, <2>1, <2>2, <2>3, LinesFixed DEF RangeInv
<1>9. EndInv'
  <2>1. PastTheLimit => PastTheLimit'
    BY <1>2, <1>3, <1>5 DEF PastTheLimit
  <2>2. \A u \in Threads : pc[u]' = "done" => eof \/ PastTheLimit'
    BY <1>1, <1>2, <1>6, <2>1 DEF EndInv
  <2>3. QED
    BY <1>1, <1>2, <2>2, LinesFixed DEF EndInv
<1>10. QED
  BY <1>2, <1>7, <1>8, <1>9 DEF FullInv

\* Reserving a slot hands the claim on the line from the thread to the slot.
LEMMA PushFull ==
  ASSUME FullInv, NEW t \in Threads, Push(t)
  PROVE  FullInv'
<1>1. SafeInv /\ CountInv /\ RangeInv /\ EndInv
  BY DEF FullInv
<1>2. /\ SafeInv'
      /\ DOMAIN trees' = DOMAIN trees \union {Len(trees) + 1}
      /\ \A slot \in DOMAIN trees : \A l : Claims(slot, l)' <=> Claims(slot, l)
      /\ \A slot, l : slot = Len(trees) + 1 => (Claims(slot, l)' <=> l = line[t])
  BY <1>1, PushSafe
<1>3. /\ UNCHANGED <<request, next_line, eof, records, line, main>>
      /\ pc[t] = "push" /\ pc' = [pc EXCEPT ![t] = "json"]
  BY DEF Push, At, Goto, reader
<1>4. /\ pc[t]' = "json"
      /\ \A u \in Threads : u # t => pc[u]' = pc[u] /\ ~InHand(u)
  BY <1>1, <1>3 DEF SafeInv, Types, LocksInv, Reads, InHand
<1>5. CountInv'
  <2>1. \A u \in Threads : ~Uncounted(u) /\ ~Uncounted(u)'
    BY <1>3, <1>4 DEF Uncounted, InHand
  <2>2. QED
    BY <1>1, <1>3, <2>1, LinesFixed DEF CountInv
<1>6. RangeInv'
  <2> SUFFICES ASSUME main = "joining"
               PROVE  RangeInv'
    BY <1>3 DEF RangeInv
  <2>1. InRange(line[t])
    BY <1>1, <1>3 DEF RangeInv
  <2>2. ASSUME NEW slot \in DOMAIN trees', NEW k \in 1 .. NumLines, Claims(slot, k)'
        PROVE  InRange(k)
    <3>1. CASE slot = Len(trees) + 1
      BY <1>2, <2>1, <2>2, <3>1
    <3>2. CASE slot \in DOMAIN trees
      BY <1>1, <1>2, <2>2, <3>2 DEF RangeInv
    <3>3. QED
      BY <1>2, <3>1, <3>2
  <2>3. \A u \in Threads : pc[u]' \notin {"lock_push", "push"}
    BY <1>4 DEF InHand
  <2>4. ASSUME NEW k \in 1 .. NumLines, k < next_line, InRange(k)
        PROVE  \E slot \in DOMAIN trees' : Claims(slot, k)'
    <3>1. CASE k = line[t]
      BY <1>2, <3>1
    <3>2. CASE k # line[t]
      <4>1. PICK slot \in DOMAIN trees : Claims(slot, k)
        BY <1>1, <1>4, <2>4, <3>2 DEF RangeInv
      <4>2. QED
        BY <1>2, <4>1
    <3>3. QED
      BY <3>1, <3>2
  <2>5. QED
    BY <1>3, <2>2, <2>3, <2>4, LinesFixed DEF RangeInv
<1>7. EndInv'
  BY <1>1, <1>3, <1>4, LinesFixed DEF EndInv, PastTheLimit
<1>8. QED
  BY <1>2, <1>5, <1>6, <1>7 DEF FullInv

\* Filling a slot changes no claim.
LEMMA ParseFull ==
  ASSUME FullInv, NEW t \in Threads, Parse(t)
  PROVE  FullInv'
<1>1. SafeInv /\ CountInv /\ RangeInv /\ EndInv
  BY DEF FullInv
<1>2. /\ SafeInv'
      /\ DOMAIN trees' = DOMAIN trees
      /\ \A slot \in DOMAIN trees : \A l \in 1 .. NumLines : Claims(slot, l)' <=> Claims(slot, l)
  BY <1>1, ParseSafe
<1>3. /\ UNCHANGED <<request, next_line, eof, records, line, main>>
      /\ pc[t] = "parse" /\ pc' = [pc EXCEPT ![t] = "test"]
  BY DEF Parse, At, Goto, reader
<1>4. /\ pc[t]' = "test"
      /\ \A u \in Threads : u # t => pc[u]' = pc[u]
  BY <1>1, <1>3 DEF SafeInv, Types
<1>5. \A u \in Threads : InHand(u)' <=> InHand(u)
  BY <1>3, <1>4 DEF InHand
<1>6. CountInv'
  <2>1. \A u \in Threads : Uncounted(u)' <=> Uncounted(u)
    BY <1>3, <1>4, LinesFixed DEF Uncounted, HasRecord
  <2>2. QED
    BY <1>1, <1>3, <2>1, LinesFixed DEF CountInv
<1>7. RangeInv'
  BY <1>1, <1>2, <1>3, <1>4, <1>5, LinesFixed DEF RangeInv
<1>8. EndInv'
  BY <1>1, <1>3, <1>4, LinesFixed DEF EndInv, PastTheLimit
<1>9. QED
  BY <1>2, <1>6, <1>7, <1>8 DEF FullInv

\* Joining the threads and stuttering.
LEMMA JoinFull ==
  ASSUME FullInv, JoinAndErase \/ UNCHANGED vars
  PROVE  FullInv'
<1>1. SafeInv /\ CountInv /\ RangeInv /\ EndInv
  BY DEF FullInv
<1>2. SafeInv'
  BY <1>1, JoinSafe, StutterSafe
<1>3. /\ UNCHANGED <<request, next_line, eof, records, pc, line, pos>>
      /\ main' = "done" \/ UNCHANGED <<trees, main>>
  BY DEF JoinAndErase, vars, reader, mutexes, locals
<1>4. CountInv'
  <2>1. \A u \in Threads : Uncounted(u)' <=> Uncounted(u)
    BY <1>3, LinesFixed DEF Uncounted, HasRecord
  <2>2. QED
    BY <1>1, <1>3, <2>1, LinesFixed DEF CountInv
<1>5. RangeInv'
  <2>1. CASE main' = "done"
    BY <2>1 DEF RangeInv
  <2>2. CASE UNCHANGED <<trees, main>>
    <3>1. \A slot, l : Claims(slot, l)' <=> Claims(slot, l)
      BY <1>3, <2>2 DEF Claims, Owners
    <3>2. QED
      BY <1>1, <1>3, <2>2, <3>1, LinesFixed DEF RangeInv, InHand
  <2>3. QED
    BY <1>3, <2>1, <2>2
<1>6. EndInv'
  BY <1>1, <1>3, LinesFixed DEF EndInv, PastTheLimit
<1>7. QED
  BY <1>2, <1>4, <1>5, <1>6 DEF FullInv

\* Every step preserves the full invariant.
LEMMA NextFull == FullInv /\ [Next]_vars => FullInv'
<1> SUFFICES ASSUME FullInv, [Next]_vars
             PROVE  FullInv'
  OBVIOUS
<1>1. ASSUME NEW t \in Threads, ThreadStep(t)
      PROVE  FullInv'
  BY <1>1, IdleFull, ReadFull, SkipFull, CountFull, PushFull, ParseFull DEF ThreadStep
<1>2. CASE JoinAndErase \/ Terminated \/ UNCHANGED vars
  BY <1>2, JoinFull DEF Terminated
<1>3. QED
  BY <1>1, <1>2 DEF Next

\* When the threads have ended, what is claimed is loaded and complete.
LEMMA EndedThreadsLoaded == FullInv => ThreadsLoadTheRange
<1> SUFFICES ASSUME FullInv, main = "joining", \A t \in Threads : pc[t] = "done"
             PROVE  {trees[slot] : slot \in DOMAIN trees} = {l \in 1 .. NumLines : InRange(l)}
  BY DEF ThreadsLoadTheRange
<1>1. SafeInv /\ CountInv /\ RangeInv /\ EndInv
  BY DEF FullInv
<1>2. \A t \in Threads : ~Waits(t) /\ ~InHand(t) /\ ~Uncounted(t)
  BY DEF Waits, InHand, Uncounted
<1>3. /\ NumLines \in Nat /\ next_line \in 1 .. NumLines + 1
      /\ trees \in Seq(0 .. NumLines)
  BY <1>1, SafeFacts DEF SafeInv, Types
<1>4. \A slot \in DOMAIN trees : trees[slot] \in 1 .. NumLines
  <2>1. \A slot \in DOMAIN trees : trees[slot] # Unparsed
    BY <1>1, <1>2 DEF SafeInv, SlotsInv
  <2>2. \A slot \in DOMAIN trees : trees[slot] \in 0 .. NumLines
    BY <1>3
  <2>3. QED
    BY <1>3, <2>1, <2>2 DEF Unparsed
<1>5. \A slot \in DOMAIN trees : \A l \in 1 .. NumLines : Claims(slot, l) <=> trees[slot] = l
  BY <1>2, ClaimsAre DEF Unparsed
<1>6. ASSUME NEW l \in 1 .. NumLines, InRange(l)
      PROVE  \E slot \in DOMAIN trees : trees[slot] = l
  <2>1. l < next_line
    <3> SUFFICES ASSUME ~(l < next_line)
                 PROVE  FALSE
      OBVIOUS
    <3>1. ~eof
      BY <1>1, <1>3 DEF EndInv
    <3>2. PastTheLimit
      BY <1>1, <3>1, ThreadsExist DEF EndInv
    <3>3. Rank(next_line - 1) > request.start_offset + request.num_records
      BY <1>1, <1>2, <3>2 DEF CountInv, PastTheLimit
    <3>4. next_line - 1 \in Nat /\ l \in Nat /\ next_line - 1 <= l
      BY <1>3
    <3>5. Rank(next_line - 1) <= Rank(l) /\ Rank(l) \in Nat /\ Rank(next_line - 1) \in Nat
      BY <3>4, RankMonotone, RankType
    <3>6. QED
      BY <1>1, <1>6, <3>3, <3>5, RequestFacts DEF InRange
  <2>2. \E slot \in DOMAIN trees : Claims(slot, l)
    BY <1>1, <1>2, <1>6, <2>1 DEF RangeInv
  <2>3. QED
    BY <1>5, <2>2
<1>7. \A slot \in DOMAIN trees : InRange(trees[slot])
  BY <1>1, <1>4, <1>5 DEF RangeInv
<1>8. QED
  BY <1>4, <1>6, <1>7

\* The full invariant holds in every reachable state.
THEOREM FullInvariance == Spec => []FullInv
BY InitFull, NextFull, PTL DEF Spec

(***************************************************************************)
(* When the threads have ended, exactly the records in range are loaded:   *)
(* no schedule loses a record, loads one twice, or loads one outside.      *)
(***************************************************************************)
THEOREM RangeIsLoaded == Spec => []ThreadsLoadTheRange
BY FullInvariance, EndedThreadsLoaded, PTL

(***************************************************************************)
(* The three together, which is what a run checks as one invariant.        *)
(***************************************************************************)
THEOREM SlotsExact == Spec => []SlotsAreExact
BY EverySlotHasOneOwner, FileOrderKept, RangeIsLoaded, PTL DEF SlotsAreExact

-----------------------------------------------------------------------------
(* What is erased after the threads are joined.                            *)

\* A finite set of numbers has a k-th least element, and one only.
LEMMA NthIs ==
  ASSUME NEW S \in SUBSET Nat, IsFiniteSet(S)
  PROVE  /\ Cardinality(S) \in Nat
         /\ \A k \in 1 .. Cardinality(S) :
              /\ Nth(S, k) \in S
              /\ Cardinality({j \in S : j <= Nth(S, k)}) = k
              /\ \A i \in S : Cardinality({j \in S : j <= i}) = k => i = Nth(S, k)
<1> DEFINE upto(i) == {j \in S : j <= i}
           n == Cardinality(S)
           r == [i \in S |-> Cardinality(upto(i))]
<1>1. n \in Nat
  BY FS_CardinalityType
<1>2. ASSUME NEW i \in S
      PROVE  IsFiniteSet(upto(i)) /\ r[i] \in 1 .. n
  <2>1. upto(i) \in SUBSET S /\ i \in upto(i)
    OBVIOUS
  <2>2. IsFiniteSet(upto(i)) /\ Cardinality(upto(i)) <= n
    BY <2>1, FS_Subset
  <2>3. Cardinality(upto(i)) \in Nat /\ Cardinality(upto(i)) # 0
    <3>1. Cardinality(upto(i)) \in Nat
      BY <2>2, FS_CardinalityType
    <3>2. Cardinality(upto(i)) = 0 <=> upto(i) = {}
      BY <2>2, FS_EmptySet
    <3>3. QED
      BY <2>1, <3>1, <3>2
  <2>4. QED
    BY <1>1, <2>2, <2>3
<1>3. ASSUME NEW i \in S, NEW m \in S, i < m
      PROVE  r[i] # r[m]
  <2>1. upto(i) \in SUBSET upto(m) /\ m \in upto(m) /\ m \notin upto(i)
    <3>1. i \in Nat /\ m \in Nat /\ \A j \in S : j \in Nat
      OBVIOUS
    <3>2. \A j \in S : j <= i => j <= m
      BY <1>3, <3>1
    <3>3. m <= m /\ ~(m <= i)
      BY <1>3, <3>1
    <3>4. QED
      BY <3>2, <3>3
  <2>2. Cardinality(upto(m)) = Cardinality(upto(i)) => upto(m) = upto(i)
    BY <1>2, <2>1, FS_Subset
  <2>3. QED
    BY <2>1, <2>2
<1>4. \A i, m \in S : r[i] = r[m] => i = m
  <2>1. \A i, m \in S : i < m \/ m < i \/ i = m
    OBVIOUS
  <2>2. QED
    BY <1>3, <2>1
<1>5. r \in Surjection(S, 1 .. n)
  <2>1. r \in [S -> 1 .. n]
    BY <1>2
  <2>2. r \in Injection(S, 1 .. n)
    BY <1>4, <2>1 DEF Injection, IsInjective
  <2>3. IsFiniteSet(1 .. n) /\ Cardinality(1 .. n) = n
    BY <1>1, FS_Interval
  <2>4. QED
    BY <2>2, <2>3, FS_Injection
<1>6. ASSUME NEW k \in 1 .. n
      PROVE  \E i \in S : r[i] = k
  BY <1>5 DEF Surjection
<1>7. ASSUME NEW k \in 1 .. n
      PROVE  /\ Nth(S, k) \in S /\ Cardinality(upto(Nth(S, k))) = k
             /\ \A i \in S : Cardinality(upto(i)) = k => i = Nth(S, k)
  <2>1. \E i \in S : Cardinality(upto(i)) = k
    BY <1>6
  <2>2. Nth(S, k) \in S /\ Cardinality(upto(Nth(S, k))) = k
    BY <2>1, Zenon DEF Nth
  <2>3. QED
    BY <1>4, <2>2
<1>8. QED
  BY <1>1, <1>7

\* A function that keeps the order keeps the k-th element.
LEMMA OrderedImage ==
  ASSUME NEW K \in SUBSET Nat, IsFiniteSet(K), NEW L \in SUBSET Nat, NEW f,
         L = {f[i] : i \in K},
         \A i, j \in K : i < j => f[i] < f[j]
  PROVE  /\ Cardinality(L) = Cardinality(K)
         /\ \A k \in 1 .. Cardinality(K) : Nth(K, k) \in K /\ Nth(L, k) = f[Nth(K, k)]
<1>1. \A i \in K : f[i] \in L /\ f[i] \in Nat /\ i \in Nat
  OBVIOUS
<1>2. \A i, j \in K : /\ f[i] = f[j] => i = j
                      /\ f[i] <= f[j] <=> i <= j
  BY <1>1
<1>3. ASSUME NEW T \in SUBSET K
      PROVE  LET U == {f[i] : i \in T} IN
             IsFiniteSet(U) /\ Cardinality(U) = Cardinality(T)
  <2> DEFINE U == {f[i] : i \in T}
             g == [i \in T |-> f[i]]
  <2>1. g \in Bijection(T, U)
    BY <1>2 DEF Bijection, Injection, IsInjective, Surjection
  <2>2. ExistsBijection(T, U)
    BY <2>1 DEF ExistsBijection
  <2>3. IsFiniteSet(T)
    BY FS_Subset
  <2>4. QED
    BY <2>2, <2>3, FS_Bijection
<1>4. IsFiniteSet(L) /\ Cardinality(L) = Cardinality(K)
  BY <1>3
<1>5. ASSUME NEW k \in 1 .. Cardinality(K)
      PROVE  Nth(K, k) \in K /\ Nth(L, k) = f[Nth(K, k)]
  <2> DEFINE i == Nth(K, k)
  <2>1. i \in K
    BY <1>5, NthIs
  <2>2. Cardinality({j \in K : j <= i}) = k
    BY <1>5, NthIs
  <2>3. {l \in L : l <= f[i]} = {f[j] : j \in {j \in K : j <= i}}
    <3>1. \A j \in K : f[j] <= f[i] <=> j <= i
      BY <1>2, <2>1
    <3>2. {l \in L : l <= f[i]} = {f[j] : j \in {j \in K : f[j] <= f[i]}}
      OBVIOUS
    <3>3. {j \in K : f[j] <= f[i]} = {j \in K : j <= i}
      BY <3>1
    <3>4. QED
      BY <3>2, <3>3
  <2>4. Cardinality({l \in L : l <= f[i]}) = k
    BY <1>3, <2>2, <2>3
  <2>5. f[i] \in L
    BY <1>1, <2>1
  <2>6. \A x \in L : Cardinality({l \in L : l <= x}) = k => x = Nth(L, k)
    BY <1>4, <1>5, NthIs
  <2>7. QED
    BY <2>1, <2>4, <2>5, <2>6
<1>6. QED
  BY <1>4, <1>5

\* What has to be loaded is a matter of the file alone.
LEMMA ResultFixed ==
  ASSUME UNCHANGED request
  PROVE  SequentialResult' = SequentialResult
<1>1. NumLines' = NumLines /\ \A l : InRange(l)' <=> InRange(l)
  BY LinesFixed
<1>2. \A l : FitsLimit(l)' <=> FitsLimit(l)
  BY DEF FitsLimit
<1>3. \A l : Loaded(l)' <=> Loaded(l)
  BY <1>1, <1>2 DEF Loaded
<1>4. {l \in 1 .. NumLines : Loaded(l)}' = {l \in 1 .. NumLines : Loaded(l)}
  BY <1>1, <1>3
<1>5. QED
  BY <1>1, <1>4 DEF SequentialResult

\* What is left of the slots is what one thread would have loaded.
LEMMA ErasedIsSequential ==
  ASSUME FullInv, main = "joining", \A t \in Threads : pc[t] = "done"
  PROVE  Picked(trees, {slot \in DOMAIN trees : FitsLimit(trees[slot])}) = SequentialResult
<1> DEFINE K == {slot \in DOMAIN trees : FitsLimit(trees[slot])}
           L == {l \in 1 .. NumLines : Loaded(l)}
           all == [l \in 1 .. NumLines |-> l]
<1>1. /\ NumLines \in Nat /\ trees \in Seq(0 .. NumLines)
      /\ {trees[slot] : slot \in DOMAIN trees} = {l \in 1 .. NumLines : InRange(l)}
  BY SafeFacts, EndedThreadsLoaded DEF FullInv, SafeInv, Types, ThreadsLoadTheRange
<1>2. K \in SUBSET Nat /\ IsFiniteSet(K) /\ L \in SUBSET Nat
  <2>1. DOMAIN trees = 1 .. Len(trees) /\ Len(trees) \in Nat
    BY <1>1
  <2>2. IsFiniteSet(DOMAIN trees)
    BY <2>1, FS_Interval
  <2>3. K \in SUBSET DOMAIN trees
    OBVIOUS
  <2>4. QED
    BY <2>1, <2>2, <2>3, FS_Subset
<1>3. L = {trees[slot] : slot \in K}
  BY <1>1 DEF Loaded
<1>4. ASSUME NEW i \in K, NEW j \in K, i < j
      PROVE  trees[i] < trees[j]
  <2>1. trees[i] \in 1 .. NumLines /\ trees[j] \in 1 .. NumLines
    BY <1>1
  <2>2. Claims(i, trees[i]) /\ Claims(j, trees[j])
    BY <2>1, ClaimsAre DEF Unparsed
  <2>3. SlotsInFileOrder
    BY SafeInvImplies DEF FullInv
  <2>4. QED
    BY <1>4, <2>1, <2>2, <2>3 DEF SlotsInFileOrder
<1>5. /\ Cardinality(L) = Cardinality(K)
      /\ \A k \in 1 .. Cardinality(K) : Nth(K, k) \in K /\ Nth(L, k) = trees[Nth(K, k)]
  BY <1>2, <1>3, <1>4, OrderedImage
<1>6. \A k \in 1 .. Cardinality(K) : trees[Nth(K, k)] = all[Nth(L, k)]
  <2>1. \A i \in K : trees[i] \in 1 .. NumLines
    BY <1>1
  <2>2. QED
    BY <1>5, <2>1
<1>7. Picked(trees, K) = Picked(all, L)
  BY <1>5, <1>6 DEF Picked
<1>8. QED
  BY <1>7 DEF SequentialResult

\* Only a record in range makes the process abort.
LEMMA AbortInRange ==
  ASSUME FullInv, NEW t \in Threads, Abort(t)
  PROVE  \E l \in 1 .. NumLines : InRange(l) /\ Kind(l) = "no_json"
<1>1. SafeInv /\ RangeInv
  BY DEF FullInv
<1>2. Waits(t) /\ Kind(line[t]) = "no_json"
  BY DEF Abort, At, Waits
<1>3. main = "joining"
  BY <1>1, <1>2 DEF SafeInv, Types, Waits
<1>4. pos[t] \in DOMAIN trees
  BY <1>1, <1>2, <1>3 DEF SafeInv, SlotsInv
<1>5. line[t] \in 1 .. NumLines
  <2>1. line[t] \in 0 .. NumLines /\ line[t] # NoLine
    BY <1>1, <1>2 DEF SafeInv, Types, LinesInv, HasRecord
  <2>2. NumLines \in Nat
    BY <1>1, SafeFacts
  <2>3. QED
    BY <2>1, <2>2 DEF NoLine
<1>6. Claims(pos[t], line[t])
  BY <1>2, ClaimsAre
<1>7. InRange(line[t])
  BY <1>1, <1>3, <1>4, <1>5, <1>6 DEF RangeInv
<1>8. QED
  BY <1>2, <1>5, <1>7

\* The result is there once the threads are joined, and stays.
LEMMA NextResult ==
  ASSUME FullInv, SameAsSequential, [Next]_vars
  PROVE  SameAsSequential'
<1>1. CASE \E t \in Threads : ThreadStep(t)
  <2>1. PICK t \in Threads : ThreadStep(t)
    BY <1>1
  <2>2. main = "joining" /\ main' = main /\ request' = request
    <3>1. /\ pc[t] # "done" /\ main' = main /\ request' = request
      BY <2>1 DEF ThreadStep, At, TestEnd, LockRead, Read, SkipLine, CountRecord, BeforeStart,
         PastLimit, Accept, LeaveReading, LockPush, Push, ParseJson, Abort, LockParse, Parse
    <3>2. QED
      BY <3>1 DEF FullInv, SafeInv, Types
  <2>3. main' # "done"
    BY <2>2
  <2>4. CASE Abort(t)
    <3>1. \E l \in 1 .. NumLines : InRange(l) /\ Kind(l) = "no_json"
      BY <2>4, AbortInRange
    <3>2. QED
      BY <2>2, <2>3, <3>1, LinesFixed DEF SameAsSequential
  <2>5. CASE ~Abort(t)
    <3>1. aborted' = aborted
      BY <2>1, <2>5 DEF ThreadStep, TestEnd, LockRead, Read, SkipLine, BeforeStart,
         PastLimit, Accept, LeaveReading, LockPush, Push, ParseJson, LockParse, Parse
    <3>2. QED
      BY <2>2, <2>3, <3>1, LinesFixed DEF SameAsSequential
  <2>6. QED
    BY <2>4, <2>5
<1>2. CASE JoinAndErase
  <2>1. /\ request' = request /\ aborted' = aborted
        /\ trees' = Picked(trees, {slot \in DOMAIN trees : FitsLimit(trees[slot])})
        /\ main = "joining" /\ \A t \in Threads : pc[t] = "done"
    BY <1>2 DEF JoinAndErase
  <2>2. trees' = SequentialResult
    BY <2>1, ErasedIsSequential
  <2>3. QED
    BY <2>1, <2>2, ResultFixed, LinesFixed DEF SameAsSequential
<1>3. CASE Terminated \/ UNCHANGED vars
  <2>1. request' = request /\ aborted' = aborted /\ trees' = trees /\ main' = main
    BY <1>3 DEF Terminated, vars
  <2>2. QED
    BY <2>1, ResultFixed, LinesFixed DEF SameAsSequential
<1>4. QED
  BY <1>1, <1>2, <1>3 DEF Next

(***************************************************************************)
(* However the threads are scheduled, the call returns the trees that one  *)
(* thread would have loaded, in their order, and it aborts only because of *)
(* a record in range that is not JSON.                                     *)
(***************************************************************************)
THEOREM LoadsLikeOneThread == Spec => []SameAsSequential
<1>1. Init => SameAsSequential
  BY DEF Init, SameAsSequential
<1>2. FullInv /\ SameAsSequential /\ [Next]_vars => SameAsSequential'
  BY NextResult
<1>3. QED
  BY <1>1, <1>2, FullInvariance, PTL DEF Spec
=============================================================================
