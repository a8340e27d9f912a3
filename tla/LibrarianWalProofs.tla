------------------------- MODULE LibrarianWalProofs -------------------------
(***************************************************************************)
(* Proofs about LibrarianWal, for any number of services and records and   *)
(* any size of a replay.                                                   *)
(***************************************************************************)
EXTENDS LibrarianWal, SequenceTheorems, TLAPS

-----------------------------------------------------------------------------
(* The entries of a sequence.                                              *)

\* An empty sequence has none.
LEMMA RangeEmpty == Range(<<>>) = {}
BY DEF Range

\* Appending adds one.
LEMMA RangeAppend ==
  ASSUME NEW S, NEW q \in Seq(S), NEW e \in S
  PROVE  Append(q, e) \in Seq(S) /\ Range(Append(q, e)) = Range(q) \cup {e}
<1>1. /\ Append(q, e) \in Seq(S)
      /\ Len(Append(q, e)) = Len(q) + 1
      /\ \A i \in 1 .. Len(q) : Append(q, e)[i] = q[i]
      /\ Append(q, e)[Len(q) + 1] = e
  BY AppendProperties
<1>2. /\ Range(Append(q, e)) = {Append(q, e)[i] : i \in 1 .. Len(Append(q, e))}
      /\ Range(q) = {q[i] : i \in 1 .. Len(q)}
  BY <1>1, RangeEquality
<1>3. Len(q) \in Nat
  OBVIOUS
<1>. QED
  BY <1>1, <1>2, <1>3

\* The head and the entries of the tail are all there are.
LEMMA RangeHeadTail ==
  ASSUME NEW S, NEW q \in Seq(S), q # <<>>
  PROVE  /\ Head(q) \in S /\ Tail(q) \in Seq(S)
         /\ Range(q) = {Head(q)} \cup Range(Tail(q))
<1>1. /\ Len(q) \in Nat \ {0}
      /\ Head(q) = q[1] /\ Head(q) \in S /\ Tail(q) \in Seq(S)
      /\ Len(Tail(q)) = Len(q) - 1
      /\ \A i \in 1 .. Len(Tail(q)) : Tail(q)[i] = q[i + 1]
  BY HeadTailProperties
<1>2. /\ Range(q) = {q[i] : i \in 1 .. Len(q)}
      /\ Range(Tail(q)) = {Tail(q)[i] : i \in 1 .. Len(Tail(q))}
  BY <1>1, RangeEquality
<1>3. ASSUME NEW i \in 1 .. Len(q), i # 1
      PROVE  i - 1 \in 1 .. Len(Tail(q)) /\ q[i] = Tail(q)[i - 1]
  BY <1>1, <1>3
<1>4. ASSUME NEW i \in 1 .. Len(Tail(q))
      PROVE  i + 1 \in 1 .. Len(q)
  BY <1>1
<1>5. Range(q) \subseteq {Head(q)} \cup Range(Tail(q))
  <2>1. ASSUME NEW e \in Range(q), e # Head(q)
        PROVE  e \in Range(Tail(q))
    <3>1. PICK i \in 1 .. Len(q) : e = q[i]
      BY <1>2
    <3>2. i # 1
      BY <1>1, <2>1, <3>1
    <3>3. i - 1 \in 1 .. Len(Tail(q)) /\ e = Tail(q)[i - 1]
      BY <1>3, <3>1, <3>2
    <3>. QED
      BY <1>2, <3>3
  <2>. QED
    BY <2>1
<1>6. {Head(q)} \cup Range(Tail(q)) \subseteq Range(q)
  BY <1>1, <1>2, <1>4
<1>. QED
  BY <1>1, <1>5, <1>6

-----------------------------------------------------------------------------
(* The invariant.                                                          *)

\* Only the service that holds the lock replays, and what the file has is
\* among the entries it took up or inserted.
OneReplay ==
  \A s \in Service :
    /\ lock # s => pending[s] = <<>> /\ remaining[s] = <<>>
    /\ lock = s => Range(Entries) \subseteq replayed[s] \cup Taken(s)

\* A replayed id was inserted, once, and is in the table.
ReplayedIsLogged ==
  \A s \in Service :
    /\ replayed[s] \subseteq logs
    /\ \A e \in Record : inserts[s][e] = IF e \in replayed[s] THEN 1 ELSE 0

IInv ==
  TypeOK /\ OneReplay /\ ReplayedIsLogged /\ SavedUntilLogged /\ KeptUntilLogged

\* What can be read is what is on whole lines and on the last one.
LEMMA EntriesRange ==
  ASSUME TypeOK
  PROVE  Entries \in Seq(Record) /\ Range(Entries) = Range(file) \cup Range(open)
BY RangeConcatenation, ConcatProperties DEF TypeOK, Entries

\* No open line is one of the possibilities.
LEMMA NothingOpen ==
  ASSUME NEW q, q = <<>>
  PROVE  q \in Seq(Record) /\ Len(q) =< 1
BY EmptySeq

\* Wherever a write stops, whole lines stay; a write that is done behind whole
\* lines has put its record on one.
LEMMA WriteEffect ==
  ASSUME TypeOK, NEW e \in Record, WriteStops(e)
  PROVE  /\ file' \in Seq(Record) /\ torn' \in BOOLEAN
         /\ open' \in Seq(Record) /\ Len(open') =< 1 /\ (torn' => open' = <<>>)
         /\ Range(file) \subseteq Range(file')
         /\ WriteLine(e) /\ ~Unended => e \in Range(file')
<1>1. CASE UNCHANGED disk /\ ~WriteLine(e)
  BY <1>1 DEF disk, TypeOK
<1>2. CASE WritePart /\ ~WriteLine(e)
  BY <1>2, NothingOpen DEF WritePart, TypeOK
<1>3. CASE WriteWithoutEnd(e) /\ ~WriteLine(e)
  <2>1. CASE Unended
    BY <1>3, <2>1, NothingOpen DEF WriteWithoutEnd, TypeOK
  <2>2. CASE ~Unended
    <3>1. <<e>> \in Seq(Record) /\ Len(<<e>>) = 1
      OBVIOUS
    <3>. QED
      BY <1>3, <2>2, <3>1 DEF WriteWithoutEnd, TypeOK, Unended
  <2>. QED
    BY <2>1, <2>2
<1>4. CASE WriteLine(e)
  <2>. open' \in Seq(Record) /\ Len(open') =< 1
    BY <1>4, NothingOpen DEF WriteLine
  <2>1. CASE Unended
    <3>1. file' = file /\ open' = <<>> /\ torn' = FALSE
      BY <1>4, <2>1 DEF WriteLine
    <3>. QED
      BY <3>1, <2>1 DEF TypeOK
  <2>2. CASE ~Unended
    <3>1. /\ file' = Append(file, e) /\ open' = <<>> /\ torn' = FALSE
          /\ file \in Seq(Record)
      BY <1>4, <2>2 DEF WriteLine, TypeOK
    <3>2. file' \in Seq(Record) /\ Range(file') = Range(file) \cup {e}
      BY <3>1, RangeAppend
    <3>. QED
      BY <3>1, <3>2
  <2>. QED
    BY <2>1, <2>2
<1>. QED
  BY <1>1, <1>2, <1>3, <1>4 DEF WriteStops

\* Between replays no service has entries in hand.
LEMMA NothingTaken ==
  ASSUME OneReplay, NEW s \in Service, lock # s
  PROVE  Taken(s) = {} /\ pending[s] = <<>> /\ remaining[s] = <<>>
BY RangeEmpty DEF OneReplay, Taken

-----------------------------------------------------------------------------
(* Every step preserves the invariant.                                     *)

\* An append that reached the file.
LEMMA AppendToFileStep ==
  ASSUME IInv, NEW s \in Service, NEW e \in Record, AppendToFile(s, e)
  PROVE  IInv'
<1>1. WriteLine(e) /\ lock = NoService /\ TypeOK
  BY DEF AppendToFile, IInv
<1>2. /\ file' \in Seq(Record) /\ torn' \in BOOLEAN
      /\ open' \in Seq(Record) /\ Len(open') =< 1 /\ (torn' => open' = <<>>)
      /\ Range(file) \subseteq Range(file')
      /\ ~Unended => e \in Range(file')
  BY <1>1, WriteEffect DEF WriteStops
<1>3. UNCHANGED <<memory, replayed, lock, pending, remaining, logs, inserts>>
  BY DEF AppendToFile, table
<1>4. \A t \in Service : Taken(t)' = Taken(t)
  BY <1>3 DEF Taken
<1>5. TypeOK'
  BY <1>1, <1>2, <1>3 DEF TypeOK, AppendToFile
<1>6. OneReplay' /\ ReplayedIsLogged'
  BY <1>1, <1>3, LibrarianWalAssumption DEF IInv, OneReplay, ReplayedIsLogged
<1>7. SavedUntilLogged'
  BY <1>2, <1>3 DEF IInv, SavedUntilLogged, AppendToFile
<1>8. KeptUntilLogged'
  BY <1>2, <1>3, <1>4 DEF IInv, KeptUntilLogged, AppendToFile
<1>. QED
  BY <1>5, <1>6, <1>7, <1>8 DEF IInv

\* An append that went to the buffer.
LEMMA AppendToMemoryStep ==
  ASSUME IInv, NEW s \in Service, NEW e \in Record, AppendToMemory(s, e)
  PROVE  IInv'
<1>1. TypeOK /\ OneReplay
  BY DEF IInv
<1>2. /\ file' \in Seq(Record) /\ torn' \in BOOLEAN
      /\ open' \in Seq(Record) /\ Len(open') =< 1 /\ (torn' => open' = <<>>)
      /\ Range(file) \subseteq Range(file')
      /\ UNCHANGED disk \/ lock = NoService
  <2>1. CASE UNCHANGED disk
    BY <2>1, <1>1 DEF disk, TypeOK
  <2>2. CASE lock = NoService /\ WriteStops(e)
    BY <2>2, <1>1, WriteEffect
  <2>. QED
    BY <2>1, <2>2 DEF AppendToMemory
<1>3. UNCHANGED <<replayed, lock, pending, remaining, logs, inserts, saved, lost>>
  BY DEF AppendToMemory, table
<1>4. memory' = [memory EXCEPT ![s] = Append(memory[s], e)]
  BY DEF AppendToMemory
<1>5. \A t \in Service : Taken(t)' = Taken(t)
  BY <1>3 DEF Taken
<1>6. /\ memory' \in [Service -> Seq(Record)]
      /\ e \in Range(memory'[s])
      /\ \A t \in Service : Range(memory[t]) \subseteq Range(memory'[t])
  BY <1>1, <1>4, RangeAppend DEF TypeOK
<1>7. TypeOK'
  BY <1>1, <1>2, <1>3, <1>6 DEF TypeOK, AppendToMemory
<1>8. OneReplay' /\ ReplayedIsLogged'
  <2>1. CASE UNCHANGED disk
    BY <2>1, <1>3, <1>5 DEF IInv, OneReplay, ReplayedIsLogged, disk, Entries
  <2>2. CASE lock = NoService
    BY <2>2, <1>3, LibrarianWalAssumption DEF IInv, OneReplay, ReplayedIsLogged
  <2>. QED
    BY <2>1, <2>2, <1>2
<1>9. SavedUntilLogged'
  BY <1>2, <1>3 DEF IInv, SavedUntilLogged
<1>10. KeptUntilLogged'
  BY <1>2, <1>3, <1>5, <1>6 DEF IInv, KeptUntilLogged, AppendToMemory
<1>. QED
  BY <1>7, <1>8, <1>9, <1>10 DEF IInv

\* The start of a replay moves the buffer to the entries taken up.
LEMMA BeginReplayStep ==
  ASSUME IInv, NEW s \in Service, BeginReplay(s)
  PROVE  IInv'
<1>1. TypeOK /\ OneReplay /\ lock = NoService
  BY DEF IInv, BeginReplay
<1>2. UNCHANGED <<file, open, torn, replayed, remaining, logs, inserts, saved, accepted, lost>>
  BY DEF BeginReplay, disk, table, told
<1>3. /\ pending' = [pending EXCEPT ![s] = Entries \o memory[s]]
      /\ memory' = [memory EXCEPT ![s] = <<>>]
      /\ lock' = s
  BY DEF BeginReplay
<1>4. /\ Entries \o memory[s] \in Seq(Record)
      /\ Range(Entries \o memory[s]) = Range(Entries) \cup Range(memory[s])
      /\ Range(Entries) = Range(file) \cup Range(open)
      /\ Entries' = Entries
  <2>1. Entries \in Seq(Record) /\ Range(Entries) = Range(file) \cup Range(open)
    BY <1>1, EntriesRange
  <2>2. memory[s] \in Seq(Record)
    BY <1>1 DEF TypeOK
  <2>3. Entries' = Entries
    BY <1>2 DEF Entries
  <2>. QED
    BY <2>1, <2>2, <2>3, RangeConcatenation, ConcatProperties
<1>5. TypeOK'
  BY <1>1, <1>2, <1>3, <1>4 DEF TypeOK
<1>6. /\ Range(Entries) \cup Range(memory[s]) \subseteq Taken(s)'
      /\ \A t \in Service : t # s =>
           Taken(t)' = Taken(t) /\ memory'[t] = memory[t] /\ pending'[t] = pending[t]
  BY <1>1, <1>2, <1>3, <1>4 DEF TypeOK, Taken
<1>7. OneReplay'
  BY <1>1, <1>2, <1>3, <1>4, <1>6, LibrarianWalAssumption DEF OneReplay
<1>8. ReplayedIsLogged' /\ SavedUntilLogged'
  BY <1>2 DEF IInv, ReplayedIsLogged, SavedUntilLogged
<1>9. Taken(s) = {}
  BY <1>1, NothingTaken, LibrarianWalAssumption
<1>10. KeptUntilLogged'
  BY <1>2, <1>6, <1>9 DEF IInv, KeptUntilLogged
<1>. QED
  BY <1>5, <1>7, <1>8, <1>10 DEF IInv

\* One entry of a replay: it is in the table, or remains.
LEMMA EntryStep ==
  ASSUME IInv, NEW s \in Service, Skip(s) \/ Insert(s) \/ InsertFails(s)
  PROVE  IInv'
<1> DEFINE e == Head(pending[s])
<1>1. TypeOK /\ OneReplay /\ ReplayedIsLogged /\ pending[s] # <<>>
  BY DEF IInv, Skip, Insert, InsertFails
<1>2. lock = s
  BY <1>1 DEF OneReplay
<1>3. UNCHANGED <<file, open, torn, memory, lock, saved, accepted, lost>>
  BY DEF Skip, Insert, InsertFails, disk, told
<1>4. /\ e \in Record /\ Tail(pending[s]) \in Seq(Record)
      /\ Range(pending[s]) = {e} \cup Range(Tail(pending[s]))
  BY <1>1, RangeHeadTail DEF TypeOK
<1>5. pending' = [pending EXCEPT ![s] = Tail(@)]
  BY DEF Skip, Insert, InsertFails
<1>6. /\ pending' \in [Service -> Seq(Record)]
      /\ pending'[s] = Tail(pending[s])
      /\ \A t \in Service : t # s => pending'[t] = pending[t]
  BY <1>1, <1>4, <1>5 DEF TypeOK
<1>7. /\ remaining' \in [Service -> Seq(Record)]
      /\ Range(remaining[s]) \subseteq Range(remaining'[s])
      /\ \A t \in Service : t # s => remaining'[t] = remaining[t]
      /\ InsertFails(s) => e \in Range(remaining'[s])
  <2>1. CASE UNCHANGED remaining /\ ~InsertFails(s)
    BY <2>1, <1>1 DEF TypeOK
  <2>2. CASE InsertFails(s)
    BY <2>2, <1>1, <1>4, RangeAppend DEF TypeOK, InsertFails
  <2>. QED
    BY <2>1, <2>2 DEF Skip, Insert
<1>8. /\ replayed' \in [Service -> SUBSET Record]
      /\ logs \subseteq logs' /\ logs' \subseteq Record
      /\ replayed[s] \subseteq replayed'[s]
      /\ \A t \in Service : t # s => replayed'[t] = replayed[t]
      /\ ~InsertFails(s) => e \in replayed'[s] /\ replayed'[s] = replayed[s] \cup {e}
      /\ InsertFails(s) => replayed' = replayed
      /\ replayed'[s] \subseteq logs'
  <2>1. CASE Skip(s)
    <3>1. UNCHANGED <<logs, replayed>> /\ e \in replayed[s] /\ ~InsertFails(s)
      BY <2>1 DEF Skip, InsertFails, table
    <3>. QED
      BY <3>1, <1>1 DEF TypeOK, ReplayedIsLogged
  <2>2. CASE Insert(s)
    <3>1. /\ logs' = logs \cup {e}
          /\ replayed' = [replayed EXCEPT ![s] = @ \cup {e}]
          /\ replayed'[s] = replayed[s] \cup {e}
      BY <2>2, <1>1 DEF Insert, TypeOK
    <3>2. ~InsertFails(s)
      <4>1. e \in replayed'[s] /\ e \notin replayed[s]
        BY <2>2, <3>1 DEF Insert
      <4>. QED
        BY <4>1 DEF InsertFails
    <3>. QED
      BY <3>1, <3>2, <1>1, <1>4 DEF TypeOK, ReplayedIsLogged
  <2>3. CASE InsertFails(s)
    <3>1. logs' \in {logs, logs \cup {e}} /\ replayed' = replayed
      BY <2>3 DEF InsertFails
    <3>2. /\ logs \subseteq Record /\ e \in Record
          /\ replayed \in [Service -> SUBSET Record] /\ replayed[s] \subseteq logs
      BY <1>1, <1>4 DEF TypeOK, ReplayedIsLogged
    <3>. QED
      BY <3>1, <3>2, <2>3
  <2>. QED
    BY <2>1, <2>2, <2>3
<1>9. /\ inserts' \in [Service -> [Record -> Nat]]
      /\ \A t \in Service : \A r \in Record :
           inserts'[t][r] = IF r \in replayed'[t] THEN 1 ELSE 0
  <2>1. CASE Insert(s)
    <3>1. /\ e \notin replayed[s]
          /\ replayed' = [replayed EXCEPT ![s] = @ \cup {e}]
          /\ inserts' = [inserts EXCEPT ![s][e] = @ + 1]
      BY <2>1 DEF Insert
    <3>2. inserts[s][e] = 0
      BY <3>1, <1>1, <1>4 DEF ReplayedIsLogged
    <3>3. /\ e \in Record
          /\ inserts \in [Service -> [Record -> Nat]]
          /\ replayed \in [Service -> SUBSET Record]
          /\ \A t \in Service : \A r \in Record :
               inserts[t][r] = IF r \in replayed[t] THEN 1 ELSE 0
      BY <1>1, <1>4 DEF TypeOK, ReplayedIsLogged
    <3>. HIDE DEF e
    <3>. QED
      BY <3>1, <3>2, <3>3
  <2>2. CASE UNCHANGED <<inserts, replayed>>
    BY <2>2, <1>1 DEF TypeOK, ReplayedIsLogged
  <2>. QED
    BY <2>1, <2>2 DEF Skip, InsertFails, table
<1>10. TypeOK'
  BY <1>1, <1>3, <1>6, <1>7, <1>8, <1>9 DEF TypeOK
<1>11. /\ Taken(s) \subseteq Taken(s)' \cup replayed'[s]
       /\ \A t \in Service : t # s => Taken(t)' = Taken(t)
  BY <1>4, <1>6, <1>7, <1>8 DEF Taken
<1>12. OneReplay'
  BY <1>1, <1>2, <1>3, <1>6, <1>7, <1>8, <1>11 DEF OneReplay, Entries
<1>13. ReplayedIsLogged'
  BY <1>1, <1>8, <1>9 DEF ReplayedIsLogged
<1>14. SavedUntilLogged'
  BY <1>3, <1>8 DEF IInv, SavedUntilLogged
<1>15. KeptUntilLogged'
  BY <1>3, <1>8, <1>11 DEF IInv, KeptUntilLogged
<1>. QED
  BY <1>10, <1>12, <1>13, <1>14, <1>15 DEF IInv

\* The end of a replay: what remains is the file, and the rest was inserted.
LEMMA EndReplayStep ==
  ASSUME IInv, NEW s \in Service, EndReplay(s)
  PROVE  IInv'
<1>1. TypeOK /\ OneReplay /\ ReplayedIsLogged /\ lock = s /\ pending[s] = <<>>
  BY DEF IInv, EndReplay
<1>2. UNCHANGED <<replayed, pending, logs, inserts, saved, accepted, lost>>
  BY DEF EndReplay, table, told
<1>3. /\ file' = remaining[s] /\ open' = <<>> /\ torn' = FALSE /\ lock' = NoService
      /\ memory' = [memory EXCEPT ![s] = @ \o remaining[s]]
      /\ remaining' = [remaining EXCEPT ![s] = <<>>]
  BY DEF EndReplay
<1>4. /\ memory[s] \o remaining[s] \in Seq(Record)
      /\ Range(memory[s] \o remaining[s]) = Range(memory[s]) \cup Range(remaining[s])
  BY <1>1, RangeConcatenation, ConcatProperties DEF TypeOK
<1>5. TypeOK'
  <2>1. open' \in Seq(Record) /\ Len(open') =< 1 /\ torn' = FALSE
    BY <1>3, NothingOpen
  <2>2. file' \in Seq(Record) /\ <<>> \in Seq(Record)
    BY <1>1, <1>3 DEF TypeOK
  <2>. QED
    BY <1>1, <1>2, <1>3, <1>4, <2>1, <2>2 DEF TypeOK
<1>6. Taken(s) = Range(remaining[s]) /\ Range(file) \subseteq logs \cup Range(file')
  BY <1>1, <1>3, RangeEmpty, EntriesRange DEF OneReplay, ReplayedIsLogged, Taken
<1>7. /\ Range(memory[s]) \cup Taken(s) \subseteq Range(memory'[s])
      /\ \A t \in Service : t # s => Taken(t)' = Taken(t) /\ memory'[t] = memory[t]
  BY <1>1, <1>2, <1>3, <1>4, <1>6 DEF TypeOK, Taken
<1>8. OneReplay'
  BY <1>1, <1>2, <1>3, LibrarianWalAssumption DEF OneReplay, TypeOK
<1>9. ReplayedIsLogged' /\ SavedUntilLogged'
  BY <1>2, <1>6 DEF IInv, ReplayedIsLogged, SavedUntilLogged
<1>10. KeptUntilLogged'
  BY <1>2, <1>6, <1>7 DEF IInv, KeptUntilLogged
<1>. QED
  BY <1>5, <1>8, <1>9, <1>10 DEF IInv

\* A replay that raises loses what only it had.
LEMMA ReplayRaisesStep ==
  ASSUME IInv, NEW s \in Service, ReplayRaises(s)
  PROVE  IInv'
<1>1. TypeOK /\ OneReplay /\ ReplayedIsLogged /\ lock = s
  BY DEF IInv, ReplayRaises
<1>2. UNCHANGED <<file, open, torn, memory, replayed, logs, inserts, saved, accepted>>
  BY DEF ReplayRaises, disk, table
<1>3. /\ lost' = lost \cup OnlyIn(s, Taken(s)) /\ lock' = NoService
      /\ pending' = [pending EXCEPT ![s] = <<>>]
      /\ remaining' = [remaining EXCEPT ![s] = <<>>]
  BY DEF ReplayRaises
<1>4. Taken(s) \subseteq Record
  BY <1>1, RangeOfSeq DEF TypeOK, Taken
<1>5. TypeOK'
  BY <1>1, <1>2, <1>3, <1>4 DEF TypeOK, OnlyIn
<1>6. /\ Taken(s) \subseteq lost' \cup logs \cup Range(file) \cup
           UNION {Range(memory[t]) \cup Taken(t) : t \in Service \ {s}}
      /\ \A t \in Service : t # s => Taken(t)' = Taken(t)
  BY <1>1, <1>3 DEF TypeOK, Taken, OnlyIn
<1>7. OneReplay'
  BY <1>1, <1>2, <1>3, LibrarianWalAssumption DEF OneReplay, TypeOK
<1>8. ReplayedIsLogged' /\ SavedUntilLogged'
  BY <1>2 DEF IInv, ReplayedIsLogged, SavedUntilLogged
<1>9. KeptUntilLogged'
  BY <1>2, <1>3, <1>6 DEF IInv, KeptUntilLogged
<1>. QED
  BY <1>5, <1>7, <1>8, <1>9 DEF IInv

\* A restart loses what only the memory of the service had.
LEMMA RestartStep ==
  ASSUME IInv, NEW s \in Service, Restart(s)
  PROVE  IInv'
<1>1. TypeOK /\ OneReplay /\ ReplayedIsLogged
  BY DEF IInv
<1>2. /\ UNCHANGED <<logs, saved, accepted>>
      /\ file' \in Seq(Record) /\ torn' \in BOOLEAN
      /\ open' \in Seq(Record) /\ Len(open') =< 1 /\ (torn' => open' = <<>>)
      /\ Range(file) \subseteq Range(file')
      /\ UNCHANGED disk \/ lock = NoService
  <2>1. CASE UNCHANGED disk
    BY <2>1, <1>1 DEF Restart, disk, TypeOK
  <2>2. CASE lock = NoService /\ \E e \in Unused : WriteStops(e)
    <3>1. PICK e \in Record : WriteStops(e)
      BY <2>2 DEF Unused
    <3>. QED
      BY <2>2, <3>1, <1>1, WriteEffect DEF Restart
  <2>. QED
    BY <2>1, <2>2 DEF Restart
<1>3. /\ lost' = lost \cup OnlyIn(s, Range(memory[s]) \cup Taken(s))
      /\ memory' = [memory EXCEPT ![s] = <<>>]
      /\ replayed' = [replayed EXCEPT ![s] = {}]
      /\ pending' = [pending EXCEPT ![s] = <<>>]
      /\ remaining' = [remaining EXCEPT ![s] = <<>>]
      /\ inserts' = [inserts EXCEPT ![s] = [e \in Record |-> 0]]
      /\ lock' = IF lock = s THEN NoService ELSE lock
  BY DEF Restart
<1>4. Range(memory[s]) \cup Taken(s) \subseteq Record
  BY <1>1, RangeOfSeq DEF TypeOK, Taken
<1>5. TypeOK'
  BY <1>1, <1>2, <1>3, <1>4 DEF TypeOK, OnlyIn
<1>6. /\ Range(memory[s]) \cup Taken(s) \subseteq lost' \cup logs \cup Range(file) \cup
           UNION {Range(memory[t]) \cup Taken(t) : t \in Service \ {s}}
      /\ \A t \in Service : t # s => Taken(t)' = Taken(t) /\ memory'[t] = memory[t]
  BY <1>1, <1>3 DEF TypeOK, Taken, OnlyIn
<1>7. OneReplay'
  <2>1. \A t \in Service : t # s =>
          /\ replayed'[t] = replayed[t]
          /\ pending'[t] = pending[t] /\ remaining'[t] = remaining[t]
    BY <1>1, <1>3 DEF TypeOK
  <2>2. pending'[s] = <<>> /\ remaining'[s] = <<>> /\ lock' # s
    BY <1>1, <1>3, LibrarianWalAssumption DEF TypeOK
  <2>3. \A t \in Service : t # s => (lock' = t <=> lock = t)
    BY <1>3, LibrarianWalAssumption
  <2>. QED
    <3>1. CASE UNCHANGED disk
      BY <3>1, <1>1, <1>6, <2>1, <2>2, <2>3 DEF OneReplay, disk, Entries
    <3>2. CASE lock = NoService
      BY <3>2, <1>1, <1>3, <2>1, <2>2, <2>3, LibrarianWalAssumption DEF OneReplay
    <3>. QED
      BY <3>1, <3>2, <1>2
<1>8. ReplayedIsLogged'
  BY <1>1, <1>2, <1>3 DEF ReplayedIsLogged, TypeOK
<1>9. SavedUntilLogged'
  BY <1>2 DEF IInv, SavedUntilLogged
<1>10. KeptUntilLogged'
  BY <1>2, <1>3, <1>6 DEF IInv, KeptUntilLogged
<1>. QED
  BY <1>5, <1>7, <1>8, <1>9, <1>10 DEF IInv

\* The initial state has it.
LEMMA InitInv == Init => IInv
<1> SUFFICES ASSUME Init PROVE IInv
  OBVIOUS
<1>1. TypeOK
  <2>1. <<>> \in Seq(Record)
    BY EmptySeq
  <2>2. /\ [s \in Service |-> <<>>] \in [Service -> Seq(Record)]
        /\ [s \in Service |-> {}] \in [Service -> SUBSET Record]
        /\ [s \in Service |-> [e \in Record |-> 0]] \in [Service -> [Record -> Nat]]
    BY <2>1
  <2>3. open \in Seq(Record) /\ Len(open) =< 1
    BY NothingOpen DEF Init
  <2>. QED
    BY <2>1, <2>2, <2>3 DEF Init, TypeOK
<1>2. OneReplay /\ ReplayedIsLogged
  BY LibrarianWalAssumption DEF Init, OneReplay, ReplayedIsLogged
<1>3. SavedUntilLogged /\ KeptUntilLogged
  BY DEF Init, SavedUntilLogged, KeptUntilLogged
<1>. QED
  BY <1>1, <1>2, <1>3 DEF IInv

\* And every step keeps it.
LEMMA StepInv == IInv /\ [Next]_vars => IInv'
<1> SUFFICES ASSUME IInv, [Next]_vars PROVE IInv'
  OBVIOUS
<1>1. CASE UNCHANGED vars
  BY <1>1 DEF vars, IInv, TypeOK, OneReplay, ReplayedIsLogged, SavedUntilLogged,
              KeptUntilLogged, Taken, Entries
<1>2. CASE Next
  <2>1. PICK s \in Service :
          \/ \E e \in Record : AppendToFile(s, e) \/ AppendToMemory(s, e)
          \/ BeginReplay(s) \/ Skip(s) \/ Insert(s) \/ InsertFails(s)
          \/ EndReplay(s) \/ ReplayRaises(s) \/ Restart(s)
    BY <1>2 DEF Next
  <2>. QED
    BY <2>1, AppendToFileStep, AppendToMemoryStep, BeginReplayStep, EntryStep,
       EndReplayStep, ReplayRaisesStep, RestartStep
<1>. QED
  BY <1>1, <1>2

\* The invariant holds in every behaviour.
THEOREM WalInvariant == Spec => []IInv
BY InitInv, StepInv, PTL DEF Spec

-----------------------------------------------------------------------------
(* What a reader should know.                                              *)

\* No record synced behind whole lines leaves the file before it is in the table.
THEOREM SavedRecordsSurvive == Spec => []SavedUntilLogged
<1>1. IInv => SavedUntilLogged
  BY DEF IInv
<1>. QED
  BY <1>1, WalInvariant, PTL

\* An accepted record is lost only behind a line without an end, or with the
\* memory of the one service that has it, before it was on a whole line.
THEOREM AcceptedRecordsKept == Spec => []KeptUntilLogged
<1>1. IInv => KeptUntilLogged
  BY DEF IInv
<1>. QED
  BY <1>1, WalInvariant, PTL

\* A service inserts a record once between its restarts.
THEOREM RecordsInsertedOnce == Spec => []InsertedOnce
<1>1. IInv => InsertedOnce
  BY DEF IInv, ReplayedIsLogged, InsertedOnce
<1>. QED
  BY <1>1, WalInvariant, PTL

-----------------------------------------------------------------------------
(* The doubling ends.                                                      *)

\* The buffer of a service that replays is empty: its entries were taken up.
BufferTaken == \A s \in Service : lock = s => memory[s] = <<>>

\* A step that adds to a buffer is not one of the service that replays.
LEMMA BufferTakenStep == TypeOK /\ BufferTaken /\ [Next]_vars => BufferTaken'
<1> SUFFICES ASSUME TypeOK, BufferTaken, [Next]_vars PROVE BufferTaken'
  OBVIOUS
<1>. /\ NoService \notin Service
     /\ memory \in [Service -> Seq(Record)]
  BY LibrarianWalAssumption DEF TypeOK
<1>1. CASE UNCHANGED vars
  BY <1>1 DEF vars, BufferTaken
<1>2. CASE Next
  <2>1. PICK s \in Service :
          \/ \E e \in Record : AppendToFile(s, e) \/ AppendToMemory(s, e)
          \/ BeginReplay(s) \/ Skip(s) \/ Insert(s) \/ InsertFails(s)
          \/ EndReplay(s) \/ ReplayRaises(s) \/ Restart(s)
    BY <1>2 DEF Next
  <2>2. CASE \E e \in Record : AppendToFile(s, e)
    BY <2>2 DEF AppendToFile, BufferTaken
  <2>3. CASE \E e \in Record : AppendToMemory(s, e)
    <3>1. PICK e \in Record :
            /\ lock # s /\ UNCHANGED lock
            /\ memory' = [memory EXCEPT ![s] = Append(@, e)]
      BY <2>3 DEF AppendToMemory
    <3>. QED
      BY <3>1 DEF BufferTaken
  <2>4. CASE BeginReplay(s)
    BY <2>4 DEF BeginReplay, BufferTaken
  <2>5. CASE Skip(s) \/ Insert(s) \/ InsertFails(s)
    BY <2>5 DEF Skip, Insert, InsertFails, BufferTaken
  <2>6. CASE EndReplay(s) \/ ReplayRaises(s)
    BY <2>6 DEF EndReplay, ReplayRaises, BufferTaken
  <2>7. CASE Restart(s)
    BY <2>7 DEF Restart, BufferTaken
  <2>. QED
    BY <2>1, <2>2, <2>3, <2>4, <2>5, <2>6, <2>7
<1>. QED
  BY <1>1, <1>2

\* The log file and the buffers hold records, whatever was torn or failed.
THEOREM WalTypeCorrect == Spec => []TypeOK
<1>1. IInv => TypeOK
  BY DEF IInv
<1>. QED
  BY <1>1, WalInvariant, PTL

\* A replay without a failed insert empties the file and the buffer.
THEOREM ReplayEmptiesBoth == Spec => ReplayDrains
<1>1. Init => BufferTaken
  BY LibrarianWalAssumption DEF Init, BufferTaken
<1>2. IInv => TypeOK
  BY DEF IInv
<1>3. TypeOK /\ BufferTaken =>
        \A s \in Service : EndReplay(s) /\ remaining[s] = <<>> =>
          file' = <<>> /\ memory'[s] = <<>>
  <2> SUFFICES ASSUME TypeOK, BufferTaken, NEW s \in Service,
                      EndReplay(s), remaining[s] = <<>>
               PROVE  file' = <<>> /\ memory'[s] = <<>>
    OBVIOUS
  <2>1. /\ file' = <<>>
        /\ memory' = [memory EXCEPT ![s] = memory[s] \o <<>>]
        /\ memory[s] = <<>>
    BY DEF EndReplay, BufferTaken
  <2>. QED
    BY <2>1 DEF TypeOK
<1>. QED
  BY <1>1, <1>2, <1>3, BufferTakenStep, WalInvariant, PTL DEF Spec, ReplayDrains
=============================================================================
