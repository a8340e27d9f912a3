---------------------------- MODULE LibrarianWal ----------------------------
(***************************************************************************)
(* The librarian's write-ahead log (src/src/librarian/service.py): records *)
(* of a database outage are appended to a file that several services       *)
(* share, or kept in memory when that fails, and inserted into the logs    *)
(* table once the database answers.                                        *)
(***************************************************************************)
EXTENDS Integers, Sequences, Functions

CONSTANTS
  Service,     \* LibrarianService objects, each in a process of its own, on one wal_path
  Record,      \* wal ids
  NoService,   \* holder of the lock file nobody holds
  MaxPending   \* bound: entries one replay takes up

ASSUME LibrarianWalAssumption == NoService \notin Service /\ MaxPending \in Nat

VARIABLES
  file,        \* the entries of the lines of the file that have their end
  open,        \* the entry of a last line that only lacks its newline, if any
  torn,        \* the file ends in a part of a line
  memory,      \* memory_wal_buffer
  replayed,    \* replayed_wal_ids
  lock,        \* the service that holds the lock file for a replay
  pending,     \* entries its replay has still to look at
  remaining,   \* entries its replay could not insert
  logs,        \* records in the logs table
  inserts,     \* acknowledged inserts of each service since it was started
  saved,       \* records an append wrote to the file and synced
  accepted,    \* records an append returned for
  lost         \* records that went with the memory of a service

disk  == <<file, open, torn>>
table == <<logs, inserts>>
told  == <<saved, accepted, lost>>
vars  == <<file, open, torn, memory, replayed, lock, pending, remaining, logs,
           inserts, saved, accepted, lost>>

Init ==
  /\ file = <<>> /\ open = <<>> /\ torn = FALSE
  /\ memory = [s \in Service |-> <<>>]
  /\ replayed = [s \in Service |-> {}]
  /\ lock = NoService
  /\ pending = [s \in Service |-> <<>>]
  /\ remaining = [s \in Service |-> <<>>]
  /\ logs = {}
  /\ inserts = [s \in Service |-> [e \in Record |-> 0]]
  /\ saved = {} /\ accepted = {} /\ lost = {}

-----------------------------------------------------------------------------
(* handle_mariadb_outage while the database does not answer: _append_wal.  *)

\* _load_wal_entries: a last line without a newline is read like any other.
Entries == file \o open

\* What a replay of s has in hand.
Taken(s) == Range(pending[s]) \cup Range(remaining[s])

\* The wal ids nothing has yet; each append draws a new one.
Unused ==
  Record \ (accepted \cup logs \cup Range(Entries) \cup
    UNION {Range(memory[s]) \cup Taken(s) : s \in Service})

\* What is written next is glued to the last line.
Unended == torn \/ open # <<>>

\* A line written behind another one that has no end is read as one with it,
\* and is no JSON: both are passed over.
WriteLine(e) ==
  /\ file' = IF Unended THEN file ELSE Append(file, e)
  /\ open' = <<>> /\ torn' = FALSE

\* All of it but the newline.
WriteWithoutEnd(e) ==
  /\ open' = IF Unended THEN <<>> ELSE <<e>>
  /\ torn' = Unended
  /\ UNCHANGED file

WritePart == open' = <<>> /\ torn' = TRUE /\ UNCHANGED file

\* A write that is cut off, or whose fsync fails.
WriteStops(e) == UNCHANGED disk \/ WritePart \/ WriteWithoutEnd(e) \/ WriteLine(e)

\* Write, flush, fsync.
AppendToFile(s, e) ==
  /\ lock = NoService
  /\ e \in Unused
  /\ WriteLine(e)
  /\ accepted' = accepted \cup {e}
  /\ saved' = IF Unended THEN saved ELSE saved \cup {e}
  /\ lost' = IF Unended THEN lost \cup {e} ELSE lost
  /\ UNCHANGED <<memory, replayed, lock, pending, remaining, table>>

\* An OSError, before the file is opened or in the write.
AppendToMemory(s, e) ==
  /\ lock # s
  /\ e \in Unused
  /\ UNCHANGED disk \/ (lock = NoService /\ WriteStops(e))
  /\ memory' = [memory EXCEPT ![s] = Append(@, e)]
  /\ accepted' = accepted \cup {e}
  /\ UNCHANGED <<replayed, lock, pending, remaining, table, saved, lost>>

-----------------------------------------------------------------------------
(* handle_mariadb_outage when SELECT 1 succeeds: replay_wal.               *)

\* Slip: the buffer is cleared and only the file is replayed.
BeginReplayFileOnly(s) ==
  /\ lock = NoService
  /\ Len(Entries) + Len(memory[s]) =< MaxPending
  /\ lock' = s
  /\ pending' = [pending EXCEPT ![s] = Entries]
  /\ memory' = [memory EXCEPT ![s] = <<>>]
  /\ UNCHANGED <<disk, replayed, remaining, table, told>>

\* Slip: the buffer is not cleared.
BeginReplayKeepsBuffer(s) ==
  /\ lock = NoService
  /\ Len(Entries) + Len(memory[s]) =< MaxPending
  /\ lock' = s
  /\ pending' = [pending EXCEPT ![s] = Entries \o memory[s]]
  /\ UNCHANGED <<disk, memory, replayed, remaining, table, told>>

BeginReplay(s) ==
  /\ lock = NoService
  /\ Len(Entries) + Len(memory[s]) =< MaxPending
  /\ lock' = s
  /\ pending' = [pending EXCEPT ![s] = Entries \o memory[s]]
  /\ memory' = [memory EXCEPT ![s] = <<>>]
  /\ UNCHANGED <<disk, replayed, remaining, table, told>>

Skip(s) ==
  /\ pending[s] # <<>>
  /\ Head(pending[s]) \in replayed[s]
  /\ pending' = [pending EXCEPT ![s] = Tail(@)]
  /\ UNCHANGED <<disk, memory, replayed, lock, remaining, table, told>>

\* Slip: what was replayed before is not skipped.
InsertAgain(s) ==
  LET e == Head(pending[s])
  IN  /\ pending[s] # <<>>
      /\ logs' = logs \cup {e}
      /\ inserts' = [inserts EXCEPT ![s][e] = @ + 1]
      /\ replayed' = [replayed EXCEPT ![s] = @ \cup {e}]
      /\ pending' = [pending EXCEPT ![s] = Tail(@)]
      /\ UNCHANGED <<disk, memory, lock, remaining, told>>

Insert(s) ==
  LET e == Head(pending[s])
  IN  /\ pending[s] # <<>>
      /\ e \notin replayed[s]
      /\ logs' = logs \cup {e}
      /\ inserts' = [inserts EXCEPT ![s][e] = @ + 1]
      /\ replayed' = [replayed EXCEPT ![s] = @ \cup {e}]
      /\ pending' = [pending EXCEPT ![s] = Tail(@)]
      /\ UNCHANGED <<disk, memory, lock, remaining, told>>

\* A ConnectionError or OSError; the row may be there all the same.
InsertFails(s) ==
  LET e == Head(pending[s])
  IN  /\ pending[s] # <<>>
      /\ e \notin replayed[s]
      /\ logs' \in {logs, logs \cup {e}}
      /\ remaining' = [remaining EXCEPT ![s] = Append(@, e)]
      /\ pending' = [pending EXCEPT ![s] = Tail(@)]
      /\ UNCHANGED <<disk, memory, replayed, lock, inserts, told>>

\* Slip: what remains is kept in memory only.
EndReplayInMemory(s) ==
  /\ lock = s
  /\ pending[s] = <<>>
  /\ file' = <<>> /\ open' = <<>> /\ torn' = FALSE
  /\ memory' = [memory EXCEPT ![s] = @ \o remaining[s]]
  /\ remaining' = [remaining EXCEPT ![s] = <<>>]
  /\ lock' = NoService
  /\ UNCHANGED <<replayed, pending, table, told>>

(***************************************************************************)
(* What remains replaces the file (_persist_pending_wal), and goes into    *)
(* the buffer as well.                                                     *)
(***************************************************************************)
EndReplay(s) ==
  /\ lock = s
  /\ pending[s] = <<>>
  /\ file' = remaining[s] /\ open' = <<>> /\ torn' = FALSE
  /\ memory' = [memory EXCEPT ![s] = @ \o remaining[s]]
  /\ remaining' = [remaining EXCEPT ![s] = <<>>]
  /\ lock' = NoService
  /\ UNCHANGED <<replayed, pending, table, told>>

\* Entries of s that are neither in the table, nor on a line that no append can
\* spoil any more, nor with another service.
OnlyIn(s, entries) ==
  entries \ (logs \cup Range(file) \cup
    UNION {Range(memory[t]) \cup Taken(t) : t \in Service \ {s}})

(***************************************************************************)
(* The replay raises: the driver with an exception of its own, or the      *)
(* disk when the remaining entries are written to the temporary file.      *)
(* The buffer was cleared at the start.                                    *)
(***************************************************************************)
ReplayRaises(s) ==
  /\ lock = s
  /\ lost' = lost \cup OnlyIn(s, Taken(s))
  /\ pending' = [pending EXCEPT ![s] = <<>>]
  /\ remaining' = [remaining EXCEPT ![s] = <<>>]
  /\ lock' = NoService
  /\ UNCHANGED <<disk, memory, replayed, table, saved, accepted>>

(***************************************************************************)
(* The service is stopped at any point, in an append too (whose record     *)
(* nobody was told of), and started again with an empty buffer and no      *)
(* replayed ids.                                                           *)
(***************************************************************************)
Restart(s) ==
  /\ lost' = lost \cup OnlyIn(s, Range(memory[s]) \cup Taken(s))
  /\ \/ UNCHANGED disk
     \/ lock = NoService /\ \E e \in Unused : WriteStops(e)
  /\ memory' = [memory EXCEPT ![s] = <<>>]
  /\ replayed' = [replayed EXCEPT ![s] = {}]
  /\ pending' = [pending EXCEPT ![s] = <<>>]
  /\ remaining' = [remaining EXCEPT ![s] = <<>>]
  /\ inserts' = [inserts EXCEPT ![s] = [e \in Record |-> 0]]
  /\ lock' = IF lock = s THEN NoService ELSE lock
  /\ UNCHANGED <<logs, saved, accepted>>

Next ==
  \E s \in Service :
    \/ \E e \in Record : AppendToFile(s, e) \/ AppendToMemory(s, e)
    \/ BeginReplay(s) \/ Skip(s) \/ Insert(s) \/ InsertFails(s)
    \/ EndReplay(s) \/ ReplayRaises(s) \/ Restart(s)

Spec == Init /\ [][Next]_vars

-----------------------------------------------------------------------------
(* Properties.                                                             *)

TypeOK ==
  /\ file \in Seq(Record) /\ torn \in BOOLEAN
  /\ open \in Seq(Record) /\ Len(open) =< 1 /\ (torn => open = <<>>)
  /\ lock \in Service \cup {NoService}
  /\ memory \in [Service -> Seq(Record)]
  /\ pending \in [Service -> Seq(Record)]
  /\ remaining \in [Service -> Seq(Record)]
  /\ replayed \in [Service -> SUBSET Record]
  /\ inserts \in [Service -> [Record -> Nat]]
  /\ logs \subseteq Record /\ lost \subseteq Record
  /\ saved \subseteq Record /\ accepted \subseteq Record

(***************************************************************************)
(* A record that was synced to a file with whole lines stays there until   *)
(* it is in the logs table: however many services append and replay, and   *)
(* wherever a write or a replay stops.                                     *)
(***************************************************************************)
SavedUntilLogged == saved \subseteq logs \cup Range(file)

(***************************************************************************)
(* A record an append returned for is in the table, on a line of the file  *)
(* that no later append can spoil, in a buffer or in a replay: clearing    *)
(* the buffer, splitting the entries and putting back what remains drop    *)
(* nothing, and what an append spoils is still in a buffer.  Two things    *)
(* lose a record: its own append was behind a line without an end, or the  *)
(* last service that had it in memory was stopped, or its replay raised,   *)
(* before it was on a whole line.                                          *)
(***************************************************************************)
KeptUntilLogged ==
  accepted \subseteq logs \cup lost \cup Range(file) \cup
    UNION {Range(memory[s]) \cup Taken(s) : s \in Service}

(***************************************************************************)
(* What could not be inserted is both in the file and in the buffer, so a  *)
(* later replay finds it twice: a service that is not restarted and that   *)
(* was told of the insert makes it once                                    *)
(* (tests/test_librarian.py:81, "replay is idempotent").                   *)
(***************************************************************************)
InsertedOnce == \A s \in Service, e \in Record : inserts[s][e] =< 1

(***************************************************************************)
(* Every replay that fails doubles what it puts back, in the file and in   *)
(* the buffer, and no limit is placed on that.  It ends with the database: *)
(* a replay none of whose inserts fails leaves the file and the buffer of  *)
(* its service empty, however many copies of a record it took up.          *)
(***************************************************************************)
ReplayDrains ==
  [][\A s \in Service :
       EndReplay(s) /\ remaining[s] = <<>> =>
         file' = <<>> /\ memory'[s] = <<>>]_vars
=============================================================================
