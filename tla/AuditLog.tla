------------------------------- MODULE AuditLog -------------------------------
(***************************************************************************)
(* infrastructure/audit_log.py: the log that every run of the process      *)
(* records to, in memory and, if it was constructed with a path, in a      *)
(* JSONL file.  Threads call record() concurrently; writing a line may     *)
(* fail, which the code ignores, and the process may stop at any time and  *)
(* start again.  An entry is named by the order in which it was created.   *)
(***************************************************************************)
EXTENDS Integers, SequencesExt

CONSTANTS
  Threads,      \* the worker threads that record
  NoThread,     \* "nobody holds the lock"
  WithPath,     \* whether the log may be constructed with a path
  MaxEntries    \* bound on the number of entries created

ASSUME ThreadsAssumption  == NoThread \notin Threads
ASSUME WithPathAssumption == WithPath \subseteq BOOLEAN

VARIABLES
  path,       \* the log was constructed with a path
  at,         \* where in record() each thread is
  entry,      \* the AuditEntry each thread has created
  lock,       \* self._lock
  entries,    \* self._entries
  lines,      \* the file: what has been written to each line
  ended,      \* the last line of the file ends in a newline
  created,    \* history: the number of entries created
  recorded,   \* history: all entries appended in memory, through all restarts
  returned,   \* history: the entries record() has returned for
  synced      \* history: the entries written without an error

vars == <<path, at, entry, lock, entries, lines, ended,
          created, recorded, returned, synced>>
file == <<lines, ended>>

Entry    == Nat \ {0}
Fragment == 0    \* the beginning of a line

------------------------------------------------------------------------------
\* record().

Init ==
  /\ path \in WithPath
  /\ at = [t \in Threads |-> "outside"]
  /\ entry = [t \in Threads |-> Fragment]
  /\ lock = NoThread
  /\ entries = << >>
  /\ lines = << >> /\ ended = TRUE
  /\ created = 0 /\ recorded = << >> /\ returned = {} /\ synced = {}

\* The entry, its timestamp included, is made before the lock is taken.
Create(t) ==
  /\ at[t] = "outside" /\ created < MaxEntries
  /\ created' = created + 1
  /\ entry' = [entry EXCEPT ![t] = created + 1]
  /\ at' = [at EXCEPT ![t] = "created"]
  /\ UNCHANGED <<path, lock, entries, file, recorded, returned, synced>>

\* Mutant: the lock protects the list only.
AppendUnlocked(t) ==
  /\ at[t] = "created" /\ lock = NoThread
  /\ entries' = Append(entries, entry[t])
  /\ recorded' = Append(recorded, entry[t])
  /\ at' = [at EXCEPT ![t] = "appended"]
  /\ UNCHANGED <<path, entry, lock, file, created, returned, synced>>

AppendInMemory(t) ==
  /\ at[t] = "created" /\ lock = NoThread
  /\ lock' = t
  /\ entries' = Append(entries, entry[t])
  /\ recorded' = Append(recorded, entry[t])
  /\ at' = [at EXCEPT ![t] = "appended"]
  /\ UNCHANGED <<path, entry, file, created, returned, synced>>

\* Text goes to the end of the file: to the last line if it has not ended.
AppendText(text) ==
  IF ended THEN Append(lines, <<text>>)
           ELSE [lines EXCEPT ![Len(lines)] = Append(@, text)]

Return(t) ==
  /\ lock' = NoThread
  /\ at' = [at EXCEPT ![t] = "outside"]
  /\ returned' = returned \cup {entry[t]}

\* Mutant: the file is opened for writing instead of appending.
WriteTruncating(t) ==
  /\ at[t] = "appended" /\ path
  /\ lines' = <<<<entry[t]>>>> /\ ended' = TRUE
  /\ synced' = synced \cup {entry[t]}
  /\ Return(t)
  /\ UNCHANGED <<path, entry, entries, created, recorded>>

\* Mutant: the newline is forgotten.
WriteWithoutNewline(t) ==
  /\ at[t] = "appended" /\ path
  /\ lines' = AppendText(entry[t]) /\ ended' = FALSE
  /\ synced' = synced \cup {entry[t]}
  /\ Return(t)
  /\ UNCHANGED <<path, entry, entries, created, recorded>>

Write(t) ==
  /\ at[t] = "appended" /\ path
  /\ lines' = AppendText(entry[t]) /\ ended' = TRUE
  /\ synced' = synced \cup {entry[t]}
  /\ Return(t)
  /\ UNCHANGED <<path, entry, entries, created, recorded>>

\* An OSError is swallowed.  Before it, nothing, a part of the line, or all of
\* it but the newline may have been written.
WriteFails(t) ==
  /\ at[t] = "appended" /\ path
  /\ \/ UNCHANGED file
     \/ \E text \in {Fragment, entry[t]} : lines' = AppendText(text) /\ ended' = FALSE
  /\ Return(t)
  /\ UNCHANGED <<path, entry, entries, created, recorded, synced>>

SkipFile(t) ==
  /\ at[t] = "appended" /\ ~path
  /\ Return(t)
  /\ UNCHANGED <<path, entry, entries, file, created, recorded, synced>>

\* The process stops, wherever its threads are, and starts again: only the
\* file is left, and nothing reads it back.
Restart ==
  /\ at' = [t \in Threads |-> "outside"]
  /\ lock' = NoThread
  /\ entries' = << >>
  /\ UNCHANGED <<path, entry, file, created, recorded, returned, synced>>

Record(t) ==
  \/ Create(t) \/ AppendInMemory(t)
  \/ Write(t) \/ WriteFails(t) \/ SkipFile(t)

Next == (\E t \in Threads : Record(t)) \/ Restart

Spec == Init /\ [][Next]_vars

------------------------------------------------------------------------------
\* Properties.

TypeOK ==
  /\ path \in BOOLEAN
  /\ at \in [Threads -> {"outside", "created", "appended"}]
  /\ entry \in [Threads -> Entry \cup {Fragment}]
  /\ lock \in Threads \cup {NoThread}
  /\ \A t \in Threads : at[t] = "appended" <=> lock = t
  /\ entries \in Seq(Entry)
  /\ lines \in Seq(Seq(Entry \cup {Fragment}))
  /\ ended \in BOOLEAN
  /\ created \in Nat
  /\ recorded \in Seq(Entry)
  /\ synced \subseteq returned /\ returned \subseteq ToSet(recorded)

\* A reader of the file finds e on a line of its own.
Readable(e) == <<e>> \in ToSet(lines)

(***************************************************************************)
(* The lines a reader can parse are in the order in which the entries were *)
(* recorded, through any number of threads, failed writes and restarts,    *)
(* and no entry is there twice.                                            *)
(***************************************************************************)
FileKeepsTheOrder ==
  \A i, j \in DOMAIN lines : \A m, n \in DOMAIN recorded :
    i < j /\ lines[i] = <<recorded[m]>> /\ lines[j] = <<recorded[n]>> => m < n

(***************************************************************************)
(* A failed write spoils at most the entry recorded right after it: an     *)
(* entry that was written without an error and cannot be read follows one  *)
(* that was not.                                                           *)
(***************************************************************************)
OnlyNeighboursAreSpoiled ==
  \A n \in DOMAIN recorded :
    recorded[n] \in synced /\ ~Readable(recorded[n]) =>
      n > 1 /\ recorded[n - 1] \notin synced

(***************************************************************************)
(* The log is append-only (audit_log.py:67): what can be read stays        *)
(* readable, whatever is written later.  The one line a later write can    *)
(* spoil is that of an entry whose own write failed when all of it but the *)
(* newline had been written, and none that was written without an error.   *)
(***************************************************************************)
ReadableLinesStay ==
  [][ \A e \in ToSet(recorded) :
        Readable(e) /\ ~Readable(e)' =>
          ~ended /\ Last(lines) = <<e>> /\ e \notin synced ]_vars
==============================================================================
