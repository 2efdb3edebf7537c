---------------------------- MODULE AuditLogProofs ----------------------------
(***************************************************************************)
(* The audit log proved for any number of threads and of entries: through  *)
(* all failed writes and restarts, what a reader finds in the file is in   *)
(* order, a failed write spoils one other entry at most, and what could be *)
(* read stays readable, but for the line a failed write has not ended.     *)
(***************************************************************************)
EXTENDS AuditLog, TLAPS

(***************************************************************************)
(* The inductive invariant.  An entry is a number that is given out once:  *)
(* what a thread has created but not recorded is nowhere yet, and what it  *)
(* has appended in memory is the last entry recorded and not in the file.  *)
(***************************************************************************)
EntriesAreFresh ==
  /\ \A n \in DOMAIN recorded : recorded[n] <= created
  /\ \A m, n \in DOMAIN recorded : recorded[m] = recorded[n] => m = n
  /\ \A t \in Threads : at[t] # "outside" => entry[t] \in 1 .. created
  /\ \A t \in Threads : at[t] = "created" =>
       /\ \A n \in DOMAIN recorded : recorded[n] # entry[t]
       /\ \A u \in Threads : at[u] = "created" /\ entry[u] = entry[t] => u = t
  /\ \A t \in Threads : at[t] = "appended" =>
       /\ recorded # << >> /\ entry[t] = recorded[Len(recorded)]
       /\ entry[t] \notin synced

\* An entry that occurs in the file at all has been recorded, and is not the
\* one that is about to be written.
FileIsOfRecorded ==
  \A i \in DOMAIN lines : \A k \in DOMAIN lines[i] :
    \/ lines[i][k] = Fragment
    \/ /\ lines[i][k] \in ToSet(recorded)
       /\ \A t \in Threads : at[t] = "appended" => lines[i][k] # entry[t]

\* A line that has not ended holds something, but no single entry that was
\* written without an error; the entry recorded before the one that comes
\* next was not.
LastLineIsSpoiled ==
  /\ \A i \in DOMAIN lines : lines[i] # << >>
  /\ ~ended =>
       /\ lines # << >>
       /\ \A e \in synced : lines[Len(lines)] # <<e>>
       /\ recorded # << >>
       /\ IF lock = NoThread
          THEN recorded[Len(recorded)] \notin synced
          ELSE Len(recorded) > 1 /\ recorded[Len(recorded) - 1] \notin synced

Inv ==
  /\ TypeOK
  /\ EntriesAreFresh
  /\ FileIsOfRecorded
  /\ LastLineIsSpoiled
  /\ FileKeepsTheOrder
  /\ OnlyNeighboursAreSpoiled

Text == Entry \cup {Fragment}

\* What the file is after text has been written at its end.
LEMMA AppendTextResult ==
  ASSUME TypeOK, LastLineIsSpoiled, NEW text \in Text
  PROVE  LET new == AppendText(text)
             n   == Len(new)
         IN  /\ new \in Seq(Seq(Text))
             /\ n > 0
             /\ Len(lines) = IF ended THEN n - 1 ELSE n
             /\ \A i \in 1 .. n - 1 : new[i] = lines[i]
             /\ new[n] = IF ended THEN <<text>> ELSE Append(lines[n], text)
<1>0. lines \in Seq(Seq(Text)) /\ ended \in BOOLEAN
  BY DEF TypeOK, Text
<1>1. CASE ended
  <2>1. AppendText(text) = Append(lines, <<text>>) /\ <<text>> \in Seq(Text)
    BY <1>1 DEF AppendText
  <2> QED BY <1>0, <1>1, <2>1
<1>2. CASE ~ended
  <2>1. lines # << >> /\ Len(lines) \in Nat /\ Len(lines) > 0
    BY <1>0, <1>2 DEF LastLineIsSpoiled
  <2>2. Append(lines[Len(lines)], text) \in Seq(Text)
    BY <1>0, <2>1
  <2>3. AppendText(text) = [lines EXCEPT ![Len(lines)] = Append(lines[Len(lines)], text)]
    BY <1>2, <2>1 DEF AppendText
  <2> QED BY <1>0, <1>2, <2>1, <2>2, <2>3
<1> QED BY <1>0, <1>1, <1>2

\* The initial state: nothing recorded, an empty file.
LEMMA InitInv == Init => Inv
<1> SUFFICES ASSUME Init PROVE Inv
  OBVIOUS
<1>1. TypeOK
  BY ThreadsAssumption, WithPathAssumption
  DEF Init, TypeOK, Entry, Fragment, ToSet
<1>2. EntriesAreFresh
  BY DEF Init, EntriesAreFresh
<1>3. FileIsOfRecorded /\ LastLineIsSpoiled
  BY DEF Init, FileIsOfRecorded, LastLineIsSpoiled
<1>4. FileKeepsTheOrder /\ OnlyNeighboursAreSpoiled
  BY DEF Init, FileKeepsTheOrder, OnlyNeighboursAreSpoiled
<1> QED BY <1>1, <1>2, <1>3, <1>4 DEF Inv
\* A new entry changes nothing but the counter and the thread that made it.
LEMMA CreatePreservesInv ==
  ASSUME Inv, NEW t \in Threads, Create(t)
  PROVE  Inv'
<1>0. TypeOK
  BY DEF Inv
<1>1. TypeOK'
  BY <1>0 DEF TypeOK, Create, file, Entry
<1>2. EntriesAreFresh'
  <2>0. EntriesAreFresh
    BY DEF Inv
  <2>1. /\ at' = [at EXCEPT ![t] = "created"] /\ entry' = [entry EXCEPT ![t] = created + 1]
        /\ created' = created + 1 /\ created \in Nat
        /\ UNCHANGED <<recorded, synced>>
        /\ at \in [Threads -> {"outside", "created", "appended"}]
        /\ DOMAIN entry = Threads
        /\ recorded \in Seq(Entry) /\ Entry \subseteq Nat
    BY <1>0 DEF TypeOK, Create, file, Entry
  <2>2. \A n \in DOMAIN recorded : recorded[n] \in Nat /\ recorded[n] <= created
    <3>1. \A n \in DOMAIN recorded : recorded[n] \in Nat
      <4>1. \A n \in 1 .. Len(recorded) : recorded[n] \in Entry
        BY <2>1
      <4>2. DOMAIN recorded = 1 .. Len(recorded)
        BY <2>1
      <4> QED BY <2>1, <4>1, <4>2
    <3>2. \A n \in DOMAIN recorded : recorded[n] <= created
      BY <2>0 DEF EntriesAreFresh
    <3> QED BY <3>1, <3>2
  <2>3. \A u \in Threads :
          IF u = t THEN at'[u] = "created" /\ entry'[u] = created + 1
          ELSE /\ at'[u] = at[u] /\ entry'[u] = entry[u]
               /\ at[u] # "outside" => entry[u] \in 1 .. created
    BY <2>0, <2>1 DEF EntriesAreFresh
  <2>4. \A u \in Threads : at'[u] # "outside" => entry'[u] \in 1 .. created'
    BY <2>1, <2>3
  <2>5. ASSUME NEW u \in Threads, at'[u] = "created"
        PROVE  /\ \A n \in DOMAIN recorded' : recorded'[n] # entry'[u]
               /\ \A v \in Threads : at'[v] = "created" /\ entry'[v] = entry'[u] => v = u
    <3>1. CASE u = t
      BY <2>1, <2>2, <2>3, <2>5, <3>1
    <3>2. CASE u # t
      <4>1. at[u] = "created" /\ entry'[u] = entry[u] /\ entry[u] \in 1 .. created
        BY <2>3, <2>5, <3>2
      <4>2. \A n \in DOMAIN recorded' : recorded'[n] # entry'[u]
        BY <2>0, <2>1, <4>1 DEF EntriesAreFresh
      <4>3. ASSUME NEW v \in Threads, at'[v] = "created", entry'[v] = entry'[u] PROVE v = u
        <5>1. v # t
          BY <2>1, <2>3, <4>1, <4>3
        <5> QED BY <2>0, <2>3, <4>1, <4>3, <5>1 DEF EntriesAreFresh
      <4> QED BY <4>2, <4>3
    <3> QED BY <3>1, <3>2
  <2>6. ASSUME NEW u \in Threads, at'[u] = "appended"
        PROVE  /\ recorded' # << >> /\ entry'[u] = recorded'[Len(recorded')]
               /\ entry'[u] \notin synced'
    BY <2>0, <2>1, <2>3, <2>6 DEF EntriesAreFresh
  <2>7. /\ \A n \in DOMAIN recorded' : recorded'[n] <= created'
        /\ \A m, n \in DOMAIN recorded' : recorded'[m] = recorded'[n] => m = n
    BY <2>0, <2>1, <2>2 DEF EntriesAreFresh
  <2> QED BY <2>4, <2>5, <2>6, <2>7 DEF EntriesAreFresh
<1>3. FileIsOfRecorded'
  <2>0. FileIsOfRecorded
    BY DEF Inv
  <2> QED BY <1>0, <2>0 DEF FileIsOfRecorded, TypeOK, Create, file, ToSet
<1>4. LastLineIsSpoiled' /\ FileKeepsTheOrder' /\ OnlyNeighboursAreSpoiled'
  <2>0. LastLineIsSpoiled /\ FileKeepsTheOrder /\ OnlyNeighboursAreSpoiled
    BY DEF Inv
  <2>1. UNCHANGED <<lines, ended, lock, synced, recorded>>
    BY DEF Create, file
  <2> QED BY <2>0, <2>1
      DEF LastLineIsSpoiled, FileKeepsTheOrder, OnlyNeighboursAreSpoiled, Readable, ToSet
<1> QED BY <1>1, <1>2, <1>3, <1>4 DEF Inv

LEMMA RestartPreservesInv ==
  ASSUME Inv, Restart
  PROVE  Inv'
<1>0. TypeOK /\ EntriesAreFresh /\ LastLineIsSpoiled
  BY DEF Inv
<1>1. TypeOK'
  BY <1>0, ThreadsAssumption DEF TypeOK, Restart, file, Entry
<1>2. EntriesAreFresh'
  BY <1>0 DEF EntriesAreFresh, Restart, file
<1>3. FileIsOfRecorded'
  <2>0. FileIsOfRecorded
    BY DEF Inv
  <2> QED BY <2>0 DEF FileIsOfRecorded, Restart, file, ToSet
<1>4. LastLineIsSpoiled'
  <2>1. ASSUME ~ended
        PROVE  recorded # << >> /\ recorded[Len(recorded)] \notin synced
    <3>1. CASE lock = NoThread
      BY <1>0, <2>1, <3>1 DEF LastLineIsSpoiled
    <3>2. CASE lock # NoThread
      <4>1. PICK t \in Threads : at[t] = "appended"
        BY <1>0, <3>2 DEF TypeOK
      <4> QED BY <1>0, <4>1 DEF EntriesAreFresh
    <3> QED BY <3>1, <3>2
  <2> QED BY <1>0, <2>1 DEF LastLineIsSpoiled, Restart, file
<1>5. FileKeepsTheOrder' /\ OnlyNeighboursAreSpoiled'
  <2>0. FileKeepsTheOrder /\ OnlyNeighboursAreSpoiled
    BY DEF Inv
  <2>1. UNCHANGED <<lines, synced, recorded>>
    BY DEF Restart, file
  <2> QED BY <2>0, <2>1 DEF FileKeepsTheOrder, OnlyNeighboursAreSpoiled, Readable, ToSet
<1> QED BY <1>1, <1>2, <1>3, <1>4, <1>5 DEF Inv

\* The entry that is appended in memory is nowhere in the file yet.
LEMMA AppendPreservesInv ==
  ASSUME Inv, NEW t \in Threads, AppendInMemory(t)
  PROVE  Inv'
<1>0. TypeOK /\ EntriesAreFresh /\ FileIsOfRecorded /\ LastLineIsSpoiled
  BY DEF Inv
<1>a. /\ entry[t] \in Entry /\ entry[t] <= created
      /\ recorded \in Seq(Entry) /\ created \in Nat
      /\ synced \subseteq ToSet(recorded)
  BY <1>0 DEF TypeOK, EntriesAreFresh, AppendInMemory, Entry
<1>b. /\ recorded' = Append(recorded, entry[t]) /\ recorded' \in Seq(Entry)
      /\ Len(recorded') = Len(recorded) + 1 /\ recorded'[Len(recorded')] = entry[t]
      /\ \A n \in DOMAIN recorded : recorded'[n] = recorded[n]
      /\ DOMAIN recorded' = DOMAIN recorded \cup {Len(recorded) + 1}
      /\ DOMAIN recorded = 1 .. Len(recorded) /\ Len(recorded) \in Nat
  BY <1>a DEF AppendInMemory
<1>c. entry[t] \notin ToSet(recorded)
  BY <1>0 DEF EntriesAreFresh, AppendInMemory, ToSet
<1>d. ToSet(recorded) \subseteq ToSet(recorded')
  BY <1>b DEF ToSet
<1>e. UNCHANGED <<path, entry, lines, ended, created, returned, synced>>
  BY DEF AppendInMemory, file
<1>f. at' = [at EXCEPT ![t] = "appended"] /\ lock' = t /\ lock = NoThread /\ at[t] = "created"
  BY DEF AppendInMemory
<1>g. \A u \in Threads : at'[u] = "appended" <=> u = t
  BY <1>0, <1>f, ThreadsAssumption DEF TypeOK
<1>1. TypeOK'
  <2>1. entries' \in Seq(Entry)
    BY <1>0, <1>a DEF TypeOK, AppendInMemory
  <2>2. \A u \in Threads : at'[u] = "appended" <=> lock' = u
    BY <1>f, <1>g
  <2>3. returned' \subseteq ToSet(recorded')
    BY <1>0, <1>d, <1>e DEF TypeOK
  <2> QED BY <1>0, <1>b, <1>e, <1>f, <2>1, <2>2, <2>3 DEF TypeOK
<1>2. EntriesAreFresh'
  <2>1. \A n \in DOMAIN recorded' : recorded'[n] <= created'
    BY <1>0, <1>a, <1>b, <1>e DEF EntriesAreFresh
  <2>2. \A m, n \in DOMAIN recorded' : recorded'[m] = recorded'[n] => m = n
    BY <1>0, <1>b, <1>c DEF EntriesAreFresh, ToSet
  <2>3. ASSUME NEW u \in Threads, at'[u] # "outside" PROVE entry'[u] \in 1 .. created'
    BY <1>0, <1>e, <1>f, <2>3 DEF EntriesAreFresh, TypeOK
  <2>4. ASSUME NEW u \in Threads, at'[u] = "created"
        PROVE  /\ \A n \in DOMAIN recorded' : recorded'[n] # entry'[u]
               /\ \A v \in Threads : at'[v] = "created" /\ entry'[v] = entry'[u] => v = u
    <3>1. u # t /\ at[u] = "created" /\ \A v \in Threads : at'[v] = "created" => at[v] = "created"
      BY <1>0, <1>f, <2>4 DEF TypeOK
    <3>2. entry[u] # entry[t]
      BY <1>0, <1>f, <3>1 DEF EntriesAreFresh
    <3> QED BY <1>0, <1>b, <1>e, <3>1, <3>2 DEF EntriesAreFresh
  <2>5. ASSUME NEW u \in Threads, at'[u] = "appended"
        PROVE  /\ recorded' # << >> /\ entry'[u] = recorded'[Len(recorded')]
               /\ entry'[u] \notin synced'
    BY <1>a, <1>b, <1>c, <1>e, <1>g, <2>5
  <2> QED BY <2>1, <2>2, <2>3, <2>4, <2>5 DEF EntriesAreFresh
<1>3. FileIsOfRecorded'
  <2> SUFFICES ASSUME NEW i \in DOMAIN lines, NEW k \in DOMAIN lines[i],
                      lines[i][k] # Fragment
               PROVE  /\ lines[i][k] \in ToSet(recorded')
                      /\ \A u \in Threads : at'[u] = "appended" => lines[i][k] # entry[u]
    BY <1>e DEF FileIsOfRecorded
  <2>1. lines[i][k] \in ToSet(recorded)
    BY <1>0 DEF FileIsOfRecorded
  <2> QED BY <2>1, <1>c, <1>d, <1>g
<1>4. LastLineIsSpoiled'
  <2>1. lock' # NoThread
    BY <1>f, ThreadsAssumption
  <2>2. ASSUME ~ended
        PROVE  Len(recorded') > 1 /\ recorded'[Len(recorded') - 1] \notin synced
    <3>1. recorded # << >> /\ recorded[Len(recorded)] \notin synced
      BY <1>0, <1>f, <2>2 DEF LastLineIsSpoiled
    <3>2. Len(recorded) \in DOMAIN recorded /\ Len(recorded) > 0
      BY <1>a, <3>1
    <3>3. Len(recorded') - 1 = Len(recorded) /\ recorded'[Len(recorded)] = recorded[Len(recorded)]
      BY <1>b, <3>2
    <3> QED BY <1>b, <3>1, <3>2, <3>3
  <2>3. recorded' # << >>
    BY <1>b
  <2> QED BY <1>0, <1>e, <2>1, <2>2, <2>3 DEF LastLineIsSpoiled
<1>5. FileKeepsTheOrder'
  <2> SUFFICES ASSUME NEW i \in DOMAIN lines, NEW j \in DOMAIN lines,
                      NEW m \in DOMAIN recorded', NEW n \in DOMAIN recorded',
                      i < j, lines[i] = <<recorded'[m]>>, lines[j] = <<recorded'[n]>>
               PROVE  m < n
    BY <1>e DEF FileKeepsTheOrder
  <2>1. lines[i][1] = recorded'[m] /\ 1 \in DOMAIN lines[i]
        /\ lines[j][1] = recorded'[n] /\ 1 \in DOMAIN lines[j]
    OBVIOUS
  <2>2. recorded'[m] # Fragment /\ recorded'[n] # Fragment
    BY <1>b DEF Entry, Fragment
  <2>3. recorded'[m] \in ToSet(recorded) /\ recorded'[n] \in ToSet(recorded)
    BY <1>0, <2>1, <2>2 DEF FileIsOfRecorded
  <2>4. m \in DOMAIN recorded /\ n \in DOMAIN recorded
    BY <2>3, <1>b, <1>c
  <2>5. FileKeepsTheOrder
    BY DEF Inv
  <2> QED BY <1>b, <2>4, <2>5 DEF FileKeepsTheOrder
<1>6. OnlyNeighboursAreSpoiled'
  <2>0. OnlyNeighboursAreSpoiled
    BY DEF Inv
  <2> SUFFICES ASSUME NEW n \in DOMAIN recorded', recorded'[n] \in synced,
                      <<recorded'[n]>> \notin ToSet(lines)
               PROVE  n > 1 /\ recorded'[n - 1] \notin synced
    BY <1>e DEF OnlyNeighboursAreSpoiled, Readable
  <2>1. n \in DOMAIN recorded /\ recorded'[n] = recorded[n]
    BY <1>a, <1>b, <1>c
  <2>2. ~Readable(recorded[n])
    BY <2>1 DEF Readable
  <2> QED BY <1>b, <2>0, <2>1, <2>2 DEF OnlyNeighboursAreSpoiled
<1> QED BY <1>1, <1>2, <1>3, <1>4, <1>5, <1>6 DEF Inv

\* What every way of leaving record() does, writing or not.
Leaves(t) ==
  /\ at[t] = "appended"
  /\ lock' = NoThread /\ at' = [at EXCEPT ![t] = "outside"]
  /\ returned' = returned \cup {entry[t]}
  /\ UNCHANGED <<path, entry, entries, created, recorded>>

\* A step that leaves record() preserves the invariant if what it writes does.
LEMMA LeavePreservesInv ==
  ASSUME Inv, NEW t \in Threads, Leaves(t),
         lines' \in Seq(Seq(Text)), ended' \in BOOLEAN,
         synced \subseteq synced', synced' \subseteq synced \cup {entry[t]},
         \A i \in DOMAIN lines' : \A k \in DOMAIN lines'[i] :
           \/ lines'[i][k] \in {Fragment, entry[t]}
           \/ i \in DOMAIN lines /\ k \in DOMAIN lines[i] /\ lines'[i][k] = lines[i][k],
         LastLineIsSpoiled', FileKeepsTheOrder', OnlyNeighboursAreSpoiled'
  PROVE  Inv'
<1>0. TypeOK /\ EntriesAreFresh /\ FileIsOfRecorded
  BY DEF Inv
<1>a. /\ at \in [Threads -> {"outside", "created", "appended"}]
      /\ lock = t /\ \A u \in Threads : at[u] = "appended" => u = t
      /\ recorded \in Seq(Entry) /\ recorded # << >>
      /\ entry[t] = recorded[Len(recorded)] /\ entry[t] \in Entry
  BY <1>0 DEF TypeOK, EntriesAreFresh, Leaves, Entry
<1>b. entry[t] \in ToSet(recorded)
  <2>1. Len(recorded) \in DOMAIN recorded
    BY <1>a
  <2> QED BY <1>a, <2>1 DEF ToSet
<1>c. \A u \in Threads : at'[u] # "appended" /\ (at'[u] # "outside" => at'[u] = at[u])
  BY <1>a DEF Leaves
<1>1. TypeOK'
  <2>1. \A u \in Threads : at'[u] = "appended" <=> lock' = u
    BY <1>c, ThreadsAssumption DEF Leaves
  <2>2. synced' \subseteq returned' /\ returned' \subseteq ToSet(recorded)
    BY <1>0, <1>b DEF TypeOK, Leaves
  <2>3. at' \in [Threads -> {"outside", "created", "appended"}]
    BY <1>a DEF Leaves
  <2> QED BY <1>0, <2>1, <2>2, <2>3 DEF TypeOK, Leaves, Text
<1>2. EntriesAreFresh'
  <2>1. UNCHANGED <<recorded, created, entry>>
    BY DEF Leaves
  <2> QED BY <1>0, <1>c, <2>1 DEF EntriesAreFresh
<1>3. FileIsOfRecorded'
  <2>1. recorded' = recorded
    BY DEF Leaves
  <2> QED BY <1>0, <1>b, <1>c, <2>1 DEF FileIsOfRecorded
<1> QED BY <1>1, <1>2, <1>3 DEF Inv

\* A step that leaves the file alone, whether it failed or had none to write.
LEMMA NothingWrittenPreservesInv ==
  ASSUME Inv, NEW t \in Threads, Leaves(t), UNCHANGED <<lines, ended, synced>>
  PROVE  Inv'
<1>0. TypeOK /\ EntriesAreFresh /\ LastLineIsSpoiled /\ FileKeepsTheOrder
      /\ OnlyNeighboursAreSpoiled
  BY DEF Inv
<1>1. recorded[Len(recorded)] \notin synced /\ recorded # << >>
  BY <1>0 DEF EntriesAreFresh, Leaves
<1>2. LastLineIsSpoiled'
  BY <1>0, <1>1 DEF LastLineIsSpoiled, Leaves
<1>3. FileKeepsTheOrder' /\ OnlyNeighboursAreSpoiled'
  <2>1. recorded' = recorded
    BY DEF Leaves
  <2> QED BY <1>0, <2>1 DEF FileKeepsTheOrder, OnlyNeighboursAreSpoiled, Readable
<1>4. lines \in Seq(Seq(Text)) /\ ended \in BOOLEAN
  BY <1>0 DEF TypeOK, Text
<1> QED BY <1>2, <1>3, <1>4, LeavePreservesInv

\* A step that writes something at the end of the file: the whole line, or what
\* a failure leaves of it.
LEMMA TextWrittenPreservesInv ==
  ASSUME Inv, NEW t \in Threads, Leaves(t),
         NEW text \in {Fragment, entry[t]}, lines' = AppendText(text),
         \/ text = entry[t] /\ ended' = TRUE /\ synced' = synced \cup {entry[t]}
         \/ ended' = FALSE /\ synced' = synced
  PROVE  Inv'
<1>0. TypeOK /\ EntriesAreFresh /\ FileIsOfRecorded /\ LastLineIsSpoiled
      /\ FileKeepsTheOrder /\ OnlyNeighboursAreSpoiled
  BY DEF Inv
<1> DEFINE e    == entry[t]
           n    == Len(lines')
           last == Len(recorded)
<1>a. /\ recorded \in Seq(Entry) /\ recorded # << >> /\ recorded' = recorded
      /\ last \in DOMAIN recorded /\ last \in Nat /\ DOMAIN recorded = 1 .. last
      /\ e = recorded[last] /\ e \in Entry /\ e \notin synced
  <2>1. recorded \in Seq(Entry) /\ recorded # << >> /\ e = recorded[last] /\ e \notin synced
    BY <1>0 DEF TypeOK, EntriesAreFresh, Leaves
  <2>2. last \in DOMAIN recorded /\ last \in Nat /\ DOMAIN recorded = 1 .. last
    BY <2>1
  <2> QED BY <2>1, <2>2 DEF Leaves
<1>b. synced \subseteq Entry
  BY <1>0 DEF TypeOK, ToSet
<1>c. lines \in Seq(Seq(Text)) /\ lines' \in Seq(Seq(Text)) /\ ended \in BOOLEAN
  <2>1. text \in Text
    BY <1>a DEF Text
  <2>2. lines' \in Seq(Seq(Text))
    BY <1>0, <2>1, AppendTextResult
  <2> QED BY <1>0, <2>2 DEF TypeOK, Text
<1>d. n \in Nat /\ DOMAIN lines' = 1 .. n
  BY <1>c
<1>e. Len(lines) \in Nat /\ DOMAIN lines = 1 .. Len(lines)
  BY <1>c
<1>f. /\ n > 0
      /\ Len(lines) = IF ended THEN n - 1 ELSE n
      /\ \A i \in 1 .. n - 1 : lines'[i] = lines[i]
      /\ lines'[n] = IF ended THEN <<text>> ELSE Append(lines[n], text)
  <2>1. text \in Text
    BY <1>a DEF Text
  <2> QED BY <1>0, <2>1, AppendTextResult
<1>g. n > 0
  BY <1>f
<1>h. \A i \in 1 .. n - 1 : i \in DOMAIN lines
  <2>1. Len(lines) = n - 1 \/ Len(lines) = n
    BY <1>f
  <2>2. n \in Nat
    BY <1>d
  <2>3. n - 1 <= Len(lines)
    BY <1>e, <2>1, <2>2
  <2> QED BY <1>e, <2>2, <2>3
<1>i. \A i \in DOMAIN lines' : i = n \/ i \in 1 .. n - 1
  BY <1>d
<1>j. \A i \in 1 .. n - 1 : i \in DOMAIN lines /\ i \in DOMAIN lines' /\ lines'[i] = lines[i]
  <2>1. \A i \in 1 .. n - 1 : i \in DOMAIN lines'
    BY <1>d
  <2> QED BY <1>f, <1>h, <2>1
<1>k. n \in DOMAIN lines'
  BY <1>d, <1>g
<1>l. ended => DOMAIN lines = 1 .. n - 1 /\ lines'[n] = <<text>>
  BY <1>e, <1>f
<1>m. ~ended => n \in DOMAIN lines /\ lines'[n] = Append(lines[n], text)
  <2>1. ~ended => n \in DOMAIN lines
    BY <1>d, <1>e, <1>f
  <2> QED BY <1>f, <2>1
<1>n. ASSUME ~ended
      PROVE  /\ lines[n] \in Seq(Text) /\ n \in DOMAIN lines
             /\ Len(lines[n]) \in Nat \ {0} /\ lines'[n] = Append(lines[n], text)
             /\ Len(lines'[n]) = Len(lines[n]) + 1
             /\ \A x \in Text : lines'[n] # <<x>>
             /\ \A x \in synced : lines[n] # <<x>>
             /\ last > 1 /\ recorded[last - 1] \notin synced
  <2>1. lines[n] \in Seq(Text) /\ n \in DOMAIN lines /\ lines'[n] = Append(lines[n], text)
    BY <1>n, <1>c, <1>m
  <2>2. lines[n] # << >> /\ \A x \in synced : lines[n] # <<x>>
    <3>1. n = Len(lines)
      BY <1>n, <1>f
    <3> QED BY <1>0, <1>n, <2>1, <3>1 DEF LastLineIsSpoiled
  <2>3. Len(lines[n]) \in Nat \ {0}
    BY <2>1, <2>2
  <2>4. Len(lines'[n]) = Len(lines[n]) + 1
    BY <2>1
  <2>5. Len(lines'[n]) # 1
    BY <2>3, <2>4
  <2>6. \A x \in Text : lines'[n] # <<x>>
    BY <2>5
  <2>7. lock # NoThread
    BY <1>0, ThreadsAssumption DEF TypeOK, Leaves
  <2>8. last > 1 /\ recorded[last - 1] \notin synced
    BY <1>0, <1>n, <2>7 DEF LastLineIsSpoiled
  <2> QED BY <2>1, <2>2, <2>3, <2>4, <2>6, <2>8
\* A line that holds one entry and was there before is as it was.
<1>o. ASSUME NEW i \in DOMAIN lines', NEW x \in Text, lines'[i] = <<x>>
      PROVE  \/ i \in DOMAIN lines /\ lines[i] = <<x>> /\ (ended => i < n)
             \/ ended /\ i = n /\ x = text
  <2>1. CASE i # n
    <3>1. i \in 1 .. n - 1
      BY <1>i, <2>1
    <3> QED BY <1>o, <1>d, <1>j, <3>1
  <2>2. CASE i = n /\ ended
    BY <1>o, <1>l, <2>2
  <2>3. CASE i = n /\ ~ended
    BY <1>n, <1>o, <2>3
  <2> QED BY <2>1, <2>2, <2>3
\* What could be read and was written without an error still can be.
<1>p. ASSUME NEW x \in synced, NEW i \in DOMAIN lines, lines[i] = <<x>>
      PROVE  i \in DOMAIN lines' /\ lines'[i] = <<x>>
  <2>1. i \in 1 .. n - 1
    <3>1. CASE ended
      BY <1>p, <1>l, <3>1
    <3>2. CASE ~ended
      <4>1. i # n
        BY <1>n, <1>p, <3>2
      <4>2. Len(lines) = n
        BY <1>f, <3>2
      <4> QED BY <1>p, <1>d, <1>e, <4>1, <4>2
    <3> QED BY <3>1, <3>2
  <2> QED BY <1>p, <1>j, <2>1
<1>1. \A i \in DOMAIN lines' : \A k \in DOMAIN lines'[i] :
        \/ lines'[i][k] \in {Fragment, e}
        \/ i \in DOMAIN lines /\ k \in DOMAIN lines[i] /\ lines'[i][k] = lines[i][k]
  <2> SUFFICES ASSUME NEW i \in DOMAIN lines', NEW k \in DOMAIN lines'[i]
               PROVE  \/ lines'[i][k] \in {Fragment, e}
                      \/ /\ i \in DOMAIN lines /\ k \in DOMAIN lines[i]
                         /\ lines'[i][k] = lines[i][k]
    OBVIOUS
  <2>1. CASE i # n
    <3>1. i \in 1 .. n - 1
      BY <1>i, <2>1
    <3> QED BY <1>j, <3>1
  <2>2. CASE i = n /\ ended
    BY <1>l, <2>2
  <2>3. CASE i = n /\ ~ended
    BY <1>n, <2>3
  <2> QED BY <2>1, <2>2, <2>3
<1>2. LastLineIsSpoiled'
  <2>1. \A i \in DOMAIN lines' : lines'[i] # << >>
    <3>1. lines'[n] # << >>
      <4>1. CASE ended
        BY <1>l, <4>1
      <4>2. CASE ~ended
        BY <1>n, <4>2
      <4> QED BY <4>1, <4>2
    <3>2. \A i \in 1 .. n - 1 : lines'[i] # << >>
      BY <1>0, <1>j DEF LastLineIsSpoiled
    <3> QED BY <1>i, <3>1, <3>2
  <2>2. ASSUME ~ended'
        PROVE  /\ lines' # << >> /\ \A x \in synced' : lines'[n] # <<x>>
               /\ recorded' # << >> /\ recorded'[Len(recorded')] \notin synced'
    <3>1. synced' = synced
      BY <2>2
    <3>2. \A x \in synced : lines'[n] # <<x>>
      <4>1. CASE ended
        <5>1. text \notin synced
          BY <1>a, <1>b DEF Entry, Fragment
        <5> QED BY <1>l, <4>1, <5>1
      <4>2. CASE ~ended
        BY <1>b, <1>n, <4>2 DEF Text
      <4> QED BY <4>1, <4>2
    <3>3. lines' # << >>
      BY <1>d, <1>g
    <3> QED BY <1>a, <3>1, <3>2, <3>3
  <2>3. lock' = NoThread
    BY DEF Leaves
  <2> QED BY <2>1, <2>2, <2>3 DEF LastLineIsSpoiled
<1>3. FileKeepsTheOrder'
  <2> SUFFICES ASSUME NEW i \in DOMAIN lines', NEW j \in DOMAIN lines',
                      NEW k \in DOMAIN recorded, NEW m \in DOMAIN recorded,
                      i < j, lines'[i] = <<recorded[k]>>, lines'[j] = <<recorded[m]>>
               PROVE  k < m
    BY <1>a DEF FileKeepsTheOrder
  <2>1. i \in DOMAIN lines /\ lines[i] = <<recorded[k]>>
    <3>1. recorded[k] \in Text /\ i # n
      BY <1>a, <1>d DEF Text
    <3> QED BY <1>o, <3>1
  <2>2. CASE j \in DOMAIN lines /\ lines[j] = <<recorded[m]>>
    BY <1>0, <2>1, <2>2 DEF FileKeepsTheOrder
  <2>3. CASE ended /\ j = n /\ recorded[m] = text
    <3>1. recorded[m] \in Entry /\ recorded[m] # Fragment
      BY <1>a DEF Entry, Fragment
    <3>2. m = last
      BY <1>0, <1>a, <2>3, <3>1 DEF EntriesAreFresh
    <3>3. lines[i][1] = recorded[k] /\ 1 \in DOMAIN lines[i]
      BY <2>1
    <3>4. recorded[k] # e
      <4>1. recorded[k] # Fragment
        BY <1>a DEF Entry, Fragment
      <4> QED BY <1>0, <2>1, <3>3, <4>1 DEF FileIsOfRecorded, Leaves
    <3> QED BY <1>a, <3>2, <3>4
  <2>4. recorded[m] \in Text
    BY <1>a DEF Text
  <2> QED BY <1>o, <2>2, <2>3, <2>4
<1>4. OnlyNeighboursAreSpoiled'
  <2> SUFFICES ASSUME NEW k \in DOMAIN recorded, recorded[k] \in synced',
                      <<recorded[k]>> \notin ToSet(lines')
               PROVE  k > 1 /\ recorded[k - 1] \notin synced'
    BY <1>a DEF OnlyNeighboursAreSpoiled, Readable
  <2>1. CASE recorded[k] \in synced
    <3>1. <<recorded[k]>> \notin ToSet(lines)
      BY <1>p, <2>1 DEF ToSet
    <3>2. k > 1 /\ recorded[k - 1] \notin synced
      BY <1>0, <2>1, <3>1 DEF OnlyNeighboursAreSpoiled, Readable
    <3>3. k - 1 \in DOMAIN recorded /\ k - 1 # last
      BY <1>a, <3>2
    <3>4. recorded[k - 1] # e
      BY <1>0, <1>a, <3>3 DEF EntriesAreFresh
    <3> QED BY <3>2, <3>4
  <2>2. CASE recorded[k] \notin synced
    <3>1. recorded[k] = e /\ text = e
      BY <2>2
    <3>2. k = last
      BY <1>0, <1>a, <3>1 DEF EntriesAreFresh
    <3>3. ~ended
      BY <1>k, <1>l, <3>1 DEF ToSet
    <3>4. last > 1 /\ recorded[last - 1] \notin synced
      BY <1>n, <3>3
    <3>5. last - 1 \in DOMAIN recorded /\ recorded[last - 1] # e
      BY <1>0, <1>a, <3>4 DEF EntriesAreFresh
    <3> QED BY <3>2, <3>4, <3>5
  <2> QED BY <2>1, <2>2
<1>5. ended' \in BOOLEAN /\ synced \subseteq synced' /\ synced' \subseteq synced \cup {e}
  OBVIOUS
<1> QED BY <1>c, <1>1, <1>2, <1>3, <1>4, <1>5, LeavePreservesInv

\* Every step of the log preserves the invariant.
LEMMA NextPreservesInv == Inv /\ [Next]_vars => Inv'
<1> SUFFICES ASSUME Inv, [Next]_vars PROVE Inv'
  OBVIOUS
<1>1. ASSUME NEW t \in Threads, Create(t) PROVE Inv'
  BY <1>1, CreatePreservesInv
<1>2. ASSUME NEW t \in Threads, AppendInMemory(t) PROVE Inv'
  BY <1>2, AppendPreservesInv
<1>3. ASSUME NEW t \in Threads, Write(t) PROVE Inv'
  <2>1. Leaves(t)
    BY <1>3 DEF Write, Return, Leaves
  <2> QED BY <1>3, <2>1, TextWrittenPreservesInv DEF Write
<1>4. ASSUME NEW t \in Threads, WriteFails(t) PROVE Inv'
  <2>1. Leaves(t) /\ synced' = synced
    BY <1>4 DEF WriteFails, Return, Leaves
  <2>2. CASE UNCHANGED file
    BY <2>1, <2>2, NothingWrittenPreservesInv DEF file
  <2>3. CASE \E text \in {Fragment, entry[t]} : lines' = AppendText(text) /\ ended' = FALSE
    <3>1. PICK text \in {Fragment, entry[t]} : lines' = AppendText(text) /\ ended' = FALSE
      BY <2>3
    <3> QED BY <2>1, <3>1, TextWrittenPreservesInv
  <2> QED BY <1>4, <2>2, <2>3 DEF WriteFails
<1>5. ASSUME NEW t \in Threads, SkipFile(t) PROVE Inv'
  <2>1. Leaves(t) /\ UNCHANGED <<lines, ended, synced>>
    BY <1>5 DEF SkipFile, Return, Leaves, file
  <2> QED BY <2>1, NothingWrittenPreservesInv
<1>6. CASE Restart
  BY <1>6, RestartPreservesInv
<1>7. CASE UNCHANGED vars
  <2>1. TypeOK' /\ EntriesAreFresh' /\ FileIsOfRecorded' /\ LastLineIsSpoiled'
    BY <1>7 DEF Inv, vars, TypeOK, EntriesAreFresh, FileIsOfRecorded, LastLineIsSpoiled, ToSet
  <2>2. FileKeepsTheOrder' /\ OnlyNeighboursAreSpoiled'
    BY <1>7 DEF Inv, vars, FileKeepsTheOrder, OnlyNeighboursAreSpoiled, Readable, ToSet
  <2> QED BY <2>1, <2>2 DEF Inv
<1> QED BY <1>1, <1>2, <1>3, <1>4, <1>5, <1>6, <1>7 DEF Next, Record

LEMMA Invariance == Spec => []Inv
<1> QED BY InitInv, NextPreservesInv, PTL DEF Spec

(***************************************************************************)
(* Types, and that the lock is held exactly while an entry is in memory    *)
(* and its line is not yet dealt with (audit_log.py:64-75).                *)
(***************************************************************************)
THEOREM TypeCorrect == Spec => []TypeOK
<1>1. Inv => TypeOK
  BY DEF Inv
<1> QED BY <1>1, Invariance, PTL

(***************************************************************************)
(* Whatever threads record at the same time, the readable lines of the     *)
(* file are in the order of the log, and none is there twice.              *)
(***************************************************************************)
THEOREM FileIsInOrder == Spec => []FileKeepsTheOrder
<1>1. Inv => FileKeepsTheOrder
  BY DEF Inv
<1> QED BY <1>1, Invariance, PTL

(***************************************************************************)
(* An entry that was written without an error and cannot be read follows   *)
(* one that was not: the swallowed OSError (audit_log.py:73-74) costs one  *)
(* entry besides the failed one.                                           *)
(***************************************************************************)
THEOREM FailuresAreContained == Spec => []OnlyNeighboursAreSpoiled
<1>1. Inv => OnlyNeighboursAreSpoiled
  BY DEF Inv
<1> QED BY <1>1, Invariance, PTL

\* A step that writes text keeps the lines that are readable and have ended.
LEMMA WritingKeepsLines ==
  ASSUME Inv, NEW text \in Text, lines' = AppendText(text),
         NEW x, <<x>> \in ToSet(lines), ended \/ lines[Len(lines)] # <<x>>
  PROVE  <<x>> \in ToSet(lines')
<1>0. TypeOK /\ LastLineIsSpoiled
  BY DEF Inv
<1>1. lines \in Seq(Seq(Text)) /\ lines' \in Seq(Seq(Text))
  BY <1>0, AppendTextResult DEF TypeOK, Text
<1>2. PICK i \in DOMAIN lines : lines[i] = <<x>>
  BY DEF ToSet
<1>3. i \in 1 .. Len(lines) /\ Len(lines) \in Nat /\ Len(lines') \in Nat
      /\ DOMAIN lines' = 1 .. Len(lines')
  BY <1>1
<1>4. i \in 1 .. Len(lines') - 1
  <2>1. CASE ended
    <3>1. Len(lines) = Len(lines') - 1
      BY <1>0, <2>1, AppendTextResult
    <3> QED BY <1>3, <3>1
  <2>2. CASE ~ended
    <3>1. Len(lines) = Len(lines')
      BY <1>0, <2>2, AppendTextResult
    <3>2. i # Len(lines)
      BY <1>2, <2>2
    <3> QED BY <1>3, <3>1, <3>2
  <2> QED BY <2>1, <2>2
<1>5. lines'[i] = <<x>>
  BY <1>0, <1>2, <1>4, AppendTextResult
<1>6. i \in DOMAIN lines'
  BY <1>3, <1>4
<1> QED BY <1>5, <1>6 DEF ToSet

(***************************************************************************)
(* The log is append-only (audit_log.py:67): no write, failed or not, and  *)
(* no restart makes an entry unreadable, but for one whose own write       *)
(* failed just before its newline and whose line another write then        *)
(* continues, and none that was written without an error.                  *)
(***************************************************************************)
THEOREM NothingReadableIsLost == Spec => ReadableLinesStay
<1> DEFINE Kept == \A e \in ToSet(recorded) :
                     Readable(e) /\ ~Readable(e)' =>
                       ~ended /\ Last(lines) = <<e>> /\ e \notin synced
<1>1. ASSUME Inv, [Next]_vars, NEW x, <<x>> \in ToSet(lines),
             ended \/ lines[Len(lines)] # <<x>>
      PROVE  <<x>> \in ToSet(lines')
  <2>1. CASE lines' = lines
    BY <1>1, <2>1
  <2>2. ASSUME NEW t \in Threads, Write(t) \/ WriteFails(t), lines' # lines
        PROVE  \E text \in Text : lines' = AppendText(text)
    <3>1. entry[t] \in Text /\ Fragment \in Text
      BY <1>1 DEF Inv, TypeOK, Text
    <3> QED BY <2>2, <3>1 DEF Write, WriteFails, file
  <2>3. ASSUME NEW t \in Threads, Write(t) \/ WriteFails(t) PROVE <<x>> \in ToSet(lines')
    BY <1>1, <2>1, <2>2, <2>3, WritingKeepsLines
  <2>4. CASE \A t \in Threads : ~(Write(t) \/ WriteFails(t))
    <3>1. lines' = lines
      BY <1>1, <2>4
      DEF Next, Record, Create, AppendInMemory, SkipFile, Restart, file, vars
    <3> QED BY <2>1, <3>1
  <2> QED BY <2>3, <2>4
<1>2. ASSUME Inv, [Next]_vars, NEW x, Readable(x), ~Readable(x)'
      PROVE  ~ended /\ Last(lines) = <<x>> /\ x \notin synced
  <2>1. ~ended /\ lines[Len(lines)] = <<x>>
    BY <1>1, <1>2 DEF Readable, Inv, TypeOK
  <2>2. x \notin synced
    BY <1>2, <2>1 DEF Inv, LastLineIsSpoiled
  <2> QED BY <2>1, <2>2 DEF Last
<1>3. Inv /\ [Next]_vars => [Kept]_vars
  BY <1>2
<1> QED BY <1>3, Invariance, PTL DEF Spec, ReadableLinesStay
==============================================================================
