--------------------------- MODULE AuditLogProofs ---------------------------
(***************************************************************************)
(* Proofs about AuditLog, for any number of entries, reports, failures and *)
(* goroutines that write reports.                                          *)
(***************************************************************************)
EXTENDS AuditLog, FiniteSetTheorems, TLAPS

USE AuditLogAssumption DEF Genesis, Hashes

Logged == 1..Len(entries)

EntryAt(h, i) == i \in 1..Len(file) /\ IsEntry(i) /\ file[i].hash = h

(* The hash of the n-th entry is n, and the chain is at the last one.       *)
ChainAtLast == prevHash = Len(entries)

(* An entry line is that of an entry logged, and not a lost one.            *)
LinesAreLogged ==
  \A i \in 1..Len(file) :
    IsEntry(i) => /\ file[i].hash \in Logged \ lost
                  /\ file[i].prev = file[i].hash - 1

LinesInOrder ==
  \A i, j \in 1..Len(file) :
    i < j /\ IsEntry(i) /\ IsEntry(j) => file[i].hash < file[j].hash

NothingElseLost == \A h \in Logged : h \in lost \/ \E i \in 1..Len(file) : EntryAt(h, i)

LostWereLogged == lost \subseteq Logged

SummariesOfThePast == \A p \in Reporters : reporter[p].summary.total <= Len(entries)

IInv ==
  /\ TypeOK
  /\ ChainAtLast
  /\ LinesAreLogged
  /\ LinesInOrder
  /\ NothingElseLost
  /\ LostWereLogged
  /\ SummariesOfThePast
  /\ SummaryFollowsItsEntries

-----------------------------------------------------------------------------
(* What Append does to a sequence.                                          *)
LEMMA AppendSays ==
  ASSUME NEW S, NEW s \in Seq(S), NEW x \in S
  PROVE  /\ Append(s, x) \in Seq(S)
         /\ Len(Append(s, x)) = Len(s) + 1
         /\ \A i \in 1..Len(s) : Append(s, x)[i] = s[i]
         /\ Append(s, x)[Len(s) + 1] = x
  OBVIOUS

(* The number of entries with one result is at most the number of entries.  *)
LEMMA CountBound == TypeOK => \A res : Count(res) \in 0..MaxEntries
<1> SUFFICES ASSUME TypeOK, NEW res PROVE Count(res) \in 0..MaxEntries
  OBVIOUS
<1> DEFINE S == {i \in DOMAIN entries : entries[i].result = res}
<1>1. Len(entries) \in Nat /\ DOMAIN entries = 1..Len(entries) /\ Len(entries) <= MaxEntries
  BY DEF TypeOK
<1>2. IsFiniteSet(1..Len(entries)) /\ Cardinality(1..Len(entries)) = Len(entries)
  <2> DEFINE n == Len(entries)
  <2> HIDE DEF n
  <2>1. n \in Nat
    BY <1>1 DEF n
  <2>2. IsFiniteSet(1..n) /\ Cardinality(1..n) = IF 1 > n THEN 0 ELSE n - 1 + 1
    BY <2>1, FS_Interval
  <2>3. IsFiniteSet(1..n) /\ Cardinality(1..n) = n
    BY <2>1, <2>2
  <2> QED
    BY <2>3 DEF n
<1>3. S \subseteq 1..Len(entries)
  BY <1>1
<1>4. IsFiniteSet(S) /\ Cardinality(S) <= Len(entries)
  BY <1>2, <1>3, FS_Subset
<1>5. Cardinality(S) \in Nat
  BY <1>4, FS_CardinalityType
<1> QED
  BY <1>1, <1>4, <1>5 DEF Count

LEMMA SummaryTyped == TypeOK /\ ChainAtLast => SessionSummary \in Summary
<1> SUFFICES ASSUME TypeOK, ChainAtLast PROVE SessionSummary \in Summary
  OBVIOUS
<1>1. Count("ERROR") \in 0..MaxEntries /\ Count("DENIED") \in 0..MaxEntries
  BY CountBound
<1>2. Len(entries) \in 0..MaxEntries /\ prevHash \in {Genesis} \cup Hashes
  BY DEF TypeOK
<1> QED
  BY <1>1, <1>2 DEF SessionSummary, Summary

(* A line at the end of the file, or none: the lines above it stay.          *)
LineAppended(line) == file' = Append(file, line) \/ UNCHANGED file

(* A marker, or a summary of entries logged before, disturbs no entry.       *)
LEMMA NoteKeepsIInv ==
  ASSUME IInv, NEW line \in Line, line.kind # "entry", LineAppended(line),
         line.kind = "summary" => line.summary.total \in 0..Len(entries),
         UNCHANGED <<prevHash, entries, lost>>
  PROVE  /\ LinesAreLogged' /\ LinesInOrder' /\ NothingElseLost'
         /\ SummaryFollowsItsEntries'
<1>1. CASE UNCHANGED file
  BY <1>1 DEF IInv, LinesAreLogged, LinesInOrder, NothingElseLost, SummaryFollowsItsEntries,
              Logged, EntryAt, IsEntry
<1>2. CASE file' = Append(file, line)
  <2>1. file \in Seq(Line)
    BY DEF IInv, TypeOK
  <2>2. /\ Len(file') = Len(file) + 1 /\ Len(file) \in Nat
        /\ \A i \in 1..Len(file) : file'[i] = file[i]
        /\ file'[Len(file) + 1] = line
    BY <1>2, <2>1, AppendSays
  <2>3. \A i \in 1..Len(file') : IsEntry(i)' => i \in 1..Len(file) /\ IsEntry(i)
    BY <2>2 DEF IsEntry
  <2>4. LinesAreLogged'
    BY <2>2, <2>3 DEF IInv, LinesAreLogged, Logged
  <2>5. LinesInOrder'
    BY <2>2, <2>3 DEF IInv, LinesInOrder
  <2>6. \A h, i : EntryAt(h, i) => EntryAt(h, i)'
    BY <2>2 DEF EntryAt, IsEntry
  <2>7. NothingElseLost'
    <3> SUFFICES ASSUME NEW h \in Logged, h \notin lost
                 PROVE  \E i \in 1..Len(file') : EntryAt(h, i)'
      BY DEF NothingElseLost, Logged
    <3>1. PICK i \in 1..Len(file) : EntryAt(h, i)
      BY DEF IInv, NothingElseLost
    <3> QED
      BY <2>2, <2>6, <3>1
  <2>8. SummaryFollowsItsEntries'
    <3> SUFFICES ASSUME NEW s \in 1..Len(file'), file'[s].kind = "summary",
                        NEW h \in 1..file'[s].summary.total, h \notin lost
                 PROVE  \E i \in 1..(s - 1) : IsEntry(i)' /\ file'[i].hash = h
      BY DEF SummaryFollowsItsEntries
    <3>1. CASE s \in 1..Len(file)
      <4>1. \E i \in 1..(s - 1) : IsEntry(i) /\ file[i].hash = h
        BY <2>2, <3>1 DEF IInv, SummaryFollowsItsEntries
      <4> QED
        BY <2>2, <3>1, <4>1 DEF IsEntry
    <3>2. CASE s = Len(file) + 1
      <4>1. h \in Logged
        BY <2>2, <3>2 DEF Logged, IInv, TypeOK
      <4>2. PICK i \in 1..Len(file) : EntryAt(h, i)
        BY <4>1 DEF IInv, NothingElseLost
      <4> QED
        BY <2>2, <2>6, <3>2, <4>2 DEF EntryAt
    <3> QED
      BY <2>2, <3>1, <3>2
  <2> QED
    BY <2>4, <2>5, <2>7, <2>8
<1> QED
  BY <1>1, <1>2 DEF LineAppended

(* An entry is the next of the chain, in the file or among the lost.         *)
LEMMA LogKeepsIInv == ASSUME IInv, NEW w \in Records, Log(w) PROVE IInv'
<1> DEFINE line == EntryLine(w)
<1> DEFINE n == Len(entries) + 1
<1>1. /\ Len(entries) \in Nat /\ Len(entries) < MaxEntries /\ prevHash = Len(entries)
      /\ file \in Seq(Line) /\ entries \in Seq(Records)
  BY DEF Log, IInv, TypeOK, ChainAtLast
<1>2. line.kind = "entry" /\ line.hash = n /\ line.prev = n - 1 /\ line \in Line
  BY <1>1 DEF EntryLine, Line
<1>3. /\ prevHash' = n /\ entries' = Append(entries, w)
      /\ UNCHANGED <<fileOpen, report, reporter, reports>>
      /\ failures' \in 0..MaxFailures
  BY <1>1, <1>2 DEF Log, Written, NotWritten, DiskFails, IInv, TypeOK
<1>4. entries' \in Seq(Records) /\ Len(entries') = n /\ Logged' = 1..n
  BY <1>1, <1>3, AppendSays DEF Logged
<1>5. /\ ChainAtLast' /\ SummariesOfThePast'
  BY <1>1, <1>3, <1>4 DEF IInv, TypeOK, Summary, ChainAtLast, SummariesOfThePast
<1>6. \A h \in Logged : h # n /\ h \in Logged'
  BY <1>1, <1>4 DEF Logged
<1>7. CASE Written(line) /\ UNCHANGED lost
  <2>1. /\ file' = Append(file, line) /\ file' \in Seq(Line)
        /\ Len(file') = Len(file) + 1 /\ Len(file) \in Nat
        /\ \A i \in 1..Len(file) : file'[i] = file[i]
        /\ file'[Len(file) + 1] = line
    BY <1>1, <1>2, <1>7, AppendSays DEF Written
  <2>2. TypeOK'
    BY <1>1, <1>3, <1>4, <1>7, <2>1 DEF IInv, TypeOK
  <2>3. LostWereLogged'
    BY <1>6, <1>7 DEF IInv, LostWereLogged
  <2>4. LinesAreLogged'
    <3> SUFFICES ASSUME NEW i \in 1..Len(file'), IsEntry(i)'
                 PROVE  /\ file'[i].hash \in Logged' \ lost
                        /\ file'[i].prev = file'[i].hash - 1
      BY <1>7 DEF LinesAreLogged
    <3>1. CASE i \in 1..Len(file)
      BY <1>6, <2>1, <3>1 DEF IInv, LinesAreLogged, IsEntry
    <3>2. CASE i = Len(file) + 1
      <4>1. n \notin lost /\ n \in Logged'
        BY <1>1, <1>4, <1>6 DEF IInv, LostWereLogged
      <4> QED
        BY <1>2, <2>1, <3>2, <4>1
    <3> QED
      BY <2>1, <3>1, <3>2
  <2>5. LinesInOrder'
    <3> SUFFICES ASSUME NEW i \in 1..Len(file'), NEW j \in 1..Len(file'),
                        i < j, IsEntry(i)', IsEntry(j)'
                 PROVE  file'[i].hash < file'[j].hash
      BY DEF LinesInOrder
    <3>1. i \in 1..Len(file) /\ file'[i] = file[i] /\ IsEntry(i)
      BY <2>1 DEF IsEntry
    <3>2. CASE j \in 1..Len(file)
      BY <2>1, <3>1, <3>2 DEF IInv, LinesInOrder, IsEntry
    <3>3. CASE j = Len(file) + 1
      BY <1>1, <1>2, <2>1, <3>1, <3>3 DEF IInv, LinesAreLogged, Logged
    <3> QED
      BY <2>1, <3>2, <3>3
  <2>6. \A h, i : EntryAt(h, i) => EntryAt(h, i)'
    BY <2>1 DEF EntryAt, IsEntry
  <2>7. \E i \in 1..Len(file') : file'[i].kind = "entry" /\ file'[i].hash = n
    BY <1>2, <2>1
  <2>8. NothingElseLost'
    <3> SUFFICES ASSUME NEW h \in Logged', h \notin lost
                 PROVE  \E i \in 1..Len(file') : EntryAt(h, i)'
      BY <1>7 DEF NothingElseLost
    <3>1. CASE h = n
      BY <2>7, <3>1 DEF EntryAt, IsEntry
    <3>2. CASE h \in Logged
      <4>1. PICK i \in 1..Len(file) : EntryAt(h, i)
        BY <3>2 DEF IInv, NothingElseLost
      <4> QED
        BY <2>1, <2>6, <4>1
    <3> QED
      BY <1>1, <1>4, <3>1, <3>2 DEF Logged
  <2>9. SummaryFollowsItsEntries'
    <3> SUFFICES ASSUME NEW s \in 1..Len(file'), file'[s].kind = "summary",
                        NEW h \in 1..file'[s].summary.total, h \notin lost
                 PROVE  \E i \in 1..(s - 1) : IsEntry(i)' /\ file'[i].hash = h
      BY <1>7 DEF SummaryFollowsItsEntries
    <3>1. s \in 1..Len(file)
      BY <1>2, <2>1
    <3>2. \E i \in 1..(s - 1) : IsEntry(i) /\ file[i].hash = h
      BY <2>1, <3>1 DEF IInv, SummaryFollowsItsEntries
    <3> QED
      BY <2>1, <3>1, <3>2 DEF IsEntry
  <2> QED
    BY <1>5, <2>2, <2>3, <2>4, <2>5, <2>8, <2>9 DEF IInv
<1>8. CASE NotWritten /\ lost' = lost \cup {line.hash}
  <2>1. file' = file /\ lost' = lost \cup {n}
    BY <1>2, <1>8 DEF NotWritten
  <2>2. TypeOK'
    <3>1. n \in Hashes /\ lost' \subseteq Hashes /\ prevHash' \in {Genesis} \cup Hashes
      <4>1. n \in Hashes /\ lost \subseteq Hashes
        BY <1>1 DEF IInv, TypeOK
      <4> HIDE DEF n
      <4> QED
        BY <1>3, <2>1, <4>1
    <3>2. Len(entries') <= MaxEntries /\ file' \in Seq(Line)
      BY <1>1, <1>4, <2>1
    <3> QED
      BY <1>3, <1>4, <3>1, <3>2 DEF IInv, TypeOK
  <2>3. LostWereLogged'
    BY <1>1, <1>4, <1>6, <2>1 DEF IInv, LostWereLogged
  <2>4. LinesAreLogged'
    BY <1>6, <2>1 DEF IInv, LinesAreLogged, IsEntry
  <2>5. LinesInOrder'
    BY <2>1 DEF IInv, LinesInOrder, IsEntry
  <2>6. NothingElseLost'
    <3>1. \A h \in Logged' : h = n \/ h \in Logged
      BY <1>1, <1>4 DEF Logged
    <3> QED
      BY <2>1, <3>1 DEF IInv, NothingElseLost, EntryAt, IsEntry
  <2>7. SummaryFollowsItsEntries'
    BY <2>1 DEF IInv, SummaryFollowsItsEntries, IsEntry
  <2> QED
    BY <1>5, <2>2, <2>3, <2>4, <2>5, <2>6, <2>7 DEF IInv
<1> QED
  BY <1>7, <1>8 DEF Log

-----------------------------------------------------------------------------
LEMMA InitIInv == Init => IInv
<1> SUFFICES ASSUME Init PROVE IInv
  OBVIOUS
<1>1. TypeOK
  BY DEF Init, TypeOK, NoSummary, Summary
<1>2. Logged = {}
  BY DEF Init, Logged
<1> QED
  BY <1>1, <1>2 DEF Init, IInv, NoSummary, ChainAtLast, LinesAreLogged, LinesInOrder,
       NothingElseLost, LostWereLogged, SummariesOfThePast, SummaryFollowsItsEntries

LEMMA NextIInv == IInv /\ [Next]_logVars => IInv'
<1> SUFFICES ASSUME IInv, [Next]_logVars PROVE IInv'
  OBVIOUS
<1> USE DEF IInv
<1>1. ASSUME NEW w \in Records, Log(w) PROVE IInv'
  BY <1>1, LogKeepsIInv
<1>2. ASSUME NEW p \in Reporters, BeginReport(p) PROVE IInv'
  <2>1. SessionSummary \in Summary /\ SessionSummary.total = Len(entries)
    BY SummaryTyped DEF SessionSummary
  <2>2. TypeOK'
    BY <1>2, <2>1 DEF BeginReport, TypeOK
  <2>3. SummariesOfThePast'
    BY <1>2, <2>1 DEF BeginReport, TypeOK, SummariesOfThePast
  <2> QED
    BY <1>2, <2>2, <2>3 DEF BeginReport, ChainAtLast, LinesAreLogged, LinesInOrder, Logged,
         NothingElseLost, LostWereLogged, SummaryFollowsItsEntries, EntryAt, IsEntry
<1>3. ASSUME NEW p \in Reporters, WriteReportFile(p) PROVE IInv'
  <2>1. NoSummary \in Summary
    BY DEF NoSummary, Summary
  <2>2. /\ reporter' \in [Reporters -> [pc : {"idle", "file", "marker", "summary"},
                                       summary : Summary]]
        /\ report' \in Summary
        /\ failures' \in 0..MaxFailures
    BY <1>3, <2>1 DEF WriteReportFile, DiskFails, TypeOK
  <2>3. TypeOK'
    BY <1>3, <2>2 DEF WriteReportFile, TypeOK
  <2>4. SummariesOfThePast'
    BY <1>3 DEF WriteReportFile, TypeOK, SummariesOfThePast
  <2> QED
    BY <1>3, <2>3, <2>4 DEF WriteReportFile, ChainAtLast, LinesAreLogged, LinesInOrder, Logged,
         NothingElseLost, LostWereLogged, SummaryFollowsItsEntries, EntryAt, IsEntry
<1>4. ASSUME NEW p \in Reporters, NEW line \in Line, line.kind # "entry",
             line.kind = "summary" => line.summary = reporter[p].summary,
             Written(line) \/ NotWritten,
             \E pc \in {"idle", "summary"} : reporter' = [reporter EXCEPT ![p].pc = pc],
             UNCHANGED <<fileOpen, prevHash, entries, report, lost, reports>>
      PROVE  IInv'
  <2>1. LineAppended(line)
    BY <1>4 DEF LineAppended, Written, NotWritten
  <2>2. file' \in Seq(Line)
    BY <2>1, AppendSays DEF LineAppended, TypeOK
  <2>3. reporter' \in [Reporters -> [pc : {"idle", "file", "marker", "summary"},
                                    summary : Summary]]
    BY <1>4 DEF TypeOK
  <2>4. failures' \in 0..MaxFailures
    BY <1>4 DEF Written, NotWritten, DiskFails, TypeOK
  <2>5. TypeOK'
    BY <1>4, <2>2, <2>3, <2>4 DEF TypeOK
  <2>6. SummariesOfThePast'
    BY <1>4 DEF TypeOK, SummariesOfThePast
  <2>7. line.kind = "summary" => line.summary.total \in 0..Len(entries)
    BY <1>4 DEF TypeOK, SummariesOfThePast, Summary
  <2>8. /\ LinesAreLogged' /\ LinesInOrder' /\ NothingElseLost'
        /\ SummaryFollowsItsEntries'
    BY <1>4, <2>1, <2>7, NoteKeepsIInv
  <2> QED
    BY <1>4, <2>5, <2>6, <2>8 DEF ChainAtLast, LostWereLogged, Logged
<1>5. ASSUME NEW p \in Reporters, AppendMarker(p) PROVE IInv'
  <2>1. [kind |-> "marker"] \in Line
    BY DEF Line
  <2> QED
    BY <1>4, <1>5, <2>1 DEF AppendMarker
<1>6. ASSUME NEW p \in Reporters, AppendSummary(p) PROVE IInv'
  <2>1. [kind |-> "summary", summary |-> reporter[p].summary] \in Line
    BY DEF TypeOK, Line
  <2> QED
    BY <1>4, <1>6, <2>1 DEF AppendSummary
<1>7. ASSUME Close \/ UNCHANGED logVars PROVE IInv'
  <2>1. /\ UNCHANGED <<file, prevHash, entries, report, reporter, lost, reports, failures>>
        /\ fileOpen' \in BOOLEAN
    BY <1>7 DEF Close, logVars, TypeOK
  <2>2. TypeOK'
    BY <2>1 DEF TypeOK
  <2> QED
    BY <2>1, <2>2 DEF ChainAtLast, LinesAreLogged, LinesInOrder, Logged, NothingElseLost,
         LostWereLogged, SummariesOfThePast, SummaryFollowsItsEntries, EntryAt, IsEntry
<1> QED
  BY <1>1, <1>2, <1>3, <1>5, <1>6, <1>7 DEF Next

(* The inductive invariant of the log.                                       *)
THEOREM IInvHolds == Spec => []IInv
  BY InitIInv, NextIInv, PTL DEF Spec

(* The log keeps its types (audit.go:43-56).                                 *)
THEOREM TypeCorrect == Spec => []TypeOK
<1>1. IInv => TypeOK
  BY DEF IInv
<1> QED
  BY <1>1, IInvHolds, PTL

(* However many goroutines log and report, the chain in the file is broken   *)
(* exactly where an entry could not be written (audit.go:103-158).           *)
THEOREM ChainHolds == Spec => []GapsAreFailedWrites
<1>1. IInv => GapsAreFailedWrites
  <2> SUFFICES ASSUME IInv, NEW i \in 1..Len(file), NEW j \in 1..Len(file), Neighbours(i, j)
               PROVE  file[j].prev # file[i].hash <=> LostBetween(file[i].hash, file[j].hash)
    BY DEF GapsAreFailedWrites
  <2>1. /\ IsEntry(i) /\ IsEntry(j) /\ i < j
        /\ file[i].hash \in Logged /\ file[j].hash \in Logged
        /\ file[j].prev = file[j].hash - 1
        /\ file[i].hash < file[j].hash
    BY DEF IInv, Neighbours, LinesAreLogged, LinesInOrder
  <2>2. Len(entries) \in Nat /\ Len(file) \in Nat
    BY DEF IInv, TypeOK
  <2>3. ASSUME file[j].prev # file[i].hash PROVE LostBetween(file[i].hash, file[j].hash)
    <3> DEFINE h == file[i].hash + 1
    <3>1. h \in Logged /\ file[i].hash < h /\ h < file[j].hash
      BY <2>1, <2>2, <2>3 DEF Logged
    <3>2. ASSUME NEW k \in 1..Len(file), EntryAt(h, k) PROVE FALSE
      <4>1. IsEntry(k) /\ file[k].hash = h
        BY <3>2 DEF EntryAt
      <4>2. i < k
        <5>1. ~(k < i)
          BY <2>1, <2>2, <3>1, <4>1 DEF IInv, LinesInOrder, Logged
        <5>2. k # i
          BY <2>1, <2>2, <4>1 DEF Logged
        <5> QED
          BY <2>2, <5>1, <5>2
      <4>3. k < j
        <5>1. ~(j < k)
          BY <2>1, <2>2, <3>1, <4>1 DEF IInv, LinesInOrder, Logged
        <5>2. k # j
          BY <2>1, <2>2, <3>1, <4>1 DEF Logged
        <5> QED
          BY <2>2, <5>1, <5>2
      <4> QED
        BY <2>2, <4>1, <4>2, <4>3 DEF Neighbours
    <3> QED
      BY <3>1, <3>2 DEF IInv, NothingElseLost, LostBetween
  <2>4. ASSUME LostBetween(file[i].hash, file[j].hash) PROVE file[j].prev # file[i].hash
    <3>1. PICK h \in lost : file[i].hash < h /\ h < file[j].hash
      BY <2>4 DEF LostBetween
    <3>2. h \in Nat /\ file[i].hash \in Nat /\ file[j].hash \in Nat
      BY <2>1, <2>2 DEF IInv, LostWereLogged, Logged
    <3> QED
      BY <2>1, <3>1, <3>2
  <2> QED
    BY <2>3, <2>4
<1> QED
  BY <1>1, IInvHolds, PTL

(* A summary in the file stands below every entry it counts, although it is  *)
(* appended without the lock (audit.go:210-223).                             *)
THEOREM SummaryBelowItsEntries == Spec => []SummaryFollowsItsEntries
<1>1. IInv => SummaryFollowsItsEntries
  BY DEF IInv
<1> QED
  BY <1>1, IInvHolds, PTL
=============================================================================
