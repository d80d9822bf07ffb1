------------------------------ MODULE AuditLog ------------------------------
(***************************************************************************)
(* The audit log of one side (internal/audit/audit.go): a file of entries, *)
(* each naming the hash of the one before it, the copy of the entries that *)
(* the reports are made from, and WriteReport, which appends a summary to  *)
(* the file without holding the lock.                                      *)
(*                                                                         *)
(* A hash covers the previous hash, the time to the nanosecond and the     *)
(* whole entry, so no two entries have the same one: it is the number of   *)
(* the entry it is computed for, and Genesis before the first.  How a line *)
(* is laid out and cut to 200 characters is left out.                      *)
(***************************************************************************)
EXTENDS Naturals, Sequences, FiniteSets

CONSTANTS
  Records,       \* what an entry says: at least its field result
  Reporters,     \* the goroutines that write reports
  MaxEntries,    \* bound: entries ever logged
  MaxReports,    \* bound: reports ever begun
  MaxFailures    \* bound: writes to the disk that fail

ASSUME AuditLogAssumption ==
  /\ MaxEntries \in Nat /\ MaxReports \in Nat /\ MaxFailures \in Nat
  /\ \A w \in Records : w.result \in {"OK", "ERROR", "DENIED"}

VARIABLES
  file,       \* the lines of the log file after its header
  fileOpen,   \* the file was not closed
  prevHash,   \* Logger.prevHash
  entries,    \* Logger.entries
  report,     \* the summary in the report file
  reporter,   \* each goroutine in WriteReport: where it is and its summary
  lost,       \* history: hashes of the entries that could not be written
  reports, failures  \* counters for the bounds

logVars == <<file, fileOpen, prevHash, entries, report, reporter, lost, reports, failures>>

Genesis == 0

NoSummary == [total |-> 0, errors |-> 0, denied |-> 0, hash |-> Genesis]

Init ==
  /\ file = <<>>
  /\ fileOpen = TRUE
  /\ prevHash = Genesis
  /\ entries = <<>>
  /\ report = NoSummary
  /\ reporter = [p \in Reporters |-> [pc |-> "idle", summary |-> NoSummary]]
  /\ lost = {}
  /\ reports = 0
  /\ failures = 0

-----------------------------------------------------------------------------
DiskFails == failures < MaxFailures /\ failures' = failures + 1

(* The line goes to the end of the file.                                    *)
Written(line) == fileOpen /\ file' = Append(file, line) /\ UNCHANGED failures

(* Nobody looks at the error: the disk is full, or the file was closed.     *)
NotWritten ==
  /\ UNCHANGED file
  /\ IF fileOpen THEN DiskFails ELSE UNCHANGED failures

EntryLine(w) ==
  [kind |-> "entry", what |-> w, prev |-> prevHash, hash |-> Len(entries) + 1]

(* Variants for mutants: the chain is not advanced; the summary is of one   *)
(* entry more than it has.                                                  *)
LogUnchained(w) ==
  LET line == EntryLine(w) IN
    /\ Len(entries) < MaxEntries
    /\ \/ Written(line) /\ UNCHANGED lost
       \/ NotWritten /\ lost' = lost \cup {line.hash}
    /\ entries' = Append(entries, w)
    /\ UNCHANGED <<fileOpen, prevHash, report, reporter, reports>>

(* Log, in one mutex section.  Chain and copy advance even if the line was  *)
(* not written.                                                             *)
Log(w) ==
  LET line == EntryLine(w) IN
    /\ Len(entries) < MaxEntries
    /\ \/ Written(line) /\ UNCHANGED lost
       \/ NotWritten /\ lost' = lost \cup {line.hash}
    /\ prevHash' = line.hash
    /\ entries' = Append(entries, w)
    /\ UNCHANGED <<fileOpen, report, reporter, reports>>

Count(result) == Cardinality({i \in DOMAIN entries : entries[i].result = result})

SummaryOfOneMore ==
  [total |-> Len(entries) + 1, errors |-> Count("ERROR"), denied |-> Count("DENIED"),
   hash |-> prevHash]

(* SessionSummary, in one mutex section.                                    *)
SessionSummary ==
  [total |-> Len(entries), errors |-> Count("ERROR"), denied |-> Count("DENIED"),
   hash |-> prevHash]

(* WriteReport: the summary, the report file, a marker, the summary.        *)
BeginReport(p) ==
  /\ reporter[p].pc = "idle"
  /\ reports < MaxReports
  /\ reports' = reports + 1
  /\ reporter' = [reporter EXCEPT ![p] = [pc |-> "file", summary |-> SessionSummary]]
  /\ UNCHANGED <<file, fileOpen, prevHash, entries, report, lost, failures>>

WriteReportFile(p) ==
  /\ reporter[p].pc = "file"
  /\ \/ /\ report' = reporter[p].summary
        /\ reporter' = [reporter EXCEPT ![p].pc = "marker"]
        /\ UNCHANGED failures
     \/ /\ DiskFails
        /\ report' \in {report, NoSummary}     \* not opened, or emptied only
        /\ reporter' = [reporter EXCEPT ![p].pc = "idle"]
  /\ UNCHANGED <<file, fileOpen, prevHash, entries, lost, reports>>

AppendMarker(p) ==
  /\ reporter[p].pc = "marker"
  /\ Written([kind |-> "marker"]) \/ NotWritten
  /\ reporter' = [reporter EXCEPT ![p].pc = "summary"]
  /\ UNCHANGED <<fileOpen, prevHash, entries, report, lost, reports>>

AppendSummary(p) ==
  /\ reporter[p].pc = "summary"
  /\ Written([kind |-> "summary", summary |-> reporter[p].summary]) \/ NotWritten
  /\ reporter' = [reporter EXCEPT ![p].pc = "idle"]
  /\ UNCHANGED <<fileOpen, prevHash, entries, report, lost, reports>>

Close ==
  /\ fileOpen' = FALSE
  /\ UNCHANGED <<file, prevHash, entries, report, reporter, lost, reports, failures>>

Next ==
  \/ \E w \in Records : Log(w)
  \/ \E p \in Reporters :
       BeginReport(p) \/ WriteReportFile(p) \/ AppendMarker(p) \/ AppendSummary(p)
  \/ Close

Spec == Init /\ [][Next]_logVars

-----------------------------------------------------------------------------
Hashes == 1..MaxEntries

Summary == [total : 0..MaxEntries, errors : 0..MaxEntries, denied : 0..MaxEntries,
            hash : {Genesis} \cup Hashes]

Line == [kind : {"entry"}, what : Records, prev : {Genesis} \cup Hashes, hash : Hashes]
        \cup [kind : {"marker"}]
        \cup [kind : {"summary"}, summary : Summary]

(* The type of every variable, and the bounds.                              *)
TypeOK ==
  /\ file \in Seq(Line)
  /\ fileOpen \in BOOLEAN
  /\ prevHash \in {Genesis} \cup Hashes
  /\ entries \in Seq(Records) /\ Len(entries) <= MaxEntries
  /\ report \in Summary
  /\ reporter \in [Reporters -> [pc : {"idle", "file", "marker", "summary"},
                                 summary : Summary]]
  /\ lost \subseteq Hashes
  /\ reports \in 0..MaxReports
  /\ failures \in 0..MaxFailures

IsEntry(i) == file[i].kind = "entry"

(* Between the entry lines i and j of the file there is no other.           *)
Neighbours(i, j) ==
  i < j /\ IsEntry(i) /\ IsEntry(j) /\ \A k \in (i + 1)..(j - 1) : ~IsEntry(k)

LostBetween(low, high) == \E h \in lost : low < h /\ h < high

(* Reading the file, the chain is broken between two entries exactly where  *)
(* an entry was logged that could not be written: reports and entries of    *)
(* other goroutines never break it (audit.go:125-150, 219-220).             *)
GapsAreFailedWrites ==
  \A i, j \in 1..Len(file) :
    Neighbours(i, j) =>
      (file[j].prev # file[i].hash <=> LostBetween(file[i].hash, file[j].hash))

(* Every entry that a summary in the file counts stands in the file above   *)
(* it, or could not be written: WriteReport appends without the lock, and   *)
(* still after what it counted (audit.go:161-176, 211-220).                 *)
SummaryFollowsItsEntries ==
  \A s \in 1..Len(file) :
    file[s].kind = "summary" =>
      \A h \in 1..file[s].summary.total :
        h \in lost \/ \E i \in 1..(s - 1) : IsEntry(i) /\ file[i].hash = h
=============================================================================
