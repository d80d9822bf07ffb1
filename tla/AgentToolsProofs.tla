-------------------------- MODULE AgentToolsProofs --------------------------
(***************************************************************************)
(* Proofs about AgentTools: what Run reports of a command, the table that a *)
(* query reads, the pages that a client reads of a file, the code that a   *)
(* user pastes, the edit of a text, and the two searches, for any number   *)
(* of pieces of output, any rows, text, limit, address, token, files,      *)
(* directories and pattern.                                                *)
(*                                                                         *)
(* The loops of the code are recursive functions of the model.  That they  *)
(* exist, and what they compute, is proved by induction, which UpTo states *)
(* for a set of numbers; LoopExists says that a loop has its values.       *)
(***************************************************************************)
EXTENDS AgentTools, FiniteSetTheorems, SequenceTheorems, TLAPS

USE ExecutorAssumption

-----------------------------------------------------------------------------
(* What Run and the shell know of each other.                                *)

ExecTyped ==
  /\ run \in {"idle", "start", "failed", "wait", "returned"}
  /\ ctxDone \in BOOLEAN
  /\ child \in [pc : {"none", "running", "ended", "reaped"}, code : 0..2]
  /\ printed \in 0..Pieces
  /\ kill \in {"none", "killed", "refused"}

Ended == child.pc \in {"ended", "reaped"}

ChildStages ==
  /\ run \in {"idle", "start", "failed"} => child.pc = "none"
  /\ run = "wait" => child.pc # "none"
  /\ run = "returned" => child.pc \in {"none", "reaped"}
  /\ ~Ended => child.code = 0 /\ kill = "none"

(* A shell that was killed has exit code 1, one that has exit code 0 did all  *)
(* it should.                                                               *)
KillStages ==
  /\ kill # "none" => ctxDone
  /\ kill = "killed" => child.code = 1
  /\ Ended /\ child.code = 0 => printed = Pieces

ExecInv == ExecTyped /\ ChildStages /\ KillStages /\ RunIsHonest

LEMMA StepKeepsExecInv ==
  ASSUME ExecInv, RunStep \/ ShellStep
  PROVE  ExecInv'
<1> USE DEF Ended
<1>0. /\ child.pc \in {"none", "running", "ended", "reaped"} /\ child.code \in 0..2
      /\ child = [pc |-> child.pc, code |-> child.code]
      /\ printed \in Nat /\ printed <= Pieces /\ Pieces \in Nat
  BY DEF ExecInv, ExecTyped
<1>1. CASE ContextDone
  BY <1>1 DEF ContextDone, ExecInv, ExecTyped, ChildStages, KillStages, RunIsHonest
<1>2. CASE StartCommand
  BY <1>2 DEF StartCommand, ExecInv, ExecTyped, ChildStages, KillStages, RunIsHonest
<1>3. CASE ReportFailure
  <2>1. result'.code = -1
    BY <1>3 DEF ReportFailure, Return, Result
  <2>2. child'.code = 0 /\ child'.pc = "none"
    BY <1>3 DEF ReportFailure, ExecInv, ChildStages
  <2>3. /\ ~(result'.code = 0) /\ ~(result'.code # -1) /\ ~(child'.code # 0)
    BY <2>1, <2>2
  <2>4. result'.text = "timed out" => ctxDone'
    BY <1>3 DEF ReportFailure, Return, Result
  <2>5. RunIsHonest'
    BY <2>3, <2>4, Zenon DEF RunIsHonest
  <2> QED
    BY <1>3, <2>2, <2>5
    DEF ReportFailure, Return, ExecInv, ExecTyped, ChildStages, KillStages
<1>4. CASE KillShell
  BY <1>4 DEF KillShell, ExecInv, ExecTyped, ChildStages, KillStages, RunIsHonest
<1>5. CASE Reap
  BY <1>5 DEF Reap, ExecInv, ExecTyped, ChildStages, KillStages, RunIsHonest
<1>6. CASE RunReturns
  <2>1. result' = IF child.code = 0 /\ kill = "refused"
                  THEN [code |-> -1, text |-> "timed out", out |-> printed]
                  ELSE [code |-> child.code, text |-> "none", out |-> printed]
    BY <1>6 DEF RunReturns, Return, Result
  <2>2. /\ child' = child /\ kill' = kill /\ child.pc = "reaped"
        /\ kill = "killed" => child.code = 1
        /\ child.code = 0 => printed = Pieces
    BY <1>6 DEF RunReturns, ExecInv, KillStages
  <2>3. /\ result'.code = 0 => child'.code = 0 /\ kill' # "killed" /\ result'.out = Pieces
        /\ result'.code # -1 => child'.code = result'.code
        /\ child'.code # 0 => child'.code = result'.code
    <3>1. child'.code \in {0, 1, 2} /\ (kill' = "killed" => child'.code = 1)
          /\ (child'.code = 0 => printed = Pieces)
      BY <1>0, <2>2
    <3>2. CASE child.code = 0 /\ kill = "refused"
      <4>1. result'.code = -1 /\ child'.code = 0
        BY <2>1, <2>2, <3>2
      <4> QED
        BY <4>1
    <3>3. CASE ~(child.code = 0 /\ kill = "refused")
      <4>1. result'.code = child'.code /\ result'.out = printed
        BY <2>1, <2>2, <3>3
      <4> QED
        BY <3>1, <4>1
    <3> QED
      BY <3>2, <3>3
  <2>4. result'.text = "timed out" => kill = "refused"
    BY <2>1
  <2>5. kill = "refused" => ctxDone'
    BY <1>6 DEF RunReturns, ExecInv, KillStages
  <2>6. RunIsHonest'
    BY <2>3, <2>4, <2>5, Zenon DEF RunIsHonest
  <2> QED
    BY <1>6, <2>2, <2>6
    DEF RunReturns, Return, ExecInv, ExecTyped, ChildStages, KillStages
<1>7. CASE PrintPiece
  <2>1. printed' \in 0..Pieces
    BY <1>0, <1>7 DEF PrintPiece
  <2> QED
    BY <1>7, <2>1 DEF PrintPiece, ExecInv, ExecTyped, ChildStages, KillStages, RunIsHonest
<1>8. CASE ChildExits
  <2>1. child' \in [pc : {"ended"}, code : 0..2] /\ (child'.code = 0 => printed = Pieces)
    BY <1>8 DEF ChildExits
  <2> QED
    BY <1>8, <2>1 DEF ChildExits, ExecInv, ExecTyped, ChildStages, KillStages, RunIsHonest
<1>9. CASE HolderEnds
  BY <1>9 DEF HolderEnds, ExecInv, ExecTyped, ChildStages, KillStages, RunIsHonest
<1> QED
  BY <1>1, <1>2, <1>3, <1>4, <1>5, <1>6, <1>7, <1>8, <1>9 DEF RunStep, ShellStep

-----------------------------------------------------------------------------
(* The pages.                                                                *)

Lines == Seq({"line", LongLine})

LastShown == IF shown = <<>> THEN 0 ELSE Last(shown)

ReadInv ==
  /\ job \in Jobs
  /\ job.tool = "file_read" =>
       /\ disk \in Lines \cup {Absent} /\ shown \in Seq(Nat) /\ LastShown \in Nat
       /\ \A i \in 1..Len(shown) : shown[i] \in 1..LastShown
       /\ pc = "dispatch" /\ shown # <<>> /\ disk # Absent => LastShown < Len(disk)
       /\ PagesCoverTheFile

(* The page after the first k lines.                                        *)
LEMMA PageSays ==
  ASSUME NEW lines \in Lines, NEW k \in 0..Len(lines), NEW limit \in Int
  PROVE  LET page == ReadFile(lines, k, limit)
         IN  \E m \in 0..(Len(lines) - k) :
               /\ Len(page.shown) = m
               /\ \A i \in 1..m : page.shown[i] = k + i
               /\ page.shown \in Seq(Nat)
               /\ page.ok => \A i \in 1..(k + m) : lines[i] # LongLine
               /\ ~page.ok => Contains(lines, LongLine)
               /\ page.truncated => m > 0 /\ k + m < Len(lines)
               /\ ~page.truncated => k + m = Len(lines)
<1> DEFINE n == Len(lines)
           size == IF limit <= 0 THEN DefaultLimit ELSE limit
           last == FirstLine(k) + size - 1
           m == AtMost(last, n) - FirstLine(k) + 1
<1>1. n \in Nat /\ k \in Nat /\ k <= n
  OBVIOUS
<1>2. size \in Nat \ {0} /\ FirstLine(k) = k + 1 /\ last = k + size
  BY <1>1 DEF DefaultLimit, FirstLine
<1> HIDE DEF size
<1>3. m \in 0..(n - k) /\ (n <= last => k + m = n) /\ k + m <= last
      /\ (n > last => m > 0 /\ k + m < n)
  BY <1>1, <1>2 DEF AtMost
<1> DEFINE page == ReadFile(lines, k, limit)
<1>4. /\ page.shown = [i \in 1..m |-> k + i]
      /\ page.ok <=> \A i \in 1..AtMost(last + 1, n) : lines[i] # LongLine
      /\ page.truncated <=> n > last
  <2>1. \A i \in 1..m : FirstLine(k) + i - 1 = k + i
    BY <1>1, <1>2, <1>3
  <2> QED
    BY <1>2, <2>1 DEF ReadFile, size
<1> HIDE DEF page, last, m
<1>5. page.shown \in Seq(Nat) /\ Len(page.shown) = m
  <2>1. page.shown \in [1..m -> Nat] /\ m \in Nat
    BY <1>1, <1>3, <1>4
  <2> QED
    BY <2>1
<1>6. page.ok => \A i \in 1..(k + m) : lines[i] # LongLine
  <2>1. k + m <= AtMost(last + 1, n)
    BY <1>1, <1>2, <1>3 DEF AtMost
  <2> QED
    BY <1>1, <1>2, <1>3, <1>4, <2>1 DEF AtMost
<1>7. ~page.ok => Contains(lines, LongLine)
  <2>1. AtMost(last + 1, n) <= n
    BY <1>1, <1>2 DEF AtMost
  <2> QED
    BY <1>1, <1>2, <1>4, <2>1 DEF Contains, AtMost
<1>8. /\ ~page.truncated => k + m = n
      /\ page.truncated => m > 0 /\ k + m < n
  BY <1>1, <1>2, <1>3, <1>4
<1> QED
  BY <1>3, <1>4, <1>5, <1>6, <1>7, <1>8 DEF page

(* A client that has old of the first p lines is shown the page, which has the *)
(* m lines after the first k, and then has new.                             *)
IsNextPage(old, page, p, k, m, new) ==
  /\ old \in Seq(Nat) /\ page \in Seq(Nat) /\ new \in Seq(Nat)
  /\ p \in Nat /\ k \in {p, p + 1} /\ m \in Nat
  /\ Len(page) = m /\ \A i \in 1..m : page[i] = k + i
  /\ \A i \in 1..Len(old) : old[i] \in 1..p
  /\ \A i, j \in 1..Len(old) : i < j => old[i] < old[j]
  /\ Len(new) = Len(old) + m
  /\ \A i \in 1..(Len(old) + m) : new[i] = IF i <= Len(old) THEN old[i] ELSE page[i - Len(old)]

GoesOn(old, p, k, m, new) ==
  /\ \A i \in 1..Len(new) : new[i] \in 1..(k + m)
  /\ \A i, j \in 1..Len(new) : i < j => new[i] < new[j]
  /\ (1..(k + m)) \ ToSet(new) = ((1..p) \ ToSet(old)) \cup (IF k = p THEN {} ELSE {k})
  /\ m > 0 => new[Len(new)] = k + m

(* A page of m lines after the first k, of which the client asks for the     *)
(* lines after the last it was shown or for those after the next.           *)
LEMMA MorePages ==
  ASSUME NEW old, NEW page, NEW p, NEW k, NEW m, NEW new, IsNextPage(old, page, p, k, m, new)
  PROVE  GoesOn(old, p, k, m, new)
<1>0. /\ old \in Seq(Nat) /\ page \in Seq(Nat) /\ new \in Seq(Nat)
      /\ p \in Nat /\ k \in {p, p + 1} /\ m \in Nat
      /\ Len(page) = m /\ \A i \in 1..m : page[i] = k + i
      /\ \A i \in 1..Len(old) : old[i] \in 1..p
      /\ \A i, j \in 1..Len(old) : i < j => old[i] < old[j]
      /\ Len(new) = Len(old) + m
      /\ \A i \in 1..(Len(old) + m) : new[i] = IF i <= Len(old) THEN old[i] ELSE page[i - Len(old)]
  BY DEF IsNextPage
<1> DEFINE n == Len(old)
<1>1. n \in Nat /\ k \in Nat /\ p \in Nat /\ m \in Nat /\ (k = p \/ k = p + 1)
  BY <1>0, LenProperties
<1>2. /\ Len(new) = n + m
      /\ \A i \in 1..(n + m) : new[i] = IF i <= n THEN old[i] ELSE page[i - n]
  BY <1>0
<1>3. /\ ToSet(new) = {new[i] : i \in 1..(n + m)}
      /\ ToSet(old) = {old[i] : i \in 1..n}
  BY <1>0, <1>2, LenProperties DEF ToSet
<1> HIDE DEF n
<1>4. ASSUME NEW i \in 1..n PROVE i \in 1..(n + m) /\ new[i] = old[i] /\ old[i] \in 1..p
  BY <1>0, <1>1, <1>2 DEF n
<1>5. ASSUME NEW i \in 1..m PROVE n + i \in 1..(n + m) /\ new[n + i] = k + i
  <2>1. n + i \in 1..(n + m) /\ ~(n + i <= n) /\ (n + i) - n = i
    BY <1>1
  <2> QED
    BY <1>0, <1>2, <2>1
<1>6. ASSUME NEW i \in 1..(n + m), ~(i \in 1..n) PROVE i - n \in 1..m /\ n + (i - n) = i
  BY <1>1, <1>6
<1>7. ASSUME NEW i \in 1..(n + m), ~(i \in 1..n) PROVE new[i] = k + (i - n)
  BY <1>5, <1>6, <1>7
<1>8. \A i \in 1..(n + m) : new[i] \in 1..(k + m)
  <2>1. ASSUME NEW i \in 1..(n + m) PROVE new[i] \in 1..(k + m)
    <3>1. CASE i \in 1..n
      <4>1. new[i] \in 1..p
        BY <1>4, <3>1
      <4> QED
        BY <1>1, <4>1
    <3>2. CASE ~(i \in 1..n)
      <4>1. new[i] = k + (i - n) /\ i - n \in 1..m
        BY <1>6, <1>7, <3>2
      <4> QED
        BY <1>1, <4>1
    <3> QED
      BY <3>1, <3>2
  <2> QED
    BY <2>1
<1>9. ASSUME NEW i \in 1..(n + m), NEW j \in 1..(n + m), i < j PROVE new[i] < new[j]
  <2>1. CASE j \in 1..n
    <3>1. i \in 1..n
      BY <1>1, <1>9, <2>1
    <3> QED
      BY <1>0, <1>4, <1>9, <2>1, <3>1 DEF n
  <2>2. CASE ~(j \in 1..n) /\ i \in 1..n
    <3>1. new[i] \in 1..p /\ new[j] = k + (j - n) /\ j - n \in 1..m
      BY <1>4, <1>6, <1>7, <2>2
    <3> QED
      BY <1>1, <3>1
  <2>3. CASE ~(j \in 1..n) /\ ~(i \in 1..n)
    <3>1. new[i] = k + (i - n) /\ new[j] = k + (j - n)
      BY <1>7, <2>3
    <3> QED
      BY <1>1, <1>9, <3>1
  <2> QED
    BY <2>1, <2>2, <2>3
<1>10. ASSUME NEW l \in 1..(k + m)
       PROVE  l \in ToSet(new) <=> l \in ToSet(old) \/ l > k
  <2>1. ASSUME l \in ToSet(new) PROVE l \in ToSet(old) \/ l > k
    <3>1. PICK i \in 1..(n + m) : l = new[i]
      BY <1>3, <2>1
    <3>2. CASE i \in 1..n
      BY <1>3, <1>4, <3>1, <3>2
    <3>3. CASE ~(i \in 1..n)
      <4>1. l = k + (i - n) /\ i - n \in 1..m
        BY <1>6, <1>7, <3>1, <3>3
      <4> QED
        BY <1>1, <4>1
    <3> QED
      BY <3>2, <3>3
  <2>2. ASSUME l \in ToSet(old) PROVE l \in ToSet(new)
    <3>1. PICK i \in 1..n : l = old[i]
      BY <1>3, <2>2
    <3> QED
      BY <1>3, <1>4, <3>1
  <2>3. ASSUME l > k PROVE l \in ToSet(new)
    <3>1. l - k \in 1..m /\ k + (l - k) = l
      BY <1>1, <2>3
    <3>2. n + (l - k) \in 1..(n + m) /\ new[n + (l - k)] = l
      BY <1>5, <3>1
    <3> QED
      BY <1>3, <3>2
  <2> QED
    BY <2>1, <2>2, <2>3
<1>11. \A l \in ToSet(old) : l \in 1..p
  BY <1>3, <1>4
<1>12. (1..(k + m)) \ ToSet(new) = ((1..p) \ ToSet(old)) \cup (IF k = p THEN {} ELSE {k})
  <2> DEFINE left == (1..(k + m)) \ ToSet(new)
             right == ((1..p) \ ToSet(old)) \cup (IF k = p THEN {} ELSE {k})
  <2>1. ASSUME NEW l \in left PROVE l \in right
    <3>1. l \in 1..(k + m) /\ l \notin ToSet(old) /\ ~(l > k)
      BY <1>10
    <3>2. l \in 1..p \/ (l = k /\ k # p)
      BY <1>1, <3>1
    <3> QED
      BY <3>1, <3>2
  <2>2. ASSUME NEW l \in right PROVE l \in left
    <3>1. l \notin ToSet(old) /\ (l \in 1..p \/ (l = k /\ k = p + 1))
      BY <1>0, <1>1, <1>11
    <3>2. l \in 1..(k + m) /\ ~(l > k)
      BY <1>1, <3>1
    <3> QED
      BY <1>10, <3>1, <3>2
  <2> HIDE DEF left, right
  <2>3. left = right
    BY <2>1, <2>2
  <2> QED
    BY <2>3 DEF left, right
<1>13. m > 0 => new[n + m] = k + m
  <2>1. m > 0 => m \in 1..m
    BY <1>1
  <2> QED
    BY <1>5, <2>1
<1> QED
  BY <1>2, <1>8, <1>9, <1>12, <1>13 DEF n, GoesOn

LEMMA PageKeepsReadInv ==
  ASSUME ReadInv, HandleFileRead
  PROVE  ReadInv'
<1>1. /\ job \in Jobs /\ job' = job /\ disk' = disk
      /\ job.tool = "file_read" /\ pc = "dispatch" /\ job.limit \in Int
      /\ job.from \in {"last", "next"}
      /\ disk \in Lines \cup {Absent} /\ shown \in Seq(Nat) /\ LastShown \in Nat
  BY ToolsAssumption DEF HandleFileRead, Doing, ReadInv, fileVars
<1>2. /\ \A i \in 1..Len(shown) : shown[i] \in 1..LastShown
      /\ shown # <<>> /\ disk # Absent => LastShown < Len(disk)
      /\ \A i, j \in 1..Len(shown) : i < j => shown[i] < shown[j]
      /\ (1..LastShown) \ ToSet(shown) = IF job.from = "last" THEN {} ELSE asked
      /\ disk # Absent => \A i \in 1..LastShown : disk[i] # LongLine
  BY <1>1 DEF ReadInv, PagesCoverTheFile, LastShown
<1>3. CASE /\ UNCHANGED clientVars /\ pc' = "answered" /\ ~resp'.ok
           /\ resp'.error = "too long" => disk # Absent /\ Contains(disk, LongLine)
  <2>1. shown' = shown /\ asked' = asked /\ LastShown' = LastShown /\ pc' # "dispatch"
    BY <1>3 DEF clientVars, LastShown
  <2>2. PagesCoverTheFile'
    BY <1>1, <1>2, <1>3, <2>1 DEF PagesCoverTheFile, LastShown
  <2> QED
    BY <1>1, <1>2, <2>1, <2>2 DEF ReadInv
<1>4. CASE disk # Absent /\ ShowPage
  <2> DEFINE p == LastShown
             k == Offset
             page == ReadFile(disk, k, job.limit)
  <2>1. disk \in Lines /\ Len(disk) \in Nat
    BY <1>1, <1>4 DEF Lines
  <2>2. /\ k \in {p, p + 1} /\ k \in 0..Len(disk)
        /\ k = (IF shown = <<>> \/ job.from = "last" THEN p ELSE p + 1)
    BY <1>1, <1>2, <1>4, <2>1 DEF Offset, LastShown
  <2>3. IF page.ok
        THEN /\ shown' = shown \o page.shown
             /\ asked' = IF shown = <<>> THEN asked ELSE asked \cup {k}
             /\ IF page.truncated THEN UNCHANGED <<pc, resp>> ELSE Success(page.lines)
        ELSE Failure("too long") /\ UNCHANGED clientVars
    BY <1>4 DEF ShowPage
  <2>4. PICK m \in 0..(Len(disk) - k) :
          /\ Len(page.shown) = m
          /\ \A i \in 1..m : page.shown[i] = k + i
          /\ page.shown \in Seq(Nat)
          /\ page.ok => \A i \in 1..(k + m) : disk[i] # LongLine
          /\ ~page.ok => Contains(disk, LongLine)
          /\ page.truncated => m > 0 /\ k + m < Len(disk)
          /\ ~page.truncated => k + m = Len(disk)
    BY <1>1, <2>1, <2>2, PageSays
  <2> HIDE DEF page, k, p
  <2>5. CASE ~page.ok
    <3>1. Failure("too long") /\ UNCHANGED clientVars
      BY <2>3, <2>5
    <3>2. pc' = "answered" /\ ~resp'.ok
      BY <3>1 DEF Failure
    <3> QED
      BY <1>3, <1>4, <2>4, <2>5, <3>1, <3>2
  <2>6. CASE page.ok
    <3>0. m \in Nat /\ k \in Nat /\ p \in Nat
      BY <1>1, <2>1, <2>2, <2>4 DEF p
    <3>1. /\ shown' \in Seq(Nat) /\ Len(shown') = Len(shown) + m
          /\ \A i \in 1..Len(shown') : shown'[i] \in 1..(k + m)
          /\ \A i, j \in 1..Len(shown') : i < j => shown'[i] < shown'[j]
          /\ (1..(k + m)) \ ToSet(shown')
               = ((1..p) \ ToSet(shown)) \cup (IF k = p THEN {} ELSE {k})
          /\ m > 0 => shown'[Len(shown')] = k + m
      <4> DEFINE q == page.shown
      <4>1. /\ q \in Seq(Nat) /\ Len(q) = m /\ \A i \in 1..m : q[i] = k + i
            /\ shown' = shown \o q
        BY <2>3, <2>4, <2>6
      <4>2. \A i \in 1..Len(shown) : shown[i] \in 1..p
        BY <1>2 DEF p
      <4> HIDE DEF q
      <4>3. /\ shown' \in Seq(Nat) /\ Len(shown') = Len(shown) + m
            /\ \A i \in 1..(Len(shown) + m) :
                 shown'[i] = IF i <= Len(shown) THEN shown[i] ELSE q[i - Len(shown)]
        <5>1. shown \in Seq(Nat)
          BY <1>1
        <5> QED
          BY <4>1, <5>1, ConcatProperties
      <4> DEFINE new == shown'
      <4>4. /\ new \in Seq(Nat) /\ Len(new) = Len(shown) + m
            /\ \A i \in 1..(Len(shown) + m) :
                 new[i] = IF i <= Len(shown) THEN shown[i] ELSE q[i - Len(shown)]
        BY <4>3
      <4> HIDE DEF new
      <4>5. IsNextPage(shown, q, p, k, m, new)
        BY <1>1, <1>2, <2>2, <3>0, <4>1, <4>2, <4>4 DEF IsNextPage
      <4>6. GoesOn(shown, p, k, m, new)
        BY <4>5, MorePages
      <4> QED
        BY <4>3, <4>6 DEF new, GoesOn
    <3>2. (1..(k + m)) \ ToSet(shown') = IF job.from = "last" THEN {} ELSE asked'
      <4>1. shown = <<>> => p = 0
        BY DEF p, LastShown
      <4>2. k = p => (shown = <<>> \/ job.from = "last")
        BY <2>2, <3>0
      <4>3. (1..p) \ ToSet(shown) = IF job.from = "last" THEN {} ELSE asked
        BY <1>2 DEF p
      <4>4. asked' = IF shown = <<>> THEN asked ELSE asked \cup {k}
        BY <2>3, <2>6
      <4> QED
        BY <1>1, <2>2, <3>0, <3>1, <4>2, <4>3, <4>4
    <3>3. \A i \in 1..(k + m) : disk'[i] # LongLine
      BY <1>1, <2>4, <2>6
    <3>4. CASE page.truncated
      <4>1. pc' = "dispatch" /\ m > 0 /\ k + m < Len(disk)
        BY <1>1, <2>3, <2>4, <2>6, <3>4
      <4>2. Len(shown') > 0 /\ shown' # <<>>
        <5>1. Len(shown) \in Nat
          BY <1>1, LenProperties
        <5> QED
          BY <3>0, <3>1, <4>1, <5>1
      <4>3. LastShown' = k + m
        BY <3>1, <4>1, <4>2 DEF LastShown, Last
      <4>4. PagesCoverTheFile'
        BY <1>1, <3>1, <3>2, <3>3, <4>1, <4>3 DEF PagesCoverTheFile, LastShown
      <4> QED
        BY <1>1, <3>0, <3>1, <4>1, <4>3, <4>4 DEF ReadInv
    <3>5. CASE ~page.truncated
      <4>1. pc' = "answered" /\ resp'.ok /\ resp'.error = "none" /\ k + m = Len(disk)
        BY <2>3, <2>4, <2>6, <3>5 DEF Success
      <4>2. PagesCoverTheFile'
        BY <1>1, <3>1, <3>2, <3>3, <4>1 DEF PagesCoverTheFile
      <4>3. LastShown' \in Nat /\ \A i \in 1..Len(shown') : shown'[i] \in 1..LastShown'
        <5>1. CASE m > 0
          <6>1. Len(shown) \in Nat /\ Len(shown') > 0 /\ shown' # <<>>
            BY <1>1, <3>0, <3>1, <5>1, LenProperties
          <6>2. LastShown' = k + m
            BY <3>1, <5>1, <6>1 DEF LastShown, Last
          <6> QED
            BY <3>0, <3>1, <6>2
        <5>2. CASE m = 0
          <6>1. shown' = shown
            <7> DEFINE q == page.shown
            <7>1. q \in Seq(Nat) /\ Len(q) = 0 /\ shown' = shown \o q
              BY <2>3, <2>4, <2>6, <5>2
            <7> HIDE DEF q
            <7>2. q = <<>>
              BY <7>1, EmptySeq
            <7> QED
              BY <1>1, <7>1, <7>2
          <6>2. LastShown' = LastShown
            BY <6>1 DEF LastShown
          <6> QED
            BY <1>1, <1>2, <6>1, <6>2
        <5> QED
          BY <3>0, <5>1, <5>2
      <4> QED
        BY <1>1, <3>1, <4>1, <4>2, <4>3 DEF ReadInv
    <3> QED
      BY <3>4, <3>5
  <2> QED
    BY <2>5, <2>6
<1>5. \/ disk = Absent /\ Failure("stat") /\ UNCHANGED clientVars
      \/ disk # Absent /\ (\E e \in {"open", "read"} : Failure(e)) /\ UNCHANGED clientVars
      \/ disk # Absent /\ ShowPage
  BY DEF HandleFileRead
<1>6. ASSUME NEW e \in {"stat", "open", "read"}, Failure(e), UNCHANGED clientVars
      PROVE  ReadInv'
  BY <1>3, <1>6 DEF Failure
<1> QED
  BY <1>4, <1>5, <1>6

LEMMA ChangeKeepsReadInv ==
  ASSUME ReadInv, FileChanges
  PROVE  ReadInv'
<1>1. /\ job' = job /\ shown' = shown /\ asked' = asked /\ job.tool = "file_read"
      /\ pc = "dispatch" /\ pc' = pc /\ LastShown' = LastShown
      /\ disk # Absent /\ disk \in Lines /\ shown \in Seq(Nat) /\ LastShown \in Nat
      /\ \A i \in 1..Len(shown) : shown[i] \in 1..LastShown
      /\ shown # <<>> => LastShown < Len(disk)
  BY DEF FileChanges, Doing, ReadInv, clientVars, LastShown
<1>2. /\ \A i, j \in 1..Len(shown) : i < j => shown[i] < shown[j]
      /\ (1..LastShown) \ ToSet(shown) = IF job.from = "last" THEN {} ELSE asked
      /\ \A i \in 1..LastShown : disk[i] # LongLine
  BY <1>1 DEF ReadInv, PagesCoverTheFile, LastShown
<1>3. CASE disk' = Absent
  <2>1. PagesCoverTheFile'
    BY <1>1, <1>2, <1>3 DEF PagesCoverTheFile, LastShown
  <2> QED
    BY <1>1, <1>3, <2>1 DEF ReadInv
<1>4. CASE disk' = Append(disk, "line")
  <2>1. /\ disk' \in Lines /\ Len(disk') = Len(disk) + 1 /\ Len(disk) \in Nat
        /\ \A i \in 1..Len(disk) : disk'[i] = disk[i]
    BY <1>1, <1>4 DEF Lines
  <2>2. shown = <<>> => LastShown = 0
    BY DEF LastShown
  <2>3. \A i \in 1..LastShown : disk'[i] # LongLine
    <3>1. LastShown \in Nat /\ LastShown <= Len(disk)
      BY <1>1, <2>1, <2>2
    <3>2. \A i \in 1..LastShown : i \in 1..Len(disk)
      BY <2>1, <3>1
    <3> QED
      BY <1>2, <2>1, <3>2
  <2>4. PagesCoverTheFile'
    BY <1>1, <1>2, <2>3 DEF PagesCoverTheFile, LastShown
  <2> QED
    BY <1>1, <2>1, <2>4 DEF ReadInv
<1> QED
  BY <1>3, <1>4 DEF FileChanges

LEMMA NextKeepsReadInv ==
  ASSUME ReadInv, [Next]_vars
  PROVE  ReadInv'
<1>1. job \in Jobs
  BY DEF ReadInv
<1>2. CASE HandleFileRead
  BY <1>2, PageKeepsReadInv
<1>3. CASE FileChanges
  BY <1>3, ChangeKeepsReadInv
<1>4. CASE \/ DecodeCode \/ HandleUnknown \/ HandleShellExec \/ HandleProcesses \/ HandleRegistry
           \/ EditReads \/ EditWrites \/ HandleGrep \/ GlobWalks \/ GlobSorts
           \/ OthersWrite \/ FileVanishes
  <2>1. job' = job /\ job.tool # "file_read"
    BY <1>4 DEF DecodeCode, HandleUnknown, HandleShellExec, HandleProcesses, HandleRegistry,
                EditReads, EditWrites, HandleGrep, GlobWalks, GlobSorts, OthersWrite,
                FileVanishes, Doing
  <2> QED
    BY <1>1, <2>1 DEF ReadInv
<1>5. CASE (RunStep \/ ShellStep) /\ UNCHANGED ToolVars
  BY <1>5 DEF ReadInv, ToolVars, fileVars, clientVars, LastShown, PagesCoverTheFile
<1>6. CASE UNCHANGED vars
  BY <1>6 DEF ReadInv, vars, fileVars, clientVars, LastShown, PagesCoverTheFile
<1> QED
  BY <1>2, <1>3, <1>4, <1>5, <1>6 DEF Next, Dispatch

-----------------------------------------------------------------------------
(* The pasted code.                                                          *)

(* Induction: if S has 0 and, below n, with a number the next one, it has n.  *)
LEMMA UpTo ==
  ASSUME NEW n \in Nat, NEW S, 0 \in S, \A k \in 0..(n - 1) : k \in S => k + 1 \in S
  PROVE  n \in S
<1> DEFINE Missed == (0..n) \ S
           Before == {k - 1 : k \in Missed}
<1>1. SUFFICES ASSUME n \notin S PROVE FALSE
  OBVIOUS
<1>2. IsFiniteSet(0..n)
  BY FS_Interval
<1>3. IsFiniteSet(Missed) /\ Before \subseteq Missed
  <2>1. Missed \subseteq 0..n
    OBVIOUS
  <2>2. IsFiniteSet(Missed)
    BY <1>2, <2>1, FS_Subset
  <2>3. ASSUME NEW k \in Missed PROVE k - 1 \in Missed
    <3>1. k \in 1..n
      OBVIOUS
    <3>2. k - 1 \in 0..(n - 1) /\ (k - 1) + 1 = k
      BY <3>1
    <3> QED
      BY <3>1, <3>2
  <2> QED
    BY <2>2, <2>3
<1>4. Cardinality(Before) = Cardinality(Missed)
  <2> DEFINE f == [k \in Missed |-> k - 1]
  <2>1. f \in Bijection(Missed, Before)
    BY DEF Bijection, Injection, Surjection, IsInjective
  <2> HIDE DEF f, Missed, Before
  <2> QED
    BY <1>3, <2>1, FS_Bijection DEF ExistsBijection
<1>5. Before = Missed
  <2> HIDE DEF Missed, Before
  <2> QED
    BY <1>3, <1>4, FS_Subset
<1>6. PICK k \in Missed : n = k - 1
  BY <1>1, <1>5
<1> QED
  BY <1>6

(* What the loop over a text makes of it is known, if it starts and goes on   *)
(* in that way.                                                             *)
LEMMA WithoutSays ==
  ASSUME NEW T, NEW text \in Seq(T), NEW chars, NEW g,
         g[0] = <<>>,
         \A i \in 1..Len(text) :
           g[i] = IF text[i] \in chars THEN g[i - 1] ELSE Append(g[i - 1], text[i])
  PROVE  Without(text, chars) = g[Len(text)]
<1> DEFINE n == Len(text)
           Step(f, i) == IF i = 0 THEN <<>>
                         ELSE IF text[i] \in chars THEN f[i - 1] ELSE Append(f[i - 1], text[i])
           Loop(f) == f = [i \in 0..n |-> Step(f, i)]
           h == CHOOSE f : Loop(f)
           j == [i \in 0..n |-> g[i]]
<1>1. n \in Nat
  OBVIOUS
<1>2. Loop(j)
  <2>1. ASSUME NEW i \in 0..n PROVE j[i] = Step(j, i)
    <3>1. CASE i = 0
      BY <3>1
    <3>2. CASE i # 0
      <4>1. i \in 1..n /\ i - 1 \in 0..n
        BY <1>1, <3>2
      <4> QED
        BY <3>2, <4>1
    <3> QED
      BY <3>1, <3>2
  <2> HIDE DEF Step
  <2> QED
    BY <2>1
<1>3. Without(text, chars) = h[n]
  BY DEF Without
<1>4. Loop(h)
  <2> HIDE DEF Loop
  <2> QED
    BY <1>2
<1> HIDE DEF h
<1>5. h[0] = <<>>
  <2>1. 0 \in 0..n
    BY <1>1
  <2> QED
    BY <1>4, <2>1
<1>6. ASSUME NEW i \in 1..n
      PROVE  h[i] = IF text[i] \in chars THEN h[i - 1] ELSE Append(h[i - 1], text[i])
  <2>1. i \in 0..n /\ i # 0
    BY <1>1
  <2> QED
    BY <1>4, <2>1
<1> DEFINE S == {i \in 0..n : h[i] = g[i]}
<1>7. 0 \in S
  BY <1>1, <1>5
<1>8. ASSUME NEW k \in 0..(n - 1), k \in S PROVE k + 1 \in S
  <2>1. k + 1 \in 1..n /\ (k + 1) - 1 = k
    BY <1>1
  <2>2. h[k + 1] = IF text[k + 1] \in chars THEN h[k] ELSE Append(h[k], text[k + 1])
    BY <1>6, <2>1
  <2>3. g[k + 1] = IF text[k + 1] \in chars THEN g[k] ELSE Append(g[k], text[k + 1])
    BY <2>1
  <2> QED
    BY <1>8, <2>1, <2>2, <2>3
<1>9. n \in S
  <2> HIDE DEF S, n
  <2> QED
    BY <1>1, <1>7, <1>8, UpTo
<1> QED
  BY <1>3, <1>9

(* What was pasted in between is removed, and nothing else.                  *)
LEMMA PastedIsCleaned ==
  ASSUME NEW code \in Seq(Nat), NEW at \in 0..Len(code), NEW c \in {Space, Dash},
         \A i \in 1..Len(code) : code[i] \notin {Space, Dash}
  PROVE  Cleaned(Pasted(code, at, c)) = code
<1> DEFINE n == Len(code)
           p == Pasted(code, at, c)
           g == [i \in 0..(n + 1) |-> SubSeq(code, 1, IF i <= at THEN i ELSE i - 1)]
<1>1. n \in Nat /\ at \in Nat /\ at <= n /\ c \in Nat
  BY DEF Space, Dash
<1>2. /\ p \in Seq(Nat) /\ Len(p) = n + 1
      /\ \A i \in 1..(n + 1) :
           p[i] = IF i <= at THEN code[i] ELSE IF i = at + 1 THEN c ELSE code[i - 1]
  <2> DEFINE s == SubSeq(code, 1, at)
             t == SubSeq(code, at + 1, n)
  <2>1. s \in Seq(Nat) /\ Len(s) = at /\ \A i \in 1..at : s[i] = code[i]
    BY <1>1
  <2>2. t \in Seq(Nat) /\ Len(t) = n - at /\ \A i \in 1..(n - at) : t[i] = code[at + i]
    BY <1>1
  <2>3. p = (s \o <<c>>) \o t
    BY DEF Pasted
  <2> HIDE DEF s, t, p
  <2>4. /\ s \o <<c>> \in Seq(Nat) /\ Len(s \o <<c>>) = at + 1
        /\ \A i \in 1..(at + 1) : (s \o <<c>>)[i] = IF i <= at THEN s[i] ELSE c
    BY <1>1, <2>1
  <2> DEFINE u == s \o <<c>>
  <2> HIDE DEF u
  <2>5. /\ p \in Seq(Nat) /\ Len(p) = n + 1
        /\ \A i \in 1..(n + 1) : p[i] = IF i <= at + 1 THEN u[i] ELSE t[i - (at + 1)]
    <3>1. u \in Seq(Nat) /\ t \in Seq(Nat) /\ Len(u) + Len(t) = n + 1 /\ Len(u) = at + 1
      BY <1>1, <2>2, <2>4 DEF u
    <3>2. p = u \o t
      BY <2>3 DEF u
    <3>3. /\ u \o t \in Seq(Nat) /\ Len(u \o t) = Len(u) + Len(t)
          /\ \A i \in 1..(Len(u) + Len(t)) :
               (u \o t)[i] = IF i <= Len(u) THEN u[i] ELSE t[i - Len(u)]
      BY <3>1, ConcatProperties
    <3> QED
      BY <3>1, <3>2, <3>3
  <2>6. ASSUME NEW i \in 1..(n + 1)
        PROVE  p[i] = IF i <= at THEN code[i] ELSE IF i = at + 1 THEN c ELSE code[i - 1]
    <3>1. CASE i <= at
      <4>1. i \in 1..at /\ i \in 1..(at + 1) /\ i <= at + 1
        BY <1>1, <3>1
      <4>2. u[i] = s[i]
        BY <2>4, <3>1, <4>1 DEF u
      <4> QED
        BY <2>1, <2>5, <3>1, <4>1, <4>2
    <3>2. CASE i = at + 1
      <4>1. at + 1 \in 1..(at + 1) /\ ~(at + 1 <= at)
        BY <1>1
      <4>2. u[at + 1] = c
        BY <2>4, <4>1 DEF u
      <4> QED
        BY <1>1, <2>5, <3>2, <4>1, <4>2
    <3>3. CASE i > at + 1
      <4>1. i - (at + 1) \in 1..(n - at) /\ at + (i - (at + 1)) = i - 1
        BY <1>1, <3>3
      <4>2. t[i - (at + 1)] = code[i - 1]
        BY <2>2, <4>1
      <4>3. ~(i <= at + 1) /\ ~(i <= at) /\ i # at + 1
        BY <1>1, <3>3
      <4> HIDE DEF n
      <4> QED
        BY <2>5, <4>2, <4>3
    <3> QED
      BY <1>1, <3>1, <3>2, <3>3
  <2> QED
    BY <2>5, <2>6
<1> HIDE DEF p
<1>3. \A k \in 0..n : SubSeq(code, 1, k) \in Seq(Nat)
  BY <1>1
<1>4. g[0] = <<>> /\ g[n + 1] = code
  <2>1. g[0] = SubSeq(code, 1, 0) /\ g[n + 1] = SubSeq(code, 1, n)
    BY <1>1
  <2> QED
    BY <2>1, <1>1, SubSeqEmpty, SubSeqFull
<1>5. ASSUME NEW i \in 1..Len(p)
      PROVE  g[i] = IF p[i] \in {Space, Dash} THEN g[i - 1] ELSE Append(g[i - 1], p[i])
  <2>1. i \in 1..(n + 1) /\ i - 1 \in 0..(n + 1) /\ i \in 0..(n + 1)
    BY <1>1, <1>2
  <2>2. CASE i = at + 1
    <3>1. g[i] = SubSeq(code, 1, at) /\ g[i - 1] = SubSeq(code, 1, at)
      BY <1>1, <2>1, <2>2
    <3>2. p[i] = c
      BY <1>1, <1>2, <2>1, <2>2
    <3> QED
      BY <3>1, <3>2
  <2>3. CASE i # at + 1
    <3> DEFINE k == IF i <= at THEN i ELSE i - 1
    <3>1. k \in 1..n
      BY <1>1, <2>1, <2>3
    <3>2. g[i] = SubSeq(code, 1, k) /\ g[i - 1] = SubSeq(code, 1, k - 1)
      BY <1>1, <2>1, <2>3
    <3>3. p[i] = code[k]
      BY <1>1, <1>2, <2>1, <2>3
    <3> HIDE DEF k
    <3>4. SubSeq(code, 1, k) = Append(SubSeq(code, 1, k - 1), code[k])
      BY <1>1, <3>1
    <3>5. p[i] \notin {Space, Dash}
      BY <3>1, <3>3
    <3> QED
      BY <3>2, <3>3, <3>4, <3>5
  <2> QED
    BY <2>2, <2>3
<1> HIDE DEF g
<1>6. Without(p, {Space, Dash}) = g[Len(p)]
  BY <1>2, <1>4, <1>5, WithoutSays
<1> QED
  BY <1>1, <1>2, <1>4, <1>6 DEF Cleaned, p

-----------------------------------------------------------------------------
(* The digits of a code, one by one.                                         *)

LEMMA IsSequence ==
  ASSUME NEW S, NEW n \in Nat, NEW f \in [1..n -> S]
  PROVE  f \in Seq(S) /\ Len(f) = n
<1>1. f \in Seq(S)
  BY SeqDef
<1>2. DOMAIN f = 1..n
  OBVIOUS
<1> QED
  BY <1>1, <1>2, LenProperties

ByteAt(b, i) == IF i <= Len(b) THEN b[i] ELSE 0

PlainDigits == (0..63) \ {Dash}

(* What the bits of three bytes may be.                                      *)
LEMMA FourDigits ==
  ASSUME NEW x \in PlainBytes, NEW y \in PlainBytes, NEW z \in PlainBytes
  PROVE  /\ x \div 4 \in PlainDigits
         /\ (x % 4) * 16 + y \div 16 \in PlainDigits
         /\ (y % 16) * 4 + z \div 64 \in PlainDigits
         /\ z % 64 \in PlainDigits
BY DEF PlainBytes, PlainDigits, Dash

LEMMA DigitsSay ==
  ASSUME NEW b \in Seq(PlainBytes)
  PROVE  LET d == ToDigits(b)
             n == (4 * Len(b) + 2) \div 3
         IN  /\ Len(d) = n
             /\ d \in Seq(PlainDigits)
             /\ \A g \in Nat :
                  /\ 4*g + 1 <= n => d[4*g + 1] = ByteAt(b, 3*g + 1) \div 4
                  /\ 4*g + 2 <= n => d[4*g + 2] = (ByteAt(b, 3*g + 1) % 4) * 16
                                                  + ByteAt(b, 3*g + 2) \div 16
                  /\ 4*g + 3 <= n => d[4*g + 3] = (ByteAt(b, 3*g + 2) % 16) * 4
                                                  + ByteAt(b, 3*g + 3) \div 64
                  /\ 4*g + 4 <= n => d[4*g + 4] = ByteAt(b, 3*g + 3) % 64
<1> DEFINE n == (4 * Len(b) + 2) \div 3
           Digit(g, r) == CASE r = 0 -> ByteAt(b, 3*g + 1) \div 4
                            [] r = 1 -> (ByteAt(b, 3*g + 1) % 4) * 16 + ByteAt(b, 3*g + 2) \div 16
                            [] r = 2 -> (ByteAt(b, 3*g + 2) % 16) * 4 + ByteAt(b, 3*g + 3) \div 64
                            [] r = 3 -> ByteAt(b, 3*g + 3) % 64
           d == [j \in 1..n |-> Digit((j - 1) \div 4, (j - 1) % 4)]
<1>1. Len(b) \in Nat /\ n \in Nat
  OBVIOUS
<1>2. ToDigits(b) = d
  BY DEF ToDigits, ByteAt
<1>3. ASSUME NEW i \in Nat \ {0}
      PROVE  ByteAt(b, i) \in PlainBytes
  <2>1. CASE i <= Len(b)
    BY <1>1, <2>1 DEF ByteAt
  <2>2. CASE ~(i <= Len(b))
    BY <2>2 DEF ByteAt, PlainBytes, Dash
  <2> QED
    BY <2>1, <2>2
<1>4. ASSUME NEW g \in Nat, NEW r \in 0..3
      PROVE  Digit(g, r) \in PlainDigits
  <2> DEFINE x == ByteAt(b, 3*g + 1)
             y == ByteAt(b, 3*g + 2)
             z == ByteAt(b, 3*g + 3)
  <2>1. x \in PlainBytes /\ y \in PlainBytes /\ z \in PlainBytes
    BY <1>3
  <2>2. /\ Digit(g, 0) = x \div 4 /\ Digit(g, 1) = (x % 4) * 16 + y \div 16
        /\ Digit(g, 2) = (y % 16) * 4 + z \div 64 /\ Digit(g, 3) = z % 64
    OBVIOUS
  <2>3. r \in {0, 1, 2, 3}
    OBVIOUS
  <2> HIDE DEF Digit, x, y, z
  <2>4. /\ x \div 4 \in PlainDigits /\ (x % 4) * 16 + y \div 16 \in PlainDigits
        /\ (y % 16) * 4 + z \div 64 \in PlainDigits /\ z % 64 \in PlainDigits
    BY <2>1, FourDigits
  <2> QED
    BY <2>2, <2>3, <2>4, Zenon
<1>5. \A j \in 1..n : (j - 1) \div 4 \in Nat /\ (j - 1) % 4 \in 0..3
  BY <1>1
<1>6. \A j \in 1..n : d[j] \in PlainDigits
  <2> HIDE DEF Digit, n
  <2> QED
    BY <1>4, <1>5
<1>7. Len(d) = n /\ d \in Seq(PlainDigits)
  <2>1. d \in [1..n -> PlainDigits]
    BY <1>6
  <2> HIDE DEF d, n
  <2> QED
    BY <1>1, <2>1, IsSequence
<1>9. ASSUME NEW g \in Nat, NEW r \in 0..3, 4*g + r + 1 <= n
      PROVE  d[4*g + r + 1] = Digit(g, r)
  <2>1. 4*g + r + 1 \in 1..n
    BY <1>1, <1>9
  <2>2. ((4*g + r + 1) - 1) \div 4 = g /\ ((4*g + r + 1) - 1) % 4 = r
    OBVIOUS
  <2> HIDE DEF Digit, n
  <2> QED
    BY <2>1, <2>2
<1> QED
  <2>1. ASSUME NEW g \in Nat
        PROVE  /\ 4*g + 1 <= n => d[4*g + 1] = Digit(g, 0)
               /\ 4*g + 2 <= n => d[4*g + 2] = Digit(g, 1)
               /\ 4*g + 3 <= n => d[4*g + 3] = Digit(g, 2)
               /\ 4*g + 4 <= n => d[4*g + 4] = Digit(g, 3)
    <3> HIDE DEF Digit, n, d
    <3>1. 4*g + 0 + 1 = 4*g + 1 /\ 4*g + 1 + 1 = 4*g + 2 /\ 4*g + 2 + 1 = 4*g + 3
          /\ 4*g + 3 + 1 = 4*g + 4
      OBVIOUS
    <3> QED
      BY <1>9, <3>1
  <2>2. ASSUME NEW g \in Nat
        PROVE  /\ Digit(g, 0) = ByteAt(b, 3*g + 1) \div 4
               /\ Digit(g, 1) = (ByteAt(b, 3*g + 1) % 4) * 16 + ByteAt(b, 3*g + 2) \div 16
               /\ Digit(g, 2) = (ByteAt(b, 3*g + 2) % 16) * 4 + ByteAt(b, 3*g + 3) \div 64
               /\ Digit(g, 3) = ByteAt(b, 3*g + 3) % 64
    OBVIOUS
  <2> HIDE DEF Digit, d
  <2> QED
    BY <1>2, <1>7, <2>1, <2>2

(* The three bytes that four digits stand for.                               *)
LEMMA ThreeBytes ==
  ASSUME NEW x \in PlainBytes, NEW y \in PlainBytes, NEW z \in PlainBytes
  PROVE  /\ (x \div 4) * 4 + ((x % 4) * 16 + y \div 16) \div 16 = x
         /\ (((x % 4) * 16 + y \div 16) % 16) * 16 + ((y % 16) * 4 + z \div 64) \div 4 = y
         /\ (((y % 16) * 4 + z \div 64) % 4) * 64 + (z % 64) = z
<1> DEFINE hx == x \div 4
           lx == x % 4
           hy == y \div 16
           ly == y % 16
           hz == z \div 64
           lz == z % 64
<1>1. /\ x = hx * 4 + lx /\ hx \in Nat /\ lx \in Nat
      /\ y = hy * 16 + ly /\ hy \in 0..15 /\ ly \in 0..15
      /\ z = hz * 64 + lz /\ hz \in 0..3 /\ lz \in 0..63
  BY DEF PlainBytes
<1> SUFFICES /\ hx * 4 + (lx * 16 + hy) \div 16 = x
             /\ ((lx * 16 + hy) % 16) * 16 + (ly * 4 + hz) \div 4 = y
             /\ ((ly * 4 + hz) % 4) * 64 + lz = z
  OBVIOUS
<1> HIDE DEF hx, lx, hy, ly, hz, lz
<1>2. (lx * 16 + hy) \div 16 = lx /\ (lx * 16 + hy) % 16 = hy
  BY <1>1
<1>3. (ly * 4 + hz) \div 4 = ly /\ (ly * 4 + hz) % 4 = hz
  BY <1>1
<1>4. hx * 4 + (lx * 16 + hy) \div 16 = x
  BY <1>1, <1>2
<1>5. ((lx * 16 + hy) % 16) * 16 + (ly * 4 + hz) \div 4 = y
  BY <1>1, <1>2, <1>3
<1>6. ((ly * 4 + hz) % 4) * 64 + lz = z
  BY <1>1, <1>3
<1> QED
  BY <1>4, <1>5, <1>6

(* How many digits stand for how many bytes.                                 *)
LEMMA LengthsAgree ==
  ASSUME NEW k \in Nat, NEW n, n = (4 * k + 2) \div 3
  PROVE  n \in Nat /\ (3 * n) \div 4 = k /\ n % 4 # 1
OBVIOUS

LEMMA BytesSay ==
  ASSUME NEW b \in Seq(PlainBytes), NEW i \in Nat \ {0}
  PROVE  /\ ByteAt(b, i) \in PlainBytes
         /\ i <= Len(b) => ByteAt(b, i) = b[i]
<1>1. CASE i <= Len(b)
  BY <1>1 DEF ByteAt
<1>2. CASE ~(i <= Len(b))
  BY <1>2 DEF ByteAt, PlainBytes, Dash
<1> QED
  BY <1>1, <1>2

(* What is decoded is what was encoded.                                      *)
LEMMA DecodedIsEncoded ==
  ASSUME NEW b \in Seq(PlainBytes)
  PROVE  ToBytes(ToDigits(b)) = b /\ Len(ToDigits(b)) % 4 # 1
<1> DEFINE d == ToDigits(b)
           n == (4 * Len(b) + 2) \div 3
           D(i) == IF i <= Len(d) THEN d[i] ELSE 0
           Byte(g, r) == CASE r = 0 -> D(4*g + 1) * 4 + D(4*g + 2) \div 16
                           [] r = 1 -> (D(4*g + 2) % 16) * 16 + D(4*g + 3) \div 4
                           [] r = 2 -> (D(4*g + 3) % 4) * 64 + D(4*g + 4)
<1>1. Len(b) \in Nat /\ n \in Nat /\ (3 * n) \div 4 = Len(b) /\ n % 4 # 1
  <2>1. Len(b) \in Nat
    OBVIOUS
  <2> QED
    BY <2>1, LengthsAgree
<1>2. Len(d) = n
  BY DigitsSay
<1>3. ToBytes(d) = [j \in 1..Len(b) |-> Byte((j - 1) \div 3, (j - 1) % 3)]
  <2> HIDE DEF d, n
  <2>1. ToBytes(d) = [j \in 1..((3 * Len(d)) \div 4) |-> Byte((j - 1) \div 3, (j - 1) % 3)]
    BY DEF ToBytes
  <2> HIDE DEF Byte
  <2> QED
    BY <1>1, <1>2, <2>1
<1>4. ASSUME NEW j \in 1..Len(b)
      PROVE  Byte((j - 1) \div 3, (j - 1) % 3) = b[j]
  <2> DEFINE g == (j - 1) \div 3
             r == (j - 1) % 3
             x == ByteAt(b, 3*g + 1)
             y == ByteAt(b, 3*g + 2)
             z == ByteAt(b, 3*g + 3)
  <2>1. g \in Nat /\ r \in {0, 1, 2} /\ j = 3*g + r + 1
    BY <1>1
  <2> SUFFICES Byte(g, r) = b[j]
    OBVIOUS
  <2> HIDE DEF g, r
  <2>2. x \in PlainBytes /\ y \in PlainBytes /\ z \in PlainBytes
    BY <2>1, BytesSay
  <2>3. /\ 4*g + 1 <= n => d[4*g + 1] = x \div 4
        /\ 4*g + 2 <= n => d[4*g + 2] = (x % 4) * 16 + y \div 16
        /\ 4*g + 3 <= n => d[4*g + 3] = (y % 16) * 4 + z \div 64
        /\ 4*g + 4 <= n => d[4*g + 4] = z % 64
    BY <2>1, DigitsSay
  <2>4. /\ b[j] = ByteAt(b, j)
    BY <1>1, <2>1, BytesSay
  <2>5. /\ r = 0 => 4*g + 1 <= n /\ 4*g + 2 <= n
        /\ r = 1 => 4*g + 2 <= n /\ 4*g + 3 <= n
        /\ r = 2 => 4*g + 3 <= n /\ 4*g + 4 <= n
    BY <1>1, <2>1
  <2>6. /\ r = 0 => b[j] = x
        /\ r = 1 => b[j] = y
        /\ r = 2 => b[j] = z
    <3>1. 3*g + 0 + 1 = 3*g + 1 /\ 3*g + 1 + 1 = 3*g + 2 /\ 3*g + 2 + 1 = 3*g + 3
      BY <2>1
    <3> QED
      BY <2>1, <2>4, <3>1
  <2>7. /\ (x \div 4) * 4 + ((x % 4) * 16 + y \div 16) \div 16 = x
        /\ (((x % 4) * 16 + y \div 16) % 16) * 16 + ((y % 16) * 4 + z \div 64) \div 4 = y
        /\ (((y % 16) * 4 + z \div 64) % 4) * 64 + (z % 64) = z
    BY <2>2, ThreeBytes
  <2> HIDE DEF d, n, x, y, z
  <2>8. CASE r = 0
    <3>1. Byte(g, r) = d[4*g + 1] * 4 + d[4*g + 2] \div 16
      BY <1>2, <2>5, <2>8
    <3> QED
      BY <2>3, <2>5, <2>6, <2>7, <2>8, <3>1
  <2>9. CASE r = 1
    <3>1. Byte(g, r) = (d[4*g + 2] % 16) * 16 + d[4*g + 3] \div 4
      BY <1>2, <2>5, <2>9
    <3> QED
      BY <2>3, <2>5, <2>6, <2>7, <2>9, <3>1
  <2>10. CASE r = 2
    <3>1. Byte(g, r) = (d[4*g + 3] % 4) * 64 + d[4*g + 4]
      BY <1>2, <2>5, <2>10
    <3>2. d[4*g + 3] = (y % 16) * 4 + z \div 64 /\ d[4*g + 4] = z % 64
      BY <2>3, <2>5, <2>10
    <3>3. Byte(g, r) = (((y % 16) * 4 + z \div 64) % 4) * 64 + (z % 64)
      BY <3>1, <3>2, Zenon
    <3> QED
      BY <2>6, <2>7, <2>10, <3>3, Zenon
  <2> QED
    BY <2>1, <2>8, <2>9, <2>10
<1>5. ToBytes(d) = b
  <2> HIDE DEF d, Byte
  <2>1. ToBytes(d) = [j \in 1..Len(b) |-> b[j]]
    BY <1>3, <1>4
  <2> QED
    BY <2>1
<1> QED
  BY <1>1, <1>2, <1>5

(* A code with a character pasted into it is decoded to what it was made of.  *)
LEMMA CodeIsUnderstood ==
  ASSUME NEW url \in Seq(PlainBytes \ {Bar}), NEW token \in Seq(PlainBytes),
         NEW at \in 0..Len(EncodeConnectionInfo(url, token)), NEW c \in {Space, Dash}
  PROVE  DecodeConnectionInfo(Pasted(EncodeConnectionInfo(url, token), at, c))
           = [url |-> url, token |-> token, ok |-> TRUE]
<1> DEFINE code == EncodeConnectionInfo(url, token)
           data == url \o <<Bar>> \o token
           u == Len(url)
           bars == {i \in 1..Len(data) : data[i] = Bar}
           first == CHOOSE j \in bars : \A k \in bars : j <= k
<1>1. /\ u \in Nat /\ Len(token) \in Nat /\ Bar \in PlainBytes
      /\ url \in Seq(PlainBytes) /\ data \in Seq(PlainBytes) /\ Len(data) = u + 1 + Len(token)
  <2>1. Bar \in PlainBytes
    BY DEF Bar, PlainBytes, Dash
  <2>2. url \in Seq(PlainBytes)
    OBVIOUS
  <2> QED
    BY <2>1, <2>2
<1>2. /\ \A i \in 1..u : data[i] = url[i] /\ data[i] # Bar
      /\ data[u + 1] = Bar
      /\ \A i \in 1..Len(token) : data[u + 1 + i] = token[i]
  BY <1>1
<1> HIDE DEF data, u
<1>3. code = ToDigits(data)
  BY DEF EncodeConnectionInfo, data
<1>4. code \in Seq(Nat) /\ \A i \in 1..Len(code) : code[i] \notin {Space, Dash}
  <2>1. code \in Seq(PlainDigits)
    BY <1>1, <1>3, DigitsSay
  <2> HIDE DEF code
  <2>2. \A i \in 1..Len(code) : code[i] \in PlainDigits
    BY <2>1
  <2>3. PlainDigits \subseteq Nat /\ Space \notin PlainDigits /\ Dash \notin PlainDigits
    BY DEF PlainDigits, Space, Dash
  <2>4. code \in Seq(Nat)
    <3>1. Len(code) \in Nat /\ code \in [1..Len(code) -> PlainDigits]
      BY <2>1
    <3>2. code \in [1..Len(code) -> Nat]
      BY <2>3, <3>1
    <3> QED
      BY <3>1, <3>2, IsSequence
  <2> QED
    BY <2>2, <2>3, <2>4
<1>5. Cleaned(Pasted(code, at, c)) = code
  <2> HIDE DEF code
  <2>1. at \in 0..Len(code)
    BY DEF code
  <2> QED
    BY <1>4, <2>1, PastedIsCleaned
<1>6. ToBytes(code) = data /\ Len(code) % 4 # 1
  BY <1>1, <1>3, DecodedIsEncoded
<1>7. u + 1 \in bars /\ \A k \in bars : u + 1 <= k
  BY <1>1, <1>2
<1>8. first = u + 1
  <2>1. bars \subseteq Nat
    OBVIOUS
  <2> HIDE DEF bars
  <2>2. first \in bars /\ \A k \in bars : first <= k
    BY <1>7
  <2> HIDE DEF first
  <2> QED
    BY <1>1, <1>7, <2>1, <2>2
<1>9. SubSeq(data, 1, u) = url
  <2>1. SubSeq(data, 1, u) = [i \in 1..u |-> data[i]]
    BY <1>1
  <2>2. url = [i \in 1..u |-> url[i]]
    BY DEF u
  <2> QED
    BY <1>2, <2>1, <2>2
<1>10. SubSeq(data, u + 2, Len(data)) = token
  <2>1. SubSeq(data, u + 2, Len(data)) = [i \in 1..Len(token) |-> data[u + 1 + i]]
    BY <1>1
  <2>2. token = [i \in 1..Len(token) |-> token[i]]
    OBVIOUS
  <2> QED
    BY <1>2, <2>1, <2>2
<1>11. DecodeConnectionInfo(Pasted(code, at, c))
         = [url |-> SubSeq(data, 1, first - 1), token |-> SubSeq(data, first + 1, Len(data)),
            ok |-> TRUE]
  <2> HIDE DEF code
  <2>1. bars # {}
    BY <1>7
  <2> QED
    BY <1>5, <1>6, <2>1, Zenon DEF DecodeConnectionInfo
<1> QED
  <2> HIDE DEF first, code
  <2>1. first - 1 = u /\ first + 1 = u + 2
    BY <1>1, <1>8
  <2> QED
    BY <1>9, <1>10, <1>11, <2>1 DEF code

CodeInv == job \in Jobs /\ CodeSurvivesPasting

LEMMA NextKeepsCodeInv ==
  ASSUME CodeInv, [Next]_vars
  PROVE  CodeInv'
<1>1. job \in Jobs
  BY DEF CodeInv
<1>2. CASE DecodeCode
  <2>1. job' = job /\ job.tool = "connect"
    BY <1>2 DEF DecodeCode, Doing
  <2>2. job.url \in Seq(PlainBytes \ {Bar}) /\ job.token \in Seq(PlainBytes)
    BY <1>1, <2>1, ToolsAssumption
  <2>3. PICK at \in 0..Len(EncodeConnectionInfo(job.url, job.token)), c \in {Space, Dash} :
          Success(DecodeConnectionInfo(Pasted(EncodeConnectionInfo(job.url, job.token), at, c)))
    BY <1>2 DEF DecodeCode
  <2>4. resp'.data = [url |-> job.url, token |-> job.token, ok |-> TRUE]
    BY <2>2, <2>3, CodeIsUnderstood DEF Success
  <2> QED
    BY <1>1, <2>1, <2>4 DEF CodeInv, CodeSurvivesPasting, Answered, Doing
<1>3. CASE \/ HandleUnknown \/ HandleShellExec \/ HandleProcesses \/ HandleRegistry
           \/ HandleFileRead \/ EditReads \/ EditWrites \/ HandleGrep \/ GlobWalks \/ GlobSorts
           \/ FileChanges \/ OthersWrite \/ FileVanishes
  <2>1. job' = job /\ job.tool # "connect"
    BY <1>3 DEF HandleUnknown, HandleShellExec, HandleProcesses, HandleRegistry, HandleFileRead,
                EditReads, EditWrites, HandleGrep, GlobWalks, GlobSorts, FileChanges,
                OthersWrite, FileVanishes, Doing
  <2> QED
    BY <1>1, <2>1 DEF CodeInv, CodeSurvivesPasting, Answered, Doing
<1>4. CASE (RunStep \/ ShellStep) /\ UNCHANGED ToolVars
  BY <1>4 DEF CodeInv, ToolVars, CodeSurvivesPasting, Answered, Doing
<1>5. CASE UNCHANGED vars
  BY <1>5 DEF CodeInv, vars, CodeSurvivesPasting, Answered, Doing
<1> QED
  BY <1>2, <1>3, <1>4, <1>5 DEF Next, Dispatch

-----------------------------------------------------------------------------
(* The edit.                                                                 *)

(* A loop of n rounds, whose rounds are functions of what it has so far.     *)
Rounds(n, V) == [1..n -> [V -> V]]

IsLoop(g, n, V, v0, round) ==
  /\ g \in [0..n -> V]
  /\ g[0] = v0
  /\ \A i \in 1..n : g[i] = round[i][g[i - 1]]

LEMMA LoopExists ==
  ASSUME NEW n \in Nat, NEW V, NEW v0 \in V, NEW round \in Rounds(n, V)
  PROVE  \E g : IsLoop(g, n, V, v0, round)
<1> DEFINE Runs_(g, k) == g[0] = v0 /\ \A i \in 1..k : g[i] = round[i][g[i - 1]]
           S == {k \in 0..n : \E g \in [0..k -> V] : Runs_(g, k)}
<1>1. 0 \in S
  <2> DEFINE g == [i \in 0..0 |-> v0]
  <2>1. g \in [0..0 -> V] /\ Runs_(g, 0)
    OBVIOUS
  <2> HIDE DEF g, Runs_
  <2> QED
    BY <2>1
<1>2. ASSUME NEW k \in 0..(n - 1), k \in S
      PROVE  k + 1 \in S
  <2>1. PICK g \in [0..k -> V] : Runs_(g, k)
    BY <1>2
  <2> DEFINE f == [i \in 0..(k + 1) |-> IF i = k + 1 THEN round[k + 1][g[k]] ELSE g[i]]
  <2>2. k \in Nat /\ k + 1 \in 1..n /\ k + 1 \in 0..n /\ k \in 0..k
    OBVIOUS
  <2>3. round[k + 1][g[k]] \in V
    BY <2>2 DEF Rounds
  <2>4. f \in [0..(k + 1) -> V]
    BY <2>2, <2>3
  <2>5. f[0] = v0
    BY <2>1, <2>2
  <2>6. ASSUME NEW i \in 1..(k + 1)
        PROVE  f[i] = round[i][f[i - 1]]
    <3>1. CASE i = k + 1
      <4>1. f[i] = round[k + 1][g[k]]
        BY <2>2, <3>1
      <4>2. f[k] = g[k]
        BY <2>2
      <4> QED
        BY <2>2, <3>1, <4>1, <4>2
    <3>2. CASE i # k + 1
      <4>1. i \in 1..k /\ i - 1 \in 0..k /\ i - 1 # k + 1
        BY <2>2, <3>2
      <4>2. f[i] = g[i] /\ f[i - 1] = g[i - 1]
        BY <2>2, <4>1
      <4> QED
        BY <2>1, <4>1, <4>2
    <3> QED
      BY <3>1, <3>2
  <2> HIDE DEF f
  <2> QED
    BY <2>2, <2>4, <2>5, <2>6
<1> HIDE DEF S
<1>3. n \in S
  BY <1>1, <1>2, UpTo
<1>4. PICK g \in [0..n -> V] : Runs_(g, n)
  BY <1>3 DEF S
<1>5. IsLoop(g, n, V, v0, round)
  BY <1>4 DEF IsLoop
<1> QED
  BY <1>5

(* The loop of Counted.                                                      *)
Counting(h, n, m, Occ) ==
  h = [i \in 0..n |-> IF i = 0 THEN {}
                      ELSE IF i \in Occ /\ \A j \in h[i - 1] : j + m <= i
                           THEN h[i - 1] \cup {i}
                           ELSE h[i - 1]]

LEMMA CountingExists ==
  ASSUME NEW n \in Nat, NEW m \in Nat, NEW Occ \in SUBSET (1..n)
  PROVE  \E h : Counting(h, n, m, Occ)
<1> DEFINE V == SUBSET (1..n)
           Next_(X, i) == IF i \in Occ /\ \A j \in X : j + m <= i THEN X \cup {i} ELSE X
           round == [i \in 1..n |-> [X \in V |-> Next_(X, i)]]
           none == {}
<1>1. round \in Rounds(n, V) /\ none \in V /\ n \in Nat
  BY DEF Rounds
<1> HIDE DEF V, Next_, round, none
<1>2. PICK g : IsLoop(g, n, V, none, round)
  BY ONLY <1>1, LoopExists
<1>3. /\ g \in [0..n -> V] /\ g[0] = none
      /\ \A i \in 1..n : g[i] = round[i][g[i - 1]]
  BY <1>2 DEF IsLoop
<1>4. ASSUME NEW i \in 0..n
      PROVE  g[i] = IF i = 0 THEN {} ELSE Next_(g[i - 1], i)
  <2>1. CASE i = 0
    BY <1>3, <2>1 DEF none
  <2>2. CASE i # 0
    <3>1. i \in 1..n /\ i - 1 \in 0..n
      BY <2>2
    <3>2. round[i][g[i - 1]] = Next_(g[i - 1], i)
      BY <1>3, <3>1 DEF round
    <3> QED
      BY <1>3, <2>2, <3>1, <3>2
  <2> QED
    BY <2>1, <2>2
<1>5. g = [i \in 0..n |-> IF i = 0 THEN {} ELSE Next_(g[i - 1], i)]
  BY <1>3, <1>4
<1>6. Counting(g, n, m, Occ)
  BY <1>5 DEF Counting, Next_
<1> QED
  BY <1>6

(* What is counted does not overlap, and everything else overlaps something   *)
(* that is counted and began before.                                        *)
Leftmost(found, Occ, m) ==
  /\ found \subseteq Occ
  /\ \A i \in Occ : i \in found <=> \A j \in found : j < i => j + m <= i

LEMMA CountingSays ==
  ASSUME NEW n \in Nat, NEW m \in Nat, NEW Occ \in SUBSET (1..n), NEW h, Counting(h, n, m, Occ)
  PROVE  Leftmost(h[n], Occ, m)
<1> DEFINE Next_(X, i) == IF i \in Occ /\ \A j \in X : j + m <= i THEN X \cup {i} ELSE X
<1>3. h = [i \in 0..n |-> IF i = 0 THEN {} ELSE Next_(h[i - 1], i)]
  BY DEF Counting
<1>4. h[0] = {} /\ \A i \in 1..n : h[i] = Next_(h[i - 1], i)
  <2> HIDE DEF Next_
  <2>1. 0 \in 0..n /\ \A i \in 1..n : i \in 0..n /\ i # 0
    OBVIOUS
  <2> QED
    BY <1>3, <2>1
<1> DEFINE Right(i) == /\ h[i] \subseteq Occ \cap (1..i)
                       /\ \A k \in 1..i : k \in h[i] <=> k \in Occ /\ \A j \in h[i] : j < k => j + m <= k
           S == {i \in 0..n : Right(i)}
<1>5. 0 \in S
  BY <1>4
<1>6. ASSUME NEW k \in 0..(n - 1), k \in S
      PROVE  k + 1 \in S
  <2>1. /\ k \in Nat /\ k + 1 \in 1..n /\ (k + 1) - 1 = k /\ k + 1 \in 0..n
        /\ k + 1 \in 1..(k + 1) /\ k + 1 \notin 1..k
        /\ 1..k \subseteq 1..(k + 1) /\ \A j \in 1..k : j < k + 1
    OBVIOUS
  <2>2. h[k + 1] = Next_(h[k], k + 1)
    <3> HIDE DEF Next_
    <3>1. h[k + 1] = Next_(h[(k + 1) - 1], k + 1)
      BY <1>4, <2>1
    <3> QED
      BY <2>1, <3>1
  <2>3. Right(k)
    BY <1>6
  <2> HIDE DEF S
  <2>6. h[k] \subseteq Occ /\ h[k] \subseteq 1..k
    BY <2>3
  <2>4. h[k + 1] \subseteq Occ \cap (1..(k + 1)) /\ h[k] \subseteq h[k + 1]
        /\ \A j \in h[k + 1] : j # k + 1 => j \in h[k]
    <3> DEFINE new == k + 1 \in Occ /\ \A j \in h[k] : j + m <= k + 1
    <3>1. CASE new
      <4>1. h[k + 1] = h[k] \cup {k + 1} /\ k + 1 \in Occ
        BY <2>2, <3>1
      <4>2. h[k] \subseteq Occ \cap (1..(k + 1))
        BY <2>1, <2>6
      <4> QED
        BY <2>1, <4>1, <4>2
    <3>2. CASE ~new
      <4>1. h[k + 1] = h[k]
        BY <2>2, <3>2
      <4>2. h[k] \subseteq Occ \cap (1..(k + 1))
        BY <2>1, <2>6
      <4> QED
        BY <4>1, <4>2
    <3> QED
      BY <3>1, <3>2
  <2>5. ASSUME NEW l \in 1..(k + 1)
        PROVE  l \in h[k + 1] <=> l \in Occ /\ \A j \in h[k + 1] : j < l => j + m <= l
    <3>1. CASE l = k + 1
      <4>1. \A j \in h[k] : j < l
        BY <2>1, <2>6, <3>1
      <4>2. l \in h[k + 1] <=> l \in Occ /\ \A j \in h[k] : j + m <= l
        <5>1. k + 1 \notin h[k]
          BY <2>1, <2>6
        <5> DEFINE new == k + 1 \in Occ /\ \A j \in h[k] : j + m <= k + 1
        <5>2. h[k + 1] = IF new THEN h[k] \cup {k + 1} ELSE h[k]
          BY <2>2
        <5> HIDE DEF new
        <5>3. k + 1 \in h[k + 1] <=> new
          BY <5>1, <5>2
        <5> QED
          BY <3>1, <5>3 DEF new
      <4>3. ASSUME NEW j \in h[k + 1], j < l
            PROVE  j \in h[k]
        <5>1. j # k + 1
          BY <2>1, <3>1, <4>3
        <5> QED
          BY <2>4, <5>1
      <4> QED
        BY <2>4, <4>1, <4>2, <4>3
    <3>2. CASE l # k + 1
      <4>1. l \in 1..k /\ ~(k + 1 < l)
        BY <2>1, <3>2
      <4>2. l \in h[k] <=> l \in Occ /\ \A j \in h[k] : j < l => j + m <= l
        BY <2>3, <4>1
      <4>3. l \in h[k + 1] <=> l \in h[k]
        BY <2>4, <3>2
      <4>4. \A j \in h[k + 1] : j < l => j \in h[k]
        BY <2>4, <4>1
      <4> QED
        BY <2>4, <4>2, <4>3, <4>4
    <3> QED
      BY <3>1, <3>2
  <2> QED
    BY <2>1, <2>4, <2>5 DEF S
<1>7. n \in S
  <2> HIDE DEF S
  <2> QED
    BY <1>5, <1>6, UpTo
<1>8. Right(n)
  BY <1>7
<1> QED
  BY <1>8 DEF Leftmost

(* Strings of m characters that begin at Occ fit into n.                     *)
Within(Occ, n, m) ==
  /\ Occ \subseteq 1..(n + 1)
  /\ \A i \in Occ : i + m <= n + 1

LEMMA OccurrencesFit ==
  ASSUME NEW S, NEW text \in Seq(S), NEW old \in Seq(S)
  PROVE  Within(Occurrences(text, old), Len(text), Len(old))
<1>1. Len(text) \in Nat /\ Len(old) \in Nat
  OBVIOUS
<1>2. Occurrences(text, old) \subseteq 1..(Len(text) - Len(old) + 1)
  BY DEF Occurrences
<1> QED
  BY <1>1, <1>2 DEF Within

LEMMA CountedSays ==
  ASSUME NEW S, NEW text \in Seq(S), NEW old \in Seq(S)
  PROVE  Leftmost(Counted(text, old), Occurrences(text, old), Len(old))
<1> DEFINE n == Len(text) + 1
           m == Len(old)
           Occ == Occurrences(text, old)
           h == CHOOSE f : Counting(f, n, m, Occ)
<1>1. n \in Nat /\ m \in Nat /\ Occ \in SUBSET (1..n)
  BY OccurrencesFit DEF Within
<1>2. Counted(text, old) = h[n]
  BY DEF Counted, Counting
<1> HIDE DEF n, m, Occ
<1>3. \E f : Counting(f, n, m, Occ)
  BY <1>1, CountingExists
<1>4. Counting(h, n, m, Occ)
  BY <1>3
<1> HIDE DEF h
<1>5. Leftmost(h[n], Occ, m)
  BY <1>1, <1>4, CountingSays
<1> QED
  BY <1>2, <1>5 DEF Occ, m

(* It counts none if there is none, and more than one if two are apart.      *)
LEMMA CountSays ==
  ASSUME NEW S, NEW text \in Seq(S), NEW old \in Seq(S)
  PROVE  /\ Counted(text, old) = {} => Occurrences(text, old) = {}
         /\ Cardinality(Counted(text, old)) > 1
              <=> \E i, j \in Occurrences(text, old) : i < j /\ i + Len(old) <= j
<1> DEFINE found == Counted(text, old)
           Occ == Occurrences(text, old)
           m == Len(old)
           n == Len(text) + 1
<1>1. /\ found \subseteq Occ
      /\ \A i \in Occ : i \in found <=> \A j \in found : j < i => j + m <= i
  BY CountedSays DEF Leftmost
<1>2. m \in Nat /\ n \in Nat /\ Occ \subseteq 1..n
  BY OccurrencesFit DEF Within
<1> HIDE DEF found, Occ, m, n
<1>3. IsFiniteSet(found)
  <2>1. IsFiniteSet(1..n)
    BY <1>2, FS_Interval
  <2>2. found \subseteq 1..n
    BY <1>1, <1>2
  <2> QED
    BY <2>1, <2>2, FS_Subset
<1>4. Cardinality(found) \in Nat
  BY <1>3, FS_CardinalityType
<1>5. found = {} => Occ = {}
  BY <1>1
<1>6. ASSUME NEW i \in Occ, NEW j \in Occ, i < j, i + m <= j
      PROVE  Cardinality(found) > 1
  <2>1. SUFFICES ASSUME Cardinality(found) <= 1 PROVE FALSE
    BY <1>4
  <2>2. \A x, y \in found : x = y
    <3>1. CASE Cardinality(found) = 0
      BY <1>3, <3>1, FS_EmptySet
    <3>2. CASE Cardinality(found) = 1
      BY <1>3, <3>2, FS_Singleton
    <3> QED
      BY <1>4, <2>1, <3>1, <3>2
  <2>3. PICK x \in found : x <= i /\ i <= x + m
    <3>1. CASE i \in found
      BY <1>2, <3>1
    <3>2. CASE i \notin found
      <4>1. PICK y \in found : y < i /\ ~(y + m <= i)
        BY <1>1, <3>2
      <4> QED
        BY <1>1, <1>2, <4>1
    <3> QED
      BY <3>1, <3>2
  <2>4. x \in 1..n /\ i \in 1..n /\ j \in 1..n
    BY <1>1, <1>2
  <2>5. x + m <= j /\ x # j
    BY <1>2, <1>6, <2>3, <2>4
  <2>6. \A y \in found : y < j => y + m <= j
    BY <2>2, <2>3, <2>5
  <2>7. j \in found
    BY <1>1, <2>6
  <2> QED
    BY <2>2, <2>3, <2>5, <2>7
<1>7. ASSUME Cardinality(found) > 1
      PROVE  \E i, j \in Occ : i < j /\ i + m <= j
  <2>1. PICK x \in found : TRUE
    BY <1>3, <1>4, <1>7, FS_EmptySet
  <2>2. PICK y \in found : y # x
    <3>1. SUFFICES ASSUME found = {x} PROVE FALSE
      BY <2>1
    <3>2. Cardinality({x}) = 1
      BY FS_Singleton
    <3> QED
      BY <1>7, <3>1, <3>2
  <2>3. x \in Occ /\ y \in Occ /\ x \in 1..n /\ y \in 1..n
    BY <1>1, <1>2, <2>1, <2>2
  <2>4. CASE x < y
    BY <1>1, <2>1, <2>2, <2>3, <2>4
  <2>5. CASE y < x
    BY <1>1, <2>1, <2>2, <2>3, <2>5
  <2> QED
    BY <1>2, <2>2, <2>3, <2>4, <2>5
<1> QED
  BY <1>5, <1>6, <1>7 DEF found, Occ, m

(* The recursion of Replacement: the rewriting from left to right goes on     *)
(* behind an old string that it finds, or else behind one character.        *)
IsRewriting(f, text, m, hits, new, gap) ==
  \A i \in 1..(Len(text) + 1) :
    f[i] = IF i > Len(text) THEN gap
           ELSE IF i \in hits THEN new \o f[i + m]
           ELSE gap \o <<text[i]>> \o f[i + 1]

(* Where the rewriting finds the old string, it goes on behind it.           *)
Moves(hits, n, m) == \A i \in hits : i \in 1..n /\ m > 0 /\ i + m <= n + 1

(* k pieces of text.                                                         *)
SeqsOf(k, S) == [1..k -> Seq(S)]

LEMMA RewritingExists ==
  ASSUME NEW S, NEW text \in Seq(S), NEW m \in Nat, NEW hits, Moves(hits, Len(text), m),
         NEW new \in Seq(S), NEW gap \in Seq(S)
  PROVE  \E f : f \in SeqsOf(Len(text) + 1, S) /\ IsRewriting(f, text, m, hits, new, gap)
<1> DEFINE n == Len(text)
           From(d) == (n + 1 - d)..(n + 1)
           Body(f, i) == IF i > n THEN gap
                         ELSE IF i \in hits THEN new \o f[i + m]
                         ELSE gap \o <<text[i]>> \o f[i + 1]
           Solves(f, d) == \A i \in From(d) : f[i] = Body(f, i)
           Q == {d \in 0..n : \E f \in [From(d) -> Seq(S)] : Solves(f, d)}
<1>1. n \in Nat /\ Moves(hits, n, m)
  OBVIOUS
<1>2. 0 \in Q
  <2> DEFINE f == [i \in From(0) |-> gap]
  <2>1. f \in [From(0) -> Seq(S)]
    OBVIOUS
  <2>2. ASSUME NEW i \in From(0) PROVE f[i] = Body(f, i)
    <3>1. i > n
      BY <1>1
    <3> QED
      BY <3>1
  <2> HIDE DEF f, Body, From
  <2>3. Solves(f, 0)
    BY <2>2
  <2> HIDE DEF Solves
  <2>4. 0 \in 0..n
    BY <1>1
  <2> QED
    BY <2>1, <2>3, <2>4
<1>3. ASSUME NEW d \in 0..(n - 1), d \in Q
      PROVE  d + 1 \in Q
  <2>1. PICK g \in [From(d) -> Seq(S)] : Solves(g, d)
    BY <1>3
  <2> DEFINE p == n - d
             f == [i \in From(d + 1) |-> IF i = p THEN Body(g, p) ELSE g[i]]
  <2>2. /\ p \in 1..n /\ p + 1 \in From(d) /\ p \notin From(d)
        /\ From(d + 1) = From(d) \cup {p}
        /\ \A i \in From(d) : i >= p + 1
    BY <1>1
  <2>3. Body(g, p) \in Seq(S)
    <3>1. p \in hits => p + m \in From(d)
      BY <1>1, <2>2 DEF Moves
    <3>2. text[p] \in S /\ ~(p > n)
      BY <1>1, <2>2
    <3>3. g[p + 1] \in Seq(S) /\ (p \in hits => g[p + m] \in Seq(S))
      BY <2>2, <3>1
    <3>4. new \o g[p + m] \in Seq(S) \/ p \notin hits
      BY <3>3
    <3>5. gap \o <<text[p]>> \o g[p + 1] \in Seq(S)
      BY <3>2, <3>3
    <3> QED
      BY <3>2, <3>4, <3>5
  <2> HIDE DEF p, From, Body
  <2>4. f \in [From(d + 1) -> Seq(S)]
    BY <2>2, <2>3
  <2>5. \A i \in From(d) : f[i] = g[i]
    BY <2>2
  <2>6. f[p] = Body(g, p)
    BY <2>2
  <2> HIDE DEF f
  <2>7. ASSUME NEW i \in From(d + 1) PROVE Body(f, i) = Body(g, i)
    <3>1. i > n \/ i + 1 \in From(d)
      BY <1>1, <2>2 DEF From, p
    <3>2. i \in hits => i + m \in From(d)
      BY <1>1, <2>2 DEF From, p, Moves
    <3> QED
      BY <2>5, <3>1, <3>2 DEF Body
  <2>8. ASSUME NEW i \in From(d + 1) PROVE f[i] = Body(f, i)
    <3>1. CASE i = p
      BY <2>6, <2>7, <3>1
    <3>2. CASE i \in From(d)
      BY <2>1, <2>5, <2>7, <3>2
    <3> QED
      BY <2>2, <3>1, <3>2
  <2>9. d + 1 \in 0..n
    BY <1>1
  <2>10. Solves(f, d + 1)
    BY <2>8
  <2> HIDE DEF Solves
  <2> QED
    BY <2>4, <2>9, <2>10
<1>4. n \in Q
  <2> HIDE DEF Q, n
  <2> QED
    BY <1>1, <1>2, <1>3, UpTo
<1>5. From(n) = 1..(n + 1)
  BY <1>1
<1>6. PICK f \in [From(n) -> Seq(S)] : Solves(f, n)
  BY <1>4
<1>7. f \in SeqsOf(n + 1, S)
  BY <1>5, <1>6 DEF SeqsOf
<1>8. IsRewriting(f, text, m, hits, new, gap)
  BY <1>5, <1>6 DEF IsRewriting
<1> QED
  BY <1>7, <1>8

LEMMA Regrouped ==
  ASSUME NEW S, NEW x \in Seq(S), NEW y \in Seq(S), NEW z \in Seq(S),
         NEW u, NEW v, u = x \o y, v = y \o z
  PROVE  u \o z = x \o v
<1>1. (x \o y) \o z = x \o (y \o z)
  BY ConcatAssociative
<1> QED
  BY <1>1

(* strings.Replace writes, position by position, what the rewriting says:    *)
(* after i positions there is a k, behind all that was found so far, from   *)
(* which the rewriting has to go on.                                        *)
(* The loop of ReplacedAt, and what it puts at each position.                *)
IsWriting(w, k, here, kept) ==
  /\ w = [i \in 0..k |-> w[i]]
  /\ w[0] = <<>>
  /\ \A i \in 1..k : w[i] = w[i - 1] \o here[i] \o kept[i]

PutAt(here, kept, text, m, new, found) ==
  /\ \A i \in 1..(Len(text) + 1) : here[i] = IF i \in found THEN new ELSE <<>>
  /\ \A i \in 1..(Len(text) + 1) :
       kept[i] = IF i > Len(text) \/ \E j \in found : j <= i /\ i < j + m
                 THEN <<>> ELSE <<text[i]>>

LEMMA WrittenIsRewritten ==
  ASSUME NEW S, NEW text \in Seq(S), NEW m \in Nat, NEW new \in Seq(S), NEW gap \in Seq(S),
         NEW Occ, Within(Occ, Len(text), m), NEW found, Leftmost(found, Occ, m),
         m = 0 => gap = new /\ Occ = 1..(Len(text) + 1),
         m # 0 => gap = <<>>,
         NEW hits, hits = {i \in Occ : m > 0},
         NEW f, f \in SeqsOf(Len(text) + 1, S), IsRewriting(f, text, m, hits, new, gap),
         NEW here, NEW kept, PutAt(here, kept, text, m, new, found),
         NEW w, IsWriting(w, Len(text) + 1, here, kept)
  PROVE  w[Len(text) + 1] = f[1]
<1> DEFINE n == Len(text)
           Resumes(i, k) == /\ \A j \in found : j <= i => j + m <= k
                            /\ k = i + 1 \/ \E j \in found : j <= i /\ k = j + m
           Good(i, k) == Resumes(i, k) /\ w[i] \o f[k] = f[1]
           Q == {i \in 0..n : w[i] \in Seq(S) /\ \E k \in (i + 1)..(n + 1) : Good(i, k)}
<1>0. /\ Occ \subseteq 1..(n + 1) /\ found \subseteq Occ
      /\ \A i \in Occ : i + m <= n + 1
      /\ \A i \in Occ : i \in found <=> \A j \in found : j < i => j + m <= i
  BY DEF Within, Leftmost
<1>9. /\ f \in [1..(n + 1) -> Seq(S)]
      /\ \A i \in 1..(n + 1) : f[i] = IF i > n THEN gap
                                      ELSE IF m > 0 /\ i \in Occ THEN new \o f[i + m]
                                      ELSE gap \o <<text[i]>> \o f[i + 1]
  BY DEF SeqsOf, IsRewriting
<1>10. /\ w[0] = <<>>
       /\ \A i \in 1..(n + 1) : w[i] = w[i - 1] \o here[i] \o kept[i]
       /\ \A i \in 1..(n + 1) : here[i] = IF i \in found THEN new ELSE <<>>
       /\ \A i \in 1..(n + 1) : kept[i] = IF i > n \/ \E j \in found : j <= i /\ i < j + m
                                           THEN <<>> ELSE <<text[i]>>
  BY DEF IsWriting, PutAt
<1> USE <1>0, <1>9, <1>10
<1>1. n \in Nat /\ found \subseteq 1..(n + 1) /\ \A i \in 1..n : <<text[i]>> \in Seq(S)
  OBVIOUS
<1>2. 0 \in Q
  <2>1. 1 \in 1..(n + 1) /\ 0 \in 0..n /\ 1 \in (0 + 1)..(n + 1)
    BY <1>1
  <2>2. w[0] \in Seq(S) /\ w[0] \o f[1] = f[1]
    BY <2>1, ConcatEmptySeq
  <2>3. Resumes(0, 1)
    BY <1>1
  <2> QED
    BY <2>1, <2>2, <2>3
<1>3. ASSUME NEW i \in 0..(n - 1), i \in Q
      PROVE  i + 1 \in Q
  <2>1. PICK k \in (i + 1)..(n + 1) : Good(i, k)
    BY <1>3
  <2>2. w[i] \in Seq(S)
    BY <1>3
  <2> DEFINE p == i + 1
  <2>3. p \in 1..n /\ p \in 1..(n + 1) /\ p \in 0..n /\ p - 1 = i /\ ~(p > n)
    BY <1>1
  <2>4. w[p] = w[i] \o here[p] \o kept[p]
    BY <2>3
  <2>5. \A j \in found : j \in Nat /\ (j <= p <=> j <= i \/ j = p) /\ (j <= i <=> j < p)
    BY <1>1
  <2> HIDE DEF p, Q, Resumes, Good
  <2>6. SUFFICES w[p] \in Seq(S) /\ \E l \in (p + 1)..(n + 1) : Good(p, l)
    BY <2>3 DEF Q, p
  <2>7. CASE k = p
    <3>1. \A j \in found : j < p => j + m <= p
      BY <2>1, <2>5, <2>7 DEF Good, Resumes
    <3>2. p \in Occ => p \in found
      BY <3>1
    <3>3. w[i] \o f[p] = f[1]
      BY <2>1, <2>7 DEF Good
    <3>4. CASE m > 0 /\ p \in Occ
      <4>1. here[p] = new /\ kept[p] = <<>>
        <5>1. p \in found /\ p <= p /\ p < p + m
          BY <2>3, <3>2, <3>4
        <5>2. \E j \in found : j <= p /\ p < j + m
          BY <5>1
        <5> QED
          BY <2>3, <5>1, <5>2
      <4>2. w[p] = w[i] \o new /\ w[p] \in Seq(S)
        <5>1. w[i] \o new \in Seq(S)
          BY <2>2, ConcatProperties
        <5> QED
          BY <2>4, <4>1, <5>1, ConcatEmptySeq
      <4>3. p + m \in (p + 1)..(n + 1) /\ p + m \in 1..(n + 1)
        BY <2>3, <3>4
      <4>4. f[p] = new \o f[p + m] /\ f[p + m] \in Seq(S)
        BY <2>3, <3>4, <4>3
      <4>5. w[p] \o f[p + m] = f[1]
        <5>1. w[p] \o f[p + m] = w[i] \o f[p]
          <6> DEFINE x == w[i]
                     z == f[p + m]
                     u == w[p]
                     v == f[p]
          <6>1. x \in Seq(S) /\ new \in Seq(S) /\ z \in Seq(S)
            BY <2>2, <4>4
          <6>2. u = x \o new /\ v = new \o z
            BY <4>2, <4>4
          <6> SUFFICES u \o z = x \o v
            OBVIOUS
          <6> HIDE DEF u, v, x, z
          <6> QED
            BY ONLY <6>1, <6>2, Regrouped, SMTT(60)
        <5> QED
          BY <3>3, <5>1
      <4>6. Resumes(p, p + m)
        <5>1. \A j \in found : j <= p => j + m <= p + m
          BY <2>3, <2>5
        <5>2. p \in found /\ p <= p
          BY <2>3, <3>2, <3>4
        <5> QED
          BY <5>1, <5>2 DEF Resumes
      <4> QED
        BY <4>2, <4>3, <4>5, <4>6 DEF Good
    <3>5. CASE ~(m > 0 /\ p \in Occ)
      <4> DEFINE char == <<text[p]>>
      <4>1. here[p] = gap
        <5>1. CASE m = 0
          BY <2>3, <3>2, <5>1
        <5>2. CASE m # 0
          <6>1. m > 0
            BY <5>2
          <6>2. p \notin found
            BY <3>5, <6>1
          <6> QED
            BY <2>3, <5>2, <6>2
        <5> QED
          BY <5>1, <5>2
      <4>2. ~\E j \in found : j <= p /\ p < j + m
        BY <2>3, <2>5, <3>1, <3>5
      <4>3. kept[p] = char /\ char \in Seq(S)
        BY <1>1, <2>3, <4>2
      <4>4. f[p] = gap \o char \o f[p + 1] /\ f[p + 1] \in Seq(S)
        <5>1. f[p] = gap \o char \o f[p + 1]
          BY <2>3, <3>5
        <5>2. p + 1 \in 1..(n + 1)
          BY <2>3
        <5> QED
          BY <5>1, <5>2
      <4> HIDE DEF char
      <4>5. gap \o char \in Seq(S)
        BY <4>3, ConcatProperties
      <4>6. w[p] = w[i] \o (gap \o char) /\ w[p] \in Seq(S)
        <5>1. (w[i] \o gap) \o char = w[i] \o (gap \o char)
          <6> DEFINE x == w[i]
          <6>1. x \in Seq(S) /\ gap \in Seq(S) /\ char \in Seq(S)
            BY <2>2, <4>3
          <6> SUFFICES (x \o gap) \o char = x \o (gap \o char)
            OBVIOUS
          <6> HIDE DEF x
          <6> QED
            BY ONLY <6>1, SMTT(60)
        <5>2. w[i] \o (gap \o char) \in Seq(S)
          BY <2>2, <4>5, ConcatProperties
        <5> QED
          BY <2>4, <4>1, <4>3, <5>1, <5>2
      <4>7. w[p] \o f[p + 1] = f[1]
        <5>1. w[p] \o f[p + 1] = w[i] \o f[p]
          <6> DEFINE x == w[i]
                     y == gap \o char
                     z == f[p + 1]
                     u == w[p]
                     v == f[p]
          <6>1. x \in Seq(S) /\ y \in Seq(S) /\ z \in Seq(S)
            BY <2>2, <4>4, <4>5
          <6>2. u = x \o y /\ v = y \o z
            BY <4>4, <4>6
          <6> SUFFICES u \o z = x \o v
            OBVIOUS
          <6> HIDE DEF u, v, x, y, z
          <6> QED
            BY ONLY <6>1, <6>2, Regrouped, SMTT(60)
        <5> QED
          BY <3>3, <5>1
      <4>8. Resumes(p, p + 1)
        <5>1. \A j \in found : j <= p => j + m <= p + 1
          BY <2>3, <2>5, <4>2
        <5> QED
          BY <5>1 DEF Resumes
      <4>9. p + 1 \in (p + 1)..(n + 1)
        BY <2>3
      <4> QED
        BY <4>6, <4>7, <4>8, <4>9 DEF Good
    <3> QED
      BY <3>4, <3>5
  <2>8. CASE k # p
    <3>1. PICK j \in found : j <= i /\ k = j + m
      BY <2>1, <2>8 DEF p, Good, Resumes
    <3>2. k > p /\ k \in (p + 1)..(n + 1)
      BY <2>3, <2>8 DEF p
    <3>3. p \notin found
      BY <2>3, <2>5, <3>1, <3>2
    <3>4. here[p] = <<>> /\ kept[p] = <<>>
      BY <2>3, <2>5, <3>1, <3>2, <3>3
    <3>5. w[p] = w[i]
      BY <2>2, <2>4, <3>4, ConcatEmptySeq
    <3>6. Resumes(p, k)
      <4>1. \A l \in found : l <= p => l <= i
        BY <2>5, <3>3
      <4>2. \A l \in found : l <= i => l + m <= k
        BY <2>1 DEF Good, Resumes
      <4>3. j <= p
        BY <2>5, <3>1
      <4> QED
        BY <3>1, <4>1, <4>2, <4>3 DEF Resumes
    <3> QED
      BY <2>1, <2>2, <3>2, <3>5, <3>6 DEF Good
  <2> QED
    BY <2>7, <2>8
<1>4. n \in Q
  <2> HIDE DEF Q, n
  <2> QED
    BY <1>1, <1>2, <1>3, UpTo
<1>5. w[n] \in Seq(S) /\ w[n] \o f[n + 1] = f[1]
  <2> HIDE DEF Resumes
  <2>1. (n + 1)..(n + 1) = {n + 1}
    BY <1>1
  <2> QED
    BY <1>4, <2>1
<1>6. w[n + 1] = w[n] \o here[n + 1] \o kept[n + 1] /\ kept[n + 1] = <<>> /\ f[n + 1] = gap
  <2>1. n + 1 \in 1..(n + 1) /\ n + 1 > n /\ (n + 1) - 1 = n
    BY <1>1
  <2> QED
    BY <2>1
<1>7. here[n + 1] = gap
  <2>1. CASE m = 0
    <3>1. n + 1 \in Occ /\ \A j \in found : j < n + 1 => j + m <= n + 1
      BY <1>1, <2>1
    <3> QED
      BY <1>1, <2>1, <3>1
  <2>2. CASE m # 0
    <3>1. n + 1 \notin Occ
      BY <1>1, <2>2
    <3> QED
      BY <1>1, <2>2, <3>1
  <2> QED
    BY <2>1, <2>2
<1>8. w[n + 1] = w[n] \o gap
  BY <1>5, <1>6, <1>7, ConcatEmptySeq, ConcatProperties
<1> QED
  BY <1>5, <1>6, <1>8

LEMMA PartOfRest ==
  ASSUME NEW S, NEW text \in Seq(S), NEW i \in 1..Len(text), NEW m \in Nat,
         m <= Len(text) - i + 1
  PROVE  SubSeq(SubSeq(text, i, Len(text)), 1, m) = SubSeq(text, i, i + m - 1)
<1> DEFINE n == Len(text)
           rest == SubSeq(text, i, n)
           left == SubSeq(rest, 1, m)
           right == SubSeq(text, i, i + m - 1)
<1>1. n \in Nat /\ i \in 1..n /\ m <= n - i + 1
  OBVIOUS
<1>2. rest \in Seq(S) /\ Len(rest) = n - i + 1
  BY <1>1
<1>3. \A j \in 1..(n - i + 1) : rest[j] = text[i + j - 1]
  BY <1>1
<1>4. right \in Seq(S) /\ Len(right) = m /\ \A j \in 1..m : right[j] = text[i + j - 1]
  <2>1. i + m - 1 <= n /\ i + m - 1 \in Int /\ (i + m - 1) - i + 1 = m
    BY <1>1
  <2> DEFINE last == i + m - 1
  <2>2. \A j \in i..last : j \in 1..n
    BY <1>1, <2>1
  <2> HIDE DEF last
  <2>3. /\ last \in Int /\ last - i + 1 = m /\ \A j \in i..last : text[j] \in S
    BY <2>1, <2>2 DEF last
  <2>4. SubSeq(text, i, last) = [j \in 1..m |-> text[i + j - 1]]
    BY <1>1, <2>3
  <2>5. \A j \in 1..m : text[i + j - 1] \in S
    BY <1>1
  <2> QED
    BY <2>4, <2>5 DEF last
<1> HIDE DEF rest
<1>5. left \in Seq(S) /\ Len(left) = m /\ \A j \in 1..m : left[j] = rest[j]
  <2>1. SubSeq(rest, 1, m) = [j \in 1..m |-> rest[j]]
    BY <1>1, <1>2
  <2>2. \A j \in 1..m : rest[j] \in S
    BY <1>1, <1>2
  <2> QED
    BY <2>1, <2>2
<1>6. \A j \in 1..m : left[j] = right[j]
  BY <1>1, <1>3, <1>4, <1>5
<1> HIDE DEF left, right
<1>7. left = right
  BY <1>4, <1>5, <1>6, SeqEqual
<1> QED
  BY <1>7 DEF left, right, rest, n

LEMMA PrefixIsOccurrence ==
  ASSUME NEW S, NEW text \in Seq(S), NEW old \in Seq(S), NEW i \in 1..Len(text)
  PROVE  IsPrefix(old, SubSeq(text, i, Len(text))) <=> i \in Occurrences(text, old)
<1> DEFINE n == Len(text)
           m == Len(old)
           rest == SubSeq(text, i, n)
<1>1. n \in Nat /\ m \in Nat /\ i \in 1..n
  OBVIOUS
<1>2. rest \in Seq(S) /\ Len(rest) = n - i + 1
  BY <1>1
<1>3. SubSeq(old, 1, m) = old
  BY SubSeqFull
<1>4. m <= n - i + 1 <=> i \in 1..(n - m + 1)
  BY <1>1
<1>5. ASSUME m <= n - i + 1
      PROVE  SubSeq(rest, 1, m) = SubSeq(text, i, i + m - 1)
  BY <1>1, <1>5, PartOfRest
<1> HIDE DEF rest, m, n
<1>6. IsPrefix(old, rest) <=> m <= n - i + 1 /\ SubSeq(rest, 1, m) = old
  BY <1>2, <1>3 DEF IsPrefix, m
<1>7. i \in Occurrences(text, old) <=> i \in 1..(n - m + 1) /\ SubSeq(text, i, i + m - 1) = old
  BY DEF Occurrences, n, m
<1> QED
  BY <1>4, <1>5, <1>6, <1>7 DEF rest, n

(* There is only one.                                                        *)
LEMMA RewritingIsUnique ==
  ASSUME NEW S, NEW text \in Seq(S), NEW m \in Nat, NEW hits, Moves(hits, Len(text), m),
         NEW new, NEW gap, NEW f, IsRewriting(f, text, m, hits, new, gap),
         NEW g, IsRewriting(g, text, m, hits, new, gap)
  PROVE  \A i \in 1..(Len(text) + 1) : f[i] = g[i]
<1> DEFINE n == Len(text)
<1>0. n \in Nat /\ \A i \in hits : m > 0 /\ i + m <= n + 1
  BY DEF Moves
<1>5. ASSUME NEW i \in 1..(n + 1)
      PROVE  /\ i > n => f[i] = g[i]
             /\ ~(i > n) /\ i \in hits => f[i] = new \o f[i + m] /\ g[i] = new \o g[i + m]
             /\ ~(i > n) /\ i \notin hits =>
                  f[i] = gap \o <<text[i]>> \o f[i + 1] /\ g[i] = gap \o <<text[i]>> \o g[i + 1]
  BY DEF IsRewriting
<1> HIDE DEF n
<1> DEFINE From(d) == (n + 1 - d)..(n + 1)
           Same(d) == \A i \in From(d) : i >= 1 => f[i] = g[i]
           Q == {d \in 0..n : Same(d)}
<1>1. 0 \in Q
  <2>1. From(0) = {n + 1} /\ n + 1 \in 1..(n + 1) /\ n + 1 > n
    BY <1>0
  <2>2. f[n + 1] = g[n + 1]
    BY <1>5, <2>1
  <2>3. 0 \in 0..n
    BY <1>0
  <2> HIDE DEF From
  <2> QED
    BY <2>1, <2>2, <2>3
<1>2. ASSUME NEW d \in 0..(n - 1), d \in Q
      PROVE  d + 1 \in Q
  <2> DEFINE p == n - d
  <2>1. /\ p \in 1..(n + 1) /\ ~(p > n) /\ p + 1 \in From(d) /\ p + 1 >= 1
        /\ From(d + 1) = From(d) \cup {p} /\ d + 1 \in 0..n
        /\ p \in hits => p + m \in From(d) /\ p + m >= 1
    BY <1>0
  <2>2. Same(d)
    BY <1>2
  <2> HIDE DEF p, From, Q
  <2>3. f[p + 1] = g[p + 1] /\ (p \in hits => f[p + m] = g[p + m])
    BY <2>1, <2>2
  <2>4. f[p] = g[p]
    BY <1>5, <2>1, <2>3
  <2> QED
    BY <2>1, <2>2, <2>4 DEF Q
<1>3. n \in Q
  <2> HIDE DEF Q
  <2> QED
    BY <1>0, <1>1, <1>2, UpTo
<1>4. From(n) = 1..(n + 1)
  BY <1>0
<1> HIDE DEF From
<1> QED
  BY <1>3, <1>4 DEF n

(* What goes before every character: the new string if the old one is empty. *)
Gap(old, new) == IF old = <<>> THEN new ELSE <<>>

(* Where an old string that is not empty stands.                            *)
OldAt(text, old) == {i \in Occurrences(text, old) : Len(old) > 0}

LEMMA OldMoves ==
  ASSUME NEW S, NEW text \in Seq(S), NEW old \in Seq(S)
  PROVE  Moves(OldAt(text, old), Len(text), Len(old))
<1> DEFINE Occ == Occurrences(text, old)
           n == Len(text)
           m == Len(old)
<1>1. n \in Nat /\ m \in Nat
  OBVIOUS
<1>2. Occ \subseteq 1..(n + 1) /\ \A i \in Occ : i + m <= n + 1
  BY OccurrencesFit DEF Within
<1> HIDE DEF Occ, n, m
<1>3. ASSUME NEW i \in Occ, m > 0
      PROVE  i \in 1..n
  BY <1>1, <1>2, <1>3
<1> QED
  BY <1>2, <1>3 DEF Moves, OldAt, Occ, n, m

LEMMA RewritingSays ==
  ASSUME NEW S, NEW text \in Seq(S), job.old \in Seq(S), job.new \in Seq(S)
  PROVE  \E f : /\ f \in SeqsOf(Len(text) + 1, S)
                /\ IsRewriting(f, text, Len(job.old), OldAt(text, job.old), job.new,
                               Gap(job.old, job.new))
                /\ Replacement(text) = f[1]
<1> DEFINE n == Len(text)
           old == job.old
           new == job.new
           m == Len(old)
           gap == Gap(old, new)
           hits == OldAt(text, old)
           Body(f, i) == IF i > n THEN gap
                         ELSE IF m > 0 /\ IsPrefix(old, SubSeq(text, i, n)) THEN new \o f[i + m]
                         ELSE gap \o <<text[i]>> \o f[i + 1]
           Loop(f) == f = [i \in 1..(n + 1) |-> Body(f, i)]
           h == CHOOSE f : Loop(f)
<1>1. /\ n \in Nat /\ m \in Nat /\ new \in Seq(S) /\ gap \in Seq(S) /\ old \in Seq(S)
      /\ text \in Seq(S)
  BY DEF Gap
<1>2. Moves(hits, n, m)
  BY OldMoves
<1>3. ASSUME NEW i \in 1..n
      PROVE  i \in hits <=> m > 0 /\ IsPrefix(old, SubSeq(text, i, n))
  <2>1. IsPrefix(old, SubSeq(text, i, n)) <=> i \in Occurrences(text, old)
    <3> HIDE DEF old
    <3> QED
      BY <1>1, PrefixIsOccurrence
  <2> QED
    BY <2>1 DEF OldAt
<1>4. Replacement(text) = h[1]
  BY DEF Replacement, Gap
<1> HIDE DEF m, old, new, gap, hits, Body, h
<1>5. PICK g : g \in SeqsOf(n + 1, S) /\ IsRewriting(g, text, m, hits, new, gap)
  BY <1>1, <1>2, RewritingExists
<1> HIDE DEF n
<1>6. ASSUME NEW f, NEW i \in 1..(n + 1)
      PROVE  Body(f, i) = IF i > n THEN gap
                          ELSE IF i \in hits THEN new \o f[i + m]
                          ELSE gap \o <<text[i]>> \o f[i + 1]
  <2>1. CASE i > n
    BY <2>1 DEF Body
  <2>2. CASE ~(i > n)
    <3>1. i \in 1..n
      BY <1>1, <2>2
    <3>2. i \in hits <=> m > 0 /\ IsPrefix(old, SubSeq(text, i, n))
      BY <1>3, <3>1
    <3> QED
      BY <2>2, <3>2 DEF Body
  <2> QED
    BY <2>1, <2>2
<1>7. Loop(g)
  <2>1. \A i \in 1..(n + 1) : g[i] = Body(g, i)
    BY <1>5, <1>6 DEF IsRewriting, n
  <2>2. g = [i \in 1..(n + 1) |-> g[i]]
    BY <1>5 DEF SeqsOf
  <2> QED
    BY <2>1, <2>2
<1>8. Loop(h)
  <2> HIDE DEF Loop
  <2> QED
    BY <1>7 DEF h
<1>9. IsRewriting(h, text, m, hits, new, gap)
  <2>1. \A i \in 1..(n + 1) : h[i] = Body(h, i)
    BY <1>8
  <2> HIDE DEF Loop
  <2> QED
    BY <1>6, <2>1 DEF IsRewriting, n
<1>10. h[1] = g[1]
  <2>1. \A i \in 1..(n + 1) : h[i] = g[i]
    BY <1>1, <1>2, <1>5, <1>9, RewritingIsUnique DEF n
  <2> QED
    BY <1>1, <2>1
<1> HIDE DEF Loop
<1>11. Replacement(text) = g[1]
  BY <1>4, <1>10
<1> QED
  BY <1>5, <1>11 DEF n, m, old, new, gap, hits

LEMMA WritingExists ==
  ASSUME NEW k \in Nat, NEW S, NEW here \in SeqsOf(k, S), NEW kept \in SeqsOf(k, S)
  PROVE  \E w : IsWriting(w, k, here, kept)
<1> DEFINE V == Seq(S)
           none == <<>>
           Add(x, i) == x \o here[i] \o kept[i]
           round == [i \in 1..k |-> [x \in V |-> Add(x, i)]]
<1>1. round \in Rounds(k, V)
  <2>1. ASSUME NEW i \in 1..k, NEW x \in V PROVE Add(x, i) \in V
    <3>1. here[i] \in Seq(S) /\ kept[i] \in Seq(S)
      BY DEF SeqsOf
    <3> QED
      BY <2>1, <3>1, ConcatProperties
  <2> HIDE DEF V, Add
  <2> QED
    BY <2>1 DEF Rounds
<1>2. none \in V /\ k \in Nat
  OBVIOUS
<1> HIDE DEF V, Add, round, none
<1>3. PICK w : IsLoop(w, k, V, none, round)
  BY ONLY <1>1, <1>2, LoopExists
<1>4. w \in [0..k -> V] /\ w[0] = none /\ \A i \in 1..k : w[i] = round[i][w[i - 1]]
  BY <1>3 DEF IsLoop
<1>5. ASSUME NEW i \in 1..k
      PROVE  w[i] = w[i - 1] \o here[i] \o kept[i]
  <2>1. i - 1 \in 0..k
    OBVIOUS
  <2>2. round[i][w[i - 1]] = Add(w[i - 1], i)
    BY <1>4, <2>1 DEF round
  <2> QED
    BY <1>4, <2>2 DEF Add
<1>6. w = [i \in 0..k |-> w[i]] /\ w[0] = <<>>
  BY <1>4 DEF none
<1>7. IsWriting(w, k, here, kept)
  BY <1>5, <1>6 DEF IsWriting
<1> QED
  BY <1>7

(* What strings.Replace makes of a text is what an edit is to make of it.     *)
LEMMA ReplacementIsRight ==
  ASSUME NEW S, NEW text \in Seq(S), job.old \in Seq(S), job.new \in Seq(S)
  PROVE  ReplacedAt(text, job.old, job.new, Counted(text, job.old)) = Replacement(text)
<1> DEFINE old == job.old
           new == job.new
           n == Len(text)
           m == Len(old)
           gap == Gap(old, new)
           hits == OldAt(text, old)
           Occ == Occurrences(text, old)
           found == Counted(text, old)
           Here(i) == IF i \in found THEN new ELSE <<>>
           Kept(i) == IF i > n \/ \E j \in found : j <= i /\ i < j + m THEN <<>> ELSE <<text[i]>>
           here == [i \in 1..(n + 1) |-> Here(i)]
           kept == [i \in 1..(n + 1) |-> Kept(i)]
           Loop(f) == f = [i \in 0..(n + 1) |->
                             IF i = 0 THEN <<>> ELSE f[i - 1] \o Here(i) \o Kept(i)]
           w == CHOOSE f : Loop(f)
<1>1. /\ n + 1 \in Nat /\ n \in Nat /\ m \in Nat /\ text \in Seq(S)
      /\ new \in Seq(S) /\ gap \in Seq(S) /\ old \in Seq(S)
  BY DEF Gap
<1>2. ReplacedAt(text, old, new, found) = w[n + 1]
  BY DEF ReplacedAt
<1>3. PICK f : /\ f \in SeqsOf(n + 1, S)
               /\ IsRewriting(f, text, m, hits, new, gap)
               /\ Replacement(text) = f[1]
  BY RewritingSays
<1> HIDE DEF old, new, m, gap, hits, Occ, found, w, Here, Kept, here, kept, Loop
<1>4. Within(Occ, n, m) /\ Leftmost(found, Occ, m)
  BY <1>1, OccurrencesFit, CountedSays DEF Occ, found, m
<1>5. hits = {i \in Occ : m > 0}
  BY DEF hits, OldAt, Occ, m
<1>6. m = 0 => gap = new /\ Occ = 1..(n + 1)
  <2>1. SUFFICES ASSUME m = 0 PROVE gap = new /\ Occ = 1..(n + 1)
    OBVIOUS
  <2>2. old = <<>>
    BY <1>1, <2>1, EmptySeq DEF m
  <2>3. Occ = {i \in 1..(n + 1) : SubSeq(text, i, i - 1) = old}
    <3>1. Occ = {i \in 1..(n - m + 1) : SubSeq(text, i, i + m - 1) = old}
      BY DEF Occ, Occurrences, m
    <3>2. n - m + 1 = n + 1 /\ \A i \in 1..(n + 1) : i + m - 1 = i - 1
      BY <1>1, <2>1
    <3> QED
      BY <3>1, <3>2
  <2>4. \A i \in 1..(n + 1) : SubSeq(text, i, i - 1) = <<>>
    BY <1>1, SubSeqEmpty
  <2> QED
    BY <2>2, <2>3, <2>4 DEF gap, Gap
<1>7. m # 0 => gap = <<>>
  BY DEF gap, Gap, m
<1>8. here \in SeqsOf(n + 1, S) /\ kept \in SeqsOf(n + 1, S)
  <2>1. \A i \in 1..(n + 1) : Here(i) \in Seq(S)
    BY <1>1 DEF Here
  <2>2. \A i \in 1..(n + 1) : Kept(i) \in Seq(S)
    BY <1>1 DEF Kept
  <2> QED
    BY <2>1, <2>2 DEF SeqsOf, here, kept
<1>9. \A i \in 1..(n + 1) : here[i] = Here(i) /\ kept[i] = Kept(i)
  BY DEF here, kept
<1>10. PutAt(here, kept, text, m, new, found)
  BY <1>9 DEF PutAt, Here, Kept
<1>11. IsWriting(w, n + 1, here, kept)
  <2>1. /\ 0 \in 0..(n + 1)
        /\ \A i \in 1..(n + 1) : i \in 0..(n + 1) /\ i # 0
        /\ \A i \in 0..(n + 1) : i = 0 \/ i \in 1..(n + 1)
    BY <1>1
  <2>2. PICK g : IsWriting(g, n + 1, here, kept)
    BY <1>1, <1>8, WritingExists
  <2>3. ASSUME NEW i \in 0..(n + 1)
        PROVE  g[i] = IF i = 0 THEN <<>> ELSE g[i - 1] \o Here(i) \o Kept(i)
    <3>1. CASE i = 0
      BY <2>2, <3>1 DEF IsWriting
    <3>2. CASE i \in 1..(n + 1)
      BY <1>9, <2>1, <2>2, <3>2 DEF IsWriting
    <3> QED
      BY <2>1, <3>1, <3>2
  <2>4. g = [i \in 0..(n + 1) |-> g[i]]
    BY <2>2 DEF IsWriting
  <2>5. Loop(g)
    BY <2>3, <2>4 DEF Loop
  <2>6. Loop(w)
    BY <2>5 DEF w
  <2>7. w = [i \in 0..(n + 1) |-> IF i = 0 THEN <<>> ELSE w[i - 1] \o Here(i) \o Kept(i)]
    BY <2>6 DEF Loop
  <2>8. w[0] = <<>> /\ \A i \in 1..(n + 1) : w[i] = w[i - 1] \o Here(i) \o Kept(i)
    BY <2>1, <2>7
  <2>9. w = [i \in 0..(n + 1) |-> w[i]]
    BY <2>7
  <2> QED
    BY <1>9, <2>8, <2>9 DEF IsWriting
<1>12. w[n + 1] = f[1]
  BY ONLY <1>1, <1>3, <1>4, <1>5, <1>6, <1>7, <1>10, <1>11, WrittenIsRewritten
<1> QED
  BY <1>2, <1>3, <1>12 DEF old, new, found

LEMMA EditSays ==
  ASSUME NEW text \in Seq(Letters), job.old \in Seq(Letters), job.new \in Seq(Letters), NEW edit,
         edit = Edited(text, job.old, job.new, job.replaceAll)
  PROVE  /\ edit.error = "none" => /\ edit.text = Replacement(text)
                                   /\ job.replaceAll \/ ~TwoApart(text)
         /\ edit.error = "not found" => Occurrences(text, job.old) = {}
         /\ edit.error = "ambiguous" => ~job.replaceAll /\ TwoApart(text)
<1> DEFINE found == Counted(text, job.old)
           written == ReplacedAt(text, job.old, job.new, found)
<1>1. /\ found = {} => Occurrences(text, job.old) = {}
      /\ Cardinality(found) > 1 <=> TwoApart(text)
  BY CountSays DEF TwoApart
<1>2. written = Replacement(text)
  BY ReplacementIsRight
<1>3. edit = IF found = {} THEN NotFound
             ELSE IF ~job.replaceAll /\ Cardinality(found) > 1 THEN Ambiguous
             ELSE [error |-> "none", text |-> written]
  BY DEF Edited
<1> HIDE DEF found, written
<1>4. CASE found = {}
  <2>1. edit = NotFound
    BY <1>3, <1>4
  <2>2. edit.error = "not found"
    BY ONLY <2>1 DEF NotFound
  <2> QED
    BY <1>1, <1>4, <2>2
<1>5. CASE found # {} /\ ~job.replaceAll /\ Cardinality(found) > 1
  <2>1. edit.error = "ambiguous"
    BY <1>3, <1>5 DEF Ambiguous
  <2> QED
    BY <1>1, <1>5, <2>1
<1>6. CASE found # {} /\ ~(~job.replaceAll /\ Cardinality(found) > 1)
  <2>1. edit.error = "none" /\ edit.text = written
    BY <1>3, <1>6
  <2> QED
    BY <1>1, <1>2, <1>6, <2>1
<1> QED
  BY <1>4, <1>5, <1>6

(* Until it is answered, an edit holds what is to become of a text that was   *)
(* in the file.                                                             *)
EditInv ==
  /\ job \in Jobs
  /\ job.tool = "file_edit" =>
       /\ versions \subseteq Seq(Letters) \cup {Absent}
       /\ pc # "answered" => disk \in versions
       /\ pc = "write" =>
            \E v \in versions \ {Absent} :
              inHand = Replacement(v) /\ (job.replaceAll \/ ~TwoApart(v))
  /\ EditIsExact

LEMMA SameEdit ==
  ASSUME job' = job, NEW v
  PROVE  Replacement(v)' = Replacement(v) /\ (TwoApart(v)' <=> TwoApart(v))
<1>1. Replacement(v)' = Replacement(v)
  BY DEF Replacement
<1>2. TwoApart(v)' <=> TwoApart(v)
  BY DEF TwoApart
<1> QED
  BY <1>1, <1>2

LEMMA NextKeepsEditInv ==
  ASSUME EditInv, [Next]_vars
  PROVE  EditInv'
<1>1. job \in Jobs
  BY DEF EditInv
<1>2. CASE UNCHANGED <<job, pc, disk, versions, inHand, resp>>
  <2>1. job' = job
    BY <1>2
  <2>2. \A v : Replacement(v)' = Replacement(v) /\ (TwoApart(v)' <=> TwoApart(v))
    BY <2>1, SameEdit
  <2>3. EditIsExact'
    BY <1>2, <2>2 DEF EditInv, EditIsExact, Answered, Doing
  <2> QED
    BY <1>2, <2>2, <2>3 DEF EditInv
<1>3. CASE job' = job /\ job.tool # "file_edit"
  BY <1>1, <1>3 DEF EditInv, EditIsExact, Answered, Doing
<1>4. ASSUME job.tool = "file_edit", EditReads \/ EditWrites \/ OthersWrite
      PROVE  EditInv'
  <2>1. job' = job
    BY <1>4 DEF EditReads, EditWrites, OthersWrite
  <2>2. \A v : Replacement(v)' = Replacement(v) /\ (TwoApart(v)' <=> TwoApart(v))
    BY <2>1, SameEdit
  <2>3. versions \subseteq Seq(Letters) \cup {Absent} /\ (pc # "answered" => disk \in versions)
    BY <1>4 DEF EditInv
  <2>4. job.old \in Seq(Letters) /\ job.new \in Seq(Letters)
    BY <1>1, <1>4, ToolsAssumption
  <2>5. CASE EditReads
    <3>1. /\ pc = "dispatch" /\ disk \in versions /\ disk' = disk /\ versions' = versions
      BY <2>3, <2>5 DEF EditReads, Doing, fileVars
    <3>2. CASE disk = Absent
      <4>1. pc' = "answered" /\ resp'.ok = FALSE /\ resp'.error = "read"
        BY <2>5, <3>2 DEF EditReads, Failure
      <4> QED
        BY <1>1, <2>1, <2>3, <3>1, <4>1 DEF EditInv, EditIsExact, Answered, Doing
    <3>3. CASE disk # Absent
      <4> DEFINE edit == Edited(disk, job.old, job.new, job.replaceAll)
      <4>1. disk \in Seq(Letters) /\ disk \in versions \ {Absent}
        BY <2>3, <3>1, <3>3
      <4>2. IF edit.error # "none" THEN Failure(edit.error)
                                   ELSE pc' = "write" /\ inHand' = edit.text
        BY <2>5, <3>3 DEF EditReads
      <4> HIDE DEF edit
      <4>3. /\ edit.error = "none" => /\ edit.text = Replacement(disk)
                                      /\ job.replaceAll \/ ~TwoApart(disk)
            /\ edit.error = "not found" => Occurrences(disk, job.old) = {}
            /\ edit.error = "ambiguous" => ~job.replaceAll /\ TwoApart(disk)
        BY <2>4, <4>1, EditSays DEF edit
      <4>4. CASE edit.error = "none"
        <5>1. pc' = "write" /\ inHand' = Replacement(disk) /\ (job.replaceAll \/ ~TwoApart(disk))
          BY <4>2, <4>3, <4>4
        <5>2. \E v \in versions' \ {Absent} :
                inHand' = Replacement(v)' /\ (job'.replaceAll \/ ~TwoApart(v)')
          BY <2>1, <2>2, <3>1, <4>1, <5>1
        <5>3. EditIsExact'
          BY <5>1 DEF EditIsExact, Answered, Doing
        <5> QED
          BY <1>1, <2>1, <2>3, <3>1, <5>2, <5>3 DEF EditInv
      <4>5. CASE edit.error # "none"
        <5>1. pc' = "answered" /\ resp'.ok = FALSE /\ resp'.error = edit.error
          BY <4>2, <4>5 DEF Failure
        <5>2. EditIsExact'
          BY <2>1, <2>2, <3>1, <4>1, <4>3, <5>1 DEF EditIsExact
        <5> QED
          BY <1>1, <2>1, <2>3, <3>1, <5>1, <5>2 DEF EditInv
      <4> QED
        BY <4>4, <4>5
    <3> QED
      BY <3>2, <3>3
  <2>6. CASE EditWrites
    <3>1. pc = "write" /\ versions' = versions /\ pc' = "answered"
      BY <2>6 DEF EditWrites, Doing, Success, Failure
    <3>2. \E v \in versions \ {Absent} :
            inHand = Replacement(v) /\ (job.replaceAll \/ ~TwoApart(v))
      BY <1>4, <3>1 DEF EditInv
    <3>3. \/ disk' = inHand /\ resp'.ok = TRUE /\ resp'.error = "none"
          \/ resp'.ok = FALSE /\ resp'.error = "write"
      BY <2>6 DEF EditWrites, Success, Failure
    <3>4. EditIsExact'
      BY <2>1, <2>2, <3>1, <3>2, <3>3 DEF EditIsExact
    <3> QED
      BY <1>1, <2>1, <2>3, <3>1, <3>4 DEF EditInv
  <2>7. CASE OthersWrite
    <3>1. /\ pc # "answered" /\ pc' = pc /\ inHand' = inHand
          /\ disk' \in Texts \cup {Absent} /\ versions' = versions \cup {disk'}
      BY <2>7 DEF OthersWrite
    <3>2. versions' \subseteq Seq(Letters) \cup {Absent} /\ disk' \in versions'
      BY <2>3, <3>1, ToolsAssumption
    <3>3. ASSUME pc' = "write"
          PROVE  \E v \in versions' \ {Absent} :
                   inHand' = Replacement(v)' /\ (job'.replaceAll \/ ~TwoApart(v)')
      <4>1. PICK v \in versions \ {Absent} :
              inHand = Replacement(v) /\ (job.replaceAll \/ ~TwoApart(v))
        BY <1>4, <3>1, <3>3 DEF EditInv
      <4>2. v \in versions' \ {Absent}
        BY <3>1
      <4> QED
        BY <2>1, <2>2, <3>1, <4>1, <4>2
    <3>4. EditIsExact'
      BY <3>1 DEF EditIsExact, Answered, Doing
    <3> QED
      BY <1>1, <2>1, <3>2, <3>3, <3>4 DEF EditInv
  <2> QED
    BY <1>4, <2>5, <2>6, <2>7
<1>5. CASE EditReads \/ EditWrites \/ OthersWrite
  <2>1. job.tool = "file_edit"
    BY <1>5 DEF EditReads, EditWrites, OthersWrite, Doing
  <2> QED
    BY <1>4, <1>5, <2>1
<1>6. CASE \/ DecodeCode \/ HandleUnknown \/ HandleShellExec \/ HandleProcesses
           \/ HandleRegistry \/ HandleFileRead \/ HandleGrep \/ GlobWalks \/ GlobSorts
           \/ FileChanges \/ FileVanishes
  <2>1. job' = job /\ job.tool # "file_edit"
    BY <1>6 DEF DecodeCode, HandleUnknown, HandleShellExec, HandleProcesses, HandleRegistry,
                HandleFileRead, HandleGrep, GlobWalks, GlobSorts, FileChanges, FileVanishes, Doing
  <2> QED
    BY <1>3, <2>1
<1>7. CASE UNCHANGED ToolVars \/ UNCHANGED vars
  BY <1>2, <1>7 DEF ToolVars, vars, fileVars
<1> QED
  BY <1>5, <1>6, <1>7 DEF Next, Dispatch

-----------------------------------------------------------------------------
(* The smallest and the largest of some numbers up to n.                     *)
LEMMA MinSays ==
  ASSUME NEW n \in Nat, NEW S \in SUBSET (0..n), S # {}
  PROVE  Min(S) \in S /\ \A k \in S : Min(S) <= k
<1> DEFINE N == {k \in 0..n : \A j \in S : j > k}
<1>1. SUFFICES \E i \in S : \A k \in S : i <= k
  BY DEF Min
<1>2. SUFFICES ASSUME \A i \in S : \E k \in S : k < i PROVE FALSE
  OBVIOUS
<1>3. 0 \in N
  BY <1>2
<1>4. ASSUME NEW k \in 0..(n - 1), k \in N PROVE k + 1 \in N
  <2>1. k + 1 \notin S
    BY <1>2, <1>4
  <2> QED
    BY <1>4, <2>1
<1>5. n \in N
  <2> HIDE DEF N
  <2> QED
    BY <1>3, <1>4, UpTo
<1>6. PICK j \in S : TRUE
  OBVIOUS
<1>7. j > n /\ j \in 0..n
  BY <1>5, <1>6
<1> QED
  BY <1>7

LEMMA MaxSays ==
  ASSUME NEW n \in Nat, NEW S \in SUBSET (0..n), S # {}
  PROVE  Max(S) \in S /\ \A k \in S : Max(S) >= k
<1> DEFINE M == {n - k : k \in S}
<1>1. M \in SUBSET (0..n) /\ M # {}
  <2>1. PICK k \in S : TRUE
    OBVIOUS
  <2>2. n - k \in M
    OBVIOUS
  <2>3. \A i \in S : n - i \in 0..n
    OBVIOUS
  <2> QED
    BY <2>2, <2>3
<1>2. Min(M) \in M /\ \A k \in M : Min(M) <= k
  <2> HIDE DEF M
  <2> QED
    BY <1>1, MinSays
<1>3. PICK i \in S : Min(M) = n - i
  BY <1>2
<1>4. ASSUME NEW k \in S PROVE i >= k
  <2>1. n - k \in M
    OBVIOUS
  <2>2. n - i <= n - k
    BY <1>2, <1>3, <2>1
  <2> QED
    BY <2>2
<1> QED
  BY <1>4 DEF Max

-----------------------------------------------------------------------------
(* What FlattenSeq makes of the first k of n sequences, for each k.          *)
IsConcat(f, n, s, S) ==
  /\ f \in [0..n -> Seq(S)]
  /\ f[0] = <<>>
  /\ \A i \in 1..n : f[i] = f[i - 1] \o s[i]

LEMMA ConcatExists ==
  ASSUME NEW S, NEW n \in Nat, NEW s \in SeqsOf(n, S)
  PROVE  \E f : IsConcat(f, n, s, S)
<1> DEFINE V == Seq(S)
           round == [i \in 1..n |-> [x \in V |-> x \o s[i]]]
           none == <<>>
<1>1. round \in Rounds(n, V) /\ none \in V
  <2>1. ASSUME NEW i \in 1..n, NEW x \in V PROVE x \o s[i] \in V
    <3>1. s[i] \in Seq(S)
      BY DEF SeqsOf
    <3> QED
      BY <3>1, ConcatProperties
  <2>2. none \in V
    OBVIOUS
  <2> HIDE DEF V, none
  <2> QED
    BY <2>1, <2>2 DEF Rounds
<1> HIDE DEF V, round, none
<1>2. PICK f : IsLoop(f, n, V, none, round)
  BY ONLY <1>1, n \in Nat, LoopExists
<1>3. f \in [0..n -> V] /\ f[0] = none /\ \A i \in 1..n : f[i] = round[i][f[i - 1]]
  BY <1>2 DEF IsLoop
<1>4. ASSUME NEW i \in 1..n PROVE f[i] = f[i - 1] \o s[i]
  <2>1. f[i - 1] \in V
    BY <1>3
  <2> QED
    BY <1>3, <2>1 DEF round
<1> QED
  BY <1>3, <1>4 DEF V, none, IsConcat

LEMMA FlattenSays ==
  ASSUME NEW S, NEW n \in Nat, NEW s \in SeqsOf(n, S),
         NEW f, IsConcat(f, n, s, S), NEW k \in 0..n,
         NEW t \in SeqsOf(k, S), \A i \in 1..k : t[i] = s[i]
  PROVE  FlattenSeq(t) = f[k]
<1> DEFINE Loop(g) == g = [i \in 1..k |-> IF i = 1 THEN t[i] ELSE g[i - 1] \o t[i]]
           h == CHOOSE g : Loop(g)
<1>0. k \in Nat /\ t \in Seq(Seq(S)) /\ Len(t) = k
  <2>1. t \in [1..k -> Seq(S)]
    BY DEF SeqsOf
  <2> QED
    BY <2>1, IsSequence
<1>1. CASE k = 0
  <2>1. t = <<>> /\ FlattenSeq(t) = t
    BY <1>0, <1>1 DEF FlattenSeq
  <2> QED
    BY <1>1, <2>1 DEF IsConcat
<1>2. CASE k # 0
  <2>1. FlattenSeq(t) = h[k]
    BY <1>0, <1>2 DEF FlattenSeq
  <2>2. ASSUME NEW i \in 1..k PROVE i \in 1..n /\ i - 1 \in 0..n /\ (i # 1 => i - 1 \in 1..k)
    OBVIOUS
  <2>3. Loop([i \in 1..k |-> f[i]])
    <3> DEFINE g == [i \in 1..k |-> f[i]]
    <3>1. ASSUME NEW i \in 1..k PROVE g[i] = IF i = 1 THEN t[i] ELSE g[i - 1] \o t[i]
      <4>1. f[i] = f[i - 1] \o t[i]
        BY <2>2 DEF IsConcat
      <4>2. CASE i = 1
        <5>1. t[i] \in Seq(S)
          BY <2>2 DEF SeqsOf
        <5>2. f[i - 1] = <<>>
          BY <4>2 DEF IsConcat
        <5>3. f[i] = t[i]
          BY <4>1, <5>1, <5>2, ConcatEmptySeq
        <5> QED
          BY <4>2, <5>3
      <4>3. CASE i # 1
        BY <2>2, <4>1, <4>3
      <4> QED
        BY <4>2, <4>3
    <3> QED
      BY <3>1
  <2>4. Loop(h)
    <3> HIDE DEF Loop
    <3> QED
      BY <2>3
  <2> HIDE DEF h
  <2> DEFINE Q == {i \in 0..k : i = 0 \/ h[i] = f[i]}
  <2>5. 0 \in Q
    BY <1>0
  <2>6. ASSUME NEW i \in 0..(k - 1), i \in Q PROVE i + 1 \in Q
    <3>0. i + 1 \in 1..k /\ (i + 1) - 1 = i /\ i \in Nat
      BY <1>0
    <3>1. f[i + 1] = f[i] \o s[i + 1] /\ f[0] = <<>>
      BY <2>2, <3>0 DEF IsConcat
    <3>2. h[i + 1] = IF i + 1 = 1 THEN t[i + 1] ELSE h[i] \o t[i + 1]
      BY <2>4, <3>0
    <3>3. t[i + 1] = s[i + 1] /\ s[i + 1] \in Seq(S)
      BY <2>2, <3>0 DEF SeqsOf
    <3>4. CASE i = 0
      <4>1. f[i + 1] = s[i + 1]
        BY <3>1, <3>3, <3>4, ConcatEmptySeq
      <4>2. h[i + 1] = s[i + 1]
        BY <3>2, <3>3, <3>4
      <4> QED
        BY <3>0, <4>1, <4>2
    <3>5. CASE i # 0
      <4>1. h[i] = f[i]
        BY <2>6, <3>5
      <4>2. i + 1 # 1
        BY <3>0, <3>5
      <4>3. h[i + 1] = h[i] \o t[i + 1]
        BY ONLY <3>2, <4>2, Zenon
      <4>4. h[i + 1] = f[i + 1]
        BY ONLY <3>1, <3>3, <4>1, <4>3, Zenon
      <4> QED
        BY <3>0, <4>4
    <3> QED
      BY <3>4, <3>5
  <2>7. k \in Q
    <3> HIDE DEF Q
    <3> QED
      BY <1>0, <2>5, <2>6, UpTo
  <2> QED
    BY <1>2, <2>1, <2>7
<1> QED
  BY <1>1, <1>2

LEMMA OneElement ==
  ASSUME NEW S, NEW c \in S
  PROVE  /\ <<c>> \in Seq(S) /\ Len(<<c>>) = 1 /\ <<c>>[1] = c
         /\ <<c>> \o <<c>> = <<c, c>>
<1> DEFINE u == <<c>>
           v == <<c, c>>
<1>1. u \in Seq(S) /\ Len(u) = 1 /\ u[1] = c
  OBVIOUS
<1>2. v \in Seq(S) /\ Len(v) = 2 /\ v[1] = c /\ v[2] = c
  OBVIOUS
<1> HIDE DEF u, v
<1>3. /\ u \o u \in Seq(S) /\ Len(u \o u) = 2
      /\ \A i \in 1..2 : (u \o u)[i] = IF i <= 1 THEN u[i] ELSE u[i - 1]
  BY <1>1, ConcatProperties
<1>4. \A i \in 1..2 : (u \o u)[i] = v[i]
  BY <1>1, <1>2, <1>3
<1>5. u \o u = v
  BY <1>2, <1>3, <1>4, SeqEqual
<1> QED
  BY <1>1, <1>5 DEF u, v

(* What Picked makes of the first elements of a sequence, for each number of  *)
(* them.                                                                    *)
IsPicking(g, n, s, at, S) ==
  /\ g \in [0..n -> Seq(S)]
  /\ g[0] = <<>>
  /\ \A i \in 1..n : g[i] = IF i \in at THEN g[i - 1] \o <<s[i]>> ELSE g[i - 1]

LEMMA PickingIsConcat ==
  ASSUME NEW S, NEW n \in Nat, NEW s \in [1..n -> S], NEW at
  PROVE  \E t \in SeqsOf(n, S) :
           /\ t = [i \in 1..n |-> IF i \in at THEN <<s[i]>> ELSE <<>>]
           /\ \A g : IsPicking(g, n, s, at, S) <=> IsConcat(g, n, t, S)
<1> DEFINE Part(i) == IF i \in at THEN <<s[i]>> ELSE <<>>
           t == [i \in 1..n |-> Part(i)]
<1>1. ASSUME NEW i \in 1..n PROVE Part(i) \in Seq(S)
  <2>1. s[i] \in S
    OBVIOUS
  <2>2. <<s[i]>> \in Seq(S) /\ <<>> \in Seq(S)
    BY <2>1, OneElement
  <2> QED
    BY <2>2
<1> HIDE DEF Part
<1>2. t \in SeqsOf(n, S)
  BY <1>1 DEF SeqsOf
<1>3. ASSUME NEW g, g \in [0..n -> Seq(S)], NEW i \in 1..n
      PROVE  (g[i] = g[i - 1] \o t[i])
               <=> (g[i] = IF i \in at THEN g[i - 1] \o <<s[i]>> ELSE g[i - 1])
  <2>1. g[i - 1] \in Seq(S) /\ t[i] = Part(i)
    BY <1>3
  <2>2. g[i - 1] \o <<>> = g[i - 1]
    BY <2>1, ConcatEmptySeq
  <2> QED
    BY <2>1, <2>2 DEF Part
<1>4. \A g : IsPicking(g, n, s, at, S) <=> IsConcat(g, n, t, S)
  <2> HIDE DEF t
  <2> QED
    BY <1>3 DEF IsPicking, IsConcat
<1> QED
  BY <1>2, <1>4 DEF Part

LEMMA PickingExists ==
  ASSUME NEW S, NEW n \in Nat, NEW s \in [1..n -> S], NEW at
  PROVE  \E g : IsPicking(g, n, s, at, S)
BY PickingIsConcat, ConcatExists

LEMMA PickedSays ==
  ASSUME NEW S, NEW n \in Nat, NEW s \in [1..n -> S], NEW at,
         NEW g, IsPicking(g, n, s, at, S)
  PROVE  Picked(s, at) = g[n]
<1>0. PICK t \in SeqsOf(n, S) :
             /\ t = [i \in 1..n |-> IF i \in at THEN <<s[i]>> ELSE <<>>]
             /\ \A x : IsPicking(x, n, s, at, S) <=> IsConcat(x, n, t, S)
  BY ONLY n \in Nat, s \in [1..n -> S], PickingIsConcat
<1>1. t = [i \in 1..n |-> IF i \in at THEN <<s[i]>> ELSE <<>>] /\ IsConcat(g, n, t, S)
  BY <1>0
<1>2. DOMAIN s = 1..n
  OBVIOUS
<1>3. Picked(s, at) = FlattenSeq(t)
  BY <1>1, <1>2 DEF Picked
<1>4. n \in 0..n
  OBVIOUS
<1> QED
  BY <1>1, <1>3, <1>4, FlattenSays

-----------------------------------------------------------------------------
(* The table that a query reads.                                             *)

LEMMA TrimmedIsText ==
  ASSUME NEW u \in Seq(Characters)
  PROVE  /\ Trimmed[u] \in Seq(Characters)
         /\ u # <<>> /\ u[1] # Blank /\ u[Len(u)] # Blank => Trimmed[u] = u
<1> DEFINE n == Len(u)
           inner == {i \in 1..n : u[i] # Blank}
<1>1. Trimmed[u] = IF inner = {} THEN <<>> ELSE SubSeq(u, Min(inner), Max(inner))
  BY DEF Trimmed
<1>2. n \in Nat /\ inner \in SUBSET (0..n) /\ \A i \in inner : i \in 1..n
  OBVIOUS
<1>3. inner # {} => /\ Min(inner) \in inner /\ \A k \in inner : Min(inner) <= k
                    /\ Max(inner) \in inner /\ \A k \in inner : Max(inner) >= k
  <2> HIDE DEF inner, n
  <2> QED
    BY <1>2, MinSays, MaxSays
<1>4. Trimmed[u] \in Seq(Characters)
  <2>1. CASE inner = {}
    BY <1>1, <2>1
  <2>2. CASE inner # {}
    <3>1. Min(inner) \in 1..n /\ Max(inner) \in 1..n
      BY <1>2, <1>3, <2>2
    <3>2. \A i \in Min(inner)..Max(inner) : u[i] \in Characters
      BY <3>1
    <3>3. SubSeq(u, Min(inner), Max(inner)) \in Seq(Characters)
      <4> HIDE DEF inner, n
      <4> QED
        BY <3>1, <3>2, SubSeqProperties
    <3> QED
      BY <1>1, <2>2, <3>3
  <2> QED
    BY <2>1, <2>2
<1>5. ASSUME u # <<>>, u[1] # Blank, u[n] # Blank
      PROVE  Trimmed[u] = u
  <2>1. 1 \in 1..n /\ n \in 1..n
    BY <1>5
  <2>2. 1 \in inner /\ n \in inner
    BY <1>5, <2>1
  <2>3. Min(inner) = 1 /\ Max(inner) = n
    <3> HIDE DEF inner, n
    <3>1. Min(inner) <= 1 /\ Max(inner) >= n /\ Min(inner) \in 1..n /\ Max(inner) \in 1..n
      BY <1>2, <1>3, <2>2
    <3> QED
      BY <1>2, <3>1
  <2>4. Trimmed[u] = SubSeq(u, 1, n)
    BY <1>1, <2>2, <2>3
  <2> QED
    BY <2>4, SubSeqFull
<1> QED
  BY <1>4, <1>5

Parse(fields, current, inQuotes) ==
  [fields |-> fields, current |-> current, inQuotes |-> inQuotes]

LEMMA CharacterSays ==
  ASSUME NEW fs \in Seq(Seq(Characters)), NEW cur \in Seq(Characters), NEW q \in BOOLEAN, NEW c \in Characters
  PROVE  ParseCharacter(c)[Parse(fs, cur, q)] =
           IF c = Quote THEN Parse(fs, cur, ~q)
           ELSE IF c = Comma /\ ~q THEN Parse(Append(fs, Trimmed[cur]), <<>>, q)
           ELSE Parse(fs, Append(cur, c), q)
<1> DEFINE s == Parse(fs, cur, q)
<1>1. s \in ParseState
  BY DEF Parse, ParseState
<1>2. s.fields = fs /\ s.current = cur /\ s.inQuotes = q
      /\ s = [fields |-> fs, current |-> cur, inQuotes |-> q]
  BY DEF Parse
<1>3. ParseCharacter(c)[s] =
        CASE c = Quote -> [s EXCEPT !.inQuotes = ~@]
          [] c = Comma /\ ~s.inQuotes ->
               [s EXCEPT !.fields = Append(@, Trimmed[s.current]), !.current = <<>>]
          [] OTHER -> [s EXCEPT !.current = Append(@, c)]
  BY <1>1 DEF ParseCharacter
<1> HIDE DEF s
<1>4. CASE c = Quote
  BY <1>2, <1>3, <1>4 DEF Parse, s, Quote, Comma
<1>5. CASE c # Quote /\ c = Comma /\ ~q
  BY <1>2, <1>3, <1>5 DEF Parse, s, Quote, Comma
<1>6. CASE c # Quote /\ ~(c = Comma /\ ~q)
  BY <1>2, <1>3, <1>6 DEF Parse, s
<1> QED
  BY <1>4, <1>5, <1>6 DEF s

LEMMA ParseStates ==
  /\ \A s \in ParseState : /\ s = Parse(s.fields, s.current, s.inQuotes)
                           /\ s.fields \in Seq(Seq(Characters)) /\ s.current \in Seq(Characters)
                           /\ s.inQuotes \in BOOLEAN
  /\ \A fs \in Seq(Seq(Characters)), cur \in Seq(Characters), q \in BOOLEAN :
       Parse(fs, cur, q) \in ParseState
BY DEF ParseState, Parse

LEMMA CharacterKeepsState ==
  ASSUME NEW s \in ParseState, NEW c \in Characters
  PROVE  ParseCharacter(c)[s] \in ParseState
<1> DEFINE fs == s.fields
           cur == s.current
           q == s.inQuotes
<1>1. /\ s = Parse(fs, cur, q)
      /\ fs \in Seq(Seq(Characters)) /\ cur \in Seq(Characters) /\ q \in BOOLEAN
  BY ParseStates
<1> HIDE DEF fs, cur, q
<1>2. /\ Append(fs, Trimmed[cur]) \in Seq(Seq(Characters)) /\ Append(cur, c) \in Seq(Characters)
      /\ <<>> \in Seq(Characters) /\ (~q) \in BOOLEAN
  <2>1. Trimmed[cur] \in Seq(Characters)
    BY <1>1, TrimmedIsText
  <2>2. Append(fs, Trimmed[cur]) \in Seq(Seq(Characters))
    BY <1>1, <2>1, AppendProperties
  <2>3. Append(cur, c) \in Seq(Characters)
    BY <1>1, AppendProperties
  <2>5. <<>> \in Seq(Characters)
    OBVIOUS
  <2>4. (~q) \in BOOLEAN
    BY <1>1
  <2> QED
    BY <2>2, <2>3, <2>4, <2>5
<1>3. ParseCharacter(c)[s] =
           IF c = Quote THEN Parse(fs, cur, ~q)
           ELSE IF c = Comma /\ ~q THEN Parse(Append(fs, Trimmed[cur]), <<>>, q)
           ELSE Parse(fs, Append(cur, c), q)
  BY <1>1, CharacterSays
<1> DEFINE done == Append(fs, Trimmed[cur])
           longer == Append(cur, c)
<1> HIDE DEF done, longer
<1>4. /\ Parse(fs, cur, ~q) \in ParseState
      /\ Parse(done, <<>>, q) \in ParseState
      /\ Parse(fs, longer, q) \in ParseState
  BY <1>1, <1>2, ParseStates DEF done, longer
<1>5. \/ ParseCharacter(c)[s] = Parse(fs, cur, ~q)
      \/ ParseCharacter(c)[s] = Parse(done, <<>>, q)
      \/ ParseCharacter(c)[s] = Parse(fs, longer, q)
  BY <1>3 DEF done, longer
<1> QED
  BY <1>4, <1>5

(* The states of the loop over a text.                                       *)
IsParsing(g, s, text) ==
  /\ g[0] = s
  /\ \A i \in 1..Len(text) : g[i] = ParseCharacter(text[i])[g[i - 1]]

LEMMA ParsingExists ==
  ASSUME NEW s \in ParseState, NEW text \in Seq(Characters)
  PROVE  \E g \in [0..Len(text) -> ParseState] : IsParsing(g, s, text)
<1> DEFINE n == Len(text)
           round == [i \in 1..n |-> [x \in ParseState |-> ParseCharacter(text[i])[x]]]
<1>1. n \in Nat /\ round \in Rounds(n, ParseState)
  <2>1. ASSUME NEW i \in 1..n, NEW x \in ParseState
        PROVE  ParseCharacter(text[i])[x] \in ParseState
    <3>1. text[i] \in Characters
      BY ElementOfSeq
    <3> QED
      BY <3>1, CharacterKeepsState
  <2> DEFINE After(i, x) == ParseCharacter(text[i])[x]
  <2> HIDE DEF After
  <2>2. \A i \in 1..n, x \in ParseState : After(i, x) \in ParseState
    BY <2>1 DEF After
  <2>3. round = [i \in 1..n |-> [x \in ParseState |-> After(i, x)]]
    BY DEF After
  <2> QED
    BY <2>2, <2>3 DEF Rounds
<1> HIDE DEF round
<1>2. PICK g : IsLoop(g, n, ParseState, s, round)
  BY ONLY <1>1, s \in ParseState, LoopExists
<1>3. g \in [0..n -> ParseState] /\ g[0] = s /\ \A i \in 1..n : g[i] = round[i][g[i - 1]]
  BY <1>2 DEF IsLoop
<1>4. ASSUME NEW i \in 1..n PROVE g[i] = ParseCharacter(text[i])[g[i - 1]]
  <2>1. g[i - 1] \in ParseState
    BY <1>3
  <2> QED
    BY <1>3, <2>1 DEF round
<1> QED
  BY <1>3, <1>4 DEF IsParsing

LEMMA ParsedSays ==
  ASSUME NEW s \in ParseState, NEW text \in Seq(Characters), NEW g, IsParsing(g, s, text)
  PROVE  ParsedFrom(s)[text] = g[Len(text)]
<1> DEFINE n == Len(text)
           Step(f, i) == IF i = 0 THEN s ELSE ParseCharacter(text[i])[f[i - 1]]
           Loop(f) == f = [i \in 0..n |-> Step(f, i)]
           h == CHOOSE f : Loop(f)
           j == [i \in 0..n |-> g[i]]
<1>1. n \in Nat /\ g[0] = s /\ \A i \in 1..n : g[i] = ParseCharacter(text[i])[g[i - 1]]
  BY DEF IsParsing
<1>2. Loop(j)
  <2>1. ASSUME NEW i \in 0..n PROVE j[i] = Step(j, i)
    <3>1. CASE i = 0
      BY <1>1, <3>1
    <3>2. CASE i # 0
      <4>1. i \in 1..n /\ i - 1 \in 0..n
        BY <3>2
      <4> QED
        BY <1>1, <3>2, <4>1
    <3> QED
      BY <3>1, <3>2
  <2> HIDE DEF Step
  <2> QED
    BY <2>1
<1>3. ParsedFrom(s)[text] = h[n]
  BY DEF ParsedFrom
<1>4. Loop(h)
  <2> HIDE DEF Loop
  <2> QED
    BY <1>2
<1> HIDE DEF h
<1>5. h[0] = s
  <2>1. 0 \in 0..n
    OBVIOUS
  <2> QED
    BY <1>4, <2>1
<1>6. ASSUME NEW i \in 1..n PROVE h[i] = ParseCharacter(text[i])[h[i - 1]]
  <2>1. i \in 0..n /\ i # 0
    OBVIOUS
  <2> QED
    BY <1>4, <2>1
<1> DEFINE S == {i \in 0..n : h[i] = g[i]}
<1>7. 0 \in S
  BY <1>1, <1>5
<1>8. ASSUME NEW k \in 0..(n - 1), k \in S PROVE k + 1 \in S
  <2>1. k + 1 \in 1..n /\ (k + 1) - 1 = k
    OBVIOUS
  <2>2. h[k + 1] = ParseCharacter(text[k + 1])[h[k]]
    BY <1>6, <2>1
  <2>3. g[k + 1] = ParseCharacter(text[k + 1])[g[k]]
    BY <1>1, <2>1
  <2> QED
    BY <1>8, <2>1, <2>2, <2>3
<1>9. n \in S
  <2> HIDE DEF S
  <2> QED
    BY <1>1, <1>7, <1>8, UpTo
<1> QED
  BY <1>3, <1>9

LEMMA ParsedInParts ==
  ASSUME NEW s \in ParseState, NEW u \in Seq(Characters), NEW v \in Seq(Characters)
  PROVE  /\ ParsedFrom(s)[u] \in ParseState
         /\ ParsedFrom(s)[u \o v] = ParsedFrom(ParsedFrom(s)[u])[v]
<1> DEFINE m == Len(u)
           n == Len(v)
           text == u \o v
<1>1. /\ m \in Nat /\ n \in Nat /\ text \in Seq(Characters) /\ Len(text) = m + n
      /\ \A i \in 1..(m + n) : text[i] = IF i <= m THEN u[i] ELSE v[i - m]
  BY ConcatProperties
<1> HIDE DEF text
<1>2. PICK g \in [0..Len(text) -> ParseState] : IsParsing(g, s, text)
  BY <1>1, ParsingExists
<1>3. /\ g[0] = s /\ g \in [0..(m + n) -> ParseState]
      /\ \A i \in 1..(m + n) : g[i] = ParseCharacter(text[i])[g[i - 1]]
  BY <1>1, <1>2 DEF IsParsing
<1>4. ParsedFrom(s)[text] = g[m + n]
  <2>1. ParsedFrom(s)[text] = g[Len(text)]
    BY <1>1, <1>2, ParsedSays
  <2> QED
    BY <1>1, <2>1
<1>5. ParsedFrom(s)[u] = g[m] /\ g[m] \in ParseState
  <2>1. \A i \in 1..m : i \in 1..(m + n) /\ text[i] = u[i]
    BY <1>1
  <2>2. IsParsing(g, s, u)
    BY <1>3, <2>1 DEF IsParsing
  <2>3. m \in 0..(m + n)
    BY <1>1
  <2> QED
    BY <1>3, <2>2, <2>3, ParsedSays
<1>6. ParsedFrom(g[m])[v] = g[m + n]
  <2> DEFINE h == [i \in 0..n |-> g[m + i]]
  <2>1. h[0] = g[m] /\ h[n] = g[m + n]
    BY <1>1
  <2>2. ASSUME NEW i \in 1..n PROVE h[i] = ParseCharacter(v[i])[h[i - 1]]
    <3>1. m + i \in 1..(m + n) /\ i - 1 \in 0..n /\ i \in 0..n /\ ~(m + i <= m)
          /\ (m + i) - m = i /\ (m + i) - 1 = m + (i - 1)
      BY <1>1
    <3>2. text[m + i] = v[i]
      BY <1>1, <3>1
    <3>3. g[m + i] = ParseCharacter(v[i])[g[m + (i - 1)]]
      BY <1>3, <3>1, <3>2
    <3> QED
      BY <3>1, <3>3
  <2>3. IsParsing(h, g[m], v)
    BY <2>1, <2>2 DEF IsParsing
  <2> HIDE DEF h
  <2> QED
    BY <1>5, <2>1, <2>3, ParsedSays
<1> QED
  BY <1>4, <1>5, <1>6 DEF text

LEMMA ParsedNothing ==
  ASSUME NEW s \in ParseState
  PROVE  ParsedFrom(s)[<<>>] = s
<1> DEFINE g == [i \in 0..0 |-> s]
<1>1. IsParsing(g, s, <<>>) /\ g[0] = s
  BY DEF IsParsing
<1> HIDE DEF g
<1>2. <<>> \in Seq(Characters) /\ Len(<<>>) = 0
  OBVIOUS
<1>3. ParsedFrom(s)[<<>>] = g[Len(<<>>)]
  BY ONLY s \in ParseState, <1>1, <1>2, ParsedSays
<1> QED
  BY <1>1, <1>2, <1>3

LEMMA ParsedOne ==
  ASSUME NEW s \in ParseState, NEW c \in Characters
  PROVE  ParsedFrom(s)[<<c>>] = ParseCharacter(c)[s]
<1> DEFINE g == [i \in 0..1 |-> IF i = 0 THEN s ELSE ParseCharacter(c)[s]]
         u == <<c>>
<1>1. u \in Seq(Characters) /\ Len(u) = 1 /\ u[1] = c
  BY OneElement
<1>2. g[0] = s /\ g[1] = ParseCharacter(c)[s]
  OBVIOUS
<1> HIDE DEF g, u
<1>3. ASSUME NEW i \in 1..Len(u) PROVE g[i] = ParseCharacter(u[i])[g[i - 1]]
  <2>1. i = 1 /\ i - 1 = 0
    BY <1>1
  <2> QED
    BY <1>1, <1>2, <2>1
<1>4. IsParsing(g, s, u)
  BY <1>2, <1>3 DEF IsParsing
<1>5. ParsedFrom(s)[u] = g[Len(u)]
  BY <1>1, <1>4, ParsedSays
<1> QED
  BY <1>1, <1>2, <1>5 DEF u

(* Inside quotes, a field whose quotes are doubled is read as the field       *)
(* without quotes.                                                          *)
Doubled(c) == IF c = Quote THEN <<c, c>> ELSE <<c>>

DoubledText(field) == FlattenSeq([i \in 1..Len(field) |-> Doubled(field[i])])

Unquoted(field) == Without(field, {Quote})

LEMMA DoubledIsRead ==
  ASSUME NEW fs \in Seq(Seq(Characters)), NEW cur \in Seq(Characters), NEW c \in Characters
  PROVE  /\ Doubled(c) \in Seq(Characters)
         /\ ParsedFrom(Parse(fs, cur, TRUE))[Doubled(c)] =
              Parse(fs, IF c = Quote THEN cur ELSE Append(cur, c), TRUE)
<1> DEFINE s == Parse(fs, cur, TRUE)
           t == Parse(fs, cur, FALSE)
           one == <<c>>
<1>1. s \in ParseState /\ t \in ParseState
  BY ParseStates
<1>2. one \in Seq(Characters)
  BY OneElement
<1>3. ParseCharacter(c)[s] = IF c = Quote THEN t ELSE Parse(fs, Append(cur, c), TRUE)
  <2>1. TRUE \in BOOLEAN
    OBVIOUS
  <2>2. ParseCharacter(c)[Parse(fs, cur, TRUE)] =
          IF c = Quote THEN Parse(fs, cur, ~TRUE)
          ELSE IF c = Comma /\ ~TRUE THEN Parse(Append(fs, Trimmed[cur]), <<>>, TRUE)
          ELSE Parse(fs, Append(cur, c), TRUE)
    BY <2>1, CharacterSays
  <2> QED
    BY <2>2
<1>4. c = Quote => ParseCharacter(c)[t] = s
  <2>1. FALSE \in BOOLEAN
    OBVIOUS
  <2>2. ParseCharacter(c)[Parse(fs, cur, FALSE)] =
          IF c = Quote THEN Parse(fs, cur, ~FALSE)
          ELSE IF c = Comma /\ ~FALSE THEN Parse(Append(fs, Trimmed[cur]), <<>>, FALSE)
          ELSE Parse(fs, Append(cur, c), FALSE)
    BY <2>1, CharacterSays
  <2> QED
    BY <2>2
<1> HIDE DEF s, t
<1>5. ParsedFrom(s)[one] = ParseCharacter(c)[s] /\ ParsedFrom(t)[one] = ParseCharacter(c)[t]
  BY <1>1, ParsedOne
<1>6. CASE c = Quote
  <2>1. Doubled(c) = one \o one /\ one \o one \in Seq(Characters)
    <3>1. one \o one = <<c, c>>
      BY OneElement
    <3>2. one \o one \in Seq(Characters)
      BY <1>2, ConcatProperties
    <3> QED
      BY <1>6, <3>1, <3>2 DEF Doubled
  <2>2. ParsedFrom(s)[one \o one] = ParsedFrom(ParsedFrom(s)[one])[one]
    <3> HIDE DEF one
    <3> QED
      BY <1>1, <1>2, ParsedInParts
  <2> QED
    BY <1>3, <1>4, <1>5, <1>6, <2>1, <2>2 DEF s
<1>7. CASE c # Quote
  BY <1>2, <1>3, <1>5, <1>7 DEF Doubled, s
<1> QED
  BY <1>6, <1>7

LEMMA FieldIsRead ==
  ASSUME NEW fs \in Seq(Seq(Characters)), NEW field \in Seq(Characters)
  PROVE  /\ DoubledText(field) \in Seq(Characters)
         /\ Unquoted(field) \in Seq(Characters)
         /\ ParsedFrom(Parse(fs, <<>>, TRUE))[DoubledText(field)] = Parse(fs, Unquoted(field), TRUE)
<1> DEFINE n == Len(field)
           d == [i \in 1..n |-> Doubled(field[i])]
           s == Parse(fs, <<>>, TRUE)
<1>1. n \in Nat /\ \A i \in 1..n : field[i] \in Characters
  BY ElementOfSeq
<1>2. d \in SeqsOf(n, Characters)
  <2>1. \A i \in 1..n : Doubled(field[i]) \in Seq(Characters)
    BY <1>1, DoubledIsRead
  <2> QED
    BY <2>1 DEF SeqsOf
<1>3. s \in ParseState /\ s = Parse(fs, <<>>, TRUE)
  <2>1. <<>> \in Seq(Characters) /\ TRUE \in BOOLEAN
    OBVIOUS
  <2> QED
    BY <2>1, ParseStates
<1>4. \A i \in 1..n : d[i] = Doubled(field[i])
  OBVIOUS
<1> HIDE DEF d, s
<1>5. PICK e : IsConcat(e, n, d, Characters)
  BY <1>1, <1>2, ConcatExists
<1>6. DoubledText(field) = e[n]
  <2>1. n \in 0..n /\ \A i \in 1..n : d[i] = d[i]
    BY <1>1
  <2>2. FlattenSeq(d) = e[n]
    BY <1>1, <1>2, <1>5, <2>1, FlattenSays
  <2> QED
    BY <2>2 DEF DoubledText, d
<1> DEFINE w == [i \in 0..n |-> ParsedFrom(s)[e[i]].current]
           Q == {i \in 0..n : /\ w[i] \in Seq(Characters)
                              /\ ParsedFrom(s)[e[i]] = Parse(fs, w[i], TRUE)}
           Step(i) == w[i + 1] = IF field[i + 1] = Quote THEN w[i] ELSE Append(w[i], field[i + 1])
<1>7. 0 \in Q /\ w[0] = <<>>
  <2>1. e[0] = <<>> /\ ParsedFrom(s)[<<>>] = s
    BY <1>3, <1>5, ParsedNothing DEF IsConcat
  <2>2. s.current = <<>> /\ <<>> \in Seq(Characters)
    BY <1>3 DEF Parse
  <2>3. 0 \in 0..n /\ w[0] = <<>>
    BY <1>1, <2>1, <2>2
  <2> HIDE DEF w
  <2> QED
    BY <1>3, <2>1, <2>2, <2>3
<1>8. ASSUME NEW i \in 0..(n - 1), i \in Q PROVE i + 1 \in Q /\ Step(i)
  <2> DEFINE c == field[i + 1]
             x == IF c = Quote THEN w[i] ELSE Append(w[i], c)
  <2>1. i + 1 \in 1..n /\ i + 1 \in 0..n /\ (i + 1) - 1 = i /\ i \in 0..n
    BY <1>1
  <2>2. e[i + 1] = e[i] \o Doubled(c) /\ c \in Characters /\ e[i] \in Seq(Characters)
    BY <1>1, <1>4, <1>5, <2>1 DEF IsConcat
  <2>3. w[i] \in Seq(Characters) /\ ParsedFrom(s)[e[i]] = Parse(fs, w[i], TRUE)
    BY <1>8
  <2>4. w[i + 1] = ParsedFrom(s)[e[i + 1]].current
    BY <2>1
  <2> HIDE DEF w, c
  <2>5. x \in Seq(Characters)
    <3>1. Append(w[i], c) \in Seq(Characters)
      BY <2>2, <2>3, AppendProperties
    <3> QED
      BY <2>3, <3>1
  <2>6. /\ Doubled(c) \in Seq(Characters)
        /\ ParsedFrom(Parse(fs, w[i], TRUE))[Doubled(c)] = Parse(fs, x, TRUE)
    BY <2>2, <2>3, DoubledIsRead
  <2>7. ParsedFrom(s)[e[i + 1]] = Parse(fs, x, TRUE)
    <3>1. ParsedFrom(s)[e[i] \o Doubled(c)] = ParsedFrom(ParsedFrom(s)[e[i]])[Doubled(c)]
      BY ONLY <1>3, <2>2, <2>6, ParsedInParts
    <3> QED
      BY ONLY <2>2, <2>3, <2>6, <3>1
  <2>8. w[i + 1] = x
    BY <2>4, <2>7 DEF Parse
  <2> QED
    BY <2>1, <2>5, <2>7, <2>8 DEF c
<1> HIDE DEF w
<1>9. n \in Q
  <2>1. \A i \in 0..(n - 1) : i \in Q => i + 1 \in Q
    BY <1>8
  <2> HIDE DEF Q
  <2> QED
    BY <1>1, <1>7, <2>1, UpTo
<1>10. ASSUME NEW i \in 1..n
       PROVE  w[i] = IF field[i] \in {Quote} THEN w[i - 1] ELSE Append(w[i - 1], field[i])
  <2>1. i - 1 \in Nat /\ i - 1 \in 0..(n - 1) /\ (i - 1) + 1 = i
    BY <1>1
  <2>2. \A j \in 0..(n - 1) : j \in Q
    <3> SUFFICES ASSUME NEW j \in 0..(n - 1) PROVE j \in Q
      OBVIOUS
    <3>1. j \in Nat /\ \A k \in 0..(j - 1) : k \in 0..(n - 1)
      BY <1>1
    <3>2. \A k \in 0..(j - 1) : k \in Q => k + 1 \in Q
      BY <1>8, <3>1
    <3> HIDE DEF Q
    <3> QED
      BY <1>7, <3>1, <3>2, UpTo
  <2>3. Step(i - 1)
    BY <1>8, <2>1, <2>2
  <2> QED
    BY <2>1, <2>3
<1>11. Unquoted(field) = w[n]
  BY <1>7, <1>10, WithoutSays DEF Unquoted
<1> QED
  BY <1>5, <1>6, <1>9, <1>11, <1>1, <1>3 DEF IsConcat

Quoted(field) == <<Quote>> \o DoubledText(field) \o <<Quote>>

LEMMA QuotedIsRead ==
  ASSUME NEW fs \in Seq(Seq(Characters)), NEW field \in Seq(Characters)
  PROVE  /\ Quoted(field) \in Seq(Characters)
         /\ Len(Quoted(field)) \in Nat \ {0}
         /\ Quoted(field)[1] = Quote /\ Quoted(field)[Len(Quoted(field))] = Quote
         /\ ParsedFrom(Parse(fs, <<>>, FALSE))[Quoted(field)] = Parse(fs, Unquoted(field), FALSE)
<1> DEFINE q == <<Quote>>
           d == DoubledText(field)
           x == Unquoted(field)
           none == <<>>
<1>1. /\ q \in Seq(Characters) /\ Len(q) = 1 /\ q[1] = Quote /\ Quote \in Characters
      /\ none \in Seq(Characters)
  <2>1. Quote \in Characters
    BY DEF Characters
  <2>2. none \in Seq(Characters)
    OBVIOUS
  <2> QED
    BY <2>1, <2>2, OneElement
<1>2. /\ d \in Seq(Characters) /\ x \in Seq(Characters)
      /\ ParsedFrom(Parse(fs, none, TRUE))[d] = Parse(fs, x, TRUE)
  BY FieldIsRead
<1> HIDE DEF d, x, none
<1>3. /\ Parse(fs, none, FALSE) \in ParseState /\ Parse(fs, none, TRUE) \in ParseState
      /\ Parse(fs, x, TRUE) \in ParseState
  <2>1. TRUE \in BOOLEAN /\ FALSE \in BOOLEAN
    OBVIOUS
  <2> QED
    BY <1>1, <1>2, <2>1, ParseStates
<1>4. /\ ParsedFrom(Parse(fs, none, FALSE))[q] = Parse(fs, none, TRUE)
      /\ ParsedFrom(Parse(fs, x, TRUE))[q] = Parse(fs, x, FALSE)
  <2>1. ParseCharacter(Quote)[Parse(fs, none, FALSE)] = Parse(fs, none, TRUE)
    <3>1. FALSE \in BOOLEAN
      OBVIOUS
    <3>2. ParseCharacter(Quote)[Parse(fs, none, FALSE)] =
            IF Quote = Quote THEN Parse(fs, none, ~FALSE)
            ELSE IF Quote = Comma /\ ~FALSE THEN Parse(Append(fs, Trimmed[none]), <<>>, FALSE)
            ELSE Parse(fs, Append(none, Quote), FALSE)
      BY ONLY <1>1, <3>1, fs \in Seq(Seq(Characters)), CharacterSays
    <3> QED
      BY <3>2
  <2>2. ParseCharacter(Quote)[Parse(fs, x, TRUE)] = Parse(fs, x, FALSE)
    <3>1. TRUE \in BOOLEAN
      OBVIOUS
    <3>2. ParseCharacter(Quote)[Parse(fs, x, TRUE)] =
            IF Quote = Quote THEN Parse(fs, x, ~TRUE)
            ELSE IF Quote = Comma /\ ~TRUE THEN Parse(Append(fs, Trimmed[x]), <<>>, TRUE)
            ELSE Parse(fs, Append(x, Quote), TRUE)
      BY ONLY <1>1, <1>2, <3>1, fs \in Seq(Seq(Characters)), CharacterSays
    <3> QED
      BY <3>2
  <2>3. /\ ParsedFrom(Parse(fs, none, FALSE))[q] = ParseCharacter(Quote)[Parse(fs, none, FALSE)]
        /\ ParsedFrom(Parse(fs, x, TRUE))[q] = ParseCharacter(Quote)[Parse(fs, x, TRUE)]
    BY <1>1, <1>3, ParsedOne
  <2> QED
    BY <2>1, <2>2, <2>3
<1> HIDE DEF q
<1> DEFINE u == q \o d
           v == u \o q
<1>5. /\ u \in Seq(Characters) /\ Len(u) = 1 + Len(d) /\ Len(d) \in Nat
      /\ \A i \in 1..(1 + Len(d)) : u[i] = IF i <= 1 THEN q[i] ELSE d[i - 1]
  <2>1. /\ u \in Seq(Characters) /\ Len(u) = Len(q) + Len(d) /\ Len(d) \in Nat
        /\ \A i \in 1..(Len(q) + Len(d)) : u[i] = IF i <= Len(q) THEN q[i] ELSE d[i - Len(q)]
    BY <1>1, <1>2, ConcatProperties, LenProperties
  <2> HIDE DEF u
  <2> QED
    BY <1>1, <2>1
<1>6. u[1] = Quote
  BY <1>1, <1>5
<1>7. ParsedFrom(Parse(fs, none, FALSE))[u] = Parse(fs, x, TRUE)
  <2>1. ParsedFrom(Parse(fs, none, FALSE))[q \o d] = ParsedFrom(ParsedFrom(Parse(fs, none, FALSE))[q])[d]
    BY <1>1, <1>2, <1>3, ParsedInParts
  <2> QED
    BY <1>2, <1>4, <2>1
<1> HIDE DEF u
<1>8. /\ v \in Seq(Characters) /\ Len(v) = 2 + Len(d)
      /\ \A i \in 1..(2 + Len(d)) : v[i] = IF i <= 1 + Len(d) THEN u[i] ELSE q[i - (1 + Len(d))]
  <2>1. /\ v \in Seq(Characters) /\ Len(v) = Len(u) + Len(q)
        /\ \A i \in 1..(Len(u) + Len(q)) : v[i] = IF i <= Len(u) THEN u[i] ELSE q[i - Len(u)]
    BY <1>1, <1>5, ConcatProperties
  <2>2. Len(u) + Len(q) = 2 + Len(d) /\ Len(u) = 1 + Len(d)
    BY <1>1, <1>5
  <2> QED
    BY <2>1, <2>2
<1>9. ParsedFrom(Parse(fs, none, FALSE))[v] = Parse(fs, x, FALSE)
  <2>1. ParsedFrom(Parse(fs, none, FALSE))[u \o q] = ParsedFrom(ParsedFrom(Parse(fs, none, FALSE))[u])[q]
    BY <1>1, <1>3, <1>5, ParsedInParts
  <2> QED
    BY <1>4, <1>7, <2>1
<1>10. v[1] = Quote /\ v[2 + Len(d)] = Quote
  <2>1. /\ 1 \in 1..(2 + Len(d)) /\ 1 <= 1 + Len(d)
        /\ 2 + Len(d) \in 1..(2 + Len(d)) /\ ~(2 + Len(d) <= 1 + Len(d))
        /\ (2 + Len(d)) - (1 + Len(d)) = 1
    BY <1>5
  <2>2. v[1] = u[1] /\ v[2 + Len(d)] = q[1]
    BY <1>8, <2>1
  <2> QED
    BY <1>1, <1>6, <2>2
<1>11. v = Quoted(field)
  BY DEF Quoted, u, q, d
<1>12. v \in Seq(Characters) /\ Len(v) \in Nat \ {0} /\ v[1] = Quote /\ v[Len(v)] = Quote
  <2> HIDE DEF v
  <2> QED
    BY <1>5, <1>8, <1>10
<1> HIDE DEF v
<1>13. ParsedFrom(Parse(fs, <<>>, FALSE))[v] = Parse(fs, Unquoted(field), FALSE)
  BY <1>9 DEF none, x
<1> QED
  BY <1>11, <1>12, <1>13

(* The fields of a row are read as they are, but for quotes and blanks       *)
(* around them.                                                             *)
LEMMA RowIsRead ==
  ASSUME NEW n \in Nat \ {0}, NEW row \in [1..n -> Seq(Characters)]
  PROVE  ParseCSVLine(ConvertToCsv(row)) = [j \in 1..n |-> Trimmed[Unquoted(row[j])]]
<1> DEFINE part == [i \in 1..n |-> IF i = 1 THEN Quoted(row[i]) ELSE <<Comma>> \o Quoted(row[i])]
           comma == <<Comma>>
           fields(i) == [j \in 1..(i - 1) |-> Trimmed[Unquoted(row[j])]]
           After(i) == Parse(fields(i), Unquoted(row[i]), FALSE)
<1>1. /\ comma \in Seq(Characters) /\ comma[1] = Comma /\ Comma \in Characters /\ Comma # Quote
      /\ <<>> \in Seq(Seq(Characters)) /\ FALSE \in BOOLEAN
  <2>1. Comma \in Characters /\ Comma # Quote
    BY DEF Comma, Quote, Characters
  <2>2. <<>> \in Seq(Seq(Characters)) /\ FALSE \in BOOLEAN
    OBVIOUS
  <2> QED
    BY <2>1, <2>2, OneElement
<1> HIDE DEF comma
<1>2. ASSUME NEW i \in 1..n
      PROVE  /\ row[i] \in Seq(Characters) /\ Quoted(row[i]) \in Seq(Characters)
             /\ Len(Quoted(row[i])) \in Nat \ {0}
             /\ Quoted(row[i])[1] = Quote /\ Quoted(row[i])[Len(Quoted(row[i]))] = Quote
             /\ Unquoted(row[i]) \in Seq(Characters)
             /\ Trimmed[Unquoted(row[i])] \in Seq(Characters)
  <2>1. row[i] \in Seq(Characters)
    OBVIOUS
  <2>2. Unquoted(row[i]) \in Seq(Characters)
    BY <1>1, <2>1, FieldIsRead
  <2> QED
    BY <1>1, <2>1, <2>2, QuotedIsRead, TrimmedIsText
<1>3. ASSUME NEW i \in 1..n
      PROVE  fields(i) \in Seq(Seq(Characters)) /\ Len(fields(i)) = i - 1 /\ After(i) \in ParseState
  <2>1. i - 1 \in Nat /\ \A j \in 1..(i - 1) : j \in 1..n
    OBVIOUS
  <2>2. fields(i) \in [1..(i - 1) -> Seq(Characters)]
    BY <1>2, <2>1
  <2> HIDE DEF fields
  <2>3. fields(i) \in Seq(Seq(Characters)) /\ Len(fields(i)) = i - 1
    BY <2>1, <2>2, IsSequence
  <2> QED
    BY <1>1, <1>2, <2>3, ParseStates
<1>4. part \in SeqsOf(n, Characters)
  <2>1. ASSUME NEW i \in 1..n PROVE comma \o Quoted(row[i]) \in Seq(Characters)
    BY <1>1, <1>2, ConcatProperties
  <2> QED
    BY <1>2, <2>1 DEF SeqsOf, comma
<1>5. \A i \in 1..n : part[i] = IF i = 1 THEN Quoted(row[i]) ELSE comma \o Quoted(row[i])
  BY DEF comma
<1>6. Len(row) = n
  BY IsSequence
<1>7. ConvertToCsv(row) = FlattenSeq(part)
  BY <1>6 DEF ConvertToCsv, Quoted, DoubledText, Doubled
<1> HIDE DEF part
<1>8. PICK e : IsConcat(e, n, part, Characters)
  BY <1>4, ConcatExists
<1>9. /\ e \in [0..n -> Seq(Characters)] /\ e[0] = <<>>
      /\ \A i \in 1..n : e[i] = e[i - 1] \o part[i]
  BY <1>8 DEF IsConcat
<1>10. ConvertToCsv(row) = e[n]
  <2>1. n \in 0..n /\ \A i \in 1..n : part[i] = part[i]
    OBVIOUS
  <2> QED
    BY <1>4, <1>7, <1>8, <2>1, FlattenSays
<1> DEFINE Q == {i \in 0..n : i # 0 =>
                   /\ Len(e[i]) \in Nat \ {0} /\ e[i][1] = Quote /\ e[i][Len(e[i])] = Quote
                   /\ ParsedFrom(NoFields)[e[i]] = After(i)}
<1>11. 0 \in Q
  OBVIOUS
<1>12. NoFields = Parse(<<>>, <<>>, FALSE) /\ NoFields \in ParseState
  <2>1. NoFields = Parse(<<>>, <<>>, FALSE)
    BY DEF NoFields, Parse
  <2>2. <<>> \in Seq(Characters)
    OBVIOUS
  <2> QED
    BY <1>1, <2>1, <2>2, ParseStates
<1>13. ASSUME NEW i \in 0..(n - 1), i \in Q PROVE i + 1 \in Q
  <2>1. i + 1 \in 1..n /\ i + 1 \in 0..n /\ (i + 1) - 1 = i /\ i \in 0..n /\ i + 1 # 0
    OBVIOUS
  <2> DEFINE k == i + 1
             q == Quoted(row[k])
  <2>2. /\ e[k] = e[i] \o part[k] /\ e[i] \in Seq(Characters) /\ q \in Seq(Characters)
        /\ Len(q) \in Nat \ {0} /\ q[1] = Quote /\ q[Len(q)] = Quote /\ row[k] \in Seq(Characters)
    BY <1>2, <1>9, <2>1
  <2>3. CASE i = 0
    <3>1. part[k] = q
      BY <1>5, <2>1, <2>3
    <3>2. e[k] = q
      <4> HIDE DEF q
      <4> QED
        BY <1>9, <2>2, <2>3, <3>1, ConcatEmptySeq
    <3>3. ParsedFrom(Parse(<<>>, <<>>, FALSE))[q] = Parse(<<>>, Unquoted(row[k]), FALSE)
      BY <1>1, <2>2, QuotedIsRead
    <3>4. fields(k) = <<>>
      BY <2>3
    <3> HIDE DEF fields, q
    <3>5. ParsedFrom(NoFields)[e[k]] = After(k)
      BY <1>12, <3>2, <3>3, <3>4
    <3> QED
      BY <2>1, <2>2, <3>2, <3>5
  <2>4. CASE i # 0
    <3>0. i \in 1..n /\ k # 1
      BY <2>1, <2>4
    <3> DEFINE m == Len(e[i])
               cq == comma \o q
    <3>1. part[k] = cq
      BY <1>5, <2>1, <3>0
    <3>2. m \in Nat \ {0} /\ e[i][1] = Quote /\ ParsedFrom(NoFields)[e[i]] = After(i)
      BY <1>13, <2>4
    <3> HIDE DEF q, k
    <3>3. /\ cq \in Seq(Characters) /\ Len(cq) = 1 + Len(q)
          /\ cq[1 + Len(q)] = Quote
      <4>1. Len(comma) = 1
        BY <1>1, OneElement DEF comma
      <4>2. /\ cq \in Seq(Characters) /\ Len(cq) = Len(comma) + Len(q)
            /\ \A j \in 1..(Len(comma) + Len(q)) :
                 cq[j] = IF j <= Len(comma) THEN comma[j] ELSE q[j - Len(comma)]
        BY <1>1, <2>2, ConcatProperties
      <4>3. 1 + Len(q) \in 1..(1 + Len(q)) /\ ~(1 + Len(q) <= 1) /\ (1 + Len(q)) - 1 = Len(q)
        BY <2>2
      <4> QED
        BY <2>2, <4>1, <4>2, <4>3
    <3> HIDE DEF cq
    <3>4. /\ Len(e[k]) = m + Len(cq) /\ e[k] \in Seq(Characters)
          /\ \A j \in 1..(m + Len(cq)) : e[k][j] = IF j <= m THEN e[i][j] ELSE cq[j - m]
      <4>1. e[k] = e[i] \o cq
        BY <2>2, <3>1
      <4>2. /\ e[i] \o cq \in Seq(Characters) /\ Len(e[i] \o cq) = m + Len(cq)
            /\ \A j \in 1..(m + Len(cq)) : (e[i] \o cq)[j] = IF j <= m THEN e[i][j] ELSE cq[j - m]
        <5> DEFINE head == e[i]
        <5>1. head \in Seq(Characters) /\ cq \in Seq(Characters)
          BY <2>2, <3>3
        <5> HIDE DEF head
        <5>2. /\ head \o cq \in Seq(Characters) /\ Len(head \o cq) = Len(head) + Len(cq)
              /\ \A j \in 1..(Len(head) + Len(cq)) :
                   (head \o cq)[j] = IF j <= Len(head) THEN head[j] ELSE cq[j - Len(head)]
          BY ONLY <5>1, ConcatProperties
        <5> QED
          BY <5>2 DEF head
      <4> QED
        BY ONLY <4>1, <4>2
    <3>5. Len(e[k]) \in Nat \ {0} /\ e[k][1] = Quote /\ e[k][Len(e[k])] = Quote
      <4>1. /\ 1 \in 1..(m + Len(cq)) /\ 1 <= m /\ Len(cq) \in Nat \ {0}
            /\ m + Len(cq) \in 1..(m + Len(cq)) /\ ~(m + Len(cq) <= m)
            /\ (m + Len(cq)) - m = 1 + Len(q)
        <5> DEFINE a == Len(q)
                   b == Len(cq)
        <5>1. m \in Nat /\ m >= 1 /\ a \in Nat /\ b = 1 + a
          BY <2>2, <3>2, <3>3
        <5> HIDE DEF a, b, m
        <5>2. /\ 1 \in 1..(m + b) /\ 1 <= m /\ b \in Nat \ {0}
              /\ m + b \in 1..(m + b) /\ ~(m + b <= m) /\ (m + b) - m = 1 + a
          BY <5>1
        <5> QED
          BY <5>2 DEF a, b
      <4>2. Len(e[k]) = m + Len(cq) /\ m + Len(cq) \in Nat \ {0}
        BY <3>2, <3>4, <4>1
      <4>3. e[k][1] = e[i][1]
        BY <3>4, <4>1
      <4>4. e[k][m + Len(cq)] = cq[1 + Len(q)]
        BY <3>4, <4>1
      <4> QED
        BY <3>2, <3>3, <4>2, <4>3, <4>4
    <3> DEFINE fs == fields(i)
               x == Unquoted(row[i])
               more == Append(fs, Trimmed[x])
    <3>6. /\ fs \in Seq(Seq(Characters)) /\ Len(fs) = i - 1 /\ After(i) \in ParseState
          /\ x \in Seq(Characters) /\ Trimmed[x] \in Seq(Characters)
          /\ After(i) = Parse(fs, x, FALSE)
      BY <1>2, <1>3, <3>0
    <3>7. more \in Seq(Seq(Characters)) /\ more = fields(k)
      <4>1. more \in Seq(Seq(Characters)) /\ Len(more) = i
            /\ \A j \in 1..i : more[j] = IF j = i THEN Trimmed[x] ELSE fs[j]
        <5> HIDE DEF fs, x
        <5>1. Len(fs) + 1 = i
          BY <3>0, <3>6
        <5> QED
          BY <3>6, <5>1, AppendProperties
      <4>2. \A j \in 1..i : more[j] = Trimmed[Unquoted(row[j])]
        BY <3>0, <4>1
      <4>3. more = [j \in 1..i |-> Trimmed[Unquoted(row[j])]]
        <5> HIDE DEF more
        <5>1. DOMAIN more = 1..i /\ more = [j \in DOMAIN more |-> more[j]]
          BY <4>1, LenProperties
        <5> QED
          BY <4>2, <5>1
      <4> QED
        BY <2>1, <4>1, <4>3 DEF k
    <3> HIDE DEF fs, x, more, After, fields
    <3>8. ParsedFrom(After(i))[comma] = Parse(more, <<>>, FALSE)
      <4>1. ParsedFrom(After(i))[comma] = ParseCharacter(Comma)[After(i)]
        BY <1>1, <3>6, ParsedOne DEF comma
      <4>2. ParseCharacter(Comma)[Parse(fs, x, FALSE)] =
              IF Comma = Quote THEN Parse(fs, x, ~FALSE)
              ELSE IF Comma = Comma /\ ~FALSE THEN Parse(Append(fs, Trimmed[x]), <<>>, FALSE)
              ELSE Parse(fs, Append(x, Comma), FALSE)
        BY <1>1, <3>6, CharacterSays
      <4> QED
        BY <1>1, <3>6, <4>1, <4>2 DEF more
    <3>9. ParsedFrom(Parse(more, <<>>, FALSE))[q] = Parse(more, Unquoted(row[k]), FALSE)
      BY <2>2, <3>7, QuotedIsRead DEF q
    <3>10. ParsedFrom(After(i))[cq] = After(k)
      <4>1. ParsedFrom(After(i))[comma \o q] = ParsedFrom(ParsedFrom(After(i))[comma])[q]
        BY <1>1, <2>2, <3>6, ParsedInParts
      <4> QED
        BY <3>7, <3>8, <3>9, <4>1 DEF cq, After
    <3>11. ParsedFrom(NoFields)[e[k]] = After(k)
      <4>1. ParsedFrom(NoFields)[e[i] \o cq] = ParsedFrom(ParsedFrom(NoFields)[e[i]])[cq]
        BY <1>12, <2>2, <3>3, ParsedInParts
      <4> QED
        BY <2>2, <3>1, <3>2, <3>10, <4>1
    <3> QED
      BY <2>1, <3>5, <3>11 DEF k
  <2> QED
    BY <2>3, <2>4
<1>14. n \in Q
  <2> HIDE DEF Q
  <2> QED
    BY <1>11, <1>13, UpTo
<1> DEFINE line == e[n]
           x == Unquoted(row[n])
<1>15. /\ line \in Seq(Characters) /\ line # <<>> /\ line[1] = Quote /\ line[Len(line)] = Quote
       /\ ParsedFrom(NoFields)[line] = Parse(fields(n), x, FALSE) /\ n \in 1..n
  <2>1. n \in 1..n /\ n \in 0..n /\ n # 0
    OBVIOUS
  <2>2. /\ Len(line) \in Nat \ {0} /\ line[1] = Quote /\ line[Len(line)] = Quote
        /\ ParsedFrom(NoFields)[line] = After(n)
    BY <1>14, <2>1
  <2>3. line # <<>>
    BY <2>2
  <2>4. line \in Seq(Characters)
    BY <1>9, <2>1
  <2> HIDE DEF line
  <2> QED
    BY <2>1, <2>2, <2>3, <2>4
<1>16. Trimmed[line] = line
  <2>1. Quote # Blank
    BY DEF Quote, Blank
  <2> HIDE DEF line
  <2> QED
    BY <1>15, <2>1, TrimmedIsText
<1>17. ParseCSVLine(line) = Append(fields(n), Trimmed[x])
  <2> HIDE DEF fields, line, x
  <2> QED
    BY <1>15, <1>16 DEF ParseCSVLine, Parse
<1>18. Append(fields(n), Trimmed[x]) = [j \in 1..n |-> Trimmed[Unquoted(row[j])]]
  <2> DEFINE fs == fields(n)
             more == Append(fs, Trimmed[x])
  <2>1. fs \in Seq(Seq(Characters)) /\ Len(fs) = n - 1 /\ Trimmed[x] \in Seq(Characters)
    BY <1>2, <1>3, <1>15
  <2>2. more \in Seq(Seq(Characters)) /\ Len(more) = n
        /\ \A j \in 1..n : more[j] = IF j = n THEN Trimmed[x] ELSE fs[j]
    <3> HIDE DEF fs, x
    <3>1. Len(fs) + 1 = n
      BY <2>1
    <3> QED
      BY <2>1, <3>1, AppendProperties
  <2>3. \A j \in 1..n : more[j] = Trimmed[Unquoted(row[j])]
    BY <2>2
  <2> HIDE DEF more
  <2>4. DOMAIN more = 1..n /\ more = [j \in DOMAIN more |-> more[j]]
    BY <2>2, LenProperties
  <2>5. more = [j \in 1..n |-> Trimmed[Unquoted(row[j])]]
    BY <2>3, <2>4
  <2> QED
    BY <2>5 DEF more
<1> QED
  BY <1>10, <1>17, <1>18

(* A filter that drops nothing.                                              *)
LEMMA AllPicked ==
  ASSUME NEW n \in Nat, NEW S, NEW s \in [1..n -> S], NEW at, \A i \in 1..n : i \in at
  PROVE  Picked(s, at) = s
<1> DEFINE g == [i \in 0..n |-> SubSeq(s, 1, i)]
<1>1. s \in Seq(S) /\ Len(s) = n
  BY IsSequence
<1>2. g[0] = <<>> /\ g[n] = s
  <2>1. SubSeq(s, 1, 0) = <<>> /\ SubSeq(s, 1, n) = s
    BY <1>1, SubSeqEmpty, SubSeqFull
  <2> QED
    BY <2>1
<1>3. ASSUME NEW i \in 0..n PROVE SubSeq(s, 1, i) \in Seq(S)
  <2>1. \A j \in 1..i : s[j] \in S
    OBVIOUS
  <2> QED
    BY <2>1, SubSeqProperties
<1>4. ASSUME NEW i \in 1..n PROVE g[i] = g[i - 1] \o <<s[i]>>
  <2>1. 1 \in 1..Len(s) /\ i \in 1..Len(s) /\ i - 1 \in 0..n /\ i \in 0..n
    BY <1>1
  <2>2. SubSeq(s, 1, i) = SubSeq(s, 1, i - 1) \o <<s[i]>>
    BY <1>1, <2>1, SubSeqRecursiveSecond
  <2> QED
    BY <2>1, <2>2
<1>5. g \in [0..n -> Seq(S)]
  BY <1>3
<1> HIDE DEF g
<1>6. IsPicking(g, n, s, at, S)
  BY <1>2, <1>4, <1>5 DEF IsPicking
<1> QED
  BY <1>2, <1>6, PickedSays

LEMMA TableSays ==
  ASSUME job \in Jobs, job.tool = "processes"
  PROVE  Table(Pieces) = [i \in DOMAIN job.rows |->
                            [j \in 1..Columns |-> Trimmed[Unquoted(job.rows[i][j])]]]
<1> DEFINE rows == job.rows
           n == Pieces - 1
           Row(i) == [j \in 1..Columns |-> Trimmed[Unquoted(rows[i][j])]]
           lines == [i \in 1..n |-> ParseCSVLine(ConvertToCsv(rows[i]))]
           whole == [i \in 1..n |-> Row(i)]
<1>1. /\ rows \in Seq([1..Columns -> Seq(Characters)]) /\ Len(rows) + 1 = Pieces
      /\ Columns \in Nat \ {0}
  BY ToolsAssumption
<1>2. n \in Nat /\ Len(rows) = n /\ DOMAIN rows = 1..n
  BY <1>1
<1>3. ASSUME NEW i \in 1..n
      PROVE  /\ ParseCSVLine(ConvertToCsv(rows[i])) = Row(i)
             /\ Row(i) \in Seq(Seq(Characters)) /\ Len(Row(i)) = Columns
  <2>1. rows[i] \in [1..Columns -> Seq(Characters)]
    <3> HIDE DEF rows, n
    <3> QED
      BY <1>1, <1>2, ElementOfSeq
  <2>2. ASSUME NEW j \in 1..Columns PROVE Trimmed[Unquoted(rows[i][j])] \in Seq(Characters)
    <3>1. rows[i][j] \in Seq(Characters) /\ <<>> \in Seq(Seq(Characters))
      <4> DEFINE row == rows[i]
      <4>1. row \in [1..Columns -> Seq(Characters)]
        BY <2>1
      <4> HIDE DEF row
      <4>2. row[j] \in Seq(Characters)
        BY ONLY <4>1, j \in 1..Columns
      <4>3. <<>> \in Seq(Seq(Characters))
        OBVIOUS
      <4> QED
        BY <4>2, <4>3 DEF row
    <3>2. Unquoted(rows[i][j]) \in Seq(Characters)
      BY <3>1, FieldIsRead
    <3> QED
      BY <3>2, TrimmedIsText
  <2>3. Row(i) \in [1..Columns -> Seq(Characters)]
    BY <2>2
  <2>4. Row(i) \in Seq(Seq(Characters)) /\ Len(Row(i)) = Columns
    <3> HIDE DEF Row
    <3> QED
      BY <1>1, <2>3, IsSequence
  <2>5. ParseCSVLine(ConvertToCsv(rows[i])) = Row(i)
    BY <1>1, <2>1, RowIsRead
  <2> QED
    BY <2>4, <2>5
<1> HIDE DEF Row
<1>4. lines = whole /\ whole \in [1..n -> Seq(Seq(Characters))]
  BY <1>3
<1>5. \A i \in 1..n : i \in {k \in DOMAIN lines : Len(lines[k]) >= Columns}
  BY <1>1, <1>3
<1>6. Table(Pieces) = Picked(lines, {k \in DOMAIN lines : Len(lines[k]) >= Columns})
  BY DEF Table
<1> HIDE DEF lines, whole, n
<1>7. Table(Pieces) = whole
  BY <1>2, <1>4, <1>5, <1>6, AllPicked
<1> QED
  BY <1>2, <1>7 DEF whole, Row

LEMMA NextKeepsTable ==
  ASSUME ExecInv, job \in Jobs, TableIsWhole, [Next]_vars
  PROVE  job' \in Jobs /\ TableIsWhole'
<1>1. CASE UNCHANGED ToolVars \/ UNCHANGED vars
  BY <1>1 DEF ToolVars, vars, TableIsWhole, Answered, Doing
<1>2. CASE HandleProcesses
  <2>1. /\ job' = job /\ job.tool = "processes" /\ run = "returned"
        /\ resp'.data = IF result.code # 0 THEN <<>> ELSE Table(result.out)
    BY <1>2 DEF HandleProcesses, Doing, Success
  <2>2. result.code = 0 => result.out = Pieces
    BY <2>1 DEF ExecInv, RunIsHonest
  <2> QED
    BY <2>1, <2>2, TableSays DEF TableIsWhole, Unquoted
<1>3. CASE \/ DecodeCode \/ HandleUnknown \/ HandleShellExec \/ HandleRegistry
           \/ HandleFileRead \/ EditReads \/ EditWrites \/ HandleGrep \/ GlobWalks \/ GlobSorts
           \/ FileChanges \/ OthersWrite \/ FileVanishes
  <2>1. job' = job /\ job.tool # "processes"
    BY <1>3 DEF DecodeCode, HandleUnknown, HandleShellExec, HandleRegistry, HandleFileRead,
                EditReads, EditWrites, HandleGrep, GlobWalks, GlobSorts, FileChanges,
                OthersWrite, FileVanishes, Doing
  <2> QED
    BY <2>1 DEF TableIsWhole, Answered, Doing
<1> QED
  BY <1>1, <1>2, <1>3 DEF Next, Dispatch

-----------------------------------------------------------------------------
(* What a search finds.                                                     *)

(* How many are picked.                                                      *)
LEMMA PickedLength ==
  ASSUME NEW S, NEW s \in Seq(S), NEW at \in SUBSET (1..Len(s))
  PROVE  Picked(s, at) \in Seq(S) /\ Len(Picked(s, at)) = Cardinality(at) /\ IsFiniteSet(at)
<1> DEFINE n == Len(s)
<1>0. n \in Nat /\ s \in [1..n -> S]
  BY LenProperties
<1> HIDE DEF n
<1> USE <1>0
<1>1. PICK g : IsPicking(g, n, s, at, S)
  BY <1>0, PickingExists
<1>2. /\ g \in [0..n -> Seq(S)] /\ g[0] = <<>>
      /\ \A i \in 1..n : g[i] = IF i \in at THEN g[i - 1] \o <<s[i]>> ELSE g[i - 1]
  BY <1>1 DEF IsPicking
<1>3. Picked(s, at) = g[n]
  BY <1>0, <1>1, PickedSays
<1> DEFINE Upto(i) == at \cap (1..i)
           Q == {i \in 0..n : IsFiniteSet(Upto(i)) /\ Len(g[i]) = Cardinality(Upto(i))}
<1>4. 0 \in Q
  <2>1. Upto(0) = {}
    OBVIOUS
  <2> QED
    BY <1>2, <2>1, FS_EmptySet
<1>5. ASSUME NEW k \in 0..(n - 1), k \in Q PROVE k + 1 \in Q
  <2>1. k + 1 \in 1..n /\ (k + 1) - 1 = k /\ k \in 0..n
    OBVIOUS
  <2>2. IsFiniteSet(Upto(k)) /\ Len(g[k]) = Cardinality(Upto(k)) /\ g[k] \in Seq(S)
    BY <1>2, <1>5, <2>1
  <2>3. CASE k + 1 \in at
    <3>1. Upto(k + 1) = Upto(k) \cup {k + 1} /\ k + 1 \notin Upto(k)
      BY <2>1, <2>3
    <3>2. IsFiniteSet(Upto(k + 1)) /\ Cardinality(Upto(k + 1)) = Cardinality(Upto(k)) + 1
      <4> HIDE DEF Upto
      <4> QED
        BY <2>2, <3>1, FS_AddElement
    <3>3. g[k + 1] = g[k] \o <<s[k + 1]>>
      BY <1>2, <2>1, <2>3
    <3>4. s[k + 1] \in S
      BY <2>1
    <3>5. <<s[k + 1]>> \in Seq(S) /\ Len(<<s[k + 1]>>) = 1
      BY <3>4, OneElement
    <3>6. Len(g[k + 1]) = Len(g[k]) + 1
      BY <2>2, <3>3, <3>5, ConcatProperties
    <3> HIDE DEF Upto
    <3> QED
      BY <2>1, <2>2, <3>2, <3>6
  <2>4. CASE k + 1 \notin at
    <3>1. Upto(k + 1) = Upto(k)
      BY <2>1, <2>4
    <3>2. g[k + 1] = g[k]
      BY <1>2, <2>1, <2>4
    <3> HIDE DEF Upto
    <3> QED
      BY <2>1, <2>2, <3>1, <3>2
  <2> QED
    BY <2>3, <2>4
<1>6. n \in Q
  <2> HIDE DEF Q
  <2> QED
    BY <1>4, <1>5, UpTo
<1>7. Upto(n) = at
  BY DEF n
<1> HIDE DEF Upto
<1> QED
  BY <1>0, <1>2, <1>3, <1>6, <1>7

(* What is picked lies together.                                             *)
LEMMA IntervalPicked ==
  ASSUME NEW S, NEW s \in Seq(S), NEW a \in 1..Len(s), NEW b \in a..Len(s)
  PROVE  /\ Picked(s, a..b) \in Seq(S) /\ Len(Picked(s, a..b)) = b - a + 1
         /\ \A k \in 1..(b - a + 1) : Picked(s, a..b)[k] = s[a + k - 1]
<1> DEFINE n == Len(s)
<1>0. n \in Nat /\ s \in [1..n -> S] /\ a \in 1..n /\ b \in a..n
  BY LenProperties
<1> HIDE DEF n
<1> USE <1>0
<1> DEFINE m(i) == IF i < a THEN 0 ELSE IF i <= b THEN i - a + 1 ELSE b - a + 1
           Part(i) == [k \in 1..m(i) |-> s[a + k - 1]]
           g == [i \in 0..n |-> Part(i)]
<1>1. ASSUME NEW i \in 0..n
      PROVE  Part(i) \in Seq(S) /\ Len(Part(i)) = m(i) /\ m(i) \in Nat
  <2>1. m(i) \in Nat /\ m(i) <= b - a + 1
    OBVIOUS
  <2>2. \A k \in 1..m(i) : a + k - 1 \in 1..n
    BY <2>1
  <2> HIDE DEF m
  <2>3. Part(i) \in [1..m(i) -> S]
    BY <2>2
  <2> HIDE DEF Part
  <2> QED
    BY <2>1, <2>3, IsSequence
<1>2. m(0) = 0 /\ m(n) = b - a + 1 /\ Part(0) = <<>>
  OBVIOUS
<1>3. ASSUME NEW i \in 1..n
      PROVE  g[i] = IF i \in a..b THEN g[i - 1] \o <<s[i]>> ELSE g[i - 1]
  <2>1. i \in 0..n /\ i - 1 \in 0..n /\ g[i] = Part(i) /\ g[i - 1] = Part(i - 1)
    OBVIOUS
  <2>2. CASE i \in a..b
    <3>1. i \in a..b /\ m(i - 1) = i - a /\ m(i) = m(i - 1) + 1
      BY <2>2
    <3>2. s[i] \in S
      OBVIOUS
    <3>3. <<s[i]>> \in Seq(S) /\ Len(<<s[i]>>) = 1 /\ <<s[i]>>[1] = s[i]
      BY <3>2, OneElement
    <3>4. ASSUME NEW k \in 1..m(i)
          PROVE  Part(i)[k] = IF k <= m(i - 1) THEN Part(i - 1)[k] ELSE <<s[i]>>[k - m(i - 1)]
      <4>1. CASE k <= m(i - 1)
        BY <1>1, <2>1, <3>1, <4>1
      <4>2. CASE k > m(i - 1)
        <5>1. k = m(i) /\ a + k - 1 = i /\ k - m(i - 1) = 1
          BY <1>1, <2>1, <3>1, <4>2
        <5>2. Part(i)[k] = s[a + k - 1]
          OBVIOUS
        <5> QED
          BY <1>1, <2>1, <3>3, <4>2, <5>1, <5>2
      <4> QED
        BY <1>1, <2>1, <3>1, <4>1, <4>2
    <3> HIDE DEF Part, g, m
    <3> DEFINE u == Part(i - 1)
               v == <<s[i]>>
    <3>5. u \in Seq(S) /\ v \in Seq(S) /\ Len(u) = m(i - 1) /\ Len(v) = 1
      BY <1>1, <2>1, <3>3
    <3>6. Part(i) \in Seq(S) /\ Len(Part(i)) = m(i) /\ m(i) = m(i - 1) + 1
      BY <1>1, <2>1, <3>1
    <3>7. \A k \in 1..m(i) : Part(i)[k] = IF k <= m(i - 1) THEN u[k] ELSE v[k - m(i - 1)]
      BY <3>4
    <3> HIDE DEF u, v
    <3>8. /\ u \o v \in Seq(S) /\ Len(u \o v) = Len(u) + Len(v)
          /\ \A k \in 1..(Len(u) + Len(v)) :
               (u \o v)[k] = IF k <= Len(u) THEN u[k] ELSE v[k - Len(u)]
      BY <3>5, ConcatProperties
    <3>9. Part(i) = u \o v
      BY <3>5, <3>6, <3>7, <3>8, SeqEqual, SMTT(30)
    <3> QED
      BY <2>1, <2>2, <3>9 DEF u, v
  <2>3. CASE i \notin a..b
    <3>1. m(i) = m(i - 1)
      BY <2>3
    <3> QED
      BY <2>1, <2>3, <3>1
  <2> QED
    BY <2>2, <2>3
<1>4. g \in [0..n -> Seq(S)]
  BY <1>1
<1>5. IsPicking(g, n, s, a..b, S)
  <2> HIDE DEF g
  <2>1. g[0] = <<>>
    BY <1>2 DEF g
  <2> QED
    BY <1>3, <1>4, <2>1 DEF IsPicking
<1>6. Picked(s, a..b) = g[n]
  <2> HIDE DEF g
  <2> QED
    BY <1>5, PickedSays
<1>7. Picked(s, a..b) = Part(n) /\ n \in 0..n
  BY <1>6
<1>8. \A k \in 1..m(n) : Part(n)[k] = s[a + k - 1]
  OBVIOUS
<1> HIDE DEF Part, m, g
<1> QED
  BY <1>1, <1>2, <1>7, <1>8

LEMMA ContextSays ==
  ASSUME NEW files, NEW f \in Nat, NEW text \in Seq(SUBSET Parts), files[f] = text,
         NEW i \in 1..Len(text),
         NEW opts, opts.before \in Int, opts.after \in Int
  PROVE  /\ Surroundings(<<f, i>>, files, opts) = WithContext(f, text, i, opts)
         /\ WithContext(f, text, i, opts) \in Seq(Entries)
         /\ Len(WithContext(f, text, i, opts)) <= ContextSize(opts) + 1
<1> DEFINE n == Len(text)
           before == opts.before
           after == opts.after
           start == IF i > before THEN i - before ELSE 1
           end == IF i + after < n THEN i + after ELSE n
           a == AtMost(start, i)
           b == IF end > i THEN end ELSE i
           s == [l \in 1..n |-> Entry(f, l)]
           Near(l) == l = i \/ l \in (i - before)..(i - 1) \/ l \in (i + 1)..(i + after)
           at == {l \in 1..n : Near(l)}
<1>1. n \in Nat /\ DOMAIN text = 1..n /\ i \in 1..n /\ before \in Int /\ after \in Int
  BY LenProperties
<1>2. Surroundings(<<f, i>>, files, opts) = Picked(s, at)
  BY <1>1 DEF Surroundings
<1>3. WithContext(f, text, i, opts) = [k \in 1..(b - a + 1) |-> Entry(f, a + k - 1)]
  <2>1. b - a + 1 = IF end > i THEN end - a + 1 ELSE i - a + 1
    OBVIOUS
  <2>2. WithContext(f, text, i, opts)
          = [k \in 1..(IF end > i THEN end - a + 1 ELSE i - a + 1) |-> Entry(f, a + k - 1)]
    BY DEF WithContext
  <2> QED
    BY <2>1, <2>2
<1> HIDE DEF n, before, after
<1>4. a \in 1..n /\ b \in a..n
  BY <1>1 DEF AtMost
<1>13. b - a <= ContextSize(opts)
  <2>1. i - a <= IF before > 0 THEN before ELSE 0
    BY <1>1 DEF AtMost
  <2>2. b - i <= IF after > 0 THEN after ELSE 0
    BY <1>1
  <2>3. ContextSize(opts) = (IF before > 0 THEN before ELSE 0) + (IF after > 0 THEN after ELSE 0)
    BY DEF ContextSize, before, after
  <2> HIDE DEF a, b
  <2> QED
    BY <1>1, <1>4, <2>1, <2>2, <2>3
<1>5. at = a..b
  <2>1. \A l \in 1..n : l \in at <=> l \in a..b
    BY <1>1 DEF AtMost
  <2>2. \A l \in a..b : l \in 1..n
    BY <1>1, <1>4
  <2>3. \A l \in at : l \in 1..n
    OBVIOUS
  <2> HIDE DEF a, b, at
  <2> QED
    BY <2>1, <2>2, <2>3
<1>6. s \in [1..n -> Entries] /\ \A l \in 1..n : s[l] = Entry(f, l)
  <2>1. \A l \in 1..n : Entry(f, l) \in Entries
    BY <1>1 DEF Entry, Entries
  <2> QED
    BY <2>1
<1> HIDE DEF start, end, a, b, s, at
<1> DEFINE r == Picked(s, a..b)
           c == [k \in 1..(b - a + 1) |-> Entry(f, a + k - 1)]
<1>0. n \in Nat
  BY <1>1
<1>7. /\ r \in Seq(Entries) /\ Len(r) = b - a + 1
      /\ \A k \in 1..(b - a + 1) : r[k] = s[a + k - 1]
  <2>1. s \in Seq(Entries) /\ Len(s) = n
    BY <1>0, <1>6, IsSequence
  <2> QED
    <3>1. a \in 1..Len(s) /\ b \in a..Len(s)
      BY <1>4, <2>1
    <3> QED
      BY ONLY <2>1, <3>1, IntervalPicked, Zenon
<1>8. \A k \in 1..(b - a + 1) : a + k - 1 \in 1..n
  BY <1>1, <1>4
<1>9. \A k \in 1..(b - a + 1) : Entry(f, a + k - 1) = r[k] /\ r[k] \in Entries
  BY <1>6, <1>7, <1>8
<1>10. c \in Seq(Entries) /\ Len(c) = b - a + 1
  <2>1. c \in [1..(b - a + 1) -> Entries] /\ b - a + 1 \in Nat
    <3>1. b - a + 1 \in Nat
      BY <1>1, <1>4
    <3>2. \A k \in 1..(b - a + 1) : Entry(f, a + k - 1) \in Entries
      BY <1>9
    <3> QED
      BY <3>1, <3>2
  <2> HIDE DEF c
  <2> QED
    BY <2>1, IsSequence
<1>11. \A k \in 1..(b - a + 1) : c[k] = r[k]
  BY <1>9
<1>12. r = c
  <2> HIDE DEF r, c
  <2> QED
    BY <1>7, <1>10, <1>11, SeqEqual
<1>14. Len(c) <= ContextSize(opts) + 1
  <2>1. ContextSize(opts) \in Int
    BY <1>1 DEF ContextSize, before, after
  <2> HIDE DEF c
  <2> QED
    BY <1>1, <1>4, <1>10, <1>13, <2>1
<1> QED
  BY <1>2, <1>3, <1>5, <1>10, <1>12, <1>14

-----------------------------------------------------------------------------
(* What is found with the flag or without it is what matches within a line.  *)
LEMMA HitsSay ==
  ASSUME NEW text \in Seq(SUBSET Parts), NEW opts
  PROVE  Hits(text, opts) = Matched(text, FALSE)
<1> DEFINE n == Len(text)
           Both(l) == "begin" \in text[l] /\ "end" \in text[l]
<1>1. n \in Nat /\ DOMAIN text = 1..n
  BY LenProperties
<1>2. ASSUME NEW l \in 1..n PROVE MatchString(<<text[l]>>, opts.multiline) <=> Both(l)
  <2> DEFINE one == <<text[l]>>
  <2>1. DOMAIN one = {1} /\ one[1] = text[l]
    OBVIOUS
  <2> HIDE DEF one
  <2>2. MatchString(one, opts.multiline) <=> Matches(one, 1, 1, opts.multiline)
    BY <2>1 DEF MatchString
  <2>3. Matches(one, 1, 1, opts.multiline) <=> Both(l)
    BY <2>1 DEF Matches
  <2> QED
    BY <2>2, <2>3 DEF one
<1>3. ASSUME NEW l \in 1..n
      PROVE  (\E i \in 1..l, j \in l..n : Matches(text, i, j, FALSE)) <=> Both(l)
  <2>1. l \in 1..l /\ l \in l..n
    BY <1>1
  <2>2. ASSUME NEW i \in 1..l, NEW j \in l..n, Matches(text, i, j, FALSE) PROVE Both(l)
    <3>1. i = j /\ "begin" \in text[i] /\ "end" \in text[j]
      BY <2>2 DEF Matches
    <3>2. i = l
      BY <1>1, <3>1
    <3> QED
      BY <3>1, <3>2
  <2>3. Both(l) => Matches(text, l, l, FALSE)
    BY DEF Matches
  <2> QED
    BY <2>1, <2>2, <2>3
<1> QED
  BY <1>1, <1>2, <1>3 DEF Hits, Matched

(* r is what the groups of the first places make, up to the first group that  *)
(* reaches the limit.                                                       *)
Groups(c, places, group, S) ==
  /\ c \in [0..Len(places) -> Seq(S)]
  /\ c[0] = <<>>
  /\ \A i \in 1..Len(places) : c[i] = c[i - 1] \o group[places[i]]

IsCut(r, places, group, limit, S) ==
  \E c : /\ Groups(c, places, group, S)
         /\ \E k \in 0..Len(places) :
              /\ r = c[k]
              /\ k = Len(places) \/ Len(c[k]) >= limit
              /\ \A j \in 0..(k - 1) : Len(c[j]) < limit

LEMMA CutStarts ==
  ASSUME NEW group, NEW limit, NEW S
  PROVE  IsCut(<<>>, <<>>, group, limit, S)
<1> DEFINE none == <<>>
           c == [i \in 0..0 |-> none]
<1>1. none \in Seq(S) /\ Len(none) = 0
  OBVIOUS
<1> HIDE DEF none
<1>2. Groups(c, none, group, S)
  BY <1>1 DEF Groups, none
<1>3. c[0] = none /\ 0 \in 0..Len(none)
  BY <1>1
<1> HIDE DEF c
<1> QED
  BY <1>1, <1>2, <1>3 DEF IsCut, none

LEMMA CutGoesOn ==
  ASSUME NEW P, NEW S, NEW places \in Seq(P), NEW h \in P, NEW group \in [P -> Seq(S)],
         NEW limit \in Nat, NEW r, IsCut(r, places, group, limit, S)
  PROVE  /\ r \in Seq(S)
         /\ IsCut(IF Len(r) >= limit THEN r ELSE r \o group[h],
                  places \o <<h>>, group, limit, S)
<1> DEFINE n == Len(places)
           more == places \o <<h>>
<1>0. PICK c : /\ Groups(c, places, group, S)
               /\ \E k \in 0..n : /\ r = c[k]
                                  /\ k = n \/ Len(c[k]) >= limit
                                  /\ \A j \in 0..(k - 1) : Len(c[j]) < limit
  BY DEF IsCut
<1>1. PICK k \in 0..n : /\ k \in 0..n
                        /\ Groups(c, places, group, S)
                        /\ r = c[k]
                        /\ k = n \/ Len(c[k]) >= limit
                        /\ \A j \in 0..(k - 1) : Len(c[j]) < limit
  BY <1>0
<1>2. n \in Nat /\ more \in Seq(P) /\ Len(more) = n + 1
      /\ more[n + 1] = h /\ \A i \in 1..n : more[i] = places[i]
  <2>1. <<h>> \in Seq(P) /\ Len(<<h>>) = 1 /\ <<h>>[1] = h
    BY OneElement
  <2> DEFINE u == <<h>>
  <2> HIDE DEF u
  <2>2. u \in Seq(P) /\ Len(u) = 1 /\ u[1] = h
    BY <2>1 DEF u
  <2>3. n \in Nat
    BY LenProperties
  <2>4. /\ places \o u \in Seq(P) /\ Len(places \o u) = Len(places) + Len(u)
        /\ \A i \in 1..(Len(places) + Len(u)) :
             (places \o u)[i] = IF i <= Len(places) THEN places[i] ELSE u[i - Len(places)]
    BY <2>2, ConcatProperties
  <2>5. n + 1 \in 1..(n + 1) /\ ~(n + 1 <= n) /\ (n + 1) - n = 1
        /\ \A i \in 1..n : i \in 1..(n + 1) /\ i <= n
    BY <2>3
  <2> QED
    BY <2>2, <2>3, <2>4, <2>5 DEF u
<1>3. /\ c \in [0..n -> Seq(S)] /\ c[0] = <<>>
      /\ \A i \in 1..n : c[i] = c[i - 1] \o group[places[i]]
  BY <1>1 DEF Groups
<1> HIDE DEF more, n
<1> DEFINE d == [i \in 0..(n + 1) |-> IF i = n + 1 THEN c[n] \o group[h] ELSE c[i]]
<1>4. group[h] \in Seq(S) /\ c[n] \in Seq(S)
  BY <1>2, <1>3
<1>5. c[n] \o group[h] \in Seq(S)
  BY <1>4, ConcatProperties
<1>6. d \in [0..(n + 1) -> Seq(S)] /\ d[n + 1] = c[n] \o group[h] /\ \A i \in 0..n : d[i] = c[i]
  <2>1. n \in Nat /\ n + 1 \in 0..(n + 1) /\ \A i \in 0..n : i \in 0..(n + 1) /\ i # n + 1
    BY <1>2
  <2>2. \A i \in 0..(n + 1) : i # n + 1 => i \in 0..n
    BY <2>1
  <2> QED
    BY <1>3, <1>5, <2>1, <2>2
<1> HIDE DEF d
<1>7. Groups(d, more, group, S)
  <2>1. d[0] = <<>>
    BY <1>2, <1>3, <1>6
  <2>2. ASSUME NEW i \in 1..(n + 1) PROVE d[i] = d[i - 1] \o group[more[i]]
    <3>1. CASE i = n + 1
      <4>1. i - 1 = n /\ n \in 0..n
        BY <1>2, <3>1
      <4> QED
        BY <1>2, <1>6, <3>1, <4>1
    <3>2. CASE i # n + 1
      <4>1. i \in 1..n /\ i \in 0..n /\ i - 1 \in 0..n
        BY <1>2, <3>2
      <4> QED
        BY <1>2, <1>3, <1>6, <4>1
    <3> QED
      BY <3>1, <3>2
  <2> QED
    BY <1>2, <1>6, <2>1, <2>2 DEF Groups
<1>8. r \in Seq(S) /\ Len(r) \in Nat
  BY <1>1, <1>3, LenProperties
<1>9. CASE Len(r) >= limit
  <2>1. k \in 0..(n + 1) /\ r = d[k] /\ Len(d[k]) >= limit
    BY <1>1, <1>2, <1>6, <1>9
  <2>2. ASSUME NEW j \in 0..(k - 1) PROVE Len(d[j]) < limit
    <3>1. j \in 0..n
      BY <1>1, <1>2
    <3> QED
      BY <1>1, <1>6, <3>1
  <2> QED
    BY <1>2, <1>7, <1>8, <1>9, <2>1, <2>2 DEF IsCut, more
<1>10. CASE ~(Len(r) >= limit)
  <2>1. k = n /\ n + 1 \in 0..(n + 1)
    BY <1>1, <1>2, <1>10
  <2>2. r \o group[h] = d[n + 1]
    BY <1>1, <1>6, <2>1
  <2>3. ASSUME NEW j \in 0..n PROVE Len(d[j]) < limit
    <3>1. CASE j = n
      BY <1>1, <1>6, <1>8, <1>10, <2>1, <3>1
    <3>2. CASE j # n
      <4>1. j \in 0..(k - 1)
        BY <1>2, <2>1, <3>2
      <4> QED
        BY <1>1, <1>6, <4>1
    <3> QED
      BY <3>1, <3>2
  <2>4. (n + 1) - 1 = n
    BY <1>2
  <2> QED
    BY <1>2, <1>7, <1>8, <1>10, <2>1, <2>2, <2>3, <2>4 DEF IsCut, more
<1> QED
  BY <1>8, <1>9, <1>10

AreFirst(first, places, group) ==
  \A k \in 0..Len(places) : first[k] = FlattenSeq([i \in 1..k |-> group[places[i]]])

LEMMA CutSays ==
  ASSUME NEW P, NEW S, NEW places \in Seq(P), NEW group \in [P -> Seq(S)],
         NEW limit \in Nat, NEW r, IsCut(r, places, group, limit, S),
         NEW first, AreFirst(first, places, group)
  PROVE  r = first[Min({k \in 0..Len(places) : k = Len(places) \/ Len(first[k]) >= limit})]
<1> DEFINE n == Len(places)
           enough == {k \in 0..n : k = n \/ Len(first[k]) >= limit}
<1>0. PICK c : /\ Groups(c, places, group, S)
               /\ \E k \in 0..n : /\ r = c[k]
                                  /\ k = n \/ Len(c[k]) >= limit
                                  /\ \A j \in 0..(k - 1) : Len(c[j]) < limit
  BY DEF IsCut
<1>1. PICK k \in 0..n : /\ k \in 0..n
                        /\ Groups(c, places, group, S)
                        /\ r = c[k]
                        /\ k = n \/ Len(c[k]) >= limit
                        /\ \A j \in 0..(k - 1) : Len(c[j]) < limit
  BY <1>0
<1>2. n \in Nat
  BY LenProperties
<1>3. \A i \in 1..n : places[i] \in P
  BY ElementOfSeq
<1> DEFINE s == [i \in 1..n |-> group[places[i]]]
<1>4. s \in SeqsOf(n, S) /\ \A i \in 1..n : s[i] = group[places[i]]
  BY <1>3 DEF SeqsOf
<1>5. IsConcat(c, n, s, S)
  BY <1>1, <1>4 DEF IsConcat, Groups
<1> HIDE DEF s, n
<1>6. ASSUME NEW j \in 0..n PROVE first[j] = c[j]
  <2> DEFINE t == [i \in 1..j |-> group[places[i]]]
  <2>1. \A i \in 1..j : i \in 1..n /\ places[i] \in P
    BY <1>2, <1>3
  <2>2. t \in SeqsOf(j, S) /\ \A i \in 1..j : t[i] = s[i]
    BY <1>4, <2>1 DEF SeqsOf
  <2>3. first[j] = FlattenSeq(t)
    BY DEF n, AreFirst
  <2> HIDE DEF t
  <2> QED
    BY <1>2, <1>4, <1>5, <2>2, <2>3, FlattenSays
<1>7. \A j \in 0..n : Len(c[j]) \in Nat
  BY <1>1, LenProperties DEF Groups, n
<1>8. k \in enough /\ \A j \in enough : k <= j
  <2>1. ASSUME NEW j \in enough, j < k PROVE FALSE
    <3>1. j \in 0..(k - 1) /\ j \in 0..n /\ j # n
      BY <1>2, <2>1
    <3>2. Len(c[j]) < limit /\ Len(c[j]) >= limit
      BY <1>1, <1>6, <3>1
    <3> QED
      BY <1>7, <3>1, <3>2
  <2> QED
    BY <1>1, <1>2, <1>6, <2>1
<1>9. Min(enough) = k
  <2>1. enough \in SUBSET (0..n) /\ enough # {}
    BY <1>8
  <2> HIDE DEF enough
  <2>2. Min(enough) \in enough /\ \A j \in enough : Min(enough) <= j
    BY <1>2, <2>1, MinSays
  <2>3. Min(enough) \in 0..n /\ k \in 0..n /\ Min(enough) <= k /\ k <= Min(enough)
    BY <1>1, <1>8, <2>1, <2>2
  <2> QED
    BY <1>2, <2>3
<1> QED
  BY <1>1, <1>6, <1>9 DEF n

(* The last group may go beyond the limit.                                   *)
LEMMA CutLength ==
  ASSUME NEW P, NEW S, NEW places \in Seq(P), NEW group \in [P -> Seq(S)],
         NEW limit \in Nat \ {0}, NEW size \in Nat,
         \A h \in P : Len(group[h]) <= size + 1,
         NEW r, IsCut(r, places, group, limit, S)
  PROVE  Len(r) <= limit + size
<1> DEFINE n == Len(places)
<1>1. PICK c : /\ Groups(c, places, group, S)
               /\ \E k \in 0..n : /\ r = c[k]
                                  /\ k = n \/ Len(c[k]) >= limit
                                  /\ \A j \in 0..(k - 1) : Len(c[j]) < limit
  BY DEF IsCut
<1>2. PICK k \in 0..n : r = c[k] /\ \A j \in 0..(k - 1) : Len(c[j]) < limit
  BY <1>1
<1>3. n \in Nat
  BY LenProperties
<1>4. /\ c \in [0..n -> Seq(S)] /\ c[0] = <<>>
      /\ \A i \in 1..n : c[i] = c[i - 1] \o group[places[i]]
  BY <1>1 DEF Groups
<1>5. CASE k = 0
  BY <1>2, <1>4, <1>5
<1>6. CASE k # 0
  <2> DEFINE u == c[k - 1]
             g == group[places[k]]
  <2>1. k \in 1..n /\ k - 1 \in 0..n /\ k - 1 \in 0..(k - 1)
    BY <1>2, <1>3, <1>6
  <2>2. places[k] \in P
    BY <2>1, ElementOfSeq
  <2>3. u \in Seq(S) /\ g \in Seq(S) /\ r = u \o g /\ Len(u) < limit /\ Len(g) <= size + 1
    BY <1>2, <1>4, <2>1, <2>2
  <2> HIDE DEF u, g
  <2>4. Len(r) = Len(u) + Len(g) /\ Len(u) \in Nat /\ Len(g) \in Nat
    BY <2>3, ConcatProperties, LenProperties
  <2> QED
    BY <2>3, <2>4
<1> QED
  BY <1>5, <1>6

IsSearch(files, opts) ==
  /\ files \in Seq(Seq(SUBSET Parts))
  /\ opts.before \in Int /\ opts.after \in Int /\ opts.limit \in Int

PlacesIn(files) == {h \in Nat \X Nat : h[1] \in 1..Len(files) /\ h[2] \in 1..Len(files[h[1]])}

GroupsIn(files, opts) == [h \in PlacesIn(files) |-> Surroundings(h, files, opts)]

LEMMA PlaceSays ==
  ASSUME NEW files, NEW opts, IsSearch(files, opts),
         NEW f \in 1..Len(files), NEW i \in 1..Len(files[f])
  PROVE  /\ f \in Nat /\ files[f] \in Seq(SUBSET Parts) /\ i \in Nat
         /\ <<f, i>> \in PlacesIn(files)
         /\ GroupsIn(files, opts)[<<f, i>>] = WithContext(f, files[f], i, opts)
         /\ WithContext(f, files[f], i, opts) \in Seq(Entries)
         /\ Len(WithContext(f, files[f], i, opts)) <= ContextSize(opts) + 1
<1>1. files \in Seq(Seq(SUBSET Parts)) /\ opts.before \in Int /\ opts.after \in Int
  BY DEF IsSearch
<1>2. Len(files) \in Nat /\ files[f] \in Seq(SUBSET Parts)
  BY <1>1, LenProperties, ElementOfSeq
<1>3. Len(files[f]) \in Nat
  BY <1>2, LenProperties
<1>4. f \in Nat /\ i \in Nat
  BY <1>2, <1>3
<1>5. <<f, i>> \in PlacesIn(files)
  BY <1>4 DEF PlacesIn
<1>6. /\ Surroundings(<<f, i>>, files, opts) = WithContext(f, files[f], i, opts)
      /\ WithContext(f, files[f], i, opts) \in Seq(Entries)
      /\ Len(WithContext(f, files[f], i, opts)) <= ContextSize(opts) + 1
  BY <1>1, <1>2, <1>4, ContextSays
<1> QED
  BY <1>2, <1>4, <1>5, <1>6 DEF GroupsIn

LEMMA GroupsAreEntries ==
  ASSUME NEW files, NEW opts, IsSearch(files, opts)
  PROVE  /\ GroupsIn(files, opts) \in [PlacesIn(files) -> Seq(Entries)]
         /\ \A h \in PlacesIn(files) : Len(GroupsIn(files, opts)[h]) <= ContextSize(opts) + 1
<1>1. ASSUME NEW h \in PlacesIn(files)
      PROVE  /\ Surroundings(h, files, opts) \in Seq(Entries)
             /\ Len(GroupsIn(files, opts)[h]) <= ContextSize(opts) + 1
  <2>1. h[1] \in 1..Len(files) /\ h[2] \in 1..Len(files[h[1]]) /\ h = <<h[1], h[2]>>
    BY DEF PlacesIn
  <2>2. /\ GroupsIn(files, opts)[<<h[1], h[2]>>] \in Seq(Entries)
        /\ Len(GroupsIn(files, opts)[<<h[1], h[2]>>]) <= ContextSize(opts) + 1
    BY <2>1, PlaceSays
  <2> QED
    BY <2>1, <2>2 DEF GroupsIn
<1> QED
  BY <1>1 DEF GroupsIn

LEMMA HeadLimitIsNat ==
  ASSUME NEW files, NEW opts, IsSearch(files, opts)
  PROVE  HeadLimit(opts) \in Nat \ {0}
BY DEF IsSearch, HeadLimit, DefaultHeadLimit

(* One line.                                                                 *)
LEMMA LineIsSearched ==
  ASSUME NEW files, NEW opts, IsSearch(files, opts),
         NEW f \in 1..Len(files), NEW i \in 1..Len(files[f]), NEW r \in Seq(Entries)
  PROVE  /\ GrepLine(f, files[f], i, opts)[r]
              = IF i \notin Hits(files[f], opts) THEN r
                ELSE IF Len(r) >= HeadLimit(opts) THEN r
                ELSE r \o GroupsIn(files, opts)[<<f, i>>]
         /\ GrepLine(f, files[f], i, opts)[r] \in Seq(Entries)
<1> DEFINE w == WithContext(f, files[f], i, opts)
<1>1. GrepLine(f, files[f], i, opts)[r]
        = IF Len(r) >= HeadLimit(opts) \/ i \notin Hits(files[f], opts) THEN r ELSE r \o w
  BY DEF GrepLine, Full
<1>2. w \in Seq(Entries) /\ GroupsIn(files, opts)[<<f, i>>] = w
  BY PlaceSays
<1> HIDE DEF w
<1>3. r \o w \in Seq(Entries)
  BY <1>2, ConcatProperties
<1> QED
  BY <1>1, <1>2, <1>3

(* The lines of a file.                                                      *)
LEMMA FileLoop ==
  ASSUME NEW files, NEW opts, IsSearch(files, opts),
         NEW f \in 1..Len(files), NEW r \in Seq(Entries)
  PROVE  \E h : /\ h[0] = r
                /\ \A i \in 1..Len(files[f]) : h[i] = GrepLine(f, files[f], i, opts)[h[i - 1]]
                /\ GrepOneFile(f, files[f], opts)[r]
                     = IF Len(r) >= HeadLimit(opts) THEN r ELSE h[Len(files[f])]
<1> DEFINE text == files[f]
           n == Len(text)
           Line(i) == GrepLine(f, text, i, opts)
           Step(g, i) == IF i = 0 THEN r ELSE Line(i)[g[i - 1]]
           Loop(g) == g = [i \in 0..n |-> Step(g, i)]
           h == CHOOSE g : Loop(g)
           V == Seq(Entries)
           round == [i \in 1..n |-> [x \in V |-> Line(i)[x]]]
<1>1. GrepOneFile(f, text, opts)[r] = IF Len(r) >= HeadLimit(opts) THEN r ELSE h[n]
  BY DEF GrepOneFile, Full
<1>2. n \in Nat
  <2>1. files[f] \in Seq(SUBSET Parts)
    BY ElementOfSeq DEF IsSearch
  <2> QED
    BY <2>1, LenProperties
<1>3. \A i \in 1..n, x \in V : Line(i)[x] \in V
  BY LineIsSearched
<1> HIDE DEF n, V, Line
<1>4. round \in Rounds(n, V)
  BY <1>3 DEF Rounds
<1> HIDE DEF round
<1>5. PICK g : IsLoop(g, n, V, r, round)
  BY <1>2, <1>4, LoopExists DEF V
<1>6. g \in [0..n -> V] /\ g[0] = r /\ \A i \in 1..n : g[i] = round[i][g[i - 1]]
  BY <1>5 DEF IsLoop
<1>7. Loop(g)
  <2>1. ASSUME NEW i \in 0..n PROVE g[i] = Step(g, i)
    <3>1. CASE i = 0
      BY <1>6, <3>1
    <3>2. CASE i # 0
      <4>1. i \in 1..n /\ i - 1 \in 0..n
        BY <1>2, <3>2
      <4>2. g[i - 1] \in V /\ g[i] = round[i][g[i - 1]]
        BY <1>6, <4>1
      <4> QED
        BY <3>2, <4>1, <4>2 DEF round
    <3> QED
      BY <3>1, <3>2
  <2> HIDE DEF Step
  <2> QED
    BY <1>6, <2>1
<1>8. Loop(h)
  <2> HIDE DEF Loop
  <2> QED
    BY <1>7
<1> HIDE DEF h
<1>9. h[0] = r
  <2>1. 0 \in 0..n
    BY <1>2
  <2> QED
    BY <1>8, <2>1
<1>10. ASSUME NEW i \in 1..n PROVE h[i] = Line(i)[h[i - 1]]
  <2>1. i \in 0..n /\ i # 0
    BY <1>2
  <2> QED
    BY <1>8, <2>1
<1> QED
  BY <1>1, <1>9, <1>10 DEF n, Line

LEMMA FileIsSearched ==
  ASSUME NEW files, NEW opts, IsSearch(files, opts), NEW f \in 1..Len(files),
         NEW places \in Seq(PlacesIn(files)), NEW r,
         IsCut(r, places, GroupsIn(files, opts), HeadLimit(opts), Entries)
  PROVE  /\ places \o HitsOf(f, files[f], FALSE) \in Seq(PlacesIn(files))
         /\ IsCut(GrepOneFile(f, files[f], opts)[r], places \o HitsOf(f, files[f], FALSE),
                  GroupsIn(files, opts), HeadLimit(opts), Entries)
<1> DEFINE text == files[f]
           n == Len(text)
           P == PlacesIn(files)
           group == GroupsIn(files, opts)
           limit == HeadLimit(opts)
           s == [l \in 1..n |-> <<f, l>>]
           at == Hits(text, opts)
<1>1. text \in Seq(SUBSET Parts) /\ n \in Nat /\ DOMAIN text = 1..n
  <2>1. text \in Seq(SUBSET Parts)
    BY ElementOfSeq DEF IsSearch
  <2> QED
    BY <2>1, LenProperties
<1>2. s \in [1..n -> P] /\ \A i \in 1..n : s[i] = <<f, i>> /\ <<f, i>> \in P
  BY PlaceSays
<1>3. group \in [P -> Seq(Entries)] /\ limit \in Nat
  BY GroupsAreEntries, HeadLimitIsNat
<1>4. HitsOf(f, text, FALSE) = Picked(s, at)
  BY <1>1, HitsSay DEF HitsOf
<1>5. PICK hp : IsPicking(hp, n, s, at, P)
  <2> HIDE DEF s, n, P
  <2> QED
    BY <1>1, <1>2, PickingExists
<1>6. Picked(s, at) = hp[n]
  <2> HIDE DEF s, n, P
  <2> QED
    BY <1>1, <1>2, <1>5, PickedSays
<1>7. /\ hp \in [0..n -> Seq(P)] /\ hp[0] = <<>>
      /\ \A i \in 1..n : hp[i] = IF i \in at THEN hp[i - 1] \o <<s[i]>> ELSE hp[i - 1]
  BY <1>5 DEF IsPicking
<1>8. r \in Seq(Entries)
  <2>1. PICK c, k : Groups(c, places, group, Entries) /\ k \in 0..Len(places) /\ r = c[k]
    BY DEF IsCut
  <2> QED
    BY <2>1 DEF Groups
<1>9. PICK g : /\ g[0] = r
               /\ \A i \in 1..n : g[i] = GrepLine(f, text, i, opts)[g[i - 1]]
               /\ GrepOneFile(f, text, opts)[r] = IF Len(r) >= limit THEN r ELSE g[n]
  BY <1>8, FileLoop
<1> DEFINE Line(i) == GrepLine(f, text, i, opts)
<1>10. \A i \in 1..n, x \in Seq(Entries) :
         /\ Line(i)[x] = IF i \notin at THEN x
                         ELSE IF Len(x) >= limit THEN x ELSE x \o group[<<f, i>>]
         /\ Line(i)[x] \in Seq(Entries)
  BY LineIsSearched
<1>11. \A i \in 1..n : g[i] = Line(i)[g[i - 1]]
  BY <1>9
<1> HIDE DEF n, P, group, limit, s, at, Line
<1> DEFINE Cut(x, i) == IsCut(x, places \o hp[i], group, limit, Entries)
           Q == {i \in 0..n : g[i] \in Seq(Entries) /\ Cut(g[i], i) /\ (Len(r) >= limit => g[i] = r)}
<1>12. places \in Seq(P)
  BY DEF P
<1>13. 0 \in Q
  <2>1. places \o hp[0] = places
    BY <1>7, <1>12, ConcatEmptySeq
  <2>2. Cut(r, 0)
    BY <2>1 DEF group, limit
  <2> HIDE DEF Cut
  <2> QED
    BY <1>1, <1>8, <1>9, <2>2
<1>14. ASSUME NEW k \in 0..(n - 1), k \in Q PROVE k + 1 \in Q
  <2>1. k + 1 \in 1..n /\ (k + 1) - 1 = k /\ k \in 0..n /\ k + 1 \in 0..n
    BY <1>1
  <2>2. g[k] \in Seq(Entries) /\ Cut(g[k], k) /\ (Len(r) >= limit => g[k] = r)
    BY <1>14
  <2>3. g[k + 1] = Line(k + 1)[g[k]]
    BY <1>11, <2>1
  <2>4. hp[k] \in Seq(P)
    BY <1>7, <2>1
  <2>5. CASE k + 1 \notin at
    <3>1. g[k + 1] = g[k] /\ hp[k + 1] = hp[k]
      BY <1>7, <1>10, <2>1, <2>2, <2>3, <2>5
    <3> QED
      BY <2>1, <2>2, <3>1
  <2>6. CASE k + 1 \in at
    <3> DEFINE e == <<f, k + 1>>
               one == <<e>>
    <3>1. e \in P /\ hp[k + 1] = hp[k] \o one
      BY <1>2, <1>7, <2>1, <2>6
    <3>2. g[k + 1] = IF Len(g[k]) >= limit THEN g[k] ELSE g[k] \o group[e]
      BY <1>10, <2>1, <2>2, <2>3, <2>6
    <3> HIDE DEF e
    <3>3. one \in Seq(P)
      BY <3>1, OneElement
    <3> HIDE DEF one
    <3>4. places \o hp[k + 1] = (places \o hp[k]) \o one
      <4>1. (places \o hp[k]) \o one = places \o (hp[k] \o one)
        <5> DEFINE u == hp[k]
        <5> HIDE DEF u
        <5>1. places \in Seq(P) /\ u \in Seq(P) /\ one \in Seq(P)
          BY <1>12, <2>4, <3>3 DEF u
        <5>2. (places \o u) \o one = places \o (u \o one)
          BY ONLY <5>1, Regrouped, SMTT(30)
        <5> QED
          BY <5>2 DEF u
      <4> QED
        BY <3>1, <4>1
    <3>5. places \o hp[k] \in Seq(P)
      BY <1>12, <2>4, ConcatProperties
    <3> DEFINE pk == places \o hp[k]
               gk == g[k]
               more == IF Len(gk) >= limit THEN gk ELSE gk \o group[e]
    <3>6. pk \in Seq(P) /\ IsCut(gk, pk, group, limit, Entries)
      BY <2>2, <3>5
    <3>7. IsCut(more, pk \o <<e>>, group, limit, Entries)
      <4> HIDE DEF pk, gk
      <4> QED
        BY <1>3, <3>1, <3>6, CutGoesOn
    <3>8. IsCut(g[k + 1], places \o hp[k + 1], group, limit, Entries)
      BY <3>2, <3>4, <3>7 DEF one
    <3>9. g[k + 1] \in Seq(Entries)
      BY <1>10, <2>1, <2>2, <2>3
    <3>10. Len(r) >= limit => g[k + 1] = r
      BY <2>2, <3>2
    <3> QED
      BY <2>1, <3>8, <3>9, <3>10
  <2> QED
    BY <2>5, <2>6
<1>15. n \in Q
  <2> HIDE DEF Q
  <2> QED
    BY <1>1, <1>13, <1>14, UpTo
<1>16. GrepOneFile(f, text, opts)[r] = g[n]
  BY <1>9, <1>15 DEF n, limit
<1>17. hp[n] \in Seq(P)
  BY <1>1, <1>7
<1>18. places \o hp[n] \in Seq(P)
  BY <1>12, <1>17, ConcatProperties
<1> QED
  BY <1>4, <1>6, <1>15, <1>16, <1>18 DEF P, group, limit

LEMMA HitsArePlaces ==
  ASSUME NEW files, NEW opts, IsSearch(files, opts), NEW f \in 1..Len(files)
  PROVE  /\ HitsOf(f, files[f], FALSE) \in Seq(PlacesIn(files))
         /\ Len(HitsOf(f, files[f], FALSE)) = Cardinality(Hits(files[f], opts))
         /\ HitsOf(f, files[f], FALSE) = <<>> <=> Hits(files[f], opts) = {}
<1> DEFINE text == files[f]
           n == Len(text)
           P == PlacesIn(files)
           s == [l \in 1..n |-> <<f, l>>]
           at == Hits(text, opts)
<1>1. text \in Seq(SUBSET Parts) /\ n \in Nat /\ DOMAIN text = 1..n
  <2>1. text \in Seq(SUBSET Parts)
    BY ElementOfSeq DEF IsSearch
  <2> QED
    BY <2>1, LenProperties
<1>2. s \in [1..n -> P]
  BY PlaceSays
<1>3. at \in SUBSET (1..n)
  BY DEF Hits
<1>4. HitsOf(f, text, FALSE) = Picked(s, at)
  BY <1>1, HitsSay DEF HitsOf
<1> HIDE DEF n, P, s, at
<1>5. s \in Seq(P) /\ Len(s) = n
  BY <1>1, <1>2, IsSequence
<1>6. Picked(s, at) \in Seq(P) /\ Len(Picked(s, at)) = Cardinality(at) /\ IsFiniteSet(at)
  BY <1>3, <1>5, PickedLength
<1>7. Cardinality(at) = 0 <=> at = {}
  BY <1>6, FS_EmptySet
<1>8. Picked(s, at) = <<>> <=> Len(Picked(s, at)) = 0
  BY <1>6, EmptySeq
<1> QED
  BY <1>4, <1>6, <1>7, <1>8 DEF P, at

LEMMA FileKeepsEntries ==
  ASSUME NEW files, NEW opts, IsSearch(files, opts),
         NEW f \in 1..Len(files), NEW r \in Seq(Entries)
  PROVE  GrepOneFile(f, files[f], opts)[r] \in Seq(Entries)
<1> DEFINE n == Len(files[f])
           Line(i) == GrepLine(f, files[f], i, opts)
<1>1. PICK g : /\ g[0] = r
               /\ \A i \in 1..n : g[i] = Line(i)[g[i - 1]]
               /\ GrepOneFile(f, files[f], opts)[r] = IF Len(r) >= HeadLimit(opts) THEN r ELSE g[n]
  BY FileLoop
<1>2. n \in Nat
  <2>1. files[f] \in Seq(SUBSET Parts)
    BY ElementOfSeq DEF IsSearch
  <2> QED
    BY <2>1, LenProperties
<1>3. \A i \in 1..n, x \in Seq(Entries) : Line(i)[x] \in Seq(Entries)
  BY LineIsSearched
<1> HIDE DEF n, Line
<1> DEFINE Q == {i \in 0..n : g[i] \in Seq(Entries)}
<1>4. 0 \in Q
  BY <1>1, <1>2
<1>5. ASSUME NEW k \in 0..(n - 1), k \in Q PROVE k + 1 \in Q
  <2>1. k + 1 \in 1..n /\ (k + 1) - 1 = k /\ k + 1 \in 0..n
    BY <1>2
  <2>2. g[k + 1] = Line(k + 1)[g[k]]
    BY <1>1, <2>1
  <2> QED
    BY <1>3, <1>5, <2>1, <2>2
<1>6. n \in Q
  <2> HIDE DEF Q
  <2> QED
    BY <1>2, <1>4, <1>5, UpTo
<1> QED
  BY <1>1, <1>6

(* The files of the walk.                                                    *)
LEMMA ContentLoop ==
  ASSUME NEW files, NEW opts, IsSearch(files, opts)
  PROVE  \E h : /\ h[0] = <<>>
                /\ \A f \in 1..Len(files) : h[f] = GrepOneFile(f, files[f], opts)[h[f - 1]]
                /\ GrepContent(files, opts) = h[Len(files)]
<1> DEFINE n == Len(files)
           File(f) == GrepOneFile(f, files[f], opts)
           Step(g, f) == IF f = 0 THEN <<>> ELSE File(f)[g[f - 1]]
           Loop(g) == g = [f \in 0..n |-> Step(g, f)]
           h == CHOOSE g : Loop(g)
           V == Seq(Entries)
           none == <<>>
           round == [f \in 1..n |-> [x \in V |-> File(f)[x]]]
<1>1. GrepContent(files, opts) = h[n]
  BY DEF GrepContent
<1>2. n \in Nat /\ none \in V
  BY LenProperties DEF IsSearch
<1>3. \A f \in 1..n, x \in V : File(f)[x] \in V
  BY FileKeepsEntries
<1> HIDE DEF n, V, File
<1>4. round \in Rounds(n, V)
  BY <1>3 DEF Rounds
<1> HIDE DEF round, none
<1>5. PICK g : IsLoop(g, n, V, none, round)
  BY <1>2, <1>4, LoopExists
<1>6. g \in [0..n -> V] /\ g[0] = none /\ \A f \in 1..n : g[f] = round[f][g[f - 1]]
  BY <1>5 DEF IsLoop
<1>7. Loop(g)
  <2>1. ASSUME NEW f \in 0..n PROVE g[f] = Step(g, f)
    <3>1. CASE f = 0
      BY <1>6, <3>1 DEF none
    <3>2. CASE f # 0
      <4>1. f \in 1..n /\ f - 1 \in 0..n
        BY <1>2, <3>2
      <4>2. g[f - 1] \in V /\ g[f] = round[f][g[f - 1]]
        BY <1>6, <4>1
      <4> QED
        BY <3>2, <4>1, <4>2 DEF round
    <3> QED
      BY <3>1, <3>2
  <2> HIDE DEF Step
  <2> QED
    BY <1>6, <2>1
<1>8. Loop(h)
  <2> HIDE DEF Loop
  <2> QED
    BY <1>7
<1> HIDE DEF h
<1>9. h[0] = <<>>
  <2>1. 0 \in 0..n
    BY <1>2
  <2> QED
    BY <1>8, <2>1
<1>10. ASSUME NEW f \in 1..n PROVE h[f] = File(f)[h[f - 1]]
  <2>1. f \in 0..n /\ f # 0
    BY <1>2
  <2> QED
    BY <1>8, <2>1
<1> QED
  BY <1>1, <1>9, <1>10 DEF n, File

LEMMA ContentIsCut ==
  ASSUME NEW files, NEW opts, IsSearch(files, opts)
  PROVE  /\ AllHits(files, FALSE) \in Seq(PlacesIn(files))
         /\ IsCut(GrepContent(files, opts), AllHits(files, FALSE), GroupsIn(files, opts),
                  HeadLimit(opts), Entries)
<1> DEFINE n == Len(files)
           P == PlacesIn(files)
           group == GroupsIn(files, opts)
           limit == HeadLimit(opts)
           Of(f) == HitsOf(f, files[f], FALSE)
           t == [f \in 1..n |-> Of(f)]
           File(f) == GrepOneFile(f, files[f], opts)
<1>1. n \in Nat /\ DOMAIN files = 1..n
  BY LenProperties DEF IsSearch
<1>2. \A f \in 1..n : Of(f) \in Seq(P)
  BY HitsArePlaces
<1>3. AllHits(files, FALSE) = FlattenSeq(t)
  BY <1>1 DEF AllHits
<1>4. PICK h : /\ h[0] = <<>>
               /\ \A f \in 1..n : h[f] = File(f)[h[f - 1]]
               /\ GrepContent(files, opts) = h[n]
  BY ContentLoop
<1>5. ASSUME NEW f \in 1..n, NEW places \in Seq(P), NEW r, IsCut(r, places, group, limit, Entries)
      PROVE  IsCut(File(f)[r], places \o Of(f), group, limit, Entries)
  BY <1>5, FileIsSearched
<1> HIDE DEF n, P, group, limit, Of, File
<1>6. t \in SeqsOf(n, P) /\ \A f \in 1..n : t[f] = Of(f)
  BY <1>2 DEF SeqsOf
<1> HIDE DEF t
<1>7. PICK hb : IsConcat(hb, n, t, P)
  BY <1>1, <1>6, ConcatExists
<1>8. FlattenSeq(t) = hb[n]
  <2>1. n \in 0..n
    BY <1>1
  <2> QED
    BY <1>1, <1>6, <1>7, <2>1, FlattenSays
<1>9. hb \in [0..n -> Seq(P)] /\ hb[0] = <<>> /\ \A f \in 1..n : hb[f] = hb[f - 1] \o Of(f)
  BY <1>6, <1>7 DEF IsConcat
<1> DEFINE Cut(f) == IsCut(h[f], hb[f], group, limit, Entries)
           Q == {f \in 0..n : Cut(f)}
<1>10. 0 \in Q
  BY <1>1, <1>4, <1>9, CutStarts
<1>11. ASSUME NEW k \in 0..(n - 1), k \in Q PROVE k + 1 \in Q
  <2>1. k + 1 \in 1..n /\ (k + 1) - 1 = k /\ k + 1 \in 0..n /\ k \in 0..n
    BY <1>1
  <2>2. Cut(k) /\ hb[k] \in Seq(P)
    BY <1>9, <1>11, <2>1
  <2>3. IsCut(File(k + 1)[h[k]], hb[k] \o Of(k + 1), group, limit, Entries)
    BY <1>5, <2>1, <2>2
  <2>4. h[k + 1] = File(k + 1)[h[k]] /\ hb[k + 1] = hb[k] \o Of(k + 1)
    BY <1>4, <1>9, <2>1
  <2> QED
    BY <2>1, <2>3, <2>4
<1>12. n \in Q
  <2> HIDE DEF Q
  <2> QED
    BY <1>1, <1>10, <1>11, UpTo
<1>13. hb[n] \in Seq(P)
  BY <1>1, <1>9
<1> QED
  BY <1>3, <1>4, <1>8, <1>12, <1>13 DEF P, group, limit

LEMMA ContentIsRight ==
  ASSUME NEW files, NEW opts, IsSearch(files, opts)
  PROVE  GrepContent(files, opts) =
           LET limit == HeadLimit(opts)
               hits == AllHits(files, FALSE)
               First(k) == FlattenSeq([i \in 1..k |-> Surroundings(hits[i], files, opts)])
               enough == {k \in 0..Len(hits) : k = Len(hits) \/ Len(First(k)) >= limit}
           IN First(Min(enough))
<1> DEFINE P == PlacesIn(files)
           group == GroupsIn(files, opts)
           limit == HeadLimit(opts)
           hits == AllHits(files, FALSE)
           n == Len(hits)
           First(k) == FlattenSeq([i \in 1..k |-> Surroundings(hits[i], files, opts)])
           r == GrepContent(files, opts)
<1>1. hits \in Seq(P) /\ IsCut(r, hits, group, limit, Entries) /\ limit \in Nat
      /\ group \in [P -> Seq(Entries)]
  BY ContentIsCut, HeadLimitIsNat, GroupsAreEntries
<1>2. n \in Nat /\ \A i \in 1..n : hits[i] \in P
  BY <1>1, LenProperties, ElementOfSeq
<1>0. n \in Nat
  BY <1>2
<1>3. \A i \in 1..n : group[hits[i]] = Surroundings(hits[i], files, opts)
  BY <1>2 DEF GroupsIn
<1>4. ASSUME NEW k \in 0..n
      PROVE  First(k) = FlattenSeq([i \in 1..k |-> group[hits[i]]])
  <2>1. \A i \in 1..k : i \in 1..n
    <3> HIDE DEF n
    <3> QED
      BY <1>0
  <2>2. [i \in 1..k |-> Surroundings(hits[i], files, opts)] = [i \in 1..k |-> group[hits[i]]]
    BY <1>3, <2>1
  <2> QED
    BY <2>2
<1> HIDE DEF P, group, limit, hits, First, r
<1> DEFINE first == [k \in 0..n |-> First(k)]
           enough == {k \in 0..n : k = n \/ Len(First(k)) >= limit}
<1>5. \A k \in 0..n : first[k] = First(k)
  OBVIOUS
<1> HIDE DEF first
<1>6. r = first[Min({k \in 0..Len(hits) : k = Len(hits) \/ Len(first[k]) >= limit})]
  <2>1. AreFirst(first, hits, group)
    BY <1>4, <1>5 DEF AreFirst
  <2> QED
    BY <1>1, <2>1, CutSays
<1>7. enough = {k \in 0..Len(hits) : k = Len(hits) \/ Len(first[k]) >= limit}
  BY <1>5
<1>8. Min(enough) \in 0..n
  <2>1. n \in enough /\ enough \in SUBSET (0..n)
    BY <1>2
  <2> HIDE DEF enough
  <2> QED
    BY <1>2, <2>1, MinSays
<1>9. r = First(Min(enough))
  BY <1>5, <1>6, <1>7, <1>8
<1> QED
  BY <1>9 DEF r, First, limit, hits

LEMMA ContentLength ==
  ASSUME NEW files, NEW opts, IsSearch(files, opts)
  PROVE  Len(GrepContent(files, opts)) <= HeadLimit(opts) + ContextSize(opts)
<1> DEFINE P == PlacesIn(files)
           group == GroupsIn(files, opts)
           hits == AllHits(files, FALSE)
           r == GrepContent(files, opts)
<1>1. /\ hits \in Seq(P) /\ IsCut(r, hits, group, HeadLimit(opts), Entries)
      /\ HeadLimit(opts) \in Nat \ {0}
      /\ group \in [P -> Seq(Entries)]
      /\ \A h \in P : Len(group[h]) <= ContextSize(opts) + 1
  BY ContentIsCut, HeadLimitIsNat, GroupsAreEntries
<1>2. ContextSize(opts) \in Nat
  BY DEF IsSearch, ContextSize
<1> HIDE DEF P, group, hits, r
<1>3. Len(r) <= HeadLimit(opts) + ContextSize(opts)
  BY <1>1, <1>2, CutLength
<1> QED
  BY <1>3 DEF r

LEMMA Extended ==
  ASSUME NEW S, NEW s \in Seq(S), NEW e \in S
  PROVE  /\ s \o <<e>> = Append(s, e)
         /\ Append(s, e) \in Seq(S) /\ Len(Append(s, e)) = Len(s) + 1
         /\ Append(s, e)[Len(s) + 1] = e
         /\ \A i \in 1..Len(s) : Append(s, e)[i] = s[i]
<1>1. s \o <<e>> = Append(s, e)
  BY AppendIsConcat
<1> QED
  BY <1>1, AppendProperties

IsListing(h, files, opts, report) ==
  /\ h[0] = <<>>
  /\ \A f \in 1..Len(files) :
       h[f] = IF Len(h[f - 1]) >= HeadLimit(opts) \/ Hits(files[f], opts) = {}
              THEN h[f - 1] ELSE Append(h[f - 1], report[f])
  /\ GrepFiles(files, opts, report) = h[Len(files)]

LEMMA FilesLoop ==
  ASSUME NEW files, NEW opts, IsSearch(files, opts),
         NEW R, NEW report \in Seq(R), Len(report) = Len(files)
  PROVE  \E h : IsListing(h, files, opts, report)
<1> DEFINE n == Len(files)
           limit == HeadLimit(opts)
           Next_(x, f) == IF Len(x) >= limit \/ Hits(files[f], opts) = {} THEN x ELSE Append(x, report[f])
           Step(g, f) == IF f = 0 THEN <<>> ELSE Next_(g[f - 1], f)
           Loop(g) == g = [f \in 0..n |-> Step(g, f)]
           Code(g) == g = [f \in 0..n |->
                             IF f = 0 THEN <<>>
                             ELSE IF Full(g[f - 1], opts) \/ Hits(files[f], opts) = {} THEN g[f - 1]
                             ELSE Append(g[f - 1], report[f])]
           h == CHOOSE g : Code(g)
           V == Seq(R)
           none == <<>>
           round == [f \in 1..n |-> [x \in V |-> Next_(x, f)]]
<1>1. GrepFiles(files, opts, report) = h[n]
  BY DEF GrepFiles
<1>2. n \in Nat /\ none \in V
  BY LenProperties DEF IsSearch
<1>3. ASSUME NEW f \in 1..n, NEW x \in V PROVE Next_(x, f) \in V
  <2>1. report[f] \in R
    BY ElementOfSeq
  <2>2. Append(x, report[f]) \in V
    BY <2>1, AppendProperties
  <2> QED
    BY <2>2
<1>0. \A g : Code(g) <=> Loop(g)
  BY DEF Full
<1> HIDE DEF n, V, Next_
<1>4. round \in Rounds(n, V)
  BY <1>3 DEF Rounds
<1> HIDE DEF round, none
<1>5. PICK g : IsLoop(g, n, V, none, round)
  BY <1>2, <1>4, LoopExists
<1>6. g \in [0..n -> V] /\ g[0] = none /\ \A f \in 1..n : g[f] = round[f][g[f - 1]]
  BY <1>5 DEF IsLoop
<1>7. Loop(g)
  <2>1. ASSUME NEW f \in 0..n PROVE g[f] = Step(g, f)
    <3>1. CASE f = 0
      BY <1>6, <3>1 DEF none
    <3>2. CASE f # 0
      <4>1. f \in 1..n /\ f - 1 \in 0..n
        BY <1>2, <3>2
      <4>2. g[f - 1] \in V /\ g[f] = round[f][g[f - 1]]
        BY <1>6, <4>1
      <4> QED
        BY <3>2, <4>1, <4>2 DEF round
    <3> QED
      BY <3>1, <3>2
  <2> HIDE DEF Step
  <2> QED
    BY <1>6, <2>1
<1>8. Loop(h)
  <2>1. Code(g)
    BY <1>0, <1>7
  <2> HIDE DEF Code, Loop
  <2>2. Code(h)
    BY <2>1
  <2> QED
    BY <1>0, <2>2
<1> HIDE DEF h
<1>9. h[0] = <<>>
  <2>1. 0 \in 0..n
    BY <1>2
  <2> QED
    BY <1>8, <2>1
<1>10. ASSUME NEW f \in 1..n PROVE h[f] = Next_(h[f - 1], f)
  <2>1. f \in 0..n /\ f # 0
    BY <1>2
  <2> QED
    BY <1>8, <2>1
<1> QED
  BY <1>1, <1>9, <1>10 DEF n, Next_, IsListing

(* A mode that lists files lists what it reports of the matching ones.      *)
ListsMatching(files, opts, report, R) ==
  LET m == Matching(files, FALSE)
      r == GrepFiles(files, opts, report)
  IN /\ m \in Seq(1..Len(files)) /\ r \in Seq(R)
     /\ Len(r) = AtMost(HeadLimit(opts), Len(m))
     /\ \A i \in 1..Len(r) : r[i] = report[m[i]]

LEMMA FilesAreRight ==
  ASSUME NEW files, NEW opts, IsSearch(files, opts),
         NEW R, NEW report \in Seq(R), Len(report) = Len(files)
  PROVE  ListsMatching(files, opts, report, R)
<1> DEFINE n == Len(files)
           limit == HeadLimit(opts)
           F == 1..n
           s == [f \in F |-> f]
           Empty(f) == Hits(files[f], opts) = {}
           at == {f \in F : HitsOf(f, files[f], FALSE) # <<>>}
<1>1. n \in Nat /\ DOMAIN files = F /\ limit \in Nat /\ limit > 0
  <2>1. files \in Seq(Seq(SUBSET Parts))
    BY DEF IsSearch
  <2>2. n \in Nat /\ DOMAIN files = 1..n
    BY <2>1, LenProperties
  <2>3. limit \in Nat /\ limit > 0
    BY HeadLimitIsNat
  <2> QED
    BY <2>2, <2>3
<1>2. \A f \in F : f \in at <=> ~Empty(f)
  BY HitsArePlaces
<1>3. Matching(files, FALSE) = Picked(s, at)
  BY <1>1 DEF Matching
<1>4. s \in [1..n -> F]
  OBVIOUS
<1>0. PICK h : IsListing(h, files, opts, report)
  BY FilesLoop
<1>5. /\ h[0] = <<>>
      /\ \A f \in F : h[f] = IF Len(h[f - 1]) >= limit \/ Empty(f)
                                      THEN h[f - 1] ELSE Append(h[f - 1], report[f])
      /\ GrepFiles(files, opts, report) = h[n]
  BY <1>0 DEF IsListing
<1>6. \A f \in 1..n : s[f] = f /\ f \in F /\ report[f] \in R
  BY ElementOfSeq
<1> HIDE DEF n, limit, F, s, Empty, at
<1>7. PICK m : IsPicking(m, n, s, at, F)
  BY <1>1, <1>4, PickingExists
<1>8. Picked(s, at) = m[n]
  BY <1>1, <1>4, <1>7, PickedSays
<1>9. /\ m \in [0..n -> Seq(F)] /\ m[0] = <<>>
      /\ \A i \in 1..n : m[i] = IF i \in at THEN m[i - 1] \o <<s[i]>> ELSE m[i - 1]
  BY <1>7 DEF IsPicking
<1> DEFINE Says(f) == /\ h[f] \in Seq(R) /\ Len(h[f]) = AtMost(limit, Len(m[f]))
                      /\ \A i \in 1..Len(h[f]) : h[f][i] = report[m[f][i]]
           Q == {f \in 0..n : Says(f)}
<1>10. 0 \in Q
  <2>1. Len(<<>>) = 0
    OBVIOUS
  <2> QED
    BY <1>1, <1>5, <1>9, <2>1 DEF AtMost
<1>11. ASSUME NEW k \in 0..(n - 1), k \in Q PROVE k + 1 \in Q
  <2>1. /\ k + 1 \in 1..n /\ (k + 1) - 1 = k /\ k \in 0..n /\ k + 1 \in 0..n
        /\ k + 1 \in F
    BY <1>1, <1>6
  <2>2. Says(k) /\ m[k] \in Seq(F)
    BY <1>9, <1>11, <2>1
  <2>3. Len(h[k]) \in Nat /\ Len(m[k]) \in Nat
    BY <2>2, LenProperties
  <2>4. h[k + 1] = IF Len(h[k]) >= limit \/ Empty(k + 1) THEN h[k] ELSE Append(h[k], report[k + 1])
    BY <1>5, <2>1
  <2>5. CASE Empty(k + 1)
    <3>1. h[k + 1] = h[k] /\ m[k + 1] = m[k]
      BY <1>2, <1>9, <2>1, <2>4, <2>5
    <3> QED
      BY <2>1, <2>2, <3>1
  <2>6. CASE ~Empty(k + 1)
    <3> DEFINE u == m[k]
               v == m[k + 1]
    <3>1. v = u \o <<k + 1>>
      BY <1>2, <1>6, <1>9, <2>1, <2>6
    <3>2. /\ v = Append(u, k + 1) /\ Len(v) = Len(u) + 1 /\ v[Len(u) + 1] = k + 1
          /\ \A i \in 1..Len(u) : v[i] = u[i]
      <4> DEFINE e == k + 1
      <4>1. u \in Seq(F) /\ e \in F /\ v = u \o <<e>>
        BY <2>1, <2>2, <3>1
      <4> HIDE DEF e, u, v
      <4>2. /\ v = Append(u, e) /\ Len(v) = Len(u) + 1 /\ v[Len(u) + 1] = e
            /\ \A i \in 1..Len(u) : v[i] = u[i]
        BY <4>1, Extended
      <4> QED
        BY <4>2 DEF e
    <3> HIDE DEF v
    <3>3. CASE Len(h[k]) >= limit
      <4>1. h[k + 1] = h[k]
        BY <2>4, <3>3
      <4>2. Len(h[k]) <= Len(u) /\ Len(h[k]) = AtMost(limit, Len(v))
        BY <1>1, <2>2, <2>3, <3>2, <3>3 DEF AtMost
      <4>3. \A i \in 1..Len(h[k]) : v[i] = u[i]
        BY <2>3, <3>2, <4>2
      <4> QED
        BY <2>1, <2>2, <4>1, <4>2, <4>3 DEF v
    <3>4. CASE ~(Len(h[k]) >= limit)
      <4> DEFINE a == h[k]
                 b == h[k + 1]
                 e == report[k + 1]
      <4>1. b = Append(a, e) /\ e \in R /\ a \in Seq(R)
        BY <1>6, <2>1, <2>2, <2>4, <2>6, <3>4
      <4>2. Len(a) = Len(u) /\ Len(a) \in Nat /\ Len(a) < limit
        BY <1>1, <2>2, <2>3, <3>4 DEF AtMost
      <4>3. \A i \in 1..Len(a) : a[i] = report[u[i]]
        BY <2>2
      <4> HIDE DEF a, b
      <4>4. /\ b \in Seq(R) /\ Len(b) = Len(a) + 1 /\ b[Len(a) + 1] = e
            /\ \A i \in 1..Len(a) : b[i] = a[i]
        <5> HIDE DEF e
        <5> QED
          BY <4>1, Extended
      <4>5. Len(b) = AtMost(limit, Len(v))
        BY <1>1, <3>2, <4>2, <4>4 DEF AtMost
      <4>6. ASSUME NEW i \in 1..Len(b) PROVE b[i] = report[v[i]]
        <5>1. CASE i \in 1..Len(a)
          BY <3>2, <4>2, <4>3, <4>4, <5>1
        <5>2. CASE i = Len(a) + 1
          BY <3>2, <4>2, <4>4, <5>2
        <5> QED
          BY <4>2, <4>4, <5>1, <5>2
      <4> QED
        BY <2>1, <4>4, <4>5, <4>6 DEF b, v
    <3> QED
      BY <3>3, <3>4
  <2> QED
    BY <2>5, <2>6
<1>12. n \in Q
  <2> HIDE DEF Q
  <2> QED
    BY <1>1, <1>10, <1>11, UpTo
<1>13. m[n] \in Seq(F)
  BY <1>1, <1>9
<1> QED
  BY <1>3, <1>5, <1>8, <1>12, <1>13 DEF F, n, limit, ListsMatching

LEMMA FirstOf ==
  ASSUME NEW S, NEW s \in Seq(S), NEW k \in 0..Len(s)
  PROVE  /\ SubSeq(s, 1, k) \in Seq(S) /\ Len(SubSeq(s, 1, k)) = k
         /\ \A i \in 1..k : SubSeq(s, 1, k)[i] = s[i]
<1>1. Len(s) \in Nat /\ \A i \in 1..k : s[i] \in S
  BY LenProperties, ElementOfSeq
<1>2. /\ SubSeq(s, 1, k) \in Seq(S)
      /\ Len(SubSeq(s, 1, k)) = IF 1 <= k THEN k - 1 + 1 ELSE 0
      /\ \A i \in 1..(k - 1 + 1) : SubSeq(s, 1, k)[i] = s[1 + i - 1]
  BY <1>1, SubSeqProperties
<1> QED
  BY <1>1, <1>2

LEMMA GrepSays ==
  ASSUME NEW files, NEW opts, IsSearch(files, opts),
         opts.mode \in {"content", "files_with_matches", "count"}
  PROVE  /\ GrepFile(files, opts) = ToBeFound(files, opts, FALSE)
         /\ Len(GrepFile(files, opts))
              <= HeadLimit(opts) + (IF opts.mode = "content" THEN ContextSize(opts) ELSE 0)
<1> DEFINE n == Len(files)
           m == Matching(files, FALSE)
           k == AtMost(HeadLimit(opts), Len(m))
           some == SubSeq(m, 1, k)
           Count(f) == Len(HitsOf(f, files[f], FALSE))
<1>1. n \in Nat /\ DOMAIN files = 1..n
  BY LenProperties DEF IsSearch
<1> DEFINE names == [f \in 1..n |-> f]
           Counted_(f) == [file |-> f, count |-> Cardinality(Hits(files[f], opts))]
           counts == [f \in 1..n |-> Counted_(f)]
           C == [file : Nat, count : Nat]
<1>2. names \in Seq(Nat) /\ Len(names) = n
  <2>1. names \in [1..n -> Nat]
    BY <1>1
  <2> HIDE DEF n, names
  <2> QED
    BY <1>1, <2>1, IsSequence
<1>3. ASSUME NEW f \in 1..n
      PROVE  Counted_(f) = [file |-> f, count |-> Count(f)] /\ Count(f) \in Nat
  <2>1. /\ HitsOf(f, files[f], FALSE) \in Seq(PlacesIn(files))
        /\ Count(f) = Cardinality(Hits(files[f], opts))
    BY HitsArePlaces
  <2>2. Count(f) \in Nat
    BY <2>1, LenProperties
  <2> QED
    BY <2>1, <2>2
<1>4. counts \in Seq(C) /\ Len(counts) = n
  <2>1. ASSUME NEW f \in 1..n PROVE Counted_(f) \in C
    <3>1. f \in Nat
      BY <1>1
    <3>2. Count(f) \in Nat /\ Counted_(f) = [file |-> f, count |-> Count(f)]
      BY <1>3
    <3> HIDE DEF Count, Counted_
    <3> QED
      BY <3>1, <3>2
  <2>2. counts \in [1..n -> C]
    <3> HIDE DEF C, Counted_
    <3> QED
      BY <2>1
  <2> HIDE DEF n, counts, C
  <2> QED
    BY <1>1, <2>2, IsSequence
<1>0. ListsMatching(files, opts, names, Nat)
  <2> HIDE DEF names
  <2> QED
    BY <1>2, FilesAreRight
<1>5. m \in Seq(1..n) /\ k \in 0..Len(m)
  <2>1. m \in Seq(1..n)
    BY <1>0 DEF ListsMatching
  <2>2. Len(m) \in Nat /\ HeadLimit(opts) \in Nat
    BY <2>1, LenProperties, HeadLimitIsNat
  <2> HIDE DEF m
  <2> QED
    BY <2>1, <2>2 DEF AtMost
<1>6. /\ some \in Seq(1..n) /\ Len(some) = k /\ \A i \in 1..k : some[i] = m[i] /\ m[i] \in 1..n
  <2>1. \A i \in 1..Len(m) : m[i] \in 1..n
    BY <1>5, ElementOfSeq
  <2>2. Len(m) \in Nat
    BY <1>5, LenProperties
  <2> HIDE DEF m, k, n
  <2> QED
    BY <1>5, <2>1, <2>2, FirstOf
<1>7. CASE opts.mode = "content"
  <2>1. GrepFile(files, opts) = GrepContent(files, opts)
    BY <1>7 DEF GrepFile
  <2>2. Len(GrepContent(files, opts)) <= HeadLimit(opts) + ContextSize(opts)
    BY ContentLength
  <2> QED
    BY <1>7, <2>1, <2>2, ContentIsRight DEF ToBeFound
<1>10. k <= HeadLimit(opts) + 0
  <2>1. Len(m) \in Nat /\ HeadLimit(opts) \in Nat
    BY <1>5, LenProperties, HeadLimitIsNat
  <2> HIDE DEF m
  <2> QED
    BY <2>1 DEF AtMost
<1>8. CASE opts.mode = "files_with_matches"
  <2> DEFINE r == GrepFiles(files, opts, names)
  <2>1. GrepFile(files, opts) = r
    BY <1>1, <1>8 DEF GrepFile, GrepFilesOnly
  <2>2. r \in Seq(Nat) /\ Len(r) = k /\ \A i \in 1..Len(r) : r[i] = names[m[i]]
    <3> HIDE DEF names
    <3> QED
      BY <1>0 DEF ListsMatching
  <2>3. \A i \in 1..k : r[i] = some[i]
    BY <1>6, <2>2
  <2> HIDE DEF r, some, k
  <2>4. r = some
    BY <1>6, <2>2, <2>3, SeqEqual
  <2> QED
    BY <1>6, <1>8, <1>10, <2>1, <2>4 DEF ToBeFound, some, k
<1>9. CASE opts.mode = "count"
  <2> DEFINE r == GrepFiles(files, opts, counts)
             all == [i \in DOMAIN some |-> [file |-> some[i], count |-> Count(some[i])]]
  <2>1. GrepFile(files, opts) = r
    BY <1>1, <1>9 DEF GrepFile, GrepCount
  <2>2. r \in Seq(C) /\ Len(r) = k /\ \A i \in 1..Len(r) : r[i] = counts[m[i]]
    <3> HIDE DEF counts, C
    <3> QED
      <4>1. ListsMatching(files, opts, counts, C)
        BY <1>4, FilesAreRight
      <4> QED
        BY <4>1 DEF ListsMatching
  <2>3. \A i \in 1..k : r[i] = [file |-> some[i], count |-> Count(some[i])]
    BY <1>3, <1>6, <2>2
  <2>4. DOMAIN some = 1..k /\ DOMAIN r = 1..k
    BY <1>6, <2>2, LenProperties
  <2> HIDE DEF r, some, k, Count, C
  <2>5. r = all
    <3>1. r = [i \in DOMAIN r |-> r[i]]
      BY <2>2, LenProperties
    <3> QED
      BY <2>3, <2>4, <3>1
  <2> QED
    <3>1. GrepFile(files, opts) = ToBeFound(files, opts, FALSE)
      BY <1>9, <2>1, <2>5 DEF ToBeFound, some, k, Count
    <3>2. Len(GrepFile(files, opts)) = k
      BY <2>1, <2>2
    <3> QED
      BY <1>9, <1>10, <3>1, <3>2 DEF k
<1> QED
  BY <1>7, <1>8, <1>9

(* What is kept about a search.                                              *)
GrepInv == job \in Jobs /\ SearchGoesLineByLine

LEMMA NextKeepsGrepInv ==
  ASSUME GrepInv, [Next]_vars
  PROVE  GrepInv'
<1> USE DEF GrepInv
<1>1. CASE UNCHANGED ToolVars \/ UNCHANGED vars
  BY <1>1 DEF ToolVars, vars, SearchGoesLineByLine, Answered, Doing
<1>2. CASE HandleGrep
  <2>1. /\ job' = job /\ job.tool = "grep"
        /\ IF job.opts.valid THEN resp'.ok /\ resp'.data = GrepFile(job.files, job.opts)
                             ELSE ~resp'.ok
    <3>1. /\ job' = job /\ job.tool = "grep"
          /\ IF job.opts.valid THEN Success(GrepFile(job.files, job.opts))
                               ELSE Failure("invalid pattern")
      BY <1>2 DEF HandleGrep, Doing
    <3>2. CASE job.opts.valid
      <4>1. Success(GrepFile(job.files, job.opts))
        BY <3>1, <3>2
      <4> QED
        BY <3>1, <3>2, <4>1 DEF Success
    <3>3. CASE ~job.opts.valid
      <4>1. Failure("invalid pattern")
        BY <3>1, <3>3
      <4> QED
        BY <3>1, <3>3, <4>1 DEF Failure
    <3> QED
      BY <3>2, <3>3
  <2>2. /\ IsSearch(job.files, job.opts)
        /\ job.opts.mode \in {"content", "files_with_matches", "count"}
    BY <2>1, ToolsAssumption DEF IsSearch
  <2>3. /\ GrepFile(job.files, job.opts) = ToBeFound(job.files, job.opts, FALSE)
        /\ Len(GrepFile(job.files, job.opts)) <= HeadLimit(job.opts)
             + (IF job.opts.mode = "content" THEN ContextSize(job.opts) ELSE 0)
    BY <2>2, GrepSays
  <2> QED
    BY <2>1, <2>3 DEF SearchGoesLineByLine
<1>3. CASE \/ DecodeCode \/ HandleUnknown \/ HandleShellExec \/ HandleProcesses \/ HandleRegistry
           \/ HandleFileRead \/ EditReads \/ EditWrites \/ GlobWalks \/ GlobSorts
           \/ FileChanges \/ OthersWrite \/ FileVanishes
  <2>1. job' = job /\ job.tool # "grep"
    BY <1>3 DEF DecodeCode, HandleUnknown, HandleShellExec, HandleProcesses, HandleRegistry,
                HandleFileRead, EditReads, EditWrites, GlobWalks, GlobSorts, FileChanges,
                OthersWrite, FileVanishes, Doing
  <2> QED
    BY <2>1 DEF SearchGoesLineByLine, Answered, Doing
<1> QED
  BY <1>1, <1>2, <1>3 DEF Next, Dispatch

-----------------------------------------------------------------------------
(* The matchings of a glob.                                                  *)

(* A loop from the end.                                                      *)
IsLoopBack(g, n, V, v0, round) ==
  /\ g \in [0..n -> V]
  /\ g[n] = v0
  /\ \A i \in 0..(n - 1) : g[i] = round[i + 1][g[i + 1]]

LEMMA LoopBackExists ==
  ASSUME NEW n \in Nat, NEW V, NEW v0 \in V, NEW round \in Rounds(n, V)
  PROVE  \E g : IsLoopBack(g, n, V, v0, round)
<1> DEFINE back == [k \in 1..n |-> round[n - k + 1]]
<1>1. back \in Rounds(n, V)
  <2>1. \A k \in 1..n : n - k + 1 \in 1..n
    OBVIOUS
  <2> QED
    BY <2>1 DEF Rounds
<1>2. \A i \in 0..(n - 1) : /\ n - i \in 1..n /\ (n - i) - 1 = n - (i + 1)
                            /\ back[n - i] = round[i + 1]
  <2> SUFFICES ASSUME NEW i \in 0..(n - 1)
               PROVE  /\ n - i \in 1..n /\ (n - i) - 1 = n - (i + 1)
                      /\ back[n - i] = round[i + 1]
    OBVIOUS
  <2>1. n - i \in 1..n /\ (n - i) - 1 = n - (i + 1) /\ n - (n - i) + 1 = i + 1
    OBVIOUS
  <2> QED
    BY <2>1
<1> HIDE DEF back
<1>3. PICK h : IsLoop(h, n, V, v0, back)
  BY <1>1, LoopExists
<1>4. h \in [0..n -> V] /\ h[0] = v0 /\ \A k \in 1..n : h[k] = back[k][h[k - 1]]
  BY <1>3 DEF IsLoop
<1> DEFINE g == [i \in 0..n |-> h[n - i]]
<1>5. g \in [0..n -> V]
  BY <1>4
<1>6. g[n] = v0
  BY <1>4
<1>7. ASSUME NEW i \in 0..(n - 1) PROVE g[i] = round[i + 1][g[i + 1]]
  <2>1. i \in 0..n /\ i + 1 \in 0..n /\ n - i \in 1..n
    OBVIOUS
  <2>2. g[i] = h[n - i] /\ g[i + 1] = h[n - (i + 1)]
    BY <2>1
  <2> QED
    BY <1>2, <1>4, <2>1, <2>2
<1> HIDE DEF g
<1>8. IsLoopBack(g, n, V, v0, round)
  BY <1>5, <1>6, <1>7 DEF IsLoopBack
<1> QED
  BY <1>8

-----------------------------------------------------------------------------
(* Positions between the segments of a path from which the rest of a pattern *)
(* may go on, when its i-th segment may take what is between two of them.   *)
IsMatching(M, n, m, steps) ==
  /\ M[n] = {m}
  /\ \A i \in 0..(n - 1) :
       M[i] = {j \in 0..m : \E k \in 0..m : k \in M[i + 1] /\ <<j, k>> \in steps[i + 1]}

IsCutting(cut, n, m, steps) ==
  /\ cut \in [0..n -> 0..m]
  /\ cut[0] = 0 /\ cut[n] = m
  /\ \A i \in 1..n : <<cut[i - 1], cut[i]>> \in steps[i]

LEMMA CutExists ==
  ASSUME NEW n \in Nat, NEW m \in Nat, NEW steps, NEW M, IsMatching(M, n, m, steps)
  PROVE  0 \in M[0] <=> \E cut : IsCutting(cut, n, m, steps)
<1>1. /\ M[n] = {m}
      /\ \A i \in 0..(n - 1) :
           \A j : j \in M[i] <=> /\ j \in 0..m
                                 /\ \E k \in 0..m : k \in M[i + 1] /\ <<j, k>> \in steps[i + 1]
  BY DEF IsMatching
<1>2. ASSUME NEW cut, IsCutting(cut, n, m, steps)
      PROVE  0 \in M[0]
  <2>1. /\ cut \in [0..n -> 0..m] /\ cut[0] = 0 /\ cut[n] = m
        /\ \A i \in 1..n : <<cut[i - 1], cut[i]>> \in steps[i]
    BY <1>2 DEF IsCutting
  <2> DEFINE Q == {k \in 0..n : cut[n - k] \in M[n - k]}
  <2>2. 0 \in Q
    BY <1>1, <2>1
  <2>3. ASSUME NEW k \in 0..(n - 1), k \in Q PROVE k + 1 \in Q
    <3> DEFINE i == n - (k + 1)
    <3>1. i \in 0..(n - 1) /\ i + 1 = n - k /\ i + 1 \in 1..n /\ (i + 1) - 1 = i /\ i \in 0..n
          /\ i + 1 \in 0..n
      OBVIOUS
    <3>2. cut[i + 1] \in M[i + 1] /\ cut[i + 1] \in 0..m /\ cut[i] \in 0..m
      BY <2>1, <2>3, <3>1
    <3>3. <<cut[i], cut[i + 1]>> \in steps[i + 1]
      BY <2>1, <3>1
    <3> HIDE DEF i
    <3>4. cut[i] \in M[i]
      BY <1>1, <3>1, <3>2, <3>3
    <3> QED
      BY <3>4 DEF i
  <2>4. n \in Q
    <3> HIDE DEF Q
    <3> QED
      BY <2>2, <2>3, UpTo
  <2> QED
    BY <2>1, <2>4
<1>3. ASSUME 0 \in M[0] PROVE \E cut : IsCutting(cut, n, m, steps)
  <2> DEFINE V == 0..m
             Next_(i, x) == CHOOSE k \in V : k \in M[i] /\ <<x, k>> \in steps[i]
             Good(i, x) == \E k \in V : k \in M[i] /\ <<x, k>> \in steps[i]
             round == [i \in 1..n |-> [x \in V |-> IF Good(i, x) THEN Next_(i, x) ELSE x]]
  <2>1. ASSUME NEW i \in 1..n, NEW x \in V, Good(i, x)
        PROVE  Next_(i, x) \in V /\ Next_(i, x) \in M[i] /\ <<x, Next_(i, x)>> \in steps[i]
    BY <2>1
  <2>2. 0 \in V
    OBVIOUS
  <2> HIDE DEF V, Next_, Good
  <2>3. round \in Rounds(n, V)
    BY <2>1 DEF Rounds
  <2> HIDE DEF round
  <2>4. PICK c : IsLoop(c, n, V, 0, round)
    BY <2>2, <2>3, LoopExists
  <2>5. c \in [0..n -> V] /\ c[0] = 0 /\ \A i \in 1..n : c[i] = round[i][c[i - 1]]
    BY <2>4 DEF IsLoop
  <2> DEFINE Q == {i \in 0..n : c[i] \in M[i] /\ (i > 0 => <<c[i - 1], c[i]>> \in steps[i])}
  <2>6. 0 \in Q
    BY <1>3, <2>5
  <2>7. ASSUME NEW i \in 0..(n - 1), i \in Q PROVE i + 1 \in Q
    <3>1. i + 1 \in 1..n /\ (i + 1) - 1 = i /\ i \in 0..n /\ i + 1 \in 0..n /\ i + 1 > 0
      OBVIOUS
    <3>2. c[i] \in V /\ c[i] \in M[i]
      BY <2>5, <2>7, <3>1
    <3>3. Good(i + 1, c[i])
      BY <1>1, <3>2 DEF Good, V
    <3>4. c[i + 1] = Next_(i + 1, c[i])
      BY <2>5, <3>1, <3>2, <3>3 DEF round
    <3>5. c[i + 1] \in M[i + 1] /\ <<c[i], c[i + 1]>> \in steps[i + 1]
      BY <2>1, <3>1, <3>2, <3>3, <3>4
    <3> QED
      BY <3>1, <3>5
  <2> DEFINE T(i) == \A j \in 0..i : j \in Q
  <2>8. \A i \in 0..n : i \in Q
    <3> HIDE DEF Q
    <3> DEFINE Upto == {i \in 0..n : T(i)}
    <3>1. 0 \in Upto
      BY <2>6
    <3>2. ASSUME NEW i \in 0..(n - 1), i \in Upto PROVE i + 1 \in Upto
      BY <2>7, <3>2
    <3>3. n \in Upto
      <4> HIDE DEF Upto
      <4> QED
        BY <3>1, <3>2, UpTo
    <3> QED
      BY <3>3
  <2>9. c[n] = m
    <3>1. n \in Q
      BY <2>8
    <3>2. c[n] \in M[n] /\ M[n] = {m}
      BY <1>1, <3>1
    <3> QED
      BY <3>2
  <2>10. ASSUME NEW i \in 1..n PROVE <<c[i - 1], c[i]>> \in steps[i]
    <3>1. i \in 0..n /\ i > 0
      OBVIOUS
    <3> QED
      BY <2>8, <3>1
  <2>11. IsCutting(c, n, m, steps)
    BY <2>5, <2>9, <2>10 DEF IsCutting, V
  <2> QED
    BY <2>11
<1> QED
  BY <1>2, <1>3

FitStep(pattern, path, i, j, k) ==
  CASE pattern[i] = "**" -> k >= j
    [] pattern[i] = "*" -> IF Recursive(pattern) THEN k = j + 1 ELSE k > j
    [] OTHER -> k = j + 1 /\ path[k] = pattern[i]

FitSteps(pattern, path) ==
  [i \in 1..Len(pattern) |->
     {p \in (0..Len(path)) \X (0..Len(path)) : FitStep(pattern, path, i, p[1], p[2])}]

LEMMA FitStepSays ==
  ASSUME NEW pattern, NEW path, NEW i \in 1..Len(pattern),
         NEW j \in 0..Len(path), NEW k \in 0..Len(path)
  PROVE  <<j, k>> \in FitSteps(pattern, path)[i] <=> FitStep(pattern, path, i, j, k)
<1>1. <<j, k>> \in (0..Len(path)) \X (0..Len(path)) /\ <<j, k>>[1] = j /\ <<j, k>>[2] = k
  OBVIOUS
<1>2. FitSteps(pattern, path)[i]
        = {p \in (0..Len(path)) \X (0..Len(path)) : FitStep(pattern, path, i, p[1], p[2])}
  BY DEF FitSteps
<1> QED
  BY <1>1, <1>2

LEMMA FitsSays ==
  ASSUME NEW pattern \in Seq(STRING), NEW path \in Seq(STRING)
  PROVE  Fits(pattern, path)
           <=> \E cut : IsCutting(cut, Len(pattern), Len(path), FitSteps(pattern, path))
<1> DEFINE n == Len(pattern)
           m == Len(path)
           steps == FitSteps(pattern, path)
           Cuts(cut) == /\ cut[0] = 0 /\ cut[n] = m
                        /\ \A i \in 1..n : FitStep(pattern, path, i, cut[i - 1], cut[i])
<1>1. n \in Nat /\ m \in Nat
  BY LenProperties
<1>2. Fits(pattern, path) <=> \E cut \in [0..n -> 0..m] : Cuts(cut)
  BY DEF Fits, FitStep
<1>3. ASSUME NEW cut \in [0..n -> 0..m]
      PROVE  Cuts(cut) <=> IsCutting(cut, n, m, steps)
  <2>1. ASSUME NEW i \in 1..n
        PROVE  <<cut[i - 1], cut[i]>> \in steps[i] <=> FitStep(pattern, path, i, cut[i - 1], cut[i])
    <3>1. i - 1 \in 0..n /\ i \in 0..n
      BY <1>1
    <3>2. cut[i - 1] \in 0..m /\ cut[i] \in 0..m
      BY <3>1
    <3> QED
      BY <3>2, FitStepSays
  <2> HIDE DEF n, m, steps
  <2> QED
    BY <2>1 DEF IsCutting
<1>4. \A cut : IsCutting(cut, n, m, steps) => cut \in [0..n -> 0..m]
  BY DEF IsCutting
<1> QED
  BY <1>2, <1>3, <1>4

(* Each of the two matchers says whether the path fits the pattern.          *)
LEMMA MatchSays ==
  ASSUME NEW pattern \in Seq(STRING), NEW path \in Seq(STRING), ~Recursive(pattern)
  PROVE  Match(pattern, path) <=> Fits(pattern, path)
<1> DEFINE n == Len(pattern)
           m == Len(path)
           V == SUBSET (0..m)
           From(i, x) == IF pattern[i + 1] = "*" THEN {j \in 0..(m - 1) : \E k \in (j + 1)..m : k \in x}
                         ELSE {j \in 0..(m - 1) : pattern[i + 1] = path[j + 1] /\ j + 1 \in x}
           Step(g, i) == IF i = n THEN {m} ELSE From(i, g[i + 1])
           Loop(g) == g = [i \in 0..n |-> Step(g, i)]
           Code(g) == g = [i \in 0..n |->
                             IF i = n THEN {m}
                             ELSE IF pattern[i + 1] = "*"
                                  THEN {j \in 0..(m - 1) : \E k \in (j + 1)..m : k \in g[i + 1]}
                             ELSE {j \in 0..(m - 1) : pattern[i + 1] = path[j + 1] /\ j + 1 \in g[i + 1]}]
           M == CHOOSE g : Code(g)
           round == [i \in 1..n |-> [x \in V |-> From(i - 1, x)]]
           steps == FitSteps(pattern, path)
<1>1. n \in Nat /\ m \in Nat
  BY LenProperties
<1>2. Match(pattern, path) <=> 0 \in M[0]
  BY DEF Match
<1>3. \A g : Code(g) <=> Loop(g)
  OBVIOUS
<1>4. \A i, x : From(i, x) \in V
  BY <1>1
<1>5. ASSUME NEW i \in 0..(n - 1), NEW x \in V
      PROVE  From(i, x) = {j \in 0..m : \E k \in 0..m : k \in x /\ <<j, k>> \in steps[i + 1]}
  <2>1. i + 1 \in 1..n /\ pattern[i + 1] # "**"
    BY <1>1 DEF Recursive
  <2>2. \A j, k \in 0..m : <<j, k>> \in steps[i + 1] <=> FitStep(pattern, path, i + 1, j, k)
    BY <2>1, FitStepSays
  <2> HIDE DEF steps
  <2>3. CASE pattern[i + 1] = "*"
    <3>1. \A j, k \in 0..m : <<j, k>> \in steps[i + 1] <=> k > j
      BY <2>1, <2>2, <2>3 DEF FitStep
    <3>2. From(i, x) = {j \in 0..(m - 1) : \E k \in (j + 1)..m : k \in x}
      BY <2>3
    <3> HIDE DEF From, n, m
    <3>3. ASSUME NEW j
          PROVE  j \in 0..(m - 1) /\ (\E k \in (j + 1)..m : k \in x)
                   <=> j \in 0..m /\ \E k \in 0..m : k \in x /\ <<j, k>> \in steps[i + 1]
      <4>1. ASSUME j \in 0..(m - 1), NEW k \in (j + 1)..m, k \in x
            PROVE  j \in 0..m /\ k \in 0..m /\ k \in x /\ <<j, k>> \in steps[i + 1]
        <5>1. j \in 0..m /\ k \in 0..m /\ k > j
          BY <1>1, <4>1
        <5> QED
          BY <3>1, <4>1, <5>1
      <4>2. ASSUME j \in 0..m, NEW k \in 0..m, k \in x, <<j, k>> \in steps[i + 1]
            PROVE  j \in 0..(m - 1) /\ k \in (j + 1)..m
        <5>1. k > j
          BY <3>1, <4>2
        <5> QED
          BY <1>1, <4>2, <5>1
      <4> QED
        BY <4>1, <4>2
    <3> QED
      BY <3>2, <3>3
  <2>4. CASE pattern[i + 1] # "*"
    <3>1. \A j, k \in 0..m : <<j, k>> \in steps[i + 1] <=> k = j + 1 /\ path[k] = pattern[i + 1]
      BY <2>1, <2>2, <2>4 DEF FitStep
    <3>2. From(i, x) = {j \in 0..(m - 1) : pattern[i + 1] = path[j + 1] /\ j + 1 \in x}
      BY <2>4
    <3> HIDE DEF From, n, m
    <3>3. ASSUME NEW j
          PROVE  j \in 0..(m - 1) /\ pattern[i + 1] = path[j + 1] /\ j + 1 \in x
                   <=> j \in 0..m /\ \E k \in 0..m : k \in x /\ <<j, k>> \in steps[i + 1]
      <4>1. ASSUME j \in 0..(m - 1), pattern[i + 1] = path[j + 1], j + 1 \in x
            PROVE  j \in 0..m /\ j + 1 \in 0..m /\ <<j, j + 1>> \in steps[i + 1]
        <5>1. j \in 0..m /\ j + 1 \in 0..m
          BY <1>1, <4>1
        <5> QED
          BY <3>1, <4>1, <5>1
      <4>2. ASSUME j \in 0..m, NEW k \in 0..m, k \in x, <<j, k>> \in steps[i + 1]
            PROVE  j \in 0..(m - 1) /\ pattern[i + 1] = path[j + 1] /\ j + 1 \in x
        <5>1. k = j + 1 /\ path[k] = pattern[i + 1]
          BY <3>1, <4>2
        <5> QED
          BY <1>1, <4>2, <5>1
      <4> QED
        BY <4>1, <4>2
    <3> QED
      BY <3>2, <3>3
  <2> QED
    BY <2>3, <2>4
<1>6. {m} \in V
  BY <1>1
<1> HIDE DEF n, m, V, From, Code
<1>7. round \in Rounds(n, V)
  BY <1>4 DEF Rounds
<1> HIDE DEF round
<1> DEFINE last == {m}
<1>8. PICK g : IsLoopBack(g, n, V, last, round)
  <2> HIDE DEF last
  <2>1. last \in V
    BY <1>6 DEF last
  <2> QED
    BY <1>1, <1>7, <2>1, LoopBackExists
<1>9. g \in [0..n -> V] /\ g[n] = last /\ \A i \in 0..(n - 1) : g[i] = round[i + 1][g[i + 1]]
  BY <1>8 DEF IsLoopBack
<1>10. Loop(g)
  <2>1. ASSUME NEW i \in 0..n PROVE g[i] = Step(g, i)
    <3>1. CASE i = n
      BY <1>9, <3>1
    <3>2. CASE i # n
      <4>1. i \in 0..(n - 1) /\ i + 1 \in 1..n /\ (i + 1) - 1 = i /\ i + 1 \in 0..n
        BY <1>1, <3>2
      <4>2. g[i + 1] \in V /\ g[i] = round[i + 1][g[i + 1]]
        BY <1>9, <4>1
      <4>3. round[i + 1][g[i + 1]] = From(i, g[i + 1])
        BY <4>1, <4>2 DEF round
      <4> QED
        BY <3>2, <4>2, <4>3
    <3> QED
      BY <3>1, <3>2
  <2> HIDE DEF Step
  <2> QED
    BY <1>9, <2>1
<1>11. Loop(M)
  <2>1. Code(g)
    BY <1>3, <1>10
  <2>2. Code(M)
    BY <2>1
  <2> QED
    BY <1>3, <2>2
<1> HIDE DEF M
<1>12. M[n] = {m}
  <2>1. n \in 0..n
    BY <1>1
  <2> QED
    BY <1>11, <2>1
<1>13. \A i \in 0..(n - 1) : M[i] = From(i, M[i + 1])
  <2> SUFFICES ASSUME NEW i \in 0..(n - 1) PROVE M[i] = From(i, M[i + 1])
    OBVIOUS
  <2>1. i \in 0..n /\ i # n
    BY <1>1
  <2> QED
    BY <1>11, <2>1
<1>14. \A i \in 0..(n - 1) : M[i + 1] \in V
  <2> SUFFICES ASSUME NEW i \in 0..(n - 1) PROVE M[i + 1] \in V
    OBVIOUS
  <2>1. CASE i + 1 = n
    BY <1>6, <1>12, <2>1
  <2>2. CASE i + 1 # n
    <3>1. i + 1 \in 0..(n - 1)
      BY <1>1, <2>2
    <3> QED
      BY <1>4, <1>13, <3>1
  <2> QED
    BY <2>1, <2>2
<1> HIDE DEF steps
<1>15. IsMatching(M, n, m, steps)
  BY <1>5, <1>12, <1>13, <1>14 DEF IsMatching
<1>16. 0 \in M[0] <=> \E cut : IsCutting(cut, n, m, steps)
  BY <1>1, <1>15, CutExists
<1> QED
  BY <1>2, <1>16, FitsSays DEF n, m, steps

LEMMA MatchDoubleGlobSays ==
  ASSUME NEW pattern \in Seq(STRING), NEW path \in Seq(STRING), Recursive(pattern)
  PROVE  MatchDoubleGlob(pattern, path) <=> Fits(pattern, path)
<1> DEFINE n == Len(pattern)
           m == Len(path)
           V == SUBSET (0..m)
           Tail_(i) == \A k \in (i + 1)..n : pattern[k] = "**"
           AtEnd(i) == IF Tail_(i) THEN {m} ELSE {}
           Skip(i, x) == {j \in 0..(m - 1) : i + 1 = n \/ \E k \in j..m : k \in x}
           One(i, x) == {j \in 0..(m - 1) : MatchSegment(pattern[i + 1], path[j + 1]) /\ j + 1 \in x}
           From(i, x) == AtEnd(i) \cup (IF pattern[i + 1] = "**" THEN Skip(i, x) ELSE One(i, x))
           Step(g, i) == IF i = n THEN {m} ELSE From(i, g[i + 1])
           Loop(g) == g = [i \in 0..n |-> Step(g, i)]
           Body(g, i) == AtEnd(i) \cup
                         IF i = n THEN {}
                         ELSE IF pattern[i + 1] = "**"
                              THEN {j \in 0..(m - 1) : i + 1 = n \/ \E k \in j..m : k \in g[i + 1]}
                         ELSE {j \in 0..(m - 1) : MatchSegment(pattern[i + 1], path[j + 1])
                                                  /\ j + 1 \in g[i + 1]}
           Code(g) == g = [i \in 0..n |-> Body(g, i)]
           M == CHOOSE g : Code(g)
           round == [i \in 1..n |-> [x \in V |-> From(i - 1, x)]]
           steps == FitSteps(pattern, path)
<1>1. n \in Nat /\ m \in Nat
  BY LenProperties
<1>2. MatchDoubleGlob(pattern, path) <=> 0 \in M[0]
  BY DEF MatchDoubleGlob
<1>3. \A g : Code(g) <=> Loop(g)
  <2>1. ASSUME NEW g, NEW i \in 0..n PROVE Body(g, i) = Step(g, i)
    <3>1. CASE i = n
      <4>1. Tail_(i)
        BY <1>1, <3>1
      <4>2. AtEnd(i) = {m}
        BY <4>1
      <4> HIDE DEF AtEnd
      <4> QED
        BY <3>1, <4>2
    <3>2. CASE i # n
      <4> HIDE DEF AtEnd
      <4> QED
        BY <3>2
    <3> QED
      BY <3>1, <3>2
  <2> HIDE DEF Body, Step
  <2> QED
    BY <2>1
<1>4. \A i, x : From(i, x) \in V
  <2> SUFFICES ASSUME NEW i, NEW x PROVE From(i, x) \in V
    OBVIOUS
  <2>1. AtEnd(i) \in V /\ Skip(i, x) \in V /\ One(i, x) \in V
    BY <1>1
  <2> HIDE DEF V, AtEnd, Skip, One
  <2>2. \A A, B : A \in V /\ B \in V => A \cup B \in V
    BY DEF V
  <2> QED
    BY <2>1, <2>2
<1>5. ASSUME NEW i \in 0..(n - 1), NEW x \in V, m \in x <=> Tail_(i + 1), i + 1 = n => x = {m}
      PROVE  From(i, x) = {j \in 0..m : \E k \in 0..m : k \in x /\ <<j, k>> \in steps[i + 1]}
  <2>1. i + 1 \in 1..n
    BY <1>1
  <2>2. \A j, k \in 0..m : <<j, k>> \in steps[i + 1] <=> FitStep(pattern, path, i + 1, j, k)
    BY <2>1, FitStepSays
  <2> HIDE DEF steps
  <2>0. Tail_(i) <=> pattern[i + 1] = "**" /\ Tail_(i + 1)
    <3>1. \A k \in (i + 1)..n : k = i + 1 \/ k \in ((i + 1) + 1)..n
      BY <1>1
    <3>2. \A k \in ((i + 1) + 1)..n : k \in (i + 1)..n
      BY <1>1
    <3>3. i + 1 \in (i + 1)..n
      BY <1>1
    <3> QED
      BY <3>1, <3>2, <3>3
  <2>00. \A j : j \in AtEnd(i) <=> j = m /\ Tail_(i)
    OBVIOUS
  <2> HIDE DEF Tail_, AtEnd, n, m
  <2>3. CASE pattern[i + 1] = "**"
    <3>1. \A j, k \in 0..m : <<j, k>> \in steps[i + 1] <=> k >= j
      BY <2>1, <2>2, <2>3 DEF FitStep
    <3>2. \A j : j \in From(i, x) <=> j \in AtEnd(i) \/ j \in Skip(i, x)
      BY <2>3
    <3>3. ASSUME NEW j, j \in AtEnd(i) \/ j \in Skip(i, x)
          PROVE  j \in 0..m /\ \E k \in 0..m : k \in x /\ <<j, k>> \in steps[i + 1]
      <4>1. CASE j = m /\ Tail_(i)
        <5>1. m \in x /\ m \in 0..m
          BY <1>1, <1>5, <2>0, <4>1
        <5> QED
          BY <1>1, <3>1, <4>1, <5>1
      <4>2. CASE j \in 0..(m - 1) /\ i + 1 = n
        <5>1. m \in x /\ m \in 0..m /\ j \in 0..m /\ m >= j
          BY <1>1, <1>5, <4>2
        <5> QED
          BY <3>1, <5>1
      <4>3. CASE j \in 0..(m - 1) /\ \E k \in j..m : k \in x
        <5>1. PICK k \in j..m : k \in x
          BY <4>3
        <5>2. k \in 0..m /\ j \in 0..m /\ k >= j
          BY <1>1, <4>3
        <5> QED
          BY <3>1, <5>1, <5>2
      <4> QED
        BY <2>00, <3>3, <4>1, <4>2, <4>3
    <3>4. ASSUME NEW j \in 0..m, NEW k \in 0..m, k \in x, <<j, k>> \in steps[i + 1]
          PROVE  j \in AtEnd(i) \/ j \in Skip(i, x)
      <4>1. k >= j
        BY <3>1, <3>4
      <4>2. CASE j = m
        <5>1. k = m
          BY <1>1, <4>1, <4>2
        <5> QED
          BY <1>5, <2>0, <2>00, <2>3, <3>4, <4>2, <5>1
      <4>3. CASE j # m
        <5>1. j \in 0..(m - 1) /\ k \in j..m
          BY <1>1, <4>1, <4>3
        <5> QED
          BY <3>4, <5>1
      <4> QED
        BY <4>2, <4>3
    <3> HIDE DEF From, Skip
    <3> QED
      BY <3>2, <3>3, <3>4
  <2>4. CASE pattern[i + 1] # "**"
    <3>1. \A j, k \in 0..m : <<j, k>> \in steps[i + 1]
                               <=> k = j + 1 /\ MatchSegment(pattern[i + 1], path[k])
      <4> SUFFICES ASSUME NEW j \in 0..m, NEW k \in 0..m
                   PROVE  FitStep(pattern, path, i + 1, j, k)
                            <=> k = j + 1 /\ MatchSegment(pattern[i + 1], path[k])
        BY <2>2
      <4>1. CASE pattern[i + 1] = "*"
        BY <2>4, <4>1 DEF FitStep, MatchSegment
      <4>2. CASE pattern[i + 1] # "*"
        BY <2>4, <4>2 DEF FitStep, MatchSegment
      <4> QED
        BY <4>1, <4>2
    <3>2. \A j : j \in From(i, x) <=> j \in One(i, x)
      BY <2>0, <2>00, <2>4
    <3>3. ASSUME NEW j \in 0..(m - 1), MatchSegment(pattern[i + 1], path[j + 1]), j + 1 \in x
          PROVE  j \in 0..m /\ j + 1 \in 0..m /\ <<j, j + 1>> \in steps[i + 1]
      <4>1. j \in 0..m /\ j + 1 \in 0..m
        BY <1>1
      <4> QED
        BY <3>1, <3>3, <4>1
    <3>4. ASSUME NEW j \in 0..m, NEW k \in 0..m, k \in x, <<j, k>> \in steps[i + 1]
          PROVE  j \in 0..(m - 1) /\ MatchSegment(pattern[i + 1], path[j + 1]) /\ j + 1 \in x
      <4>1. k = j + 1 /\ MatchSegment(pattern[i + 1], path[k])
        BY <3>1, <3>4
      <4> QED
        BY <1>1, <3>4, <4>1
    <3>5. \A j : j \in One(i, x) <=> /\ j \in 0..(m - 1) /\ j + 1 \in x
                                    /\ MatchSegment(pattern[i + 1], path[j + 1])
      OBVIOUS
    <3> HIDE DEF From, One
    <3> QED
      BY <3>2, <3>3, <3>4, <3>5
  <2> QED
    BY <2>3, <2>4
<1>6. {m} \in V
  BY <1>1
<1>7. \A i, x : i \in 0..n /\ m \in From(i, x) <=> i \in 0..n /\ Tail_(i)
  <2> SUFFICES ASSUME NEW i \in 0..n, NEW x PROVE m \in From(i, x) <=> Tail_(i)
    OBVIOUS
  <2>1. m \notin 0..(m - 1)
    BY <1>1
  <2>2. m \notin Skip(i, x) /\ m \notin One(i, x)
    BY <2>1
  <2>3. m \in AtEnd(i) <=> Tail_(i)
    OBVIOUS
  <2> HIDE DEF Tail_, AtEnd, Skip, One
  <2> QED
    BY <2>2, <2>3
<1>8. Tail_(n)
  BY <1>1
<1> HIDE DEF n, m, V, From, Code, Tail_
<1>9. round \in Rounds(n, V)
  BY <1>4 DEF Rounds
<1> HIDE DEF round
<1> DEFINE last == {m}
<1>10. PICK g : IsLoopBack(g, n, V, last, round)
  <2> HIDE DEF last
  <2>1. last \in V
    BY <1>6 DEF last
  <2> QED
    BY <1>1, <1>9, <2>1, LoopBackExists
<1>11. g \in [0..n -> V] /\ g[n] = last /\ \A i \in 0..(n - 1) : g[i] = round[i + 1][g[i + 1]]
  BY <1>10 DEF IsLoopBack
<1>12. Loop(g)
  <2>1. ASSUME NEW i \in 0..n PROVE g[i] = Step(g, i)
    <3>1. CASE i = n
      BY <1>11, <3>1
    <3>2. CASE i # n
      <4>1. i \in 0..(n - 1) /\ i + 1 \in 1..n /\ (i + 1) - 1 = i /\ i + 1 \in 0..n
        BY <1>1, <3>2
      <4>2. g[i + 1] \in V /\ g[i] = round[i + 1][g[i + 1]]
        BY <1>11, <4>1
      <4>3. round[i + 1][g[i + 1]] = From(i, g[i + 1])
        BY <4>1, <4>2 DEF round
      <4> QED
        BY <3>2, <4>2, <4>3
    <3> QED
      BY <3>1, <3>2
  <2> HIDE DEF Step
  <2> QED
    BY <1>11, <2>1
<1>13. Loop(M)
  <2>1. Code(g)
    BY <1>3, <1>12
  <2>2. Code(M)
    BY <2>1
  <2> QED
    BY <1>3, <2>2
<1> HIDE DEF M
<1>14. M[n] = {m}
  <2>1. n \in 0..n
    BY <1>1
  <2> QED
    BY <1>13, <2>1
<1>15. ASSUME NEW i \in 0..(n - 1) PROVE M[i] = From(i, M[i + 1])
  <2>1. i \in 0..n /\ i # n
    BY <1>1
  <2> QED
    BY <1>13, <2>1
<1>16. ASSUME NEW i \in 0..(n - 1)
       PROVE  /\ M[i + 1] \in V /\ (m \in M[i + 1] <=> Tail_(i + 1))
              /\ i + 1 = n => M[i + 1] = {m}
  <2>1. CASE i + 1 = n
    BY <1>6, <1>8, <1>14, <2>1
  <2>2. CASE i + 1 # n
    <3>1. i + 1 \in 0..(n - 1) /\ i + 1 \in 0..n
      BY <1>1, <2>2
    <3>2. M[i + 1] = From(i + 1, M[(i + 1) + 1])
      BY <1>15, <3>1
    <3> QED
      BY <1>4, <1>7, <2>2, <3>1, <3>2
  <2> QED
    BY <2>1, <2>2
<1> HIDE DEF steps
<1>17. ASSUME NEW i \in 0..(n - 1)
       PROVE  M[i] = {j \in 0..m : \E k \in 0..m : k \in M[i + 1] /\ <<j, k>> \in steps[i + 1]}
  BY <1>5, <1>15, <1>16
<1>18. IsMatching(M, n, m, steps)
  BY <1>14, <1>17 DEF IsMatching
<1>19. 0 \in M[0] <=> \E cut : IsCutting(cut, n, m, steps)
  BY <1>1, <1>18, CutExists
<1> QED
  BY <1>2, <1>19, FitsSays DEF n, m, steps

-----------------------------------------------------------------------------
(* Sequences in which nothing is there twice.                                *)

LEMMA SetOfSeq ==
  ASSUME NEW S, NEW s \in Seq(S)
  PROVE  /\ DOMAIN s = 1..Len(s) /\ Len(s) \in Nat
         /\ \A i \in 1..Len(s) : s[i] \in S
         /\ ToSet(s) = {s[i] : i \in 1..Len(s)}
         /\ IsInjective(s) <=> \A i, j \in 1..Len(s) : s[i] = s[j] => i = j
<1>1. DOMAIN s = 1..Len(s) /\ Len(s) \in Nat
  BY LenProperties
<1>2. \A i \in 1..Len(s) : s[i] \in S
  BY ElementOfSeq
<1> QED
  BY <1>1, <1>2 DEF ToSet, IsInjective

LEMMA AppendedOnce ==
  ASSUME NEW S, NEW s \in Seq(S), NEW e \in S
  PROVE  /\ ToSet(Append(s, e)) = ToSet(s) \cup {e}
         /\ IsInjective(s) /\ e \notin ToSet(s) => IsInjective(Append(s, e))
<1> DEFINE t == Append(s, e)
           n == Len(s)
<1>1. /\ n \in Nat /\ t \in Seq(S) /\ Len(t) = n + 1 /\ t[n + 1] = e
      /\ \A i \in 1..n : t[i] = s[i]
  BY Extended, SetOfSeq
<1>2. /\ ToSet(s) = {s[i] : i \in 1..n}
      /\ IsInjective(s) <=> \A i, j \in 1..n : s[i] = s[j] => i = j
  BY SetOfSeq
<1>3. /\ ToSet(t) = {t[i] : i \in 1..Len(t)}
      /\ IsInjective(t) <=> \A i, j \in 1..Len(t) : t[i] = t[j] => i = j
  <2> HIDE DEF t
  <2> QED
    BY <1>1, SetOfSeq
<1>4. /\ ToSet(t) = {t[i] : i \in 1..(n + 1)}
      /\ IsInjective(t) <=> \A i, j \in 1..(n + 1) : t[i] = t[j] => i = j
  BY <1>1, <1>3
<1> HIDE DEF t, n
<1>5. ToSet(t) = ToSet(s) \cup {e}
  <2>1. \A x : x \in ToSet(t) => x \in ToSet(s) \cup {e}
    <3> SUFFICES ASSUME NEW i \in 1..(n + 1) PROVE t[i] \in ToSet(s) \cup {e}
      BY <1>4
    <3>1. CASE i = n + 1
      BY <1>1, <3>1
    <3>2. CASE i # n + 1
      <4>1. i \in 1..n
        BY <1>1, <3>2
      <4> QED
        BY <1>1, <1>2, <4>1
    <3> QED
      BY <3>1, <3>2
  <2>2. \A i \in 1..n : i \in 1..(n + 1)
    BY <1>1
  <2>3. \A x : x \in ToSet(s) => x \in ToSet(t)
    BY <1>1, <1>2, <1>4, <2>2
  <2>4. n + 1 \in 1..(n + 1)
    BY <1>1
  <2>5. e \in ToSet(t)
    BY <1>1, <1>4, <2>4
  <2> QED
    BY <2>1, <2>3, <2>5
<1>6. ASSUME IsInjective(s), e \notin ToSet(s) PROVE IsInjective(t)
  <2> SUFFICES ASSUME NEW i \in 1..(n + 1), NEW j \in 1..(n + 1), t[i] = t[j] PROVE i = j
    BY <1>4
  <2>1. \A k \in 1..n : t[k] # e
    BY <1>1, <1>2, <1>6
  <2>2. \A k \in 1..(n + 1) : k = n + 1 \/ k \in 1..n
    BY <1>1
  <2> QED
    BY <1>1, <1>2, <1>6, <2>1, <2>2
<1> QED
  BY <1>5, <1>6 DEF t

LEMMA PickedOnce ==
  ASSUME NEW S, NEW s \in Seq(S), NEW at \in SUBSET (1..Len(s))
  PROVE  /\ Picked(s, at) \in Seq(S)
         /\ ToSet(Picked(s, at)) = {s[i] : i \in at}
         /\ IsInjective(s) => IsInjective(Picked(s, at))
<1> DEFINE n == Len(s)
<1>0. /\ n \in Nat /\ s \in [1..n -> S] /\ at \in SUBSET (1..n)
      /\ IsInjective(s) <=> \A i, j \in 1..n : s[i] = s[j] => i = j
  BY LenProperties, SetOfSeq
<1> HIDE DEF n
<1>1. PICK g : IsPicking(g, n, s, at, S)
  BY <1>0, PickingExists
<1>2. /\ g \in [0..n -> Seq(S)] /\ g[0] = <<>>
      /\ \A i \in 1..n : g[i] = IF i \in at THEN g[i - 1] \o <<s[i]>> ELSE g[i - 1]
  BY <1>1 DEF IsPicking
<1>3. Picked(s, at) = g[n]
  BY <1>0, <1>1, PickedSays
<1> DEFINE Upto(i) == at \cap (1..i)
           Of(i) == {s[k] : k \in Upto(i)}
           Q == {i \in 0..n : ToSet(g[i]) = Of(i) /\ (IsInjective(s) => IsInjective(g[i]))}
<1>4. 0 \in Q
  <2>1. Upto(0) = {} /\ 0 \in 0..n
    BY <1>0
  <2>2. Of(0) = {}
    BY <2>1
  <2>3. ToSet(<<>>) = {} /\ IsInjective(<<>>)
    BY DEF ToSet, IsInjective
  <2> HIDE DEF Of
  <2> QED
    BY <1>2, <2>1, <2>2, <2>3
<1>5. ASSUME NEW k \in 0..(n - 1), k \in Q PROVE k + 1 \in Q
  <2>1. k + 1 \in 1..n /\ (k + 1) - 1 = k /\ k \in 0..n /\ k + 1 \in 0..n
    BY <1>0
  <2>2. /\ ToSet(g[k]) = Of(k) /\ g[k] \in Seq(S)
        /\ IsInjective(s) => IsInjective(g[k])
    BY <1>2, <1>5, <2>1
  <2>3. CASE k + 1 \in at
    <3>1. Upto(k + 1) = Upto(k) \cup {k + 1}
      BY <1>0, <2>1, <2>3
    <3>2. Of(k + 1) = Of(k) \cup {s[k + 1]}
      <4> HIDE DEF Upto
      <4> QED
        BY <3>1
    <3>3. g[k + 1] = g[k] \o <<s[k + 1]>> /\ s[k + 1] \in S
      BY <1>0, <1>2, <2>1, <2>3
    <3>4. g[k + 1] = Append(g[k], s[k + 1])
      BY <2>2, <3>3, Extended
    <3>5. /\ ToSet(Append(g[k], s[k + 1])) = ToSet(g[k]) \cup {s[k + 1]}
          /\ IsInjective(g[k]) /\ s[k + 1] \notin ToSet(g[k])
               => IsInjective(Append(g[k], s[k + 1]))
      <4>1. g[k] \in Seq(S) /\ s[k + 1] \in S
        BY <2>2, <3>3
      <4> QED
        BY ONLY <4>1, AppendedOnce
    <3>6. ASSUME IsInjective(s) PROVE s[k + 1] \notin Of(k)
      <4> SUFFICES ASSUME NEW l \in Upto(k), s[l] = s[k + 1] PROVE FALSE
        OBVIOUS
      <4>1. l \in 1..n /\ l <= k
        BY <1>0, <2>1
      <4>2. l = k + 1
        BY <1>0, <2>1, <3>6, <4>1
      <4> QED
        BY <2>1, <4>1, <4>2
    <3> HIDE DEF Of
    <3>7. IsInjective(s) => IsInjective(g[k + 1])
      BY <2>2, <3>4, <3>5, <3>6
    <3>8. ToSet(g[k + 1]) = Of(k + 1)
      BY <2>2, <3>2, <3>4, <3>5
    <3> QED
      BY <2>1, <3>7, <3>8
  <2>4. CASE k + 1 \notin at
    <3>1. Upto(k + 1) = Upto(k)
      BY <1>0, <2>1, <2>4
    <3>2. Of(k + 1) = Of(k)
      <4> HIDE DEF Upto
      <4> QED
        BY <3>1
    <3>3. g[k + 1] = g[k]
      BY <1>2, <2>1, <2>4
    <3> HIDE DEF Of
    <3> QED
      BY <2>1, <2>2, <3>2, <3>3
  <2> QED
    BY <2>3, <2>4
<1>6. n \in Q
  <2> HIDE DEF Q
  <2> QED
    BY <1>0, <1>4, <1>5, UpTo
<1>7. Upto(n) = at
  BY <1>0
<1>8. Of(n) = {s[i] : i \in at}
  <2> HIDE DEF Upto
  <2> QED
    BY <1>7
<1>9. g[n] \in Seq(S)
  BY <1>0, <1>2
<1>10. ToSet(g[n]) = Of(n) /\ (IsInjective(s) => IsInjective(g[n]))
  <2> HIDE DEF Of
  <2> QED
    BY <1>6
<1> HIDE DEF Of
<1> QED
  BY <1>3, <1>8, <1>9, <1>10

LEMMA LengthOfOnce ==
  ASSUME NEW S, NEW s \in Seq(S), IsInjective(s)
  PROVE  Len(s) = Cardinality(ToSet(s))
<1> DEFINE D == 1..Len(s)
<1>1. DOMAIN s = D /\ Len(s) \in Nat /\ ToSet(s) = {s[i] : i \in D} /\ s \in [D -> S]
  BY SetOfSeq, LenProperties
<1>2. IsFiniteSet(D) /\ Cardinality(D) = Len(s)
  <2>1. 1 \in Int /\ Len(s) \in Int
    BY <1>1
  <2>2. /\ IsFiniteSet(1..Len(s))
        /\ Cardinality(1..Len(s)) = IF 1 > Len(s) THEN 0 ELSE Len(s) - 1 + 1
    BY ONLY <2>1, FS_Interval
  <2> QED
    BY <1>1, <2>2
<1> HIDE DEF D
<1> DEFINE T == ToSet(s)
<1>3. s \in [D -> T] /\ \A t \in T : \E x \in D : s[x] = t
  BY <1>1
<1> HIDE DEF T
<1>4. s \in Surjection(D, T) /\ s \in Injection(D, T)
  BY <1>3 DEF Surjection, Injection, IsInjective
<1>5. Cardinality(T) = Cardinality(D)
  BY <1>2, <1>4, FS_Surjection
<1> QED
  BY <1>2, <1>5 DEF T

LEMMA ElementsAre ==
  ASSUME NEW S, NEW s \in Seq(S), NEW T, ToSet(s) \subseteq T
  PROVE  s \in Seq(T)
<1>1. /\ DOMAIN s = 1..Len(s) /\ Len(s) \in Nat /\ s \in [1..Len(s) -> S]
      /\ ToSet(s) = {s[i] : i \in 1..Len(s)}
  BY SetOfSeq, LenProperties
<1>2. s \in [1..Len(s) -> T]
  BY <1>1
<1> QED
  BY <1>1, <1>2, IsSequence

-----------------------------------------------------------------------------
(* The sort of what a glob found.                                            *)
Timed(times) == times \in [DOMAIN times -> Nat]

(* What a sort may make of a sequence.                                       *)
IsRearranged(t, s, D) ==
  /\ t \in Seq(D) /\ Len(t) = Len(s)
  /\ ToSet(t) = ToSet(s)
  /\ IsInjective(s) => IsInjective(t)

LEMMA SwapSays ==
  ASSUME NEW D, NEW s \in Seq(D), NEW i \in 1..Len(s), NEW j \in 1..Len(s)
  PROVE  /\ IsRearranged(Swapped(s, i, j), s, D)
         /\ Swapped(s, i, j)[i] = s[j] /\ Swapped(s, i, j)[j] = s[i]
         /\ \A k \in 1..Len(s) : k # i /\ k # j => Swapped(s, i, j)[k] = s[k]
<1> DEFINE n == Len(s)
           t == Swapped(s, i, j)
<1>1. n \in Nat /\ s \in [1..n -> D] /\ DOMAIN s = 1..n /\ i \in 1..n /\ j \in 1..n
  BY LenProperties, SetOfSeq
<1> HIDE DEF n
<1>2. /\ t \in [1..n -> D]
      /\ t[i] = s[j] /\ t[j] = s[i]
      /\ \A k \in 1..n : k # i /\ k # j => t[k] = s[k]
  BY <1>1 DEF Swapped
<1> HIDE DEF t
<1>3. t \in Seq(D) /\ Len(t) = n
  BY <1>1, <1>2, IsSequence
<1>4. /\ ToSet(s) = {s[k] : k \in 1..n} /\ ToSet(t) = {t[k] : k \in 1..n}
      /\ IsInjective(s) <=> \A a, b \in 1..n : s[a] = s[b] => a = b
      /\ IsInjective(t) <=> \A a, b \in 1..n : t[a] = t[b] => a = b
  BY <1>3, SetOfSeq DEF n
<1>5. ToSet(t) = ToSet(s)
  <2>1. \A k \in 1..n : \E l \in 1..n : t[k] = s[l]
    BY <1>1, <1>2
  <2>2. \A k \in 1..n : \E l \in 1..n : s[k] = t[l]
    BY <1>1, <1>2
  <2>3. \A x : x \in ToSet(t) => x \in ToSet(s)
    BY <1>4, <2>1
  <2>4. \A x : x \in ToSet(s) => x \in ToSet(t)
    BY <1>4, <2>2
  <2> QED
    BY <2>3, <2>4
<1>6. ASSUME IsInjective(s) PROVE IsInjective(t)
  BY <1>1, <1>2, <1>4, <1>6
<1>7. IsRearranged(t, s, D)
  BY <1>3, <1>5, <1>6 DEF IsRearranged, n
<1> QED
  BY <1>2, <1>7 DEF t, n

(* One comparison.                                                           *)
LEMMA ComparedSays ==
  ASSUME NEW times, Timed(times), NEW s \in Seq(DOMAIN times),
         NEW i \in 1..Len(s), NEW j \in 1..Len(s)
  PROVE  \E t : /\ t = Compared(i, j, times)[s]
                /\ IsRearranged(t, s, DOMAIN times)
                /\ \A k \in 1..Len(s) : k # i /\ k # j => t[k] = s[k]
                /\ {t[i], t[j]} = {s[i], s[j]}
                /\ times[t[i]] >= times[s[i]] /\ times[t[i]] >= times[t[j]]
<1> DEFINE D == DOMAIN times
           t == Compared(i, j, times)[s]
<1>1. t = IF times[s[j]] > times[s[i]] THEN Swapped(s, i, j) ELSE s
  BY DEF Compared
<1>2. s[i] \in D /\ s[j] \in D
  BY SetOfSeq
<1>3. times[s[i]] \in Nat /\ times[s[j]] \in Nat
  BY <1>2 DEF Timed
<1>4. IsRearranged(s, s, D)
  BY DEF IsRearranged
<1>5. /\ IsRearranged(Swapped(s, i, j), s, D)
      /\ Swapped(s, i, j)[i] = s[j] /\ Swapped(s, i, j)[j] = s[i]
      /\ \A k \in 1..Len(s) : k # i /\ k # j => Swapped(s, i, j)[k] = s[k]
  <2> HIDE DEF D
  <2>1. s \in Seq(D)
    BY DEF D
  <2> QED
    BY <2>1, SwapSays
<1> HIDE DEF t
<1>6. CASE times[s[j]] > times[s[i]]
  <2>1. t = Swapped(s, i, j)
    BY <1>1, <1>6
  <2> HIDE DEF D
  <2>2. /\ t[i] = s[j] /\ t[j] = s[i] /\ IsRearranged(t, s, D)
        /\ \A k \in 1..Len(s) : k # i /\ k # j => t[k] = s[k]
    BY <1>5, <2>1
  <2>3. times[t[i]] >= times[s[i]] /\ times[t[i]] >= times[t[j]] /\ {t[i], t[j]} = {s[i], s[j]}
    BY <1>3, <1>6, <2>2
  <2> QED
    BY <2>2, <2>3 DEF t, D
<1>7. CASE ~(times[s[j]] > times[s[i]])
  <2>1. t = s
    BY <1>1, <1>7
  <2>2. times[t[i]] >= times[s[i]] /\ times[t[i]] >= times[t[j]]
    BY <1>3, <1>7, <2>1
  <2> QED
    BY <1>4, <2>1, <2>2 DEF t
<1> QED
  BY <1>6, <1>7

(* The inner loop, as so many comparisons.                                   *)
LEMMA NewestLoop ==
  ASSUME NEW times, Timed(times), NEW s \in Seq(DOMAIN times), NEW i \in 1..Len(s)
  PROVE  \E h : /\ h[i] = s
                /\ \A j \in (i + 1)..Len(s) : h[j] = Compared(i, j, times)[h[j - 1]]
                /\ NewestAt(i, times)[s] = h[Len(s)]
<1> DEFINE n == Len(s)
           V == {t \in Seq(DOMAIN times) : Len(t) = n}
           Pair(j) == Compared(i, j, times)
           Step(g, j) == IF j = i THEN s ELSE Pair(j)[g[j - 1]]
           Loop(g) == g = [j \in i..n |-> Step(g, j)]
           h == CHOOSE g : Loop(g)
           round == [k \in 1..(n - i) |-> [x \in V |-> Pair(i + k)[x]]]
<1>1. NewestAt(i, times)[s] = h[n]
  BY DEF NewestAt
<1>2. n \in Nat /\ i \in 1..n /\ s \in V
  BY SetOfSeq
<1>3. ASSUME NEW j \in 1..n, NEW x \in V PROVE Pair(j)[x] \in V
  <2>1. x \in Seq(DOMAIN times) /\ Len(x) = n
    BY <1>3
  <2>2. i \in 1..Len(x) /\ j \in 1..Len(x)
    BY <1>2, <2>1
  <2>3. IsRearranged(Pair(j)[x], x, DOMAIN times)
    BY <2>1, <2>2, ComparedSays
  <2> QED
    BY <2>1, <2>3 DEF IsRearranged
<1> HIDE DEF n, V, Pair
<1>4. round \in Rounds(n - i, V)
  <2>1. \A k \in 1..(n - i) : i + k \in 1..n
    BY <1>2
  <2> QED
    BY <1>3, <2>1 DEF Rounds
<1> HIDE DEF round
<1>5. PICK c : IsLoop(c, n - i, V, s, round)
  <2>1. n - i \in Nat
    BY <1>2
  <2> QED
    BY <1>2, <1>4, <2>1, LoopExists
<1>6. c \in [0..(n - i) -> V] /\ c[0] = s /\ \A k \in 1..(n - i) : c[k] = round[k][c[k - 1]]
  BY <1>5 DEF IsLoop
<1> DEFINE g == [j \in i..n |-> c[j - i]]
<1>7. Loop(g)
  <2>1. ASSUME NEW j \in i..n PROVE g[j] = Step(g, j)
    <3>1. CASE j = i
      <4>1. j - i = 0
        BY <1>2, <3>1
      <4> QED
        BY <1>6, <3>1, <4>1
    <3>2. CASE j # i
      <4>1. j - i \in 1..(n - i) /\ j - 1 \in i..n /\ (j - 1) - i = (j - i) - 1 /\ i + (j - i) = j
            /\ (j - i) - 1 \in 0..(n - i)
        BY <1>2, <3>2
      <4>2. g[j] = c[j - i] /\ g[j - 1] = c[(j - i) - 1]
        BY <4>1
      <4>3. c[j - i] = round[j - i][c[(j - i) - 1]] /\ c[(j - i) - 1] \in V
        BY <1>6, <4>1
      <4>4. round[j - i] = [x \in V |-> Pair(j)[x]]
        BY <4>1 DEF round
      <4> HIDE DEF g
      <4> QED
        BY <3>2, <4>2, <4>3, <4>4
    <3> QED
      BY <3>1, <3>2
  <2>2. g = [j \in i..n |-> g[j]]
    OBVIOUS
  <2> HIDE DEF Step, g
  <2> QED
    BY <2>1, <2>2
<1>8. Loop(h)
  <2> HIDE DEF Loop
  <2> QED
    BY <1>7
<1> HIDE DEF h
<1>9. h[i] = s
  <2>1. i \in i..n
    BY <1>2
  <2> QED
    BY <1>8, <2>1
<1>10. ASSUME NEW j \in (i + 1)..n PROVE h[j] = Pair(j)[h[j - 1]]
  <2>1. j \in i..n /\ j # i
    BY <1>2
  <2> QED
    BY <1>8, <2>1
<1> QED
  BY <1>1, <1>9, <1>10 DEF n, Pair

LEMMA RearrangedAgain ==
  ASSUME NEW D, NEW s, NEW t, NEW u, IsRearranged(t, s, D), IsRearranged(u, t, D)
  PROVE  IsRearranged(u, s, D)
BY DEF IsRearranged

(* After j comparisons of the i-th entry.                                    *)
IsNewestUpTo(t, s, i, j, times) ==
  /\ IsRearranged(t, s, DOMAIN times)
  /\ \A k \in 1..Len(s) : k < i => t[k] = s[k]
  /\ \A k \in i..j : times[t[i]] >= times[t[k]]
  /\ \A k \in i..Len(s) : \E l \in i..Len(s) : t[k] = s[l]

LEMMA NewestGoesOn ==
  ASSUME NEW times, Timed(times), NEW s \in Seq(DOMAIN times),
         NEW i \in 1..Len(s), NEW j \in (i + 1)..Len(s),
         NEW t, IsNewestUpTo(t, s, i, j - 1, times)
  PROVE  IsNewestUpTo(Compared(i, j, times)[t], s, i, j, times)
<1> DEFINE n == Len(s)
           D == DOMAIN times
<1>1. n \in Nat /\ i \in 1..n /\ j \in 1..n /\ j > i
  BY SetOfSeq
<1>2. /\ IsRearranged(t, s, D) /\ t \in Seq(D) /\ Len(t) = n
      /\ \A k \in 1..n : k < i => t[k] = s[k]
      /\ \A k \in i..(j - 1) : times[t[i]] >= times[t[k]]
      /\ \A k \in i..n : \E l \in i..n : t[k] = s[l]
  BY DEF IsNewestUpTo, IsRearranged
<1>3. PICK u : /\ u = Compared(i, j, times)[t]
               /\ IsRearranged(u, t, D)
               /\ \A k \in 1..n : k # i /\ k # j => u[k] = t[k]
               /\ {u[i], u[j]} = {t[i], t[j]}
               /\ times[u[i]] >= times[t[i]] /\ times[u[i]] >= times[u[j]]
  <2>1. i \in 1..Len(t) /\ j \in 1..Len(t)
    BY <1>1, <1>2
  <2>2. \E x : /\ x = Compared(i, j, times)[t]
               /\ IsRearranged(x, t, DOMAIN times)
               /\ \A k \in 1..Len(t) : k # i /\ k # j => x[k] = t[k]
               /\ {x[i], x[j]} = {t[i], t[j]}
               /\ times[x[i]] >= times[t[i]] /\ times[x[i]] >= times[x[j]]
    BY <1>2, <2>1, ComparedSays
  <2> QED
    BY <1>2, <2>2
<1>4. u \in Seq(D) /\ Len(u) = n
  BY <1>2, <1>3 DEF IsRearranged
<1>5. (\A k \in 1..n : u[k] \in D) /\ (\A k \in 1..n : t[k] \in D)
  BY <1>2, <1>4, SetOfSeq
<1>6. /\ \A k \in 1..n : times[u[k]] \in Nat
      /\ \A k \in 1..n : times[t[k]] \in Nat
  BY <1>5 DEF Timed
<1>7. IsRearranged(u, s, D)
  BY <1>2, <1>3, RearrangedAgain
<1> HIDE DEF n, D
<1>8. ASSUME NEW k \in 1..n, k < i PROVE u[k] = s[k]
  <2>1. k # i /\ k # j
    BY <1>1, <1>8
  <2> QED
    BY <1>2, <1>3, <1>8, <2>1
<1>9. ASSUME NEW k \in i..j PROVE times[u[i]] >= times[u[k]]
  <2>1. k \in 1..n /\ (k # i /\ k # j => k \in i..(j - 1))
    BY ONLY <1>1, k \in i..j
  <2>2. CASE k = i
    BY <1>1, <1>6, <2>2
  <2>3. CASE k = j
    BY <1>3, <2>3
  <2>4. CASE k \in i..(j - 1) /\ k # i /\ k # j
    <3>1. u[k] = t[k] /\ times[t[i]] >= times[t[k]]
      BY <1>2, <1>3, <2>1, <2>4
    <3> QED
      BY <1>1, <1>3, <1>6, <2>1, <3>1
  <2> QED
    BY <2>1, <2>2, <2>3, <2>4
<1>10. ASSUME NEW k \in i..n PROVE \E l \in i..n : u[k] = s[l]
  <2>1. k \in 1..n /\ i \in i..n /\ j \in i..n
    BY <1>1
  <2>2. \E l \in i..n : u[k] = t[l]
    BY <1>3, <2>1
  <2> QED
    BY <1>2, <2>2
<1> QED
  BY <1>3, <1>7, <1>8, <1>9, <1>10 DEF IsNewestUpTo, n, D

LEMMA NewestSays ==
  ASSUME NEW times, Timed(times), NEW s \in Seq(DOMAIN times), NEW i \in 1..Len(s)
  PROVE  IsNewestUpTo(NewestAt(i, times)[s], s, i, Len(s), times)
<1> DEFINE n == Len(s)
<1>1. n \in Nat /\ i \in 1..n
  BY SetOfSeq
<1>2. PICK h : /\ h[i] = s
               /\ \A j \in (i + 1)..n : h[j] = Compared(i, j, times)[h[j - 1]]
               /\ NewestAt(i, times)[s] = h[n]
  BY NewestLoop
<1> DEFINE Q == {k \in 0..(n - i) : IsNewestUpTo(h[i + k], s, i, i + k, times)}
<1>3. 0 \in Q
  <2>1. IsRearranged(s, s, DOMAIN times)
    BY DEF IsRearranged
  <2>2. times[s[i]] \in Nat
    <3>1. s[i] \in DOMAIN times
      BY SetOfSeq
    <3> QED
      BY <3>1 DEF Timed
  <2>3. \A k \in i..i : times[s[i]] >= times[s[k]]
    BY <1>1, <2>2
  <2>4. IsNewestUpTo(s, s, i, i, times)
    BY <2>1, <2>3 DEF IsNewestUpTo
  <2> QED
    BY <1>1, <1>2, <2>4
<1>4. ASSUME NEW k \in 0..((n - i) - 1), k \in Q PROVE k + 1 \in Q
  <2>1. i + k + 1 \in (i + 1)..n /\ (i + k + 1) - 1 = i + k /\ k + 1 \in 0..(n - i)
        /\ i + (k + 1) = i + k + 1
    BY <1>1
  <2>2. IsNewestUpTo(h[i + k], s, i, i + k, times)
    BY <1>4
  <2>3. h[i + k + 1] = Compared(i, i + k + 1, times)[h[i + k]]
    BY <1>2, <2>1
  <2>4. IsNewestUpTo(h[i + k + 1], s, i, i + k + 1, times)
    BY <2>1, <2>2, <2>3, NewestGoesOn
  <2> QED
    BY <2>1, <2>4
<1>5. n - i \in Q
  <2>1. n - i \in Nat
    BY <1>1
  <2> HIDE DEF Q
  <2> QED
    BY <1>3, <1>4, <2>1, UpTo
<1>6. i + (n - i) = n
  BY <1>1
<1> QED
  BY <1>2, <1>5, <1>6

(* The outer loop.                                                           *)
LEMMA SortLoop ==
  ASSUME NEW times, Timed(times), NEW paths \in Seq(DOMAIN times)
  PROVE  \E h : /\ h[0] = paths
                /\ \A i \in 1..Len(paths) : h[i] = NewestAt(i, times)[h[i - 1]]
                /\ SortByModTime(paths, times) = h[Len(paths)]
<1> DEFINE n == Len(paths)
           V == {t \in Seq(DOMAIN times) : Len(t) = n}
           Newest(i) == NewestAt(i, times)
           Step(g, i) == IF i = 0 THEN paths ELSE Newest(i)[g[i - 1]]
           Loop(g) == g = [i \in 0..n |-> Step(g, i)]
           h == CHOOSE g : Loop(g)
           round == [i \in 1..n |-> [x \in V |-> Newest(i)[x]]]
<1>1. SortByModTime(paths, times) = h[n]
  BY DEF SortByModTime
<1>2. n \in Nat /\ paths \in V
  BY SetOfSeq
<1>3. ASSUME NEW i \in 1..n, NEW x \in V PROVE Newest(i)[x] \in V
  <2>1. x \in Seq(DOMAIN times) /\ Len(x) = n
    BY <1>3
  <2>2. i \in 1..Len(x)
    BY <1>2, <2>1
  <2>3. IsRearranged(Newest(i)[x], x, DOMAIN times)
    BY <2>1, <2>2, NewestSays DEF IsNewestUpTo
  <2> QED
    BY <2>1, <2>3 DEF IsRearranged
<1> HIDE DEF n, V, Newest
<1>4. round \in Rounds(n, V)
  BY <1>3 DEF Rounds
<1> HIDE DEF round
<1>5. PICK g : IsLoop(g, n, V, paths, round)
  BY <1>2, <1>4, LoopExists
<1>6. g \in [0..n -> V] /\ g[0] = paths /\ \A i \in 1..n : g[i] = round[i][g[i - 1]]
  BY <1>5 DEF IsLoop
<1>7. Loop(g)
  <2>1. ASSUME NEW i \in 0..n PROVE g[i] = Step(g, i)
    <3>1. CASE i = 0
      BY <1>6, <3>1
    <3>2. CASE i # 0
      <4>1. i \in 1..n /\ i - 1 \in 0..n
        BY <1>2, <3>2
      <4>2. g[i - 1] \in V /\ g[i] = round[i][g[i - 1]]
        BY <1>6, <4>1
      <4> QED
        BY <3>2, <4>1, <4>2 DEF round
    <3> QED
      BY <3>1, <3>2
  <2> HIDE DEF Step
  <2> QED
    BY <1>6, <2>1
<1>8. Loop(h)
  <2> HIDE DEF Loop
  <2> QED
    BY <1>7
<1> HIDE DEF h
<1>9. h[0] = paths
  <2>1. 0 \in 0..n
    BY <1>2
  <2> QED
    BY <1>8, <2>1
<1>10. ASSUME NEW i \in 1..n PROVE h[i] = Newest(i)[h[i - 1]]
  <2>1. i \in 0..n /\ i # 0
    BY <1>2
  <2> QED
    BY <1>8, <2>1
<1> QED
  BY <1>1, <1>9, <1>10 DEF n, Newest

LEMMA SortSays ==
  ASSUME NEW times, Timed(times), NEW paths \in Seq(DOMAIN times)
  PROVE  /\ IsRearranged(SortByModTime(paths, times), paths, DOMAIN times)
         /\ \A i \in 1..Len(paths) : \A k \in i..Len(paths) :
              times[SortByModTime(paths, times)[i]] >= times[SortByModTime(paths, times)[k]]
<1> DEFINE n == Len(paths)
           D == DOMAIN times
           Descends(t, i) == \A a \in 1..i : \A k \in a..n : times[t[a]] >= times[t[k]]
<1>1. n \in Nat
  BY SetOfSeq
<1>2. PICK h : /\ h[0] = paths
               /\ \A i \in 1..n : h[i] = NewestAt(i, times)[h[i - 1]]
               /\ SortByModTime(paths, times) = h[n]
  BY SortLoop
<1> DEFINE Q == {i \in 0..n : IsRearranged(h[i], paths, D) /\ Descends(h[i], i)}
<1>3. 0 \in Q
  <2>1. IsRearranged(paths, paths, D) /\ Descends(paths, 0)
    BY DEF IsRearranged
  <2> HIDE DEF Descends
  <2> QED
    BY <1>1, <1>2, <2>1
<1>4. ASSUME NEW j \in 0..(n - 1), j \in Q PROVE j + 1 \in Q
  <2> DEFINE i == j + 1
             t == h[j]
             u == h[i]
  <2>1. i \in 1..n /\ i - 1 = j /\ j \in 0..n /\ i \in 0..n
    BY <1>1
  <2>2. IsRearranged(t, paths, D) /\ Descends(t, j) /\ t \in Seq(D) /\ Len(t) = n
    <3> HIDE DEF Descends
    <3> QED
      BY <1>4 DEF IsRearranged
  <2>3. u = NewestAt(i, times)[t]
    <3> HIDE DEF i
    <3> QED
      BY <1>2, <2>1
  <2> HIDE DEF u, t, i
  <2>4. IsNewestUpTo(u, t, i, n, times)
    <3>1. t \in Seq(DOMAIN times) /\ i \in 1..Len(t)
      BY <2>1, <2>2
    <3>2. IsNewestUpTo(NewestAt(i, times)[t], t, i, Len(t), times)
      BY <3>1, NewestSays
    <3> QED
      BY <2>2, <2>3, <3>2
  <2>5. /\ IsRearranged(u, t, D)
        /\ \A k \in 1..n : k < i => u[k] = t[k]
        /\ \A k \in i..n : times[u[i]] >= times[u[k]]
        /\ \A k \in i..n : \E l \in i..n : u[k] = t[l]
    BY <2>2, <2>4 DEF IsNewestUpTo
  <2>6. IsRearranged(u, paths, D)
    BY <2>2, <2>5, RearrangedAgain
  <2>7. ASSUME NEW a \in 1..i, NEW k \in a..n PROVE times[u[a]] >= times[u[k]]
    <3>1. CASE a = i
      BY <2>5, <3>1
    <3>2. CASE a # i
      <4>1. a \in 1..j /\ a \in 1..n /\ k \in 1..n /\ a < i
        BY <1>1, <2>1, <3>2
      <4>2. u[a] = t[a]
        BY <2>5, <4>1
      <4>3. \E l \in a..n : u[k] = t[l]
        <5>1. CASE k < i
          BY <2>5, <4>1, <5>1
        <5>2. CASE ~(k < i)
          <6>1. k \in i..n
            BY <2>1, <4>1, <5>2
          <6>2. PICK l \in i..n : u[k] = t[l]
            BY <2>5, <6>1
          <6>3. l \in a..n
            BY <1>1, <2>1, <4>1
          <6> QED
            BY <6>2, <6>3
        <5> QED
          BY <5>1, <5>2
      <4> QED
        BY <2>2, <4>1, <4>2, <4>3
    <3> QED
      BY <3>1, <3>2
  <2>8. Descends(u, i)
    BY <2>7
  <2> HIDE DEF Descends
  <2> QED
    BY <2>1, <2>6, <2>8 DEF u, i
<1>5. n \in Q
  <2> HIDE DEF Q
  <2> QED
    BY <1>1, <1>3, <1>4, UpTo
<1>6. IsRearranged(h[n], paths, D) /\ Descends(h[n], n)
  <2> HIDE DEF Descends
  <2> QED
    BY <1>5
<1> QED
  BY <1>2, <1>6

-----------------------------------------------------------------------------
(* What a glob finds.                                                        *)

(* Without **, every segment of a pattern takes one of the path at least.    *)
LEMMA SegmentsTake ==
  ASSUME NEW pattern \in Seq(STRING), NEW path \in Seq(STRING), ~Recursive(pattern),
         NEW cut, IsCutting(cut, Len(pattern), Len(path), FitSteps(pattern, path))
  PROVE  /\ \A i \in 1..Len(pattern) : FitStep(pattern, path, i, cut[i - 1], cut[i])
         /\ Len(path) >= Len(pattern)
         /\ Len(path) = Len(pattern) => \A i \in 0..Len(pattern) : cut[i] = i
<1> DEFINE n == Len(pattern)
           m == Len(path)
<1>1. n \in Nat /\ m \in Nat
  BY LenProperties
<1>2. /\ cut \in [0..n -> 0..m] /\ cut[0] = 0 /\ cut[n] = m
      /\ \A i \in 1..n : <<cut[i - 1], cut[i]>> \in FitSteps(pattern, path)[i]
  BY DEF IsCutting
<1>3. ASSUME NEW i \in 1..n
      PROVE  FitStep(pattern, path, i, cut[i - 1], cut[i])
  <2>1. i - 1 \in 0..n /\ i \in 0..n
    BY <1>1
  <2>2. cut[i - 1] \in 0..m /\ cut[i] \in 0..m
    BY <1>2, <2>1
  <2> QED
    BY <1>2, <2>2, FitStepSays
<1>4. ASSUME NEW i \in 1..n
      PROVE  cut[i] >= cut[i - 1] + 1
  <2>1. i - 1 \in 0..n /\ i \in 0..n
    BY <1>1
  <2>2. cut[i - 1] \in 0..m /\ cut[i] \in 0..m
    BY <1>2, <2>1
  <2>3. pattern[i] # "**"
    BY DEF Recursive
  <2>4. cut[i] > cut[i - 1] \/ cut[i] = cut[i - 1] + 1
    BY <1>3, <2>3 DEF FitStep
  <2> QED
    BY <1>1, <2>2, <2>4
<1> HIDE DEF n, m
<1> DEFINE Up == {i \in 0..n : cut[i] >= i}
           Down == {k \in 0..n : cut[n - k] <= m - k}
<1>5. \A i \in 0..n : cut[i] \in 0..m
  BY <1>2
<1>6. ASSUME NEW k \in 0..n PROVE k \in Up
  <2>1. 0 \in Up
    BY <1>1, <1>2
  <2>2. ASSUME NEW i \in 0..(k - 1), i \in Up PROVE i + 1 \in Up
    <3>1. i + 1 \in 1..n /\ (i + 1) - 1 = i /\ i \in 0..n /\ i + 1 \in 0..n
      BY <1>1
    <3>2. cut[i + 1] >= cut[i] + 1 /\ cut[i] >= i /\ cut[i] \in 0..m /\ cut[i + 1] \in 0..m
      BY <1>4, <1>5, <2>2, <3>1
    <3> QED
      BY <1>1, <3>1, <3>2
  <2>3. k \in Nat
    BY <1>1
  <2> HIDE DEF Up
  <2> QED
    BY <2>1, <2>2, <2>3, UpTo
<1>7. ASSUME NEW k \in 0..n PROVE k \in Down
  <2>1. 0 \in Down
    BY <1>1, <1>2
  <2>2. ASSUME NEW i \in 0..(k - 1), i \in Down PROVE i + 1 \in Down
    <3>1. n - i \in 1..n /\ (n - i) - 1 = n - (i + 1) /\ i \in 0..n /\ i + 1 \in 0..n
          /\ n - (i + 1) \in 0..n /\ n - i \in 0..n
      BY <1>1
    <3>2. cut[n - i] >= cut[n - (i + 1)] + 1 /\ cut[n - i] <= m - i
          /\ cut[n - i] \in 0..m /\ cut[n - (i + 1)] \in 0..m
      BY <1>4, <1>5, <2>2, <3>1
    <3> QED
      BY <1>1, <3>1, <3>2
  <2>3. k \in Nat
    BY <1>1
  <2> HIDE DEF Down
  <2> QED
    BY <2>1, <2>2, <2>3, UpTo
<1>8. m >= n
  <2>1. n \in 0..n
    BY <1>1
  <2>2. cut[n] >= n
    BY <1>6, <2>1
  <2> QED
    BY <1>2, <2>2
<1>9. ASSUME m = n, NEW i \in 0..n PROVE cut[i] = i
  <2>1. n - i \in 0..n /\ n - (n - i) = i /\ m - (n - i) = i
    BY <1>1, <1>9
  <2>2. cut[i] <= i /\ cut[i] >= i /\ cut[i] \in 0..m
    BY <1>5, <1>6, <1>7, <2>1
  <2> QED
    BY <1>1, <2>2
<1> QED
  BY <1>3, <1>8, <1>9 DEF n, m

LEMMA DirectFits ==
  ASSUME NEW pattern \in Seq(STRING), NEW path \in Seq(STRING), ~Recursive(pattern),
         Len(path) = Len(pattern)
  PROVE  Fits(pattern, path) <=> \A i \in 1..Len(path) : MatchSegment(pattern[i], path[i])
<1> DEFINE n == Len(pattern)
<1>1. n \in Nat /\ \A i \in 1..n : pattern[i] # "**"
  BY LenProperties DEF Recursive
<1>2. ASSUME Fits(pattern, path), NEW i \in 1..n PROVE MatchSegment(pattern[i], path[i])
  <2>1. PICK cut : IsCutting(cut, n, n, FitSteps(pattern, path))
    BY <1>2, FitsSays
  <2>2. /\ \A k \in 1..n : FitStep(pattern, path, k, cut[k - 1], cut[k])
        /\ \A k \in 0..n : cut[k] = k
    BY <2>1, SegmentsTake
  <2>3. i \in 0..n /\ i - 1 \in 0..n
    BY <1>1
  <2>4. FitStep(pattern, path, i, i - 1, i)
    BY <2>2, <2>3
  <2> QED
    BY <1>1, <2>4 DEF FitStep, MatchSegment
<1>3. ASSUME \A i \in 1..n : MatchSegment(pattern[i], path[i])
      PROVE  Fits(pattern, path)
  <2> DEFINE cut == [i \in 0..n |-> i]
  <2>1. ASSUME NEW i \in 1..n PROVE <<cut[i - 1], cut[i]>> \in FitSteps(pattern, path)[i]
    <3>1. i \in 0..n /\ i - 1 \in 0..n /\ i > i - 1 /\ i = (i - 1) + 1
      BY <1>1
    <3>2. FitStep(pattern, path, i, i - 1, i)
      BY <1>1, <1>3, <3>1 DEF FitStep, MatchSegment
    <3>3. <<i - 1, i>> \in FitSteps(pattern, path)[i]
      BY <3>1, <3>2, FitStepSays
    <3> QED
      BY <3>1, <3>3
  <2>2. cut \in [0..n -> 0..n] /\ cut[0] = 0 /\ cut[n] = n
    BY <1>1
  <2> HIDE DEF cut, n
  <2>3. IsCutting(cut, n, n, FitSteps(pattern, path))
    BY <2>1, <2>2 DEF IsCutting
  <2> QED
    BY <2>3, FitsSays DEF n
<1> QED
  BY <1>2, <1>3

WalkPaths == Seq(STRING) \ {<<>>}

(* A path as the walk names it.                                              *)
LEMMA WalkedSays ==
  ASSUME NEW q \in WalkPaths, NEW r \in WalkPaths
  PROVE  Walked(q) \in WalkPaths /\ (Walked(q) = Walked(r) => q = r)
<1> DEFINE name == <<BaseName>>
           here == <<".">>
<1>1. name \in Seq(STRING) /\ Len(name) = 1
  BY ToolsAssumption, OneElement
<1>2. ASSUME NEW t \in WalkPaths, t # here
      PROVE  /\ Walked(t) = name \o t /\ Walked(t) \in Seq(STRING)
             /\ Len(Walked(t)) = Len(t) + 1 /\ Len(t) \in Nat \ {0}
             /\ \A i \in 1..Len(t) : Walked(t)[i + 1] = t[i]
  <2>1. t \in Seq(STRING) /\ t # <<>> /\ Walked(t) = name \o t
    BY <1>2 DEF WalkPaths, Walked
  <2>2. Len(t) \in Nat \ {0}
    BY <2>1, LenProperties, EmptySeq
  <2> HIDE DEF name
  <2>3. /\ name \o t \in Seq(STRING) /\ Len(name \o t) = 1 + Len(t)
        /\ \A i \in 1..(1 + Len(t)) : (name \o t)[i] = IF i <= 1 THEN name[i] ELSE t[i - 1]
    <3>1. /\ name \o t \in Seq(STRING) /\ Len(name \o t) = Len(name) + Len(t)
          /\ \A i \in 1..(Len(name) + Len(t)) :
               (name \o t)[i] = IF i <= Len(name) THEN name[i] ELSE t[i - Len(name)]
      BY <1>1, <2>1, ConcatProperties
    <3> QED
      BY ONLY <1>1, <3>1, Zenon
  <2>4. ASSUME NEW i \in 1..Len(t) PROVE (name \o t)[i + 1] = t[i]
    <3>1. i + 1 \in 1..(1 + Len(t)) /\ ~(i + 1 <= 1) /\ (i + 1) - 1 = i
      BY <2>2
    <3> QED
      BY <2>3, <3>1
  <2> QED
    BY <2>1, <2>2, <2>3, <2>4
<1>3. Walked(here) = name
  BY DEF Walked
<1>4. ASSUME NEW t \in WalkPaths PROVE Walked(t) \in WalkPaths
  <2>1. CASE t = here
    <3>1. name # <<>>
      OBVIOUS
    <3> QED
      BY <1>1, <1>3, <2>1, <3>1 DEF WalkPaths
  <2>2. CASE t # here
    <3> DEFINE w == Walked(t)
    <3>1. w \in Seq(STRING) /\ Len(w) = Len(t) + 1 /\ Len(t) \in Nat
      BY <1>2, <2>2
    <3> HIDE DEF w
    <3>2. w # <<>>
      BY <3>1, EmptySeq
    <3> QED
      BY <3>1, <3>2 DEF WalkPaths, w
  <2> QED
    BY <2>1, <2>2
<1>5. ASSUME Walked(q) = Walked(r) PROVE q = r
  <2>1. CASE q = here /\ r = here
    BY <2>1
  <2>2. CASE q = here /\ r # here
    <3>1. Len(Walked(r)) = Len(r) + 1 /\ Len(r) \in Nat \ {0} /\ Len(Walked(q)) = 1
      BY <1>1, <1>2, <1>3, <2>2
    <3>2. Len(Walked(q)) = Len(Walked(r))
      BY <1>5
    <3>3. Len(Walked(q)) # Len(Walked(r))
      BY <3>1
    <3> QED
      BY <3>2, <3>3
  <2>3. CASE q # here /\ r = here
    <3>1. Len(Walked(q)) = Len(q) + 1 /\ Len(q) \in Nat \ {0} /\ Len(Walked(r)) = 1
      BY <1>1, <1>2, <1>3, <2>3
    <3>2. Len(Walked(q)) = Len(Walked(r))
      BY <1>5
    <3>3. Len(Walked(q)) # Len(Walked(r))
      BY <3>1
    <3> QED
      BY <3>2, <3>3
  <2>4. CASE q # here /\ r # here
    <3>1. /\ Len(Walked(q)) = Len(q) + 1 /\ Len(q) \in Nat
          /\ \A i \in 1..Len(q) : Walked(q)[i + 1] = q[i]
      BY <1>2, <2>4
    <3>2. /\ Len(Walked(r)) = Len(r) + 1 /\ Len(r) \in Nat
          /\ \A i \in 1..Len(r) : Walked(r)[i + 1] = r[i]
      BY <1>2, <2>4
    <3>3. Len(q) = Len(r) /\ \A i \in 1..Len(q) : q[i] = r[i]
      BY <1>5, <3>1, <3>2
    <3>4. q \in Seq(STRING) /\ r \in Seq(STRING)
      BY DEF WalkPaths
    <3> QED
      BY <3>3, <3>4, SeqEqual
  <2> QED
    BY <2>1, <2>2, <2>3, <2>4
<1> QED
  BY <1>4, <1>5

LEMMA NameFits ==
  ASSUME NEW pattern \in Seq(STRING) \ {<<>>}, NEW path \in Seq(STRING) \ {<<>>}
  PROVE  /\ Name(path) \in Seq(STRING)
         /\ ~Recursive(pattern) /\ Fits(pattern, Name(path)) => Len(pattern) = 1
         /\ Recursive(pattern) /\ Len(pattern) = 1 => Fits(pattern, path)
<1>1. /\ Len(pattern) \in Nat /\ Len(path) \in Nat /\ Len(path) # 0 /\ Len(pattern) # 0
  BY LenProperties, EmptySeq
<1>2. Name(path) \in Seq(STRING) /\ Len(Name(path)) = 1
  <2> DEFINE w == Walked(path)
  <2>1. w \in Seq(STRING) /\ w # <<>>
    BY WalkedSays DEF WalkPaths
  <2> HIDE DEF w
  <2>2. Len(w) \in Nat /\ Len(w) # 0
    BY <2>1, LenProperties, EmptySeq
  <2>3. w[Len(w)] \in STRING
    <3>1. Len(w) \in 1..Len(w)
      BY <2>2
    <3> QED
      BY <2>1, <3>1, ElementOfSeq
  <2>4. Name(path) = <<w[Len(w)]>>
    BY DEF Name, Last, w
  <2> QED
    BY <2>3, <2>4, OneElement
<1>3. ASSUME ~Recursive(pattern), Fits(pattern, Name(path)) PROVE Len(pattern) = 1
  <2>1. PICK cut : IsCutting(cut, Len(pattern), Len(Name(path)), FitSteps(pattern, Name(path)))
    BY <1>2, <1>3, FitsSays
  <2>2. Len(Name(path)) >= Len(pattern)
    BY <1>2, <1>3, <2>1, SegmentsTake
  <2> QED
    BY <1>1, <1>2, <2>2
<1>4. ASSUME Recursive(pattern), Len(pattern) = 1 PROVE Fits(pattern, path)
  <2>1. pattern[1] = "**"
    BY <1>4 DEF Recursive
  <2> DEFINE m == Len(path)
             cut == [i \in 0..1 |-> IF i = 0 THEN 0 ELSE m]
             steps == FitSteps(pattern, path)
  <2>2. cut \in [0..1 -> 0..m] /\ cut[0] = 0 /\ cut[1] = m /\ 0 \in 0..m /\ m \in 0..m
    BY <1>1
  <2>3. FitStep(pattern, path, 1, 0, m)
    BY <1>1, <2>1 DEF FitStep
  <2>4. <<0, m>> \in steps[1]
    BY <1>4, <2>2, <2>3, FitStepSays
  <2> HIDE DEF cut, m, steps
  <2>5. ASSUME NEW i \in 1..1 PROVE <<cut[i - 1], cut[i]>> \in steps[i]
    <3>1. i = 1 /\ i - 1 = 0
      OBVIOUS
    <3> QED
      BY <2>2, <2>4, <3>1
  <2>6. IsCutting(cut, 1, m, steps)
    BY <2>2, <2>5 DEF IsCutting
  <2> QED
    BY <1>4, <2>6, FitsSays DEF m, steps
<1> QED
  BY <1>2, <1>3, <1>4

-----------------------------------------------------------------------------
NearIn(p, cwd) == {q \in ToSet(cwd) : Len(q) = Len(p) /\ Fits(p, q)}

Fitting(p, base, cwd) ==
  IF ~Recursive(p) /\ Len(p) > 1 /\ NearIn(p, cwd) # {} THEN NearIn(p, cwd)
  ELSE {Walked(q) : q \in {q \in ToSet(base) : Fits(p, q) \/ (Len(p) = 1 /\ Fits(p, Name(q)))}}

LEMMA DirectSays ==
  ASSUME NEW p \in WalkPaths, ~Recursive(p), NEW cwd \in Seq(WalkPaths), IsInjective(cwd)
  PROVE  /\ Direct(p, cwd) \in Seq(WalkPaths) /\ IsInjective(Direct(p, cwd))
         /\ ToSet(Direct(p, cwd)) = NearIn(p, cwd)
         /\ Direct(p, cwd) # <<>> <=> NearIn(p, cwd) # {}
<1> DEFINE Fit(q) == Len(q) = Len(p) /\ \A i \in 1..Len(q) : MatchSegment(p[i], q[i])
           at == {i \in DOMAIN cwd : Fit(cwd[i])}
           n == Len(cwd)
<1>1. Direct(p, cwd) = Picked(cwd, at)
  BY DEF Direct
<1>2. /\ DOMAIN cwd = 1..n /\ \A i \in 1..n : cwd[i] \in WalkPaths
      /\ ToSet(cwd) = {cwd[i] : i \in 1..n}
  BY SetOfSeq
<1>3. ASSUME NEW i \in 1..n
      PROVE  Fit(cwd[i]) <=> Len(cwd[i]) = Len(p) /\ Fits(p, cwd[i])
  <2>1. cwd[i] \in Seq(STRING) /\ p \in Seq(STRING)
    BY <1>2 DEF WalkPaths
  <2> QED
    BY <2>1, DirectFits
<1> HIDE DEF Fit
<1>4. at \in SUBSET (1..n)
  BY <1>2
<1>5. {cwd[i] : i \in at} = NearIn(p, cwd)
  <2>1. ASSUME NEW i \in at PROVE cwd[i] \in NearIn(p, cwd)
    BY <1>2, <1>3 DEF NearIn
  <2>2. ASSUME NEW q \in NearIn(p, cwd) PROVE \E i \in at : q = cwd[i]
    <3>1. PICK i \in 1..n : q = cwd[i]
      BY <1>2 DEF NearIn
    <3>2. i \in at
      BY <1>2, <1>3, <3>1 DEF NearIn
    <3> QED
      BY <3>1, <3>2
  <2> QED
    BY <2>1, <2>2
<1> HIDE DEF at, n
<1>6. Picked(cwd, at) \in Seq(WalkPaths) /\ ToSet(Picked(cwd, at)) = {cwd[i] : i \in at}
      /\ IsInjective(Picked(cwd, at))
  BY <1>4, PickedOnce DEF n
<1> DEFINE d == Picked(cwd, at)
<1>7. d # <<>> <=> ToSet(d) # {}
  <2>1. d \in Seq(WalkPaths)
    BY <1>6
  <2> HIDE DEF d
  <2>2. Len(d) \in Nat /\ ToSet(d) = {d[i] : i \in 1..Len(d)} /\ (Len(d) = 0 <=> d = <<>>)
    BY <2>1, SetOfSeq, EmptySeq
  <2>3. ASSUME Len(d) # 0 PROVE d[1] \in ToSet(d)
    <3>1. 1 \in 1..Len(d)
      BY <2>2, <2>3
    <3> QED
      BY <2>2, <3>1
  <2>4. ASSUME Len(d) = 0 PROVE ToSet(d) = {}
    BY <2>2, <2>4
  <2> QED
    BY <2>2, <2>3, <2>4
<1> QED
  BY <1>1, <1>5, <1>6, <1>7

LEMMA FoundSays ==
  ASSUME NEW p \in WalkPaths, NEW base \in Seq(WalkPaths), NEW cwd \in Seq(WalkPaths),
         IsInjective(base), IsInjective(cwd)
  PROVE  /\ Found(p, base, cwd) \in Seq(WalkPaths) /\ IsInjective(Found(p, base, cwd))
         /\ ToSet(Found(p, base, cwd)) = Fitting(p, base, cwd)
<1> DEFINE Fit(q) == IF Recursive(p) THEN MatchDoubleGlob(p, q)
                     ELSE Match(p, q) \/ Match(p, Name(q))
           at == {i \in DOMAIN base : Fit(base[i])}
           n == Len(base)
           Local == ~Recursive(p) /\ Len(p) > 1
           fit == {q \in ToSet(base) : Fits(p, q) \/ (Len(p) = 1 /\ Fits(p, Name(q)))}
           walked == [i \in DOMAIN base |-> Walked(base[i])]
<1>1. Found(p, base, cwd) = IF Local /\ Direct(p, cwd) # <<>> THEN Direct(p, cwd) ELSE Picked(walked, at)
  BY DEF Found
<1>2. /\ DOMAIN base = 1..n /\ \A i \in 1..n : base[i] \in WalkPaths
      /\ ToSet(base) = {base[i] : i \in 1..n}
  BY SetOfSeq
<1>3. ASSUME NEW q \in WalkPaths
      PROVE  Fit(q) <=> Fits(p, q) \/ (Len(p) = 1 /\ Fits(p, Name(q)))
  <2>1. q \in Seq(STRING) \ {<<>>} /\ p \in Seq(STRING) \ {<<>>} /\ p \in Seq(STRING)
        /\ q \in Seq(STRING)
    BY DEF WalkPaths
  <2>2. /\ Name(q) \in Seq(STRING)
        /\ ~Recursive(p) /\ Fits(p, Name(q)) => Len(p) = 1
        /\ Recursive(p) /\ Len(p) = 1 => Fits(p, q)
    BY <2>1, NameFits
  <2>3. CASE Recursive(p)
    <3>1. MatchDoubleGlob(p, q) <=> Fits(p, q)
      BY <2>1, <2>3, MatchDoubleGlobSays
    <3> QED
      BY <2>2, <2>3, <3>1
  <2>4. CASE ~Recursive(p)
    <3>1. Match(p, q) <=> Fits(p, q)
      BY <2>1, <2>4, MatchSays
    <3>2. Match(p, Name(q)) <=> Fits(p, Name(q))
      BY <2>1, <2>2, <2>4, MatchSays
    <3> QED
      BY <2>2, <2>4, <3>1, <3>2
  <2> QED
    BY <2>3, <2>4
<1> HIDE DEF Fit
<1>4. at \in SUBSET (1..n)
  BY <1>2
<1>5. {base[i] : i \in at} = fit
  <2>1. ASSUME NEW i \in at PROVE base[i] \in fit
    BY <1>2, <1>3
  <2>2. ASSUME NEW q \in fit PROVE \E i \in at : q = base[i]
    <3>1. PICK i \in 1..n : q = base[i]
      BY <1>2
    <3>2. i \in at
      BY <1>2, <1>3, <3>1
    <3> QED
      BY <3>1, <3>2
  <2> HIDE DEF at, fit
  <2> QED
    BY <2>1, <2>2
<1>6. Fitting(p, base, cwd)
        = IF Local /\ NearIn(p, cwd) # {} THEN NearIn(p, cwd) ELSE {Walked(q) : q \in fit}
  BY DEF Fitting
<1>10. n \in Nat /\ (\A i, j \in 1..n : base[i] = base[j] => i = j)
  BY SetOfSeq, LenProperties
<1>11. \A i \in 1..n : walked[i] = Walked(base[i]) /\ walked[i] \in WalkPaths
  BY <1>2, WalkedSays
<1>12. walked \in [1..n -> WalkPaths]
  BY <1>2, <1>11
<1> HIDE DEF at, n, fit, Local, walked
<1>13. walked \in Seq(WalkPaths) /\ Len(walked) = n
  BY <1>10, <1>12, IsSequence
<1>14. IsInjective(walked)
  <2>1. ASSUME NEW i \in 1..n, NEW j \in 1..n, walked[i] = walked[j] PROVE i = j
    <3>1. base[i] \in WalkPaths /\ base[j] \in WalkPaths /\ Walked(base[i]) = Walked(base[j])
      BY <1>2, <1>11, <2>1
    <3>2. base[i] = base[j]
      BY <3>1, WalkedSays
    <3> QED
      BY <1>10, <3>2
  <2> QED
    BY <1>13, <2>1, SetOfSeq
<1>15. {walked[i] : i \in at} = {Walked(q) : q \in fit}
  <2>1. ASSUME NEW i \in at PROVE walked[i] \in {Walked(q) : q \in fit}
    BY <1>4, <1>5, <1>11, <2>1
  <2>2. ASSUME NEW q \in fit PROVE Walked(q) \in {walked[i] : i \in at}
    <3>1. PICK i \in at : q = base[i]
      BY <1>5
    <3> QED
      BY <1>4, <1>11, <3>1
  <2> QED
    BY <2>1, <2>2
<1>7. Picked(walked, at) \in Seq(WalkPaths) /\ ToSet(Picked(walked, at)) = {Walked(q) : q \in fit}
      /\ IsInjective(Picked(walked, at))
  <2>1. at \in SUBSET (1..Len(walked))
    BY <1>4, <1>13
  <2> QED
    BY <1>13, <1>14, <1>15, <2>1, PickedOnce
<1>8. CASE Local
  <2>1. /\ Direct(p, cwd) \in Seq(WalkPaths) /\ IsInjective(Direct(p, cwd))
        /\ ToSet(Direct(p, cwd)) = NearIn(p, cwd)
        /\ Direct(p, cwd) # <<>> <=> NearIn(p, cwd) # {}
    BY <1>8, DirectSays DEF Local
  <2> QED
    BY <1>1, <1>6, <1>7, <2>1
<1>9. CASE ~Local
  BY <1>1, <1>6, <1>7, <1>9
<1> QED
  BY <1>8, <1>9

FilePaths == {Walked(q) : q \in ToSet(Base)} \cup ToSet(Cwd)

LEMMA GlobSays ==
  ASSUME NEW p \in WalkPaths, NEW times \in [FilePaths -> Nat],
         NEW data, data = SortByModTime(Found(p, Base, Cwd), times)
  PROVE  /\ ToSet(data) = Fitting(p, Base, Cwd)
         /\ Len(data) = Cardinality(Fitting(p, Base, Cwd))
         /\ \A i \in 1..(Len(data) - 1) : times[data[i]] >= times[data[i + 1]]
<1> DEFINE f == Found(p, Base, Cwd)
<1>1. /\ Base \in Seq(WalkPaths) /\ Cwd \in Seq(WalkPaths)
      /\ IsInjective(Base) /\ IsInjective(Cwd)
  BY ToolsAssumption DEF WalkPaths
<1>2. f \in Seq(WalkPaths) /\ IsInjective(f) /\ ToSet(f) = Fitting(p, Base, Cwd)
  BY <1>1, FoundSays
<1> HIDE DEF f
<1>3. ToSet(f) \subseteq FilePaths
  BY <1>2 DEF Fitting, NearIn, FilePaths
<1>4. f \in Seq(FilePaths)
  BY <1>2, <1>3, ElementsAre
<1>5. DOMAIN times = FilePaths /\ Timed(times)
  BY DEF Timed
<1>6. data = SortByModTime(f, times)
  BY DEF f
<1>7. /\ IsRearranged(data, f, FilePaths)
      /\ \A i \in 1..Len(f) : \A k \in i..Len(f) : times[data[i]] >= times[data[k]]
  BY <1>4, <1>5, <1>6, SortSays
<1>8. /\ data \in Seq(FilePaths) /\ Len(data) = Len(f) /\ ToSet(data) = ToSet(f)
      /\ IsInjective(data)
  BY <1>2, <1>7 DEF IsRearranged
<1>9. Len(data) = Cardinality(ToSet(data))
  BY <1>8, LengthOfOnce
<1>10. ASSUME NEW i \in 1..(Len(data) - 1) PROVE times[data[i]] >= times[data[i + 1]]
  <2>1. Len(f) \in Nat
    BY <1>4, SetOfSeq
  <2>2. i \in 1..Len(f) /\ i + 1 \in i..Len(f)
    BY <1>8, <2>1
  <2> QED
    BY <1>7, <2>2
<1> QED
  BY <1>2, <1>8, <1>9, <1>10

-----------------------------------------------------------------------------
GlobInv ==
  /\ job \in Jobs
  /\ job.tool = "glob" =>
       /\ modTime \in [FilePaths -> Nat]
       /\ pc = "sort" => inHand = Found(job.pattern, Base, Cwd)
  /\ GlobFindsNewestFirst

LEMMA NextKeepsGlobInv ==
  ASSUME GlobInv, [Next]_vars
  PROVE  GlobInv'
<1> USE DEF GlobInv
<1>1. CASE UNCHANGED ToolVars \/ UNCHANGED vars
  BY <1>1 DEF ToolVars, vars, fileVars, GlobFindsNewestFirst, Answered, Doing
<1>2. CASE GlobWalks
  BY <1>2 DEF GlobWalks, Doing, fileVars, GlobFindsNewestFirst, Answered
<1>3. CASE GlobSorts
  <2>1. /\ job' = job /\ job.tool = "glob" /\ modTime' = modTime /\ pc' = "answered"
        /\ resp'.data = SortByModTime(Found(job.pattern, Base, Cwd), modTime)
    BY <1>3 DEF GlobSorts, Doing, fileVars, Success
  <2>2. job.pattern \in WalkPaths
    BY <2>1, ToolsAssumption DEF WalkPaths
  <2>3. /\ ToSet(resp'.data) = Fitting(job.pattern, Base, Cwd)
        /\ Len(resp'.data) = Cardinality(Fitting(job.pattern, Base, Cwd))
        /\ \A i \in 1..(Len(resp'.data) - 1) : modTime[resp'.data[i]] >= modTime[resp'.data[i + 1]]
    BY <2>1, <2>2, GlobSays
  <2>4. GlobFindsNewestFirst'
    BY <2>1, <2>3 DEF GlobFindsNewestFirst, LedAstray, UnderBase, Fitting, NearIn, NearBy
  <2> QED
    BY <2>1, <2>4
<1>4. CASE FileVanishes
  <2>1. /\ job' = job /\ pc' = pc /\ pc = "sort" /\ job.tool = "glob" /\ inHand' = inHand
        /\ \E p \in DOMAIN modTime : modTime' = [modTime EXCEPT ![p] = 0]
    BY <1>4 DEF FileVanishes, Doing
  <2>2. modTime' \in [FilePaths -> Nat]
    <3>1. modTime \in [FilePaths -> Nat]
      BY <2>1
    <3>2. PICK p \in DOMAIN modTime : modTime' = [modTime EXCEPT ![p] = 0]
      BY <2>1
    <3> QED
      BY <3>1, <3>2
  <2>3. GlobFindsNewestFirst'
    BY <2>1 DEF GlobFindsNewestFirst, Answered, Doing
  <2> QED
    BY <2>1, <2>2, <2>3
<1>5. CASE \/ DecodeCode \/ HandleUnknown \/ HandleShellExec \/ HandleProcesses \/ HandleRegistry
           \/ HandleFileRead \/ EditReads \/ EditWrites \/ HandleGrep
           \/ FileChanges \/ OthersWrite
  <2>1. job' = job /\ job.tool # "glob"
    BY <1>5 DEF DecodeCode, HandleUnknown, HandleShellExec, HandleProcesses, HandleRegistry,
                HandleFileRead, EditReads, EditWrites, HandleGrep, FileChanges,
                OthersWrite, Doing
  <2> QED
    BY <2>1 DEF GlobFindsNewestFirst, Answered, Doing
<1> QED
  BY <1>1, <1>2, <1>3, <1>4, <1>5 DEF Next, Dispatch

-----------------------------------------------------------------------------
LEMMA NextKeepsExecInv ==
  ASSUME ExecInv, [Next]_vars
  PROVE  ExecInv'
<1>1. CASE RunStep \/ ShellStep
  BY <1>1, StepKeepsExecInv
<1>2. CASE UNCHANGED execVars
  BY <1>2 DEF execVars, ExecInv, ExecTyped, ChildStages, Ended, KillStages, RunIsHonest
<1>3. CASE Dispatch
  <2>1. UNCHANGED execVars
    BY <1>3 DEF Dispatch, DecodeCode, HandleUnknown, HandleShellExec, HandleProcesses,
                HandleRegistry, HandleFileRead, EditReads, EditWrites, HandleGrep, GlobWalks,
                GlobSorts
  <2> QED
    BY <1>2, <2>1
<1>4. CASE FileChanges \/ OthersWrite \/ FileVanishes
  <2>1. UNCHANGED execVars
    BY <1>4 DEF FileChanges, OthersWrite, FileVanishes
  <2> QED
    BY <1>2, <2>1
<1>5. CASE UNCHANGED vars
  BY <1>2, <1>5 DEF vars
<1> QED
  BY <1>1, <1>3, <1>4, <1>5 DEF Next

LEMMA InitialJob ==
  ASSUME Init
  PROVE  ExecInv /\ ReadInv /\ CodeInv /\ EditInv
<1>1. ExecInv
  <2>1. /\ run \in {"idle", "start"} /\ ctxDone = FALSE /\ child = [pc |-> "none", code |-> 0]
        /\ printed = 0 /\ kill = "none"
    BY DEF Init, ExecutorInit
  <2>2. child.pc = "none" /\ child.code = 0
        /\ child \in [pc : {"none", "running", "ended", "reaped"}, code : 0..2]
    BY <2>1
  <2>3. run # "returned" /\ run # "wait"
    BY <2>1
  <2> QED
    <3>1. ExecTyped
      <4>1. 0 \in 0..Pieces /\ FALSE \in BOOLEAN
        BY ExecutorAssumption
      <4> QED
        BY <2>1, <2>2, <4>1 DEF ExecTyped
    <3>2. ChildStages
      BY <2>1, <2>2, <2>3 DEF ChildStages, Ended
    <3>3. KillStages
      BY <2>1, <2>2 DEF KillStages, Ended
    <3>4. RunIsHonest
      BY <2>3 DEF RunIsHonest
    <3> QED
      BY <3>1, <3>2, <3>3, <3>4 DEF ExecInv
<1>2. job \in Jobs /\ pc = "dispatch" /\ shown = <<>> /\ asked = {}
  BY DEF Init
<1>3. ReadInv
  <2>1. ASSUME job.tool = "file_read"
        PROVE  disk \in Lines
    BY <1>2, <2>1, ToolsAssumption DEF Init, Lines
  <2>2. Len(shown) = 0 /\ shown \in Seq(Nat) /\ LastShown = 0
    BY <1>2 DEF LastShown
  <2>3. PagesCoverTheFile
    <3>1. 1..0 = {} /\ (1..0) \ ToSet(shown) = {}
      OBVIOUS
    <3> QED
      BY <1>2, <2>2, <3>1 DEF PagesCoverTheFile
  <2> QED
    BY <1>2, <2>1, <2>2, <2>3 DEF ReadInv
<1>4. CodeInv
  BY <1>2 DEF CodeInv, CodeSurvivesPasting, Answered, Doing
<1>5. EditInv
  <2>1. ASSUME job.tool = "file_edit"
        PROVE  versions = {disk} /\ disk \in Seq(Letters)
    BY <1>2, <2>1, ToolsAssumption DEF Init
  <2> QED
    BY <1>2, <2>1 DEF EditInv, EditIsExact, Answered, Doing
<1> QED
  BY <1>1, <1>3, <1>4, <1>5

-----------------------------------------------------------------------------
(* What Run reports of a command is what became of it, in whatever order the  *)
(* time limit, the kill and the end of the command come: exit code 0 says   *)
(* that it did all it should, was not killed, and that its output is whole; *)
(* any exit code is one that it had; a time-out is one (executor.go:44-66). *)
THEOREM RunReportsTheTruth == Spec => []RunIsHonest
<1>1. Init => ExecInv
  BY InitialJob
<1>2. ExecInv /\ [Next]_vars => ExecInv'
  BY NextKeepsExecInv
<1>3. ExecInv => RunIsHonest
  BY DEF ExecInv
<1> QED
  BY <1>1, <1>2, <1>3, PTL DEF Spec

(* A table that a query answers with is empty or whole, with every field in   *)
(* its column, whatever rows with whatever quotes, commas and blanks the    *)
(* command printed, however many columns there are, and however the time    *)
(* limit, the kill and the end of the command race (sysinfo.go:63-86,       *)
(* 340-359).                                                                *)
THEOREM ResultsAreHonest == Spec => []CommandResultIsHonest
<1> DEFINE Inv == ExecInv /\ job \in Jobs /\ TableIsWhole
<1>1. Init => Inv
  <2> SUFFICES ASSUME Init PROVE Inv
    OBVIOUS
  <2>1. pc = "dispatch" /\ job \in Jobs
    BY DEF Init
  <2> QED
    BY <2>1, InitialJob DEF TableIsWhole, Answered, Doing
<1>2. Inv /\ [Next]_vars => Inv'
  BY NextKeepsExecInv, NextKeepsTable
<1>3. Inv => CommandResultIsHonest
  BY DEF ExecInv, CommandResultIsHonest
<1> QED
  BY <1>1, <1>2, <1>3, PTL DEF Spec

(* Whatever the limit and however the file grows or vanishes meanwhile: a    *)
(* client that goes on at the last line it was shown sees every line once   *)
(* and in order, to the end that it is told; one that goes on at the line   *)
(* it wants next, as mcp/server.go:190 says, misses exactly the lines that  *)
(* it asked from (fileops.go:21-65).                                        *)
THEOREM PagesCover == Spec => []PagesCoverTheFile
<1>1. Init => ReadInv
  BY InitialJob
<1>2. ReadInv /\ [Next]_vars => ReadInv'
  BY NextKeepsReadInv
<1>3. ReadInv => PagesCoverTheFile
  BY DEF ReadInv, PagesCoverTheFile
<1> QED
  BY <1>1, <1>2, <1>3, PTL DEF Spec

(* A code that is pasted with a blank or a dash too many leads to the         *)
(* operator and the token that it was made of, for every address and token  *)
(* of plain bytes (auth.go:98-123).                                         *)
THEOREM CodeSurvives == Spec => []CodeSurvivesPasting
<1>1. Init => CodeInv
  BY InitialJob
<1>2. CodeInv /\ [Next]_vars => CodeInv'
  BY NextKeepsCodeInv
<1>3. CodeInv => CodeSurvivesPasting
  BY DEF CodeInv
<1> QED
  BY <1>1, <1>2, <1>3, PTL DEF Spec

(* For every text, old and new string, and whatever other requests write to   *)
(* the file meanwhile: an edit that succeeds leaves what the replacement of *)
(* the old string, from left to right, makes of a text that was in the      *)
(* file, it is refused only if the string is not there or more than once,   *)
(* and a refused edit changes nothing (fileops.go:79-103).                  *)
THEOREM EditsAreExact == Spec => []EditIsExact
<1>1. Init => EditInv
  BY InitialJob
<1>2. EditInv /\ [Next]_vars => EditInv'
  BY NextKeepsEditInv
<1>3. EditInv => EditIsExact
  BY DEF EditInv
<1> QED
  BY <1>1, <1>2, <1>3, PTL DEF Spec

(* Whatever the files, the contexts (negative ones as well), the limit and    *)
(* the flags: a search whose expression compiles reports, in order, what    *)
(* matches within one line of any file, with the lines around it, cut after *)
(* the match that reaches the limit; the other modes list the same files    *)
(* with the number of their matches.  So multiline never finds more, and    *)
(* the context comes on top of the limit, against mcp/server.go:258, 271    *)
(* and 272 (fileops.go:331-501).                                            *)
THEOREM SearchIsComplete == Spec => []SearchGoesLineByLine
<1>1. Init => GrepInv
  BY DEF Init, GrepInv, SearchGoesLineByLine, Answered, Doing
<1>2. GrepInv /\ [Next]_vars => GrepInv'
  BY NextKeepsGrepInv
<1>3. GrepInv => SearchGoesLineByLine
  BY DEF GrepInv
<1> QED
  BY <1>1, <1>2, <1>3, PTL DEF Spec

(* Whatever there is under the two directories, whatever the pattern, and     *)
(* though a file disappears before its time is read: a glob lists every     *)
(* path under its base that fits, once and the newest first, unless it is a *)
(* pattern with a slash that fits something in the agent's own directory;   *)
(* then it lists that and nothing of its base, against fileops.go:142 and   *)
(* mcp/server.go:251 (fileops.go:143-270).                                  *)
THEOREM GlobsAreRight == Spec => []GlobFindsNewestFirst
<1>1. Init => GlobInv
  <2> SUFFICES ASSUME Init PROVE GlobInv
    OBVIOUS
  <2>1. job \in Jobs /\ pc = "dispatch" /\ (job.tool = "glob" => modTime = job.modTime)
    BY DEF Init
  <2>2. job.tool = "glob" => job.modTime \in [FilePaths -> Nat]
    BY <2>1, ToolsAssumption DEF FilePaths
  <2> QED
    BY <2>1, <2>2 DEF GlobInv, GlobFindsNewestFirst, Answered, Doing
<1>2. GlobInv /\ [Next]_vars => GlobInv'
  BY NextKeepsGlobInv
<1>3. GlobInv => GlobFindsNewestFirst
  BY DEF GlobInv
<1> QED
  BY <1>1, <1>2, <1>3, PTL DEF Spec
=============================================================================
