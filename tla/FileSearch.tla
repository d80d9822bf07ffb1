----------------------------- MODULE FileSearch -----------------------------
(***************************************************************************)
(* The searches of the agent (Glob and GrepFile in                         *)
(* internal/fileops/fileops.go).                                           *)
(*                                                                         *)
(* A path or a pattern is the sequence of its segments, a name one of a    *)
(* few; in a pattern "*" is any name and "**" any number of segments.  A   *)
(* walk lists paths relative to its base directory, which is <<".">>.      *)
(*                                                                         *)
(* The expression of a search is one like "begin.*end", and the text of a  *)
(* file says, for each line, which of the two parts it has.                *)
(***************************************************************************)
EXTENDS FileText

CONSTANT BaseName  \* the last segment of the path of the base directory

(* A path as the walk names it.                                             *)
Walked(rel) == IF rel = <<".">> THEN <<BaseName>> ELSE <<BaseName>> \o rel

Name(rel) == <<Last(Walked(rel))>>

MatchSegment(pattern, name) == pattern = "*" \/ pattern = name

(* filepath.Match on Windows, where a '*' stops at a backslash only: in a    *)
(* pattern and a path made of slashes it covers one segment or more.        *)
(* M[i]: how much of the path the first i segments of the pattern may cover *)
(* so that the others match the rest.                                       *)
Match(pattern, path) ==
  LET n == Len(pattern)
      m == Len(path)
      M[i \in 0..n] ==
        IF i = n THEN {m}
        ELSE IF pattern[i + 1] = "*" THEN {j \in 0..(m - 1) : \E k \in (j + 1)..m : k \in M[i + 1]}
        ELSE {j \in 0..(m - 1) : pattern[i + 1] = path[j + 1] /\ j + 1 \in M[i + 1]}
  IN 0 \in M[0]

(* A variant for a mutant: ** stands for at least one segment.              *)
MatchDoubleGlobSome(pattern, path) ==
  LET n == Len(pattern)
      m == Len(path)
      Ended(i) == IF \A k \in (i + 1)..n : pattern[k] = "**" THEN {m} ELSE {}
      M[i \in 0..n] ==
        Ended(i) \cup
        IF i = n THEN {}
        ELSE IF pattern[i + 1] = "**"
             THEN {j \in 0..(m - 1) : i + 1 = n \/ \E k \in (j + 1)..m : k \in M[i + 1]}
        ELSE {j \in 0..(m - 1) : MatchSegment(pattern[i + 1], path[j + 1]) /\ j + 1 \in M[i + 1]}
  IN 0 \in M[0]

(* M[i]: at which j the call with pattern[i:] and path[j:] returns true.  At  *)
(* the end of the path, what is left of the pattern has to be ** only.      *)
MatchDoubleGlob(pattern, path) ==
  LET n == Len(pattern)
      m == Len(path)
      Ended(i) == IF \A k \in (i + 1)..n : pattern[k] = "**" THEN {m} ELSE {}
      M[i \in 0..n] ==
        Ended(i) \cup
        IF i = n THEN {}
        ELSE IF pattern[i + 1] = "**"
             THEN {j \in 0..(m - 1) : i + 1 = n \/ \E k \in j..m : k \in M[i + 1]}
        ELSE {j \in 0..(m - 1) : MatchSegment(pattern[i + 1], path[j + 1]) /\ j + 1 \in M[i + 1]}
  IN 0 \in M[0]

Recursive(pattern) == \E i \in 1..Len(pattern) : pattern[i] = "**"

(* What filepath.Glob finds in the current directory.                       *)
Direct(pattern, cwd) ==
  LET Fit(p) == Len(p) = Len(pattern) /\ \A i \in 1..Len(p) : MatchSegment(pattern[i], p[i])
  IN Picked(cwd, {i \in DOMAIN cwd : Fit(cwd[i])})

(* The paths found under the base directory, in the order of the walk; but a *)
(* simple pattern with a slash is looked up in the current directory first, *)
(* and the base is not walked if anything fits there.                       *)
Found(pattern, base, cwd) ==
  LET Fit(p) == IF Recursive(pattern) THEN MatchDoubleGlob(pattern, p)
                ELSE Match(pattern, p) \/ Match(pattern, Name(p))
  IN IF ~Recursive(pattern) /\ Len(pattern) > 1 /\ Direct(pattern, cwd) # <<>>
     THEN Direct(pattern, cwd)
     ELSE Picked([i \in DOMAIN base |-> Walked(base[i])], {i \in DOMAIN base : Fit(base[i])})

Swapped(s, i, j) == [s EXCEPT ![i] = s[j], ![j] = s[i]]

Compared(i, j, modTime) ==
  [s \in Seq(DOMAIN modTime) |-> IF modTime[s[j]] > modTime[s[i]] THEN Swapped(s, i, j) ELSE s]

(* A variant for a mutant: an entry is compared with the next one only.     *)
NewestAtNext(i, modTime) ==
  [s \in Seq(DOMAIN modTime) |-> IF i = Len(s) THEN s ELSE Compared(i, i + 1, modTime)[s]]

(* The inner loop compares an entry with every later one.                    *)
NewestAt(i, modTime) ==
  [s \in Seq(DOMAIN modTime) |->
     LET After[j \in i..Len(s)] == IF j = i THEN s ELSE Compared(i, j, modTime)[After[j - 1]]
     IN After[Len(s)]]

SortByModTime(paths, modTime) ==
  LET After[i \in 0..Len(paths)] == IF i = 0 THEN paths ELSE NewestAt(i, modTime)[After[i - 1]]
  IN After[Len(paths)]

-----------------------------------------------------------------------------
(* GrepFile.  A file that is filtered out, binary or unreadable counts as    *)
(* one without lines.                                                       *)

DefaultHeadLimit == 250

HeadLimit(opts) == IF opts.limit <= 0 THEN DefaultHeadLimit ELSE opts.limit

Parts == {"begin", "end"}

(* The expression matches from line i of the text to line j: across lines    *)
(* only with the flag that lets its '.' match newlines.                     *)
Matches(text, i, j, multiline) ==
  "begin" \in text[i] /\ "end" \in text[j] /\ (i = j \/ (multiline /\ i < j))

MatchString(text, multiline) == \E i, j \in DOMAIN text : Matches(text, i, j, multiline)

(* The flag is set, but the expression is tried on one line at a time.       *)
Hits(text, opts) == {i \in 1..Len(text) : MatchString(<<text[i]>>, opts.multiline)}

Entry(file, line) == [file |-> file, line |-> line]

Entries == [file : Nat, line : Nat]

(* A match with the lines before and after it.                              *)
WithContext(file, text, i, opts) ==
  LET start == IF i > opts.before THEN i - opts.before ELSE 1
      end == IF i + opts.after < Len(text) THEN i + opts.after ELSE Len(text)
      from == AtMost(start, i)
  IN [k \in 1..(IF end > i THEN end - from + 1 ELSE i - from + 1) |-> Entry(file, from + k - 1)]

Full(results, opts) == Len(results) >= HeadLimit(opts)

(* A variant for a mutant: the limit is looked at between files only.       *)
GrepLineAnyhow(file, text, i, opts) ==
  [results \in Seq(Entries) |->
     IF i \in Hits(text, opts) THEN results \o WithContext(file, text, i, opts) ELSE results]

(* The loop over the lines stops after a match that reaches the limit.       *)
GrepLine(file, text, i, opts) ==
  [results \in Seq(Entries) |->
     IF Full(results, opts) \/ i \notin Hits(text, opts) THEN results
     ELSE results \o WithContext(file, text, i, opts)]

(* One file of the walk, which stops when the limit is reached.              *)
GrepOneFile(file, text, opts) ==
  [results \in Seq(Entries) |->
     LET After[i \in 0..Len(text)] ==
           IF i = 0 THEN results ELSE GrepLine(file, text, i, opts)[After[i - 1]]
     IN IF Full(results, opts) THEN results ELSE After[Len(text)]]

GrepContent(files, opts) ==
  LET After[f \in 0..Len(files)] ==
        IF f = 0 THEN <<>> ELSE GrepOneFile(f, files[f], opts)[After[f - 1]]
  IN After[Len(files)]

(* The walk of the other modes, which reports something of a file at most.   *)
GrepFiles(files, opts, report) ==
  LET After[f \in 0..Len(files)] ==
        IF f = 0 THEN <<>>
        ELSE IF Full(After[f - 1], opts) \/ Hits(files[f], opts) = {} THEN After[f - 1]
        ELSE Append(After[f - 1], report[f])
  IN After[Len(files)]

GrepFilesOnly(files, opts) == GrepFiles(files, opts, [f \in DOMAIN files |-> f])

GrepCount(files, opts) ==
  GrepFiles(files, opts, [f \in DOMAIN files |-> [file |-> f, count |-> Cardinality(Hits(files[f], opts))]])

GrepFile(files, opts) ==
  CASE opts.mode = "files_with_matches" -> GrepFilesOnly(files, opts)
    [] opts.mode = "count" -> GrepCount(files, opts)
    [] OTHER -> GrepContent(files, opts)
=============================================================================
