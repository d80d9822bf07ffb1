------------------------------ MODULE FileText ------------------------------
(***************************************************************************)
(* What the agent computes from the text of one file: the page that        *)
(* ReadFile returns, the text that EditFile writes back                    *)
(* (internal/fileops/fileops.go), and the fields of a line of CSV that the *)
(* queries of internal/sysinfo/sysinfo.go read.                            *)
(***************************************************************************)
EXTENDS Integers, Sequences, FiniteSets, SequencesExt

CONSTANT Letters  \* the characters of a text that mean nothing to this code

DefaultLimit == 2000

LongLine == "long line"  \* more than the scanner's 10 MB

AtMost(i, j) == IF i < j THEN i ELSE j

(* A variant for a mutant: the offset is the first line of the page.        *)
FirstLineOfPage(offset) == IF offset > 0 THEN offset ELSE 1

FirstLine(offset) == IF offset > 0 THEN offset + 1 ELSE 1

(* The numbers of the lines shown.  The scanner looks at one line more, to   *)
(* see whether there is any, and counts it; a line that is too long is an   *)
(* error wherever the scanner meets it.                                     *)
ReadFile(lines, offset, limit) ==
  LET n == Len(lines)
      size == IF limit <= 0 THEN DefaultLimit ELSE limit
      last == FirstLine(offset) + size - 1
      scanned == AtMost(last + 1, n)
  IN [ok |-> \A i \in 1..scanned : lines[i] # LongLine,
      shown |-> [i \in 1..(AtMost(last, n) - FirstLine(offset) + 1) |-> FirstLine(offset) + i - 1],
      lines |-> scanned,
      truncated |-> n > last]

-----------------------------------------------------------------------------
(* Where old occurs in text.                                                 *)
Occurrences(text, old) ==
  {i \in 1..(Len(text) - Len(old) + 1) : SubSeq(text, i, i + Len(old) - 1) = old}

(* strings.Count counts, and strings.Replace replaces, from left to right    *)
(* what does not overlap.                                                   *)
Counted(text, old) ==
  LET Found[i \in 0..(Len(text) + 1)] ==
        IF i = 0 THEN {}
        ELSE IF i \in Occurrences(text, old) /\ \A j \in Found[i - 1] : j + Len(old) <= i
             THEN Found[i - 1] \cup {i}
             ELSE Found[i - 1]
  IN Found[Len(text) + 1]

ReplacedAt(text, old, new, places) ==
  LET Here(i) == IF i \in places THEN new ELSE <<>>
      Covered(i) == \E j \in places : j <= i /\ i < j + Len(old)
      Kept(i) == IF i > Len(text) \/ Covered(i) THEN <<>> ELSE <<text[i]>>
      Written[i \in 0..(Len(text) + 1)] ==
        IF i = 0 THEN <<>> ELSE Written[i - 1] \o Here(i) \o Kept(i)
  IN Written[Len(text) + 1]

NotFound == [error |-> "not found", text |-> <<>>]

Ambiguous == [error |-> "ambiguous", text |-> <<>>]

(* A variant for a mutant: the first of several is replaced.                *)
EditedFirst(text, old, new, replaceAll) ==
  LET found == Counted(text, old)
      first == {i \in found : \A j \in found : i <= j}
  IN IF found = {} THEN NotFound
     ELSE [error |-> "none",
           text |-> ReplacedAt(text, old, new, IF replaceAll THEN found ELSE first)]

Edited(text, old, new, replaceAll) ==
  LET found == Counted(text, old)
  IN IF found = {} THEN NotFound
     ELSE IF ~replaceAll /\ Cardinality(found) > 1 THEN Ambiguous
     ELSE [error |-> "none", text |-> ReplacedAt(text, old, new, found)]

-----------------------------------------------------------------------------
(* CSV: fields are sequences of the characters that matter.                  *)

Quote == "quote"
Comma == "comma"
Blank == "blank"

Characters == Letters \cup {Quote, Comma, Blank}

Trimmed[field \in Seq(Characters)] ==
  LET inner == {i \in 1..Len(field) : field[i] # Blank}
  IN IF inner = {} THEN <<>> ELSE SubSeq(field, Min(inner), Max(inner))

(* ConvertTo-Csv of PowerShell: every field in quotes, and its quotes twice. *)
ConvertToCsv(row) ==
  LET Doubled(c) == IF c = Quote THEN <<c, c>> ELSE <<c>>
      Field(f) == <<Quote>> \o FlattenSeq([i \in 1..Len(f) |-> Doubled(f[i])]) \o <<Quote>>
  IN FlattenSeq([i \in 1..Len(row) |-> IF i = 1 THEN Field(row[i]) ELSE <<Comma>> \o Field(row[i])])

(* The variables of the loop over a line.                                    *)
ParseState == [fields : Seq(Seq(Characters)), current : Seq(Characters), inQuotes : BOOLEAN]

NoFields == [fields |-> <<>>, current |-> <<>>, inQuotes |-> FALSE]

(* One character: a quote switches between inside and outside and is        *)
(* dropped, a comma outside ends a field.                                   *)
ParseCharacter(c) ==
  [state \in ParseState |->
     CASE c = Quote -> [state EXCEPT !.inQuotes = ~@]
       [] c = Comma /\ ~state.inQuotes ->
            [state EXCEPT !.fields = Append(@, Trimmed[state.current]), !.current = <<>>]
       [] OTHER -> [state EXCEPT !.current = Append(@, c)]]

ParsedFrom(state) ==
  [text \in Seq(Characters) |->
     LET After[i \in 0..Len(text)] ==
           IF i = 0 THEN state ELSE ParseCharacter(text[i])[After[i - 1]]
     IN After[Len(text)]]

ParseCSVLine(line) ==
  LET end == ParsedFrom(NoFields)[Trimmed[line]]
  IN Append(end.fields, Trimmed[end.current])

-----------------------------------------------------------------------------
(* The elements of s whose positions are among those of at, in their order.  *)
Picked(s, at) == FlattenSeq([i \in DOMAIN s |-> IF i \in at THEN <<s[i]>> ELSE <<>>])
=============================================================================
