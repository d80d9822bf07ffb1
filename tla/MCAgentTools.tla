---------------------------- MODULE MCAgentTools ----------------------------
(* Small instances of every kind of job: all texts, patterns, files and      *)
(* codes up to a few characters, segments, lines and bytes.                 *)
EXTENDS AgentTools

(* Bytes whose digits are spread over the base64 alphabet: h / - ? and, in   *)
(* tokens, A _ -                                                            *)
Codes == [tool : {"connect"}, url : BoundedSeq({104, 47, 63}, 2), token : BoundedSeq({65, 95, 45}, 2)]

Fields == BoundedSeq({"a", Quote, Comma, Blank}, 3)

Commands ==
  {[tool |-> "shell_exec"], [tool |-> "unknown"]}
    \cup [tool : {"registry_read"}, valid : BOOLEAN]
    \cup {[tool |-> "processes", rows |-> <<<<f, <<"a">>>>, <<<<"a", Comma>>, f>>>>] : f \in Fields}

Reads == [tool : {"file_read"}, text : BoundedSeq({"line", LongLine}, 3), limit : {0, 1, 2},
          from : {"last", "next"}]

MCLetters == {"a", "b"}

EditTexts == BoundedSeq(MCLetters, 4)

Edits ==
  [tool : {"file_edit"}, text : EditTexts, old : BoundedSeq(MCLetters, 2),
   new : {<<>>, <<"b">>, <<"a", "a">>}, replaceAll : BOOLEAN]

MCTexts == {<<"b", "a">>}

(* Every line matches or does not; or a match may go across lines.           *)
FileTexts == BoundedSeq({{}, Parts}, 3)

SpanningTexts == BoundedSeq({{"begin"}, {"end"}, Parts}, 2)

Modes == {"content", "files_with_matches", "count"}

Greps ==
  [tool : {"grep"}, files : FileTexts \X FileTexts,
   opts : [valid : {TRUE}, multiline : {FALSE}, before : {-1, 1}, after : {0, 1},
           limit : {0, 1, 2, 3}, mode : Modes]]
  \cup
  [tool : {"grep"}, files : SpanningTexts \X SpanningTexts,
   opts : [valid : BOOLEAN, multiline : {TRUE}, before : {0}, after : {0}, limit : {0, 1},
           mode : Modes]]

(* The walk of a directory with everything of up to three segments.          *)
Leaves(p) == <<p, p \o <<"a">>, p \o <<"b">>>>

Walk(p) == <<p>> \o Leaves(p \o <<"a">>) \o Leaves(p \o <<"b">>)

MCBase == <<<<".">>>> \o Walk(<<"a">>) \o Walk(<<"b">>)

(* The base directory is another one, and its name is that of a file in it.  *)
MCBaseName == "b"

MCCwd == <<<<"a">>, <<"a", "b">>>>

Paths == {Walked(p) : p \in ToSet(MCBase)} \cup ToSet(MCCwd)

Patterns == BoundedSeq({"**", "*", "a", "b"}, 3) \ {<<>>}

(* Deep paths are old, deep paths are new, or all are of the same time.      *)
Times == {[p \in Paths |-> Len(p)], [p \in Paths |-> 4 - Len(p)], [p \in Paths |-> 1]}

Globs == [tool : {"glob"}, pattern : Patterns, modTime : Times]

MCJobs == Codes \cup Commands \cup Reads \cup Edits \cup Greps \cup Globs
=============================================================================
