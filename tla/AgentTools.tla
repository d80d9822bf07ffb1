----------------------------- MODULE AgentTools -----------------------------
(***************************************************************************)
(* What the agent is given to do, one job at a time: the connection code   *)
(* that its user pastes, and requests as dispatch routes them to the tools *)
(* (internal/agent/handler.go).  Meanwhile other programs, and other       *)
(* requests of the same agent, change the file in question.                *)
(*                                                                         *)
(* Several tools stand for others that do the same: processes for all the  *)
(* queries that read a table from PowerShell.                              *)
(***************************************************************************)
EXTENDS Executor, ConnectionCode, FileText, FileSearch

CONSTANTS
  Jobs,      \* jobs that may be given, see Init
  Base, Cwd, \* a walk of the base directory of a glob, and of the agent's own
  Columns,   \* columns of a table
  Texts,     \* texts that other requests write
  Absent,    \* what a file holds that does not exist
  MaxLines   \* bound: lines that a file grows to while it is read

ASSUME ToolsAssumption ==
  /\ Columns \in Nat \ {0} /\ MaxLines \in Nat
  /\ \A t \in Texts : t # Absent /\ t \in Seq(Letters)
  /\ Absent \notin Seq({"line", LongLine})
  /\ BaseName \in STRING /\ {Base, Cwd} \subseteq Seq(Seq(STRING) \ {<<>>})
  /\ IsInjective(Base) /\ IsInjective(Cwd)
  /\ \A j \in Jobs :
       /\ j.tool = "connect" => /\ j.url \in Seq(PlainBytes \ {Bar})
                               /\ j.token \in Seq(PlainBytes)
       /\ j.tool = "file_read" =>
            /\ j.text \in Seq({"line", LongLine}) /\ j.limit \in Int
            /\ j.from \in {"last", "next"}
       /\ j.tool = "processes" =>
            /\ j.rows \in Seq([1..Columns -> Seq(Characters)])
            /\ Len(j.rows) + 1 = Pieces
       /\ j.tool = "grep" =>
            /\ j.files \in Seq(Seq(SUBSET Parts))
            /\ {j.opts.valid, j.opts.multiline} \subseteq BOOLEAN
            /\ {j.opts.before, j.opts.after, j.opts.limit} \subseteq Int
            /\ j.opts.mode \in {"content", "files_with_matches", "count"}
       /\ j.tool = "glob" =>
            /\ j.pattern \in Seq(STRING) \ {<<>>}
            /\ j.modTime \in [{Walked(q) : q \in ToSet(Base)} \cup ToSet(Cwd) -> Nat]
       /\ j.tool = "file_edit" => {j.text, j.old, j.new} \subseteq Seq(Letters)

VARIABLES
  job,       \* what is to be done
  pc,        \* "dispatch", "write" or "sort" in the middle of it, "answered"
  disk,      \* the file it is about
  versions,  \* history: the texts that were ever in this file
  shown,     \* the numbers of the lines that the client was shown
  asked,     \* history: the offsets of the further pages that it was shown
  inHand,    \* what the handler computed and has not used yet
  modTime,   \* modification times, 0 for what has been removed
  resp       \* the answer

fileVars == <<disk, versions, modTime>>
clientVars == <<shown, asked>>
vars == <<execVars, job, pc, fileVars, clientVars, inHand, resp>>

Runs(j) == j.tool \in {"shell_exec", "processes"} \/ (j.tool = "registry_read" /\ j.valid)

Init ==
  /\ job \in Jobs
  /\ pc = "dispatch"
  /\ disk = IF job.tool \in {"file_read", "file_edit"} THEN job.text ELSE <<>>
  /\ versions = {disk}
  /\ shown = <<>> /\ asked = {} /\ inHand = <<>>
  /\ modTime = IF job.tool = "glob" THEN job.modTime ELSE <<>>
  /\ resp = [ok |-> FALSE, error |-> "none", data |-> <<>>]
  /\ ExecutorInit(Runs(job))

Doing(tool, at) == job.tool = tool /\ pc = at

Success(data) == pc' = "answered" /\ resp' = [ok |-> TRUE, error |-> "none", data |-> data]

Failure(error) == pc' = "answered" /\ resp' = [ok |-> FALSE, error |-> error, data |-> <<>>]

-----------------------------------------------------------------------------
DecodeCode ==
  /\ Doing("connect", "dispatch")
  /\ LET code == EncodeConnectionInfo(job.url, job.token)
     IN \E at \in 0..Len(code), c \in {Space, Dash} : Success(DecodeConnectionInfo(Pasted(code, at, c)))
  /\ UNCHANGED <<execVars, job, fileVars, clientVars, inHand>>

HandleUnknown ==
  /\ Doing("unknown", "dispatch")
  /\ Failure("unknown tool")
  /\ UNCHANGED <<execVars, job, fileVars, clientVars, inHand>>

(* The tools that run a command.                                             *)

HandleShellExec ==
  /\ Doing("shell_exec", "dispatch") /\ run = "returned"
  /\ Success(result)
  /\ UNCHANGED <<execVars, job, fileVars, clientVars, inHand>>

(* The first of n lines is the header.                                       *)
Table(n) ==
  LET lines == [i \in 1..(n - 1) |-> ParseCSVLine(ConvertToCsv(job.rows[i]))]
  IN Picked(lines, {i \in DOMAIN lines : Len(lines[i]) >= Columns})

(* A variant for a mutant: the exit code is not looked at.                  *)
HandleProcessesAnyhow ==
  /\ Doing("processes", "dispatch") /\ run = "returned"
  /\ Success(Table(result.out))
  /\ UNCHANGED <<execVars, job, fileVars, clientVars, inHand>>

(* A query that fails is answered by an empty table.                        *)
HandleProcesses ==
  /\ Doing("processes", "dispatch") /\ run = "returned"
  /\ Success(IF result.code # 0 THEN <<>> ELSE Table(result.out))
  /\ UNCHANGED <<execVars, job, fileVars, clientVars, inHand>>

HandleRegistry ==
  /\ Doing("registry_read", "dispatch")
  /\ \/ ~job.valid /\ Failure("invalid key")
     \/ run = "returned" /\ result.code # 0 /\ Failure("registry read failed")
     \/ run = "returned" /\ result.code = 0 /\ Success(result)
  /\ UNCHANGED <<execVars, job, fileVars, clientVars, inHand>>

-----------------------------------------------------------------------------
(* The client reads a file page by page, as long as it is told that there is  *)
(* more.  It asks for a further page from the last line it was shown, or,   *)
(* as the tool is described, from the line that it wants next.              *)
Offset ==
  IF shown = <<>> THEN 0
  ELSE IF job.from = "last" THEN Last(shown) ELSE Last(shown) + 1

ShowPage ==
  LET page == ReadFile(disk, Offset, job.limit)
  IN IF page.ok
     THEN /\ shown' = shown \o page.shown
          /\ asked' = IF shown = <<>> THEN asked ELSE asked \cup {Offset}
          /\ IF page.truncated THEN UNCHANGED <<pc, resp>> ELSE Success(page.lines)
     ELSE Failure("too long") /\ UNCHANGED clientVars

HandleFileRead ==
  /\ Doing("file_read", "dispatch")
  /\ \/ disk = Absent /\ Failure("stat") /\ UNCHANGED clientVars
     \/ disk # Absent /\ (\E e \in {"open", "read"} : Failure(e)) /\ UNCHANGED clientVars
     \/ disk # Absent /\ ShowPage
  /\ UNCHANGED <<execVars, job, fileVars, inHand>>

(* Another program appends a line, or removes the file.                     *)
FileChanges ==
  /\ Doing("file_read", "dispatch") /\ disk # Absent
  /\ \/ Len(disk) < MaxLines /\ disk' = Append(disk, "line")
     \/ disk' = Absent
  /\ UNCHANGED <<execVars, job, pc, versions, clientVars, inHand, modTime, resp>>

(* EditFile: read and compute, then write.                                  *)
EditReads ==
  /\ Doing("file_edit", "dispatch")
  /\ IF disk = Absent THEN Failure("read") /\ UNCHANGED inHand
     ELSE LET edit == Edited(disk, job.old, job.new, job.replaceAll)
          IN IF edit.error # "none"
             THEN Failure(edit.error) /\ UNCHANGED inHand
             ELSE pc' = "write" /\ inHand' = edit.text /\ UNCHANGED resp
  /\ UNCHANGED <<execVars, job, fileVars, clientVars>>

(* os.WriteFile empties the file first: a failure leaves a part of the text. *)
EditWrites ==
  /\ Doing("file_edit", "write")
  /\ \/ disk' = inHand /\ Success("edited")
     \/ disk' \in Prefixes(inHand) /\ Failure("write")
  /\ UNCHANGED <<execVars, job, versions, clientVars, inHand, modTime>>

(* Another request: WriteFile, UploadFile or DeleteFile.  Bound: one.       *)
OthersWrite ==
  /\ job.tool = "file_edit" /\ pc # "answered" /\ versions = {job.text}
  /\ disk' \in Texts \cup {Absent}
  /\ versions' = versions \cup {disk'}
  /\ UNCHANGED <<execVars, job, pc, clientVars, inHand, modTime, resp>>

-----------------------------------------------------------------------------
HandleGrep ==
  /\ Doing("grep", "dispatch")
  /\ IF job.opts.valid THEN Success(GrepFile(job.files, job.opts)) ELSE Failure("invalid pattern")
  /\ UNCHANGED <<execVars, job, fileVars, clientVars, inHand>>

(* Glob: walk, then sort by the times that the files have by then.          *)
GlobWalks ==
  /\ Doing("glob", "dispatch")
  /\ inHand' = Found(job.pattern, Base, Cwd)
  /\ pc' = "sort"
  /\ UNCHANGED <<execVars, job, fileVars, clientVars, resp>>

GlobSorts ==
  /\ Doing("glob", "sort")
  /\ Success(SortByModTime(inHand, modTime))
  /\ UNCHANGED <<execVars, job, fileVars, clientVars, inHand>>

(* Bound: one file is removed.                                              *)
FileVanishes ==
  /\ Doing("glob", "sort") /\ modTime = job.modTime
  /\ \E p \in DOMAIN modTime : modTime' = [modTime EXCEPT ![p] = 0]
  /\ UNCHANGED <<execVars, job, pc, disk, versions, clientVars, inHand, resp>>

Dispatch ==
  \/ DecodeCode \/ HandleUnknown \/ HandleShellExec \/ HandleProcesses \/ HandleRegistry
  \/ HandleFileRead \/ EditReads \/ EditWrites \/ HandleGrep \/ GlobWalks \/ GlobSorts

ToolVars == <<job, pc, fileVars, clientVars, inHand, resp>>

Next ==
  \/ Dispatch
  \/ (RunStep \/ ShellStep) /\ UNCHANGED ToolVars
  \/ FileChanges \/ OthersWrite \/ FileVanishes

Spec == Init /\ [][Next]_vars

(* Goroutines and timers run.  Nothing is assumed of the command.           *)
FairSpec == Spec /\ WF_vars(Dispatch) /\ WF_vars(RunStep /\ UNCHANGED ToolVars)

-----------------------------------------------------------------------------
Answered(tool) == Doing(tool, "answered")

RunIsHonest ==
  run = "returned" =>
    /\ result.code = 0 => child.code = 0 /\ kill # "killed" /\ result.out = Pieces
    /\ result.code # -1 => child.code = result.code
    /\ child.code # 0 => child.code = result.code
    /\ result.text = "timed out" => ctxDone

TableIsWhole ==
  Answered("processes") /\ resp.data # <<>> =>
    LET Plain(field) == Trimmed[Without(field, {Quote})]
    IN resp.data = [i \in DOMAIN job.rows |-> [j \in 1..Columns |-> Plain(job.rows[i][j])]]

(* However the time limit, the kill and the end of a command race: success    *)
(* is reported of a command that did all it should and with all its output, *)
(* an exit code is one that it had, a time-out is one, and a table is empty *)
(* or whole, with every field in its column (executor.go:44-66,             *)
(* sysinfo.go:63-86).                                                       *)
CommandResultIsHonest == RunIsHonest /\ TableIsWhole

(* A command that does not end is ended, and the request answered, unless a   *)
(* process that it has left behind keeps its pipes (executor.go:29-48).     *)
CommandsEnd == <>[](~held) => (Runs(job) ~> pc = "answered")

(* The code that a user pastes, with a blank or dash that was not in it,     *)
(* leads to the operator that made it, although the decoder removes every   *)
(* dash and a dash is a digit: no code of plain bytes has one (auth.go:     *)
(* 98-123).                                                                 *)
CodeSurvivesPasting ==
  Answered("connect") => resp.data = [url |-> job.url, token |-> job.token, ok |-> TRUE]

(* Whoever asks for a further page from the last line it was shown sees every *)
(* line once and in order, also of a file that grows, up to an error or the *)
(* end that it is told.  An offset is the line to start after: whoever asks *)
(* from the line it wants next, as mcp/server.go:190 says, is never shown   *)
(* that one, and misses a line with every page (fileops.go:21-65).          *)
PagesCoverTheFile ==
  job.tool = "file_read" =>
    LET told == pc = "answered" /\ resp.ok
        upTo == IF told THEN Len(disk) ELSE IF shown = <<>> THEN 0 ELSE Last(shown)
        missed == (1..upTo) \ ToSet(shown)
    IN /\ \A i, j \in 1..Len(shown) : i < j => shown[i] < shown[j]
       /\ missed = IF job.from = "last" THEN {} ELSE asked
       /\ disk # Absent => \A i \in 1..upTo : disk[i] # LongLine
       /\ pc = "answered" /\ resp.error = "too long" => Contains(disk, LongLine)

(* What an edit makes of a text, written down from left to right.           *)
Replacement(text) ==
  LET old == job.old
      n == Len(old)
      gap == IF old = <<>> THEN job.new ELSE <<>>
      R[i \in 1..(Len(text) + 1)] ==
        IF i > Len(text) THEN gap
        ELSE IF n > 0 /\ IsPrefix(old, SubSeq(text, i, Len(text))) THEN job.new \o R[i + n]
        ELSE gap \o <<text[i]>> \o R[i + 1]
  IN R[1]

TwoApart(text) ==
  \E i, j \in Occurrences(text, job.old) : i < j /\ i + Len(job.old) <= j

(* An edit replaces what it was to replace in a text that was in the file,   *)
(* and nothing else; it is refused only if the old string is not there, or  *)
(* more than once; and a refused edit changes nothing (fileops.go:79-103).  *)
EditIsExact ==
  Answered("file_edit") =>
    /\ resp.ok =>
         \E v \in versions \ {Absent} : disk = Replacement(v) /\ (job.replaceAll \/ ~TwoApart(v))
    /\ resp.error = "not found" => \E v \in versions \ {Absent} : Occurrences(v, job.old) = {}
    /\ resp.error = "ambiguous" => ~job.replaceAll /\ \E v \in versions \ {Absent} : TwoApart(v)
    /\ ~resp.ok /\ resp.error # "write" => disk \in versions

(* The lines of the matches: with multiline also of those across lines.       *)
Matched(text, multiline) ==
  {l \in DOMAIN text : \E i \in 1..l, j \in l..Len(text) : Matches(text, i, j, multiline)}

(* The places of the matches, in order, and a match with the lines before     *)
(* and after it.                                                            *)
HitsOf(file, text, multiline) ==
  Picked([l \in DOMAIN text |-> <<file, l>>], Matched(text, multiline))

AllHits(files, multiline) == FlattenSeq([f \in DOMAIN files |-> HitsOf(f, files[f], multiline)])

Surroundings(place, files, opts) ==
  LET text == files[place[1]]
      i == place[2]
      Near(l) == l = i \/ l \in (i - opts.before)..(i - 1) \/ l \in (i + 1)..(i + opts.after)
  IN Picked([l \in DOMAIN text |-> Entry(place[1], l)], {l \in DOMAIN text : Near(l)})

Matching(files, multiline) ==
  Picked([f \in DOMAIN files |-> f], {f \in DOMAIN files : HitsOf(f, files[f], multiline) # <<>>})

ToBeFound(files, opts, multiline) ==
  LET limit == HeadLimit(opts)
      hits == AllHits(files, multiline)
      matching == Matching(files, multiline)
      First(k) == FlattenSeq([i \in 1..k |-> Surroundings(hits[i], files, opts)])
      enough == {k \in 0..Len(hits) : k = Len(hits) \/ Len(First(k)) >= limit}
      some == SubSeq(matching, 1, AtMost(limit, Len(matching)))
      Count(f) == Len(HitsOf(f, files[f], multiline))
  IN CASE opts.mode = "content" -> First(Min(enough))
       [] opts.mode = "files_with_matches" -> some
       [] opts.mode = "count" ->
            [i \in DOMAIN some |-> [file |-> some[i], count |-> Count(some[i])]]

(* How many lines a match may bring along.                                   *)
ContextSize(opts) ==
  (IF opts.before > 0 THEN opts.before ELSE 0) + (IF opts.after > 0 THEN opts.after ELSE 0)

(* A search reports, in order, the matches of all files with their contexts,  *)
(* and the other modes agree with it on which files match and how often.    *)
(* Two of its options do not do what is said of them.  "multiline" changes  *)
(* nothing: what is found is what is matched within a line (against         *)
(* mcp/server.go:258, 272; ToBeFound of job.opts.multiline would be right). *)
(* "head_limit" counts the context and cuts after the match that reaches    *)
(* it, so that more than "max results" come (271) (fileops.go:331-501).     *)
SearchGoesLineByLine ==
  Answered("grep") =>
    /\ resp.ok <=> job.opts.valid
    /\ resp.ok =>
         /\ resp.data = ToBeFound(job.files, job.opts, FALSE)
         /\ Len(resp.data) <= HeadLimit(job.opts)
                                + (IF job.opts.mode = "content" THEN ContextSize(job.opts) ELSE 0)

(* The path can be cut into the segments of the pattern.                    *)
Fits(pattern, path) ==
  \E cut \in [0..Len(pattern) -> 0..Len(path)] :
    /\ cut[0] = 0 /\ cut[Len(pattern)] = Len(path)
    /\ \A i \in 1..Len(pattern) :
         CASE pattern[i] = "**" -> cut[i] >= cut[i - 1]
           [] pattern[i] = "*" -> IF Recursive(pattern) THEN cut[i] = cut[i - 1] + 1
                                                        ELSE cut[i] > cut[i - 1]
           [] OTHER -> cut[i] = cut[i - 1] + 1 /\ path[cut[i]] = pattern[i]

(* What of the agent's own directory the pattern fits.                       *)
NearBy(p) == {q \in ToSet(Cwd) : Len(q) = Len(p) /\ Fits(p, q)}

UnderBase(p) ==
  {Walked(q) : q \in {q \in ToSet(Base) : Fits(p, q) \/ (Len(p) = 1 /\ Fits(p, Name(q)))}}

(* A simple pattern with a slash that fits something there.                 *)
LedAstray(p) == ~Recursive(p) /\ Len(p) > 1 /\ NearBy(p) # {}

(* A glob finds every path under the base directory that fits, once: ** for   *)
(* any number of segments, and a single name in any directory; the newest   *)
(* come first, and what was removed in the meantime last.  But a pattern    *)
(* with a slash that fits something in the agent's own directory finds only *)
(* that, and of the base directory nothing, against fileops.go:142 and      *)
(* mcp/server.go:251 (fileops.go:143-270).                                  *)
GlobFindsNewestFirst ==
  Answered("glob") =>
    LET p == job.pattern
        found == ToSet(resp.data)
    IN /\ ~LedAstray(p) => found = UnderBase(p)
       /\ LedAstray(p) => found = NearBy(p)
       /\ Len(resp.data) = Cardinality(found)
       /\ \A i \in 1..(Len(resp.data) - 1) : modTime[resp.data[i]] >= modTime[resp.data[i + 1]]
=============================================================================
