--------------------------- MODULE LokiFixProofs ---------------------------
(***************************************************************************)
(* Proofs about LokiFix and the Tunnel it starts, for any number of        *)
(* operators, pieces of a download, connections and calls.                 *)
(*                                                                         *)
(* The invariant has three parts that hardly share state: the installation *)
(* of the binary, the child process, and the connection codes that the     *)
(* handlers of overlapping connections generate, publish and use.          *)
(***************************************************************************)
EXTENDS LokiFix, FiniteSetTheorems, SequenceTheorems, TLAPS

USE TunnelAssumption, LokiFixAssumption DEF NoCode, NoConn, Links, Codes

-----------------------------------------------------------------------------
(* The installation.                                                         *)

Pieced == Seq({"data", "hole"})

InstallTyped ==
  /\ binary \in Pieced \cup {Absent}
  /\ tmp \in Pieced \cup {Absent}
  /\ dl \in [Operators -> [pc : {"none", "create", "copy", "remove", "rename", "ok", "failed",
                                 "dead"}, pos : 0..Size]]
  /\ upset \in BOOLEAN

Copying(p) == dl[p].pc \in {"copy", "rename"}

CopyHasFile == \A p \in Operators : At(p, "copy") => tmp # Absent

RenamesAtEnd == \A p \in Operators : At(p, "rename") => dl[p].pos = Size

TmpFits == tmp # Absent => Len(tmp) <= Size

(* All that p has written is in the file.                                   *)
Intact(p) == \A j \in 1..dl[p].pos : j <= Len(tmp) /\ tmp[j] = "data"

(* While nobody gives up, the file is complete or will be by one of those    *)
(* that write it, whoever truncated it last.                                *)
SomebodyCompletes ==
  ~upset /\ tmp # Absent /\ (\E p \in Operators : Copying(p)) =>
    tmp \in Pieces \/ \E q \in Operators : Copying(q) /\ Intact(q)

InstallInv ==
  /\ InstallTyped
  /\ CopyHasFile
  /\ RenamesAtEnd
  /\ TmpFits
  /\ SomebodyCompletes
  /\ InstalledIsComplete

-----------------------------------------------------------------------------
(* The child process.                                                        *)

ProcessTyped ==
  /\ interrupted \in BOOLEAN
  /\ tun \in {"off", "waiting", "up", "failed"}
  /\ cf \in {"none", "running", "exited", "crashed", "reported", "killed"}
  /\ url \in {"none", "printed", "sent"}

ProcessInv ==
  /\ ProcessTyped
  /\ tun = "off" => cf = "none"
  /\ main = "install" => tun = "off"
  /\ tun = "waiting" => main = "tunnel"

-----------------------------------------------------------------------------
(* The connection codes.                                                     *)

ServerTyped ==
  /\ main \in {"install", "tunnel", "code", "publish", "assign", "sleep", "run", "read",
               "send", "wait", "cleanup", "exited", "aborted"}
  /\ standalone \in BOOLEAN /\ eof \in BOOLEAN
  /\ calls \in 0..MaxCalls
  /\ assigned \in 0..4
  /\ codes \in Nat /\ codeFile \in {NoCode} \cup seen
  /\ used \subseteq seen /\ seen \subseteq 1..codes
  /\ conn \in {NoConn} \cup Links
  /\ handler \in [Links -> [pc : HandlerPC, code : {NoCode} \cup 1..codes, notifies : BOOLEAN]]
  /\ told \in {"nothing", "connected", "disconnected"}

StartingUp == main \in {"install", "tunnel", "code", "publish", "aborted"}

(* Nobody comes before the first code is in the file.                       *)
NobodyYet ==
  IF StartingUp
  THEN /\ seen = {}
       /\ codes = IF main = "publish" THEN 1 ELSE 0
       /\ \A k \in Links : handler[k].pc = "none"
  ELSE seen # {}

Renewers == {k \in Links : handler[k].code # NoCode}

(* A connection generates one code at most, at its end.                     *)
CodesCounted ==
  /\ codes <= Cardinality(Renewers) + 1
  /\ \A k \in Renewers : handler[k].pc \in {"generated", "written", "done"}

(* A code generated and not yet in the file is nobody else's.               *)
FreshCodes ==
  \A k \in Links : handler[k].pc = "generated" =>
    /\ handler[k].code \in (1..codes) \ seen
    /\ \A j \in Links \ {k} : handler[j].pc = "generated" => handler[j].code # handler[k].code

CallbacksSet ==
  /\ StartingUp => assigned = 0
  /\ main = "assign" => assigned < 4
  /\ main \in {"sleep", "run", "read", "send", "wait", "cleanup"} => assigned = 4

(* If the file has no good code, a connection is on the way to put one there. *)
FileWillBeGood ==
  seen # {} /\ (codeFile = NoCode \/ codeFile \in used) =>
    \E k \in Links : handler[k].pc \notin {"none", "written", "done"}

(* While the client believes that an agent is there, a handler will tell it  *)
(* that it is gone.                                                         *)
WillBeTold ==
  told = "connected" =>
    /\ assigned = 4 /\ main \in {"read", "send", "wait", "cleanup", "exited"}
    /\ \E k \in Links :
         /\ handler[k].pc \notin {"none", "done"}
         /\ handler[k].pc \in {"generated", "written"} => handler[k].notifies

ServerInv ==
  /\ ServerTyped
  /\ NobodyYet
  /\ CodesCounted
  /\ FreshCodes
  /\ CallbacksSet
  /\ FileWillBeGood
  /\ WillBeTold

IInv == InstallInv /\ ProcessInv /\ ServerInv

-----------------------------------------------------------------------------
(* A function on the first numbers is a sequence.                            *)
LEMMA IsSequence ==
  ASSUME NEW S, NEW n \in Nat, NEW f \in [1..n -> S]
  PROVE  f \in Seq(S) /\ Len(f) = n
<1>1. f \in Seq(S)
  BY SeqDef
<1>2. Len(f) \in Nat /\ 1..Len(f) = 1..n
  BY <1>1, LenProperties
<1>3. ASSUME NEW m \in Nat, NEW k \in Nat, m < k PROVE 1..m # 1..k
  <2>1. k \in 1..k /\ k \notin 1..m
    BY <1>3
  <2> QED
    BY <2>1
<1> QED
  BY <1>1, <1>2, <1>3

(* What a write past or within the end makes of the file.                    *)
LEMMA PutSays ==
  ASSUME NEW f \in Pieced, NEW i \in Nat \ {0}
  PROVE  /\ Put(f, i) \in Pieced
         /\ Len(Put(f, i)) = IF i > Len(f) THEN i ELSE Len(f)
         /\ \A j \in 1..Len(Put(f, i)) :
              Put(f, i)[j] = IF j = i THEN "data" ELSE IF j <= Len(f) THEN f[j] ELSE "hole"
<1> DEFINE n == IF i > Len(f) THEN i ELSE Len(f)
<1>1. f \in Seq({"data", "hole"}) /\ Len(f) \in Nat
  BY DEF Pieced
<1>2. n \in Nat /\ i \in 1..n /\ \A j \in 1..Len(f) : f[j] \in {"data", "hole"}
  BY <1>1
<1>3. Put(f, i) = [j \in 1..n |->
                    IF j = i THEN "data" ELSE IF j <= Len(f) THEN f[j] ELSE "hole"]
  BY DEF Put
<1>4. Put(f, i) \in [1..n -> {"data", "hole"}]
  <2> SUFFICES ASSUME NEW j \in 1..n, j # i, j <= Len(f) PROVE f[j] \in {"data", "hole"}
    BY <1>3
  <2> QED
    BY <1>1, <1>2
<1> HIDE DEF n
<1>5. Put(f, i) \in Pieced /\ Len(Put(f, i)) = n
  BY <1>2, <1>4, IsSequence DEF Pieced
<1> QED
  BY <1>3, <1>5 DEF n

(* A complete file is a sequence of pieces, and no longer than it must be.   *)
LEMMA PiecesSay ==
  /\ Pieces \subseteq Pieced
  /\ \A f \in Pieced : f \in Pieces <=> Len(f) = Size /\ \A j \in 1..Size : f[j] = "data"
<1>1. ASSUME NEW f \in Pieces
      PROVE  f \in Pieced /\ Len(f) = Size /\ \A j \in 1..Size : f[j] = "data"
  <2>1. f \in [1..Size -> {"data", "hole"}]
    BY <1>1 DEF Pieces
  <2> QED
    BY <1>1, <2>1, IsSequence DEF Pieces, Pieced
<1>2. ASSUME NEW f \in Pieced, Len(f) = Size, \A j \in 1..Size : f[j] = "data" PROVE f \in Pieces
  <2>1. f \in [1..Size -> {"data", "hole"}]
    BY <1>2, LenProperties DEF Pieced
  <2> QED
    BY <1>2, <2>1 DEF Pieces
<1> QED
  BY <1>1, <1>2

-----------------------------------------------------------------------------
(* The pieces of the one that writes are kept, and those of all the others   *)
(* that had none overwritten.                                               *)
LEMMA CopyPieceKeepsInstallInv ==
  ASSUME InstallInv, NEW p \in Operators, CopyPiece(p) PROVE InstallInv'
<1> USE DEF InstallInv
<1> DEFINE i == dl[p].pos + 1
<1>1. /\ At(p, "copy") /\ tmp # Absent /\ tmp \in Pieced
      /\ dl[p].pos \in 0..Size /\ i \in 1..Size
      /\ Len(tmp) \in Nat /\ Len(tmp) <= Size
      /\ tmp' = Put(tmp, i) /\ UNCHANGED <<binary, upset>>
  BY DEF CopyPiece, InstallTyped, CopyHasFile, TmpFits, Pieced
<1>2. /\ tmp' \in Pieced /\ tmp' # Absent
      /\ Len(tmp') = IF i > Len(tmp) THEN i ELSE Len(tmp)
      /\ \A j \in 1..Len(tmp') :
           tmp'[j] = IF j = i THEN "data" ELSE IF j <= Len(tmp) THEN tmp[j] ELSE "hole"
  BY <1>1, PutSays DEF Pieced
<1> HIDE DEF i
<1>3. /\ dl' = [dl EXCEPT ![p].pos = i]
      /\ \A q \in Operators : dl'[q].pc = dl[q].pc
      /\ \A q \in Operators \ {p} : dl'[q] = dl[q]
      /\ dl'[p].pos = i
  BY DEF CopyPiece, InstallTyped, i
<1>4. InstallTyped'
  BY <1>1, <1>2, <1>3 DEF InstallTyped
<1>5. CopyHasFile' /\ RenamesAtEnd' /\ TmpFits'
  BY <1>1, <1>2, <1>3 DEF CopyHasFile, RenamesAtEnd, TmpFits, At
<1>6. \A q \in Operators : Copying(q)' <=> Copying(q)
  BY <1>3 DEF Copying
<1>7. \A j \in 1..Len(tmp) : j \in 1..Len(tmp') /\ (tmp[j] = "data" => tmp'[j] = "data")
  BY <1>1, <1>2
<1>8. tmp \in Pieces => tmp' \in Pieces
  BY <1>1, <1>2, <1>7, PiecesSay
<1>9. ASSUME NEW q \in Operators, Intact(q) PROVE Intact(q)'
  <2>1. CASE q # p
    BY <1>1, <1>3, <1>7, <1>9, <2>1 DEF Intact, InstallTyped
  <2>2. CASE q = p
    <3> SUFFICES ASSUME NEW j \in 1..i PROVE j <= Len(tmp') /\ tmp'[j] = "data"
      BY <1>3, <2>2 DEF Intact
    <3>1. CASE j = i
      BY <1>1, <1>2, <3>1
    <3>2. CASE j # i
      <4>1. j \in 1..dl[p].pos
        BY <1>1, <3>2 DEF i
      <4>2. j \in 1..Len(tmp) /\ tmp[j] = "data"
        BY <1>1, <1>9, <2>2, <4>1 DEF Intact
      <4> QED
        BY <1>2, <1>7, <4>2
    <3> QED
      BY <3>1, <3>2
  <2> QED
    BY <2>1, <2>2
<1>10. SomebodyCompletes'
  BY <1>1, <1>6, <1>8, <1>9 DEF SomebodyCompletes, Pieces
<1> QED
  BY <1>1, <1>4, <1>5, <1>10 DEF InstalledIsComplete

(* A file that one creates is empty: it is the one to complete it.           *)
LEMMA CreateKeepsInstallInv ==
  ASSUME InstallInv, NEW p \in Operators, CreateTmp(p) PROVE InstallInv'
<1> USE DEF InstallInv
<1>1. /\ tmp' = <<>> /\ UNCHANGED <<binary, upset>>
      /\ dl' = [dl EXCEPT ![p] = [pc |-> "copy", pos |-> 0]]
      /\ dl'[p] = [pc |-> "copy", pos |-> 0]
      /\ \A q \in Operators \ {p} : dl'[q] = dl[q]
  BY DEF CreateTmp, InstallTyped
<1>2. tmp' \in Pieced /\ tmp' # Absent /\ Len(tmp') = 0
  BY <1>1, EmptySeq DEF Pieced
<1>3. InstallTyped'
  BY <1>1, <1>2 DEF InstallTyped
<1>4. CopyHasFile' /\ TmpFits'
  BY <1>2 DEF CopyHasFile, TmpFits
<1>5. RenamesAtEnd'
  BY <1>1 DEF RenamesAtEnd, At
<1>6. Copying(p)' /\ Intact(p)'
  BY <1>1 DEF Copying, Intact
<1> QED
  BY <1>1, <1>3, <1>4, <1>5, <1>6 DEF SomebodyCompletes, InstalledIsComplete

(* One that gives up leaves its file as it is; if others write it as well,   *)
(* the history has it.                                                      *)
LEMMA GivingUpKeepsInstallInv ==
  ASSUME InstallInv, NEW p \in Operators, CopyFails(p) \/ Dies(p) PROVE InstallInv'
<1> USE DEF InstallInv
<1>1. /\ UNCHANGED <<binary, tmp>> /\ GivesUp(p)
      /\ dl'[p].pc \in {"remove", "dead"}
      /\ \A q \in Operators \ {p} : dl'[q] = dl[q]
      /\ dl' \in [Operators -> [pc : {"none", "create", "copy", "remove", "rename", "ok",
                                     "failed", "dead"}, pos : 0..Size]]
  BY DEF CopyFails, Dies, Goto, Returns, InstallTyped
<1>2. InstallTyped'
  BY <1>1 DEF InstallTyped, GivesUp
<1>3. CopyHasFile' /\ TmpFits' /\ RenamesAtEnd'
  BY <1>1 DEF CopyHasFile, TmpFits, RenamesAtEnd, At
<1>4. ~upset' => \A q \in Operators : ~Copying(q)'
  BY <1>1 DEF GivesUp, Copying
<1> QED
  BY <1>1, <1>2, <1>3, <1>4 DEF SomebodyCompletes, InstalledIsComplete, GivesUp

(* The file of one that renames is complete, and then nobody's any more.     *)
LEMMA RenameKeepsInstallInv ==
  ASSUME InstallInv, NEW p \in Operators, Rename(p) PROVE InstallInv'
<1> USE DEF InstallInv
<1>1. /\ UNCHANGED upset /\ At(p, "rename") /\ dl[p].pos = Size
      /\ dl'[p].pc \in {"ok", "failed"}
      /\ \A q \in Operators \ {p} : dl'[q] = dl[q]
      /\ dl' \in [Operators -> [pc : {"none", "create", "copy", "remove", "rename", "ok",
                                     "failed", "dead"}, pos : 0..Size]]
  <2>1. UNCHANGED upset /\ At(p, "rename") /\ dl[p].pos = Size
    BY DEF Rename, RenamesAtEnd
  <2>2. PICK pc \in {"ok", "failed"} : dl' = [dl EXCEPT ![p] = [pc |-> pc, pos |-> 0]]
    BY DEF Rename, Returns
  <2> QED
    BY <2>1, <2>2 DEF InstallTyped
<1>2. ASSUME tmp # Absent, ~upset,
             \A q \in Operators : Copying(q) /\ Intact(q) => At(q, "rename")
      PROVE  tmp \in Pieces
  <2>1. CASE \E q \in Operators : Copying(q) /\ Intact(q)
    <3>1. PICK q \in Operators : Copying(q) /\ Intact(q)
      BY <2>1
    <3>2. dl[q].pos = Size
      BY <1>2, <3>1 DEF RenamesAtEnd
    <3>3. tmp \in Pieced /\ Len(tmp) \in Nat /\ Len(tmp) <= Size
      BY <1>2 DEF InstallTyped, TmpFits, Pieced
    <3>4. \A j \in 1..Size : j <= Len(tmp) /\ tmp[j] = "data"
      BY <3>1, <3>2 DEF Intact
    <3>5. Len(tmp) = Size
      <4>1. Size \in 1..Size
        OBVIOUS
      <4> QED
        BY <3>3, <3>4, <4>1
    <3> QED
      BY <3>3, <3>4, <3>5, PiecesSay
  <2>2. CASE ~\E q \in Operators : Copying(q) /\ Intact(q)
    BY <1>1, <1>2, <2>2 DEF SomebodyCompletes, Copying, At
  <2> QED
    BY <2>1, <2>2
<1>3. CASE tmp # Absent /\ ~Open(tmp) /\ binary' = tmp /\ tmp' = Absent
  <2>1. InstallTyped'
    BY <1>1, <1>3 DEF InstallTyped
  <2>2. \A q \in Operators : ~At(q, "copy")
    BY <1>3 DEF Open
  <2>3. CopyHasFile' /\ TmpFits' /\ RenamesAtEnd'
    BY <1>1, <1>3, <2>2 DEF CopyHasFile, TmpFits, RenamesAtEnd, At
  <2>4. InstalledIsComplete'
    BY <1>1, <1>2, <1>3, <2>2 DEF InstalledIsComplete, InstallTyped, Copying, At
  <2> QED
    BY <1>3, <2>1, <2>3, <2>4 DEF SomebodyCompletes
<1>4. CASE UNCHANGED <<binary, tmp>>
  <2>1. InstallTyped'
    BY <1>1, <1>4 DEF InstallTyped
  <2>2. CopyHasFile' /\ TmpFits' /\ RenamesAtEnd'
    BY <1>1, <1>4 DEF CopyHasFile, TmpFits, RenamesAtEnd, At
  <2>3. InstalledIsComplete'
    BY <1>1, <1>4 DEF InstalledIsComplete, Pieces
  <2>4. ASSUME ~upset, tmp # Absent, \E q \in Operators : Copying(q)', tmp \notin Pieces
        PROVE  \E q \in Operators : Copying(q)' /\ Intact(q)'
    <3>1. PICK q \in Operators : Copying(q) /\ Intact(q) /\ ~At(q, "rename")
      BY <1>2, <2>4
    <3>2. q # p
      BY <1>1, <3>1
    <3> QED
      BY <1>1, <1>4, <3>1, <3>2 DEF Copying, Intact
  <2>5. SomebodyCompletes'
    BY <1>1, <1>4, <2>4 DEF SomebodyCompletes, Pieces
  <2> QED
    BY <2>1, <2>2, <2>3, <2>5
<1> QED
  BY <1>3, <1>4 DEF Rename

(* The steps that neither write the file nor give it up.                     *)
LEMMA OthersKeepInstallInv ==
  ASSUME InstallInv, NEW p \in Operators,
         Look(p) \/ CopyEnds(p) \/ RemoveTmp(p) \/ StartsAgain(p)
  PROVE  InstallInv'
<1> USE DEF InstallInv
<1>1. /\ UNCHANGED <<binary, upset>>
      /\ Copying(p)' <=> CopyEnds(p)
      /\ CopyEnds(p) => At(p, "copy") /\ dl'[p].pos = dl[p].pos /\ dl[p].pos = Size
      /\ dl'[p].pc # "copy"
      /\ \A q \in Operators \ {p} : dl'[q] = dl[q]
      /\ dl' \in [Operators -> [pc : {"none", "create", "copy", "remove", "rename", "ok",
                                     "failed", "dead"}, pos : 0..Size]]
  BY DEF Look, CopyEnds, RemoveTmp, StartsAgain, Goto, Returns, At, Copying, InstallTyped
<1>2. ~Copying(p) \/ CopyEnds(p)
  BY DEF Look, CopyEnds, RemoveTmp, StartsAgain, At, Copying
<1>3. tmp' = tmp \/ (tmp' = Absent /\ ~Open(tmp))
  BY DEF Look, CopyEnds, RemoveTmp, StartsAgain
<1>4. \A q \in Operators : Copying(q)' <=> Copying(q)
  BY <1>1, <1>2 DEF Copying, At
<1>5. InstallTyped'
  BY <1>1, <1>3 DEF InstallTyped
<1>6. CopyHasFile'
  BY <1>1, <1>3 DEF CopyHasFile, Open, At
<1>7. TmpFits'
  BY <1>3 DEF TmpFits
<1>8. RenamesAtEnd'
  BY <1>1 DEF RenamesAtEnd, At, Copying
<1>9. SomebodyCompletes'
  <2>1. CASE tmp' = Absent
    BY <2>1 DEF SomebodyCompletes
  <2>2. CASE tmp' = tmp
    <3>1. \A q \in Operators : Copying(q) => dl'[q].pos = dl[q].pos
      BY <1>1, <1>2
    <3>2. \A q \in Operators : Copying(q) /\ Intact(q) => Copying(q)' /\ Intact(q)'
      BY <1>4, <2>2, <3>1 DEF Intact
    <3> QED
      BY <1>1, <1>4, <2>2, <3>2 DEF SomebodyCompletes, Pieces
  <2> QED
    BY <1>3, <2>1, <2>2
<1> QED
  BY <1>1, <1>5, <1>6, <1>7, <1>8, <1>9 DEF InstalledIsComplete

LEMMA InstallKeepsInstallInv == InstallInv /\ Install => InstallInv'
  BY CopyPieceKeepsInstallInv, CreateKeepsInstallInv, GivingUpKeepsInstallInv,
     RenameKeepsInstallInv, OthersKeepInstallInv DEF Install, Ensure

-----------------------------------------------------------------------------
LEMMA MainKeepsProcessInv == ProcessInv /\ MainStep => ProcessInv'
<1> SUFFICES ASSUME ProcessInv, MainStep PROVE ProcessInv'
  OBVIOUS
<1> USE DEF ProcessInv, ProcessTyped, MainGoes
<1>1. ASSUME StartTunnel PROVE ProcessInv'
  BY <1>1 DEF StartTunnel, StartProcess, processVars
<1>2. ASSUME TunnelSelect PROVE ProcessInv'
  BY <1>2 DEF TunnelSelect, TakeUrl, TakeError, TimeIsUp, processVars
<1>3. ASSUME Exit PROVE ProcessInv'
  BY <1>3 DEF Exit, Stop
<1>4. ASSUME GenerateCode \/ WriteConnectionFile \/ AssignCallback \/ BeginRun \/ RunEnds
      PROVE  ProcessInv'
  BY <1>4 DEF GenerateCode, WriteConnectionFile, AssignCallback, BeginRun, RunEnds, MainOnly,
              processVars
<1>5. ASSUME ReadCall \/ SendCall \/ CallAnswered \/ CallCancelled PROVE ProcessInv'
  BY <1>5 DEF ReadCall, SendCall, CallAnswered, CallCancelled, MainOnly, processVars
<1> QED
  BY <1>1, <1>2, <1>3, <1>4, <1>5 DEF MainStep

LEMMA NextKeepsProcessInv == ProcessInv /\ [Next]_vars => ProcessInv'
<1> SUFFICES ASSUME ProcessInv, [Next]_vars PROVE ProcessInv'
  OBVIOUS
<1> USE DEF ProcessInv, ProcessTyped
<1>1. ASSUME NEW k \in Links, HandlerStep(k) PROVE UNCHANGED <<processVars, interrupted, main>>
  BY <1>1 DEF HandlerStep, Accept, AgentConnected, NotifyConnected, ReadFails, ReadPanics,
       Teardown, AgentDisconnected, RewriteConnectionFile, NotifyDisconnected, HandlerOnly,
       mainVars
<1>2. ASSUME InstallTunnel PROVE UNCHANGED <<processVars, interrupted, main>>
  BY <1>2 DEF InstallTunnel, Install, mainVars
<1>3. ASSUME UNCHANGED <<processVars, interrupted, main>> PROVE ProcessInv'
  BY <1>3 DEF processVars
<1>4. ASSUME TunnelProcess \/ KillTunnel PROVE ProcessInv'
  BY <1>4 DEF TunnelProcess, KillTunnel, PrintUrl, ChildExits, ScanUrl, ReportCrash, KillCancelled, mainVars
<1>5. ASSUME Interrupt \/ CloseStdin PROVE ProcessInv'
  BY <1>5 DEF Interrupt, CloseStdin, mainVars, processVars
<1> QED
  BY <1>1, <1>2, <1>3, <1>4, <1>5, MainKeepsProcessInv DEF Next, vars, mainVars

-----------------------------------------------------------------------------
(* As long as the handlers and the codes are left alone, main only must not  *)
(* go from one stage to another.                                            *)
LEMMA MainMovesKeepServerInv ==
  ASSUME ServerInv, ServerTyped',
         UNCHANGED <<fileVars, handler, used, told, assigned>>,
         StartingUp' <=> StartingUp, main' = "publish" <=> main = "publish",
         CallbacksSet',
         main \in {"read", "send", "wait", "cleanup", "exited"} =>
           main' \in {"read", "send", "wait", "cleanup", "exited"}
  PROVE  ServerInv'
<1> USE DEF ServerInv, fileVars
<1>1. NobodyYet'
  BY DEF NobodyYet
<1>2. CodesCounted' /\ FreshCodes'
  BY DEF CodesCounted, FreshCodes, Renewers
<1>3. FileWillBeGood' /\ WillBeTold'
  BY DEF FileWillBeGood, WillBeTold
<1> QED
  BY <1>1, <1>2, <1>3

(* A connection in use, or on its way down.                                  *)
Busy == {"installed", "removed", "loop", "lost", "panicked", "torn", "skipped"}

(* Between its coming and its new code a handler disturbs nothing, whatever  *)
(* it tells the client; it is itself the one that will put things right.    *)
LEMMA BusyKeepsServerInv ==
  ASSUME ServerInv, NEW k \in Links, handler[k].pc \in Busy,
         NEW pc \in Busy, handler' = [handler EXCEPT ![k].pc = pc],
         UNCHANGED <<used, codes, seen, assigned, standalone, eof, calls>>,
         main' = main \/ (main = "send" /\ main' = "read"),
         codeFile' \in {codeFile, NoCode}, conn' \in {NoConn} \cup Links,
         \/ told' = told
         \/ told' = "connected" /\ main \in {"read", "send", "wait", "cleanup"}
  PROVE  ServerInv'
<1> USE DEF ServerInv
<1>1. ~StartingUp /\ ~StartingUp' /\ k \notin Renewers
  BY DEF Busy, NobodyYet, StartingUp, CodesCounted
<1>2. /\ \A j \in Links \ {k} : handler'[j] = handler[j]
      /\ handler'[k].pc = pc /\ handler'[k].code = handler[k].code
      /\ handler' \in [Links -> [pc : HandlerPC, code : {NoCode} \cup 1..codes,
                                notifies : BOOLEAN]]
  BY DEF ServerTyped, Busy, HandlerPC
<1>3. ServerTyped'
  BY <1>2 DEF ServerTyped
<1>4. NobodyYet'
  BY <1>1 DEF NobodyYet
<1>5. CodesCounted'
  <2>1. Renewers' = Renewers
    BY <1>2 DEF Renewers
  <2> QED
    BY <1>1, <1>2, <2>1 DEF CodesCounted
<1>6. FreshCodes'
  BY <1>2 DEF FreshCodes, Busy
<1>7. CallbacksSet'
  BY <1>1 DEF CallbacksSet
<1>8. FileWillBeGood' /\ WillBeTold'
  BY <1>2 DEF FileWillBeGood, WillBeTold, CallbacksSet, Busy
<1> QED
  BY <1>3, <1>4, <1>5, <1>6, <1>7, <1>8

LEMMA MainKeepsServerInv == ServerInv /\ MainStep => ServerInv'
<1> SUFFICES ASSUME ServerInv, MainStep PROVE ServerInv'
  OBVIOUS
<1> USE DEF ServerInv, MainGoes, fileVars, serverVars
<1>1. ASSUME StartTunnel \/ TunnelSelect \/ Exit PROVE ServerInv'
  <2>1. ServerTyped' /\ CallbacksSet'
    BY <1>1 DEF StartTunnel, TunnelSelect, Exit, ServerTyped, CallbacksSet, StartingUp
  <2> QED
    BY <1>1, <2>1, MainMovesKeepServerInv DEF StartTunnel, TunnelSelect, Exit, StartingUp
<1>2. ASSUME GenerateCode PROVE ServerInv'
  <2>1. /\ UNCHANGED <<standalone, eof, calls, assigned, codeFile, seen, serverVars, told>>
        /\ main = "code" /\ main' \in {"publish", "aborted"}
        /\ codes = 0 /\ codes' = IF main' = "publish" THEN 1 ELSE 0
        /\ seen = {} /\ \A k \in Links : handler[k].pc = "none"
    BY <1>2 DEF GenerateCode, NobodyYet, StartingUp
  <2>2. ServerTyped'
    BY <2>1 DEF ServerTyped
  <2>3. NobodyYet'
    BY <2>1 DEF NobodyYet, StartingUp
  <2>4. Renewers' = {} /\ Renewers = {}
    BY <2>1 DEF CodesCounted, Renewers
  <2>5. CodesCounted'
    BY <2>1, <2>4, FS_EmptySet DEF CodesCounted
  <2>6. FreshCodes' /\ CallbacksSet' /\ FileWillBeGood' /\ WillBeTold'
    BY <2>1 DEF FreshCodes, CallbacksSet, FileWillBeGood, WillBeTold, StartingUp
  <2> QED
    BY <2>2, <2>3, <2>5, <2>6
<1>3. ASSUME WriteConnectionFile PROVE ServerInv'
  <2>1. /\ UNCHANGED <<standalone, eof, calls, assigned, codes, serverVars, told>>
        /\ main = "publish" /\ main' = "assign"
        /\ codes = 1 /\ codeFile' = 1 /\ seen' = {1} /\ used = {}
        /\ \A k \in Links : handler[k].pc = "none"
    BY <1>3 DEF WriteConnectionFile, Publish, NobodyYet, StartingUp, ServerTyped
  <2>2. ServerTyped'
    BY <2>1 DEF ServerTyped
  <2>3. NobodyYet'
    BY <2>1 DEF NobodyYet, StartingUp
  <2>4. CodesCounted'
    BY <2>1 DEF CodesCounted, Renewers
  <2>5. FreshCodes' /\ CallbacksSet' /\ FileWillBeGood' /\ WillBeTold'
    BY <2>1 DEF FreshCodes, CallbacksSet, FileWillBeGood, WillBeTold, StartingUp
  <2> QED
    BY <2>2, <2>3, <2>4, <2>5
<1>4. ASSUME AssignCallback PROVE ServerInv'
  <2>1. /\ UNCHANGED <<standalone, eof, calls, fileVars, serverVars, told>>
        /\ main = "assign" /\ main' \in {"assign", "sleep", "run"}
        /\ IF main' = "assign" THEN assigned' < 4 ELSE assigned' = 4
        /\ assigned' \in 1..4 /\ told # "connected"
    <3>1. assigned \in 0..3
      BY <1>4 DEF AssignCallback, ServerTyped, CallbacksSet
    <3> QED
      BY <1>4, <3>1 DEF AssignCallback, ServerTyped, WillBeTold
  <2>2. ServerTyped' /\ CallbacksSet'
    BY <2>1 DEF ServerTyped, CallbacksSet, StartingUp
  <2>3. NobodyYet'
    BY <2>1 DEF NobodyYet, StartingUp
  <2>4. CodesCounted' /\ FreshCodes'
    BY <2>1 DEF CodesCounted, FreshCodes, Renewers
  <2>5. FileWillBeGood' /\ WillBeTold'
    BY <2>1 DEF FileWillBeGood, WillBeTold
  <2> QED
    BY <2>2, <2>3, <2>4, <2>5
<1>5. ASSUME BeginRun \/ ReadCall \/ CallAnswered \/ CallCancelled \/ RunEnds PROVE ServerInv'
  <2>1. ServerTyped'
    <3>1. calls' \in 0..MaxCalls
      BY <1>5 DEF BeginRun, ReadCall, CallAnswered, CallCancelled, RunEnds, ServerTyped
    <3> QED
      BY <1>5, <3>1 DEF BeginRun, ReadCall, CallAnswered, CallCancelled, RunEnds, MainOnly,
           ServerTyped
  <2>2. CallbacksSet'
    BY <1>5 DEF BeginRun, ReadCall, CallAnswered, CallCancelled, RunEnds, MainOnly,
         CallbacksSet, StartingUp
  <2> QED
    BY <1>5, <2>1, <2>2, MainMovesKeepServerInv
    DEF BeginRun, ReadCall, CallAnswered, CallCancelled, RunEnds, MainOnly, StartingUp
<1>6. ASSUME SendCall PROVE ServerInv'
  <2>1. CASE UNCHANGED serverVars
    <3>1. ServerTyped' /\ CallbacksSet'
      BY <1>6, <2>1 DEF SendCall, MainOnly, ServerTyped, CallbacksSet, StartingUp
    <3> QED
      BY <1>6, <2>1, <3>1, MainMovesKeepServerInv DEF SendCall, MainOnly, StartingUp
  <2>2. CASE ~UNCHANGED serverVars
    <3>1. /\ main = "send" /\ main' = "read" /\ conn \in Links
          /\ handler' = [handler EXCEPT ![conn].pc = IF @ = "loop" THEN "lost" ELSE @]
          /\ UNCHANGED <<conn, used, calls, standalone, eof, assigned, fileVars, told>>
      BY <1>6, <2>2 DEF SendCall, MainOnly, ServerTyped
    <3>2. CASE handler[conn].pc = "loop"
      <4>1. handler' = [handler EXCEPT ![conn].pc = "lost"]
        BY <3>1, <3>2 DEF ServerTyped
      <4>2. conn \in {NoConn} \cup Links /\ "lost" \in Busy /\ handler[conn].pc \in Busy
        BY <3>1, <3>2 DEF Busy
      <4> HIDE DEF ServerInv
      <4> QED
        BY <3>1, <4>1, <4>2, BusyKeepsServerInv
    <3>3. CASE handler[conn].pc # "loop"
      <4>1. handler' = handler
        BY <3>1, <3>3 DEF ServerTyped
      <4> QED
        BY <2>2, <3>1, <4>1
    <3> QED
      BY <3>2, <3>3
  <2> QED
    BY <2>1, <2>2
<1> QED
  BY <1>1, <1>2, <1>3, <1>4, <1>5, <1>6 DEF MainStep

-----------------------------------------------------------------------------
LEMMA AcceptKeepsServerInv == ASSUME ServerInv, NEW k \in Links, Accept(k) PROVE ServerInv'
<1> USE DEF ServerInv
<1>1. /\ handler[k].pc = "none" /\ handler' = [handler EXCEPT ![k].pc = "installed"]
      /\ conn' = k /\ UNCHANGED <<main, standalone, eof, calls, assigned, fileVars, told>>
      /\ \/ \E c \in seen : used' = used \cup {c}
         \/ (\E j \in 1..(k - 1) : handler[j].pc # "none") /\ UNCHANGED used
  BY DEF Accept, HandlerGoes, HandlerAt, HandlerOnly, mainVars
<1>2. ~StartingUp /\ ~StartingUp'
  BY <1>1 DEF NobodyYet, StartingUp
<1>3. /\ \A j \in Links \ {k} : handler'[j] = handler[j]
      /\ handler'[k].pc = "installed" /\ handler'[k].code = handler[k].code
      /\ handler' \in [Links -> [pc : HandlerPC, code : {NoCode} \cup 1..codes,
                                notifies : BOOLEAN]]
  BY <1>1 DEF ServerTyped, HandlerPC
<1>4. ServerTyped'
  BY <1>1, <1>3 DEF ServerTyped, fileVars
<1>5. NobodyYet'
  BY <1>1, <1>2 DEF NobodyYet, fileVars
<1>6. CodesCounted'
  <2>1. Renewers' = Renewers /\ k \notin Renewers
    BY <1>1, <1>3 DEF Renewers, CodesCounted
  <2> QED
    BY <1>1, <1>3, <2>1 DEF CodesCounted, fileVars
<1>7. FreshCodes'
  BY <1>1, <1>3 DEF FreshCodes, fileVars
<1>8. CallbacksSet' /\ FileWillBeGood' /\ WillBeTold'
  BY <1>1, <1>2, <1>3 DEF CallbacksSet, FileWillBeGood, WillBeTold, fileVars
<1> QED
  BY <1>4, <1>5, <1>6, <1>7, <1>8

(* The code is one that no file ever had, and the connection's only one.     *)
LEMMA RenewalKeepsServerInv ==
  ASSUME ServerInv, NEW k \in Links, AgentDisconnected(k), assigned >= 2
  PROVE  ServerInv'
<1> USE DEF ServerInv
<1>1. /\ handler[k].pc = "torn" /\ codes' = codes + 1
      /\ handler' = [handler EXCEPT ![k] = [pc |-> "generated", code |-> codes',
                                           notifies |-> assigned >= 4]]
      /\ UNCHANGED <<main, standalone, eof, calls, assigned, conn, used, codeFile, seen, told>>
      /\ codes \in Nat
  BY DEF AgentDisconnected, HandlerAt, HandlerOnly, mainVars, ServerTyped
<1>2. ~StartingUp /\ ~StartingUp' /\ k \notin Renewers
  BY <1>1 DEF NobodyYet, StartingUp, CodesCounted
<1>3. /\ \A j \in Links \ {k} : handler'[j] = handler[j]
      /\ handler'[k] = [pc |-> "generated", code |-> codes + 1, notifies |-> assigned >= 4]
      /\ DOMAIN handler' = Links
  BY <1>1 DEF ServerTyped
<1>4. ServerTyped'
  <2>1. handler' \in [Links -> [pc : HandlerPC, code : {NoCode} \cup 1..(codes + 1),
                               notifies : BOOLEAN]]
    <3>1. \A j \in Links : handler[j] \in [pc : HandlerPC, code : {NoCode} \cup 1..(codes + 1),
                                           notifies : BOOLEAN]
      BY <1>1 DEF ServerTyped
    <3>2. (assigned >= 4) \in BOOLEAN
      OBVIOUS
    <3>3. [pc |-> "generated", code |-> codes', notifies |-> assigned >= 4] \in
            [pc : HandlerPC, code : {NoCode} \cup 1..(codes + 1), notifies : BOOLEAN]
      BY <1>1, <3>2 DEF HandlerPC
    <3>4. handler \in [Links -> [pc : HandlerPC, code : {NoCode} \cup 1..(codes + 1),
                                notifies : BOOLEAN]]
      BY <3>1 DEF ServerTyped
    <3> QED
      BY <1>1, <3>3, <3>4
  <2>2. codes' \in Nat /\ seen \subseteq 1..codes'
    BY <1>1 DEF ServerTyped
  <2> QED
    BY <1>1, <2>1, <2>2 DEF ServerTyped
<1>5. NobodyYet'
  BY <1>1, <1>2 DEF NobodyYet
<1>6. CodesCounted'
  <2>1. Renewers' = Renewers \cup {k}
    BY <1>1, <1>3 DEF Renewers
  <2>2. IsFiniteSet(Renewers)
    <3>1. IsFiniteSet(1..Conns)
      BY FS_Interval
    <3>2. Renewers \subseteq 1..Conns
      BY DEF Renewers
    <3> QED
      BY <3>1, <3>2, FS_Subset
  <2>3. Cardinality(Renewers') = Cardinality(Renewers) + 1 /\ Cardinality(Renewers) \in Nat
    BY <1>2, <2>1, <2>2, FS_AddElement, FS_CardinalityType
  <2> QED
    BY <1>1, <1>3, <2>1, <2>3 DEF CodesCounted
<1>7. FreshCodes'
  <2>1. codes + 1 \notin seen /\ \A j \in Links : handler[j].code # codes + 1
    BY <1>1 DEF ServerTyped
  <2> QED
    BY <1>1, <1>3, <2>1 DEF FreshCodes, ServerTyped
<1>8. CallbacksSet' /\ FileWillBeGood'
  BY <1>1, <1>2, <1>3 DEF CallbacksSet, FileWillBeGood
<1>9. WillBeTold'
  <2>1. ASSUME assigned = 4 PROVE handler'[k].notifies
    <3>1. (assigned >= 4) = TRUE
      BY <2>1
    <3>2. handler'[k] = [pc |-> "generated", code |-> codes + 1, notifies |-> TRUE]
      BY <1>3, <3>1, Zenon
    <3> QED
      BY <3>2
  <2> QED
    BY <1>1, <1>3, <2>1 DEF WillBeTold
<1> QED
  BY <1>4, <1>5, <1>6, <1>7, <1>8, <1>9

(* What is written to the file is a code that nobody has used.               *)
LEMMA RewriteKeepsServerInv ==
  ASSUME ServerInv, NEW k \in Links, RewriteConnectionFile(k) PROVE ServerInv'
<1> USE DEF ServerInv
<1> DEFINE c == handler[k].code
<1> DEFINE pc == IF handler[k].notifies THEN "written" ELSE "done"
<1>1. /\ handler[k].pc = "generated" /\ handler' = [handler EXCEPT ![k].pc = pc]
      /\ codeFile' = c /\ seen' = seen \cup {c}
      /\ UNCHANGED <<main, standalone, eof, calls, assigned, conn, used, codes, told>>
  BY DEF RewriteConnectionFile, HandlerGoes, HandlerAt, HandlerOnly, mainVars, Publish
<1>2. c \in 1..codes /\ c \notin seen /\ codes \in Nat
  BY <1>1 DEF FreshCodes, ServerTyped
<1>3. ~StartingUp /\ ~StartingUp'
  BY <1>1 DEF NobodyYet, StartingUp
<1>4. /\ \A j \in Links \ {k} : handler'[j] = handler[j]
      /\ handler'[k].pc = pc /\ handler'[k].code = c
      /\ handler'[k].notifies = handler[k].notifies
      /\ handler' \in [Links -> [pc : HandlerPC, code : {NoCode} \cup 1..codes,
                                notifies : BOOLEAN]]
  BY <1>1 DEF ServerTyped, HandlerPC
<1> HIDE DEF c
<1>5. ServerTyped'
  BY <1>1, <1>2, <1>4 DEF ServerTyped
<1>6. NobodyYet'
  BY <1>1, <1>3 DEF NobodyYet
<1>7. CodesCounted'
  <2>1. Renewers' = Renewers
    BY <1>4 DEF Renewers, c
  <2> QED
    BY <1>1, <1>4, <2>1 DEF CodesCounted
<1>8. FreshCodes'
  BY <1>1, <1>4 DEF FreshCodes, c
<1>9. CallbacksSet'
  BY <1>1, <1>3 DEF CallbacksSet
<1>10. FileWillBeGood'
  BY <1>1, <1>2 DEF FileWillBeGood, ServerTyped
<1>11. WillBeTold'
  BY <1>1, <1>4 DEF WillBeTold
<1> QED
  BY <1>5, <1>6, <1>7, <1>8, <1>9, <1>10, <1>11

(* The one that tells the client of its end was not needed any more for the  *)
(* file, and not for the client either.                                     *)
LEMMA NotifyDisconnectedKeepsServerInv ==
  ASSUME ServerInv, NEW k \in Links, NotifyDisconnected(k) PROVE ServerInv'
<1> USE DEF ServerInv
<1>1. /\ handler[k].pc = "written" /\ handler' = [handler EXCEPT ![k].pc = "done"]
      /\ UNCHANGED <<main, standalone, eof, calls, assigned, conn, used, fileVars>>
      /\ Notify("disconnected") /\ Alive
  BY DEF NotifyDisconnected, HandlerGoes, HandlerAt, HandlerOnly, mainVars
<1>2. ~StartingUp /\ ~StartingUp'
  BY <1>1 DEF NobodyYet, StartingUp
<1>3. /\ \A j \in Links \ {k} : handler'[j] = handler[j]
      /\ handler'[k].pc = "done" /\ handler'[k].code = handler[k].code
      /\ handler' \in [Links -> [pc : HandlerPC, code : {NoCode} \cup 1..codes,
                                notifies : BOOLEAN]]
  BY <1>1 DEF ServerTyped, HandlerPC
<1>4. told' # "connected" /\ told' \in {"nothing", "connected", "disconnected"}
  BY <1>1 DEF Notify, WillBeTold, Alive, ServerTyped
<1>5. ServerTyped'
  BY <1>1, <1>3, <1>4 DEF ServerTyped, fileVars
<1>6. NobodyYet'
  BY <1>1, <1>2 DEF NobodyYet, fileVars
<1>7. CodesCounted'
  <2>1. Renewers' = Renewers
    BY <1>3 DEF Renewers
  <2> QED
    BY <1>1, <1>3, <2>1 DEF CodesCounted, fileVars
<1>8. FreshCodes' /\ CallbacksSet'
  BY <1>1, <1>2, <1>3 DEF FreshCodes, CallbacksSet, fileVars
<1>9. FileWillBeGood' /\ WillBeTold'
  BY <1>1, <1>3, <1>4 DEF FileWillBeGood, WillBeTold, fileVars
<1> QED
  BY <1>5, <1>6, <1>7, <1>8, <1>9

LEMMA HandlersKeepServerInv == ASSUME ServerInv, NEW k \in Links, HandlerStep(k) PROVE ServerInv'
<1>1. ASSUME AgentConnected(k) \/ NotifyConnected(k) \/ ReadFails(k) \/ ReadPanics(k)
             \/ Teardown(k) \/ (AgentDisconnected(k) /\ ~(assigned >= 2))
      PROVE  ServerInv'
  <2>1. PICK pc \in Busy : handler' = [handler EXCEPT ![k].pc = pc]
    BY <1>1 DEF AgentConnected, NotifyConnected, ReadFails, ReadPanics, Teardown,
         AgentDisconnected, HandlerGoes, Busy
  <2>2. /\ handler[k].pc \in Busy
        /\ UNCHANGED <<main, used, codes, seen, assigned, standalone, eof, calls>>
        /\ codeFile' \in {codeFile, NoCode} /\ conn' \in {conn, NoConn}
        /\ \/ told' = told
           \/ told' = "connected" /\ main \in {"read", "send", "wait", "cleanup"}
    BY <1>1 DEF AgentConnected, NotifyConnected, ReadFails, ReadPanics, Teardown, Notify,
         AgentDisconnected, HandlerGoes, HandlerAt, HandlerOnly, Busy, mainVars, fileVars
  <2>3. conn' \in {NoConn} \cup Links
    BY <2>2 DEF ServerInv, ServerTyped
  <2> QED
    BY <2>1, <2>2, <2>3, BusyKeepsServerInv
<1> QED
  BY <1>1, AcceptKeepsServerInv, RenewalKeepsServerInv, RewriteKeepsServerInv,
     NotifyDisconnectedKeepsServerInv DEF HandlerStep

LEMMA NextKeepsServerInv == ServerInv /\ [Next]_vars => ServerInv'
<1> SUFFICES ASSUME ServerInv, [Next]_vars PROVE ServerInv'
  OBVIOUS
<1>1. ASSUME InstallTunnel \/ TunnelProcess \/ KillTunnel \/ Interrupt \/ CloseStdin \/ UNCHANGED vars
      PROVE  ServerInv'
  <2>1. UNCHANGED <<main, standalone, calls, assigned, fileVars, serverVars, told>>
    BY <1>1 DEF InstallTunnel, TunnelProcess, KillTunnel, Interrupt, CloseStdin, vars, mainVars
  <2>2. eof' \in BOOLEAN
    BY <1>1 DEF InstallTunnel, TunnelProcess, KillTunnel, Interrupt, CloseStdin, vars, mainVars,
         ServerInv, ServerTyped
  <2>3. ServerTyped' /\ CallbacksSet'
    BY <2>1, <2>2 DEF ServerInv, ServerTyped, CallbacksSet, StartingUp, fileVars, serverVars
  <2> QED
    BY <2>1, <2>3, MainMovesKeepServerInv DEF serverVars, StartingUp
<1> QED
  BY <1>1, MainKeepsServerInv, HandlersKeepServerInv DEF Next

-----------------------------------------------------------------------------
LEMMA InitIInv == Init => IInv
<1> SUFFICES ASSUME Init PROVE IInv
  OBVIOUS
<1> USE DEF Init, TunnelInit
<1>1. InstallInv
  <2>1. InstallTyped
    <3>1. [pc |-> "none", pos |-> 0] \in
            [pc : {"none", "create", "copy", "remove", "rename", "ok", "failed", "dead"},
             pos : 0..Size]
      OBVIOUS
    <3> QED
      BY <3>1 DEF InstallTyped
  <2>2. \A p \in Operators : dl[p].pc = "none"
    OBVIOUS
  <2>3. CopyHasFile /\ RenamesAtEnd
    BY <2>2 DEF CopyHasFile, RenamesAtEnd, At
  <2>4. TmpFits /\ SomebodyCompletes /\ InstalledIsComplete
    BY DEF TmpFits, SomebodyCompletes, InstalledIsComplete
  <2> QED
    BY <2>1, <2>3, <2>4 DEF InstallInv
<1>2. ProcessInv
  BY DEF ProcessInv, ProcessTyped
<1>3. ServerInv
  <2>1. ServerTyped
    <3>1. handler \in [Links -> [pc : HandlerPC, code : {NoCode} \cup 1..codes,
                                notifies : BOOLEAN]]
      BY DEF HandlerPC
    <3>2. main \in {"install", "code"}
      OBVIOUS
    <3>3. calls \in 0..MaxCalls /\ assigned \in 0..4
      OBVIOUS
    <3> QED
      BY <3>1, <3>2, <3>3 DEF ServerTyped
  <2>2. Renewers = {}
    BY DEF Renewers
  <2>3. CodesCounted
    BY <2>2, FS_EmptySet DEF CodesCounted
  <2> QED
    BY <2>1, <2>3 DEF ServerInv, NobodyYet, StartingUp, FreshCodes, CallbacksSet,
         FileWillBeGood, WillBeTold
<1> QED
  BY <1>1, <1>2, <1>3 DEF IInv

LEMMA NextIInv == IInv /\ [Next]_vars => IInv'
<1> SUFFICES ASSUME IInv, [Next]_vars PROVE IInv'
  OBVIOUS
<1>1. InstallInv'
  <2>1. CASE UNCHANGED installVars
    BY <2>1 DEF IInv, InstallInv, InstallTyped, CopyHasFile, RenamesAtEnd, TmpFits,
         SomebodyCompletes, InstalledIsComplete, At, Copying, Intact, Pieces, installVars
  <2>2. CASE InstallTunnel
    BY <2>2, InstallKeepsInstallInv DEF IInv, InstallTunnel
  <2>3. MainStep => UNCHANGED installVars
    BY DEF MainStep, StartTunnel, TunnelSelect, GenerateCode, WriteConnectionFile,
         AssignCallback, BeginRun, ReadCall, SendCall, CallAnswered, CallCancelled, RunEnds,
         Exit, MainOnly
  <2>4. ASSUME NEW k \in Links, HandlerStep(k) PROVE UNCHANGED installVars
    BY <2>4 DEF HandlerStep, Accept, AgentConnected, NotifyConnected, ReadFails, ReadPanics,
         Teardown, AgentDisconnected, RewriteConnectionFile, NotifyDisconnected, HandlerOnly
  <2> QED
    BY <2>1, <2>2, <2>3, <2>4 DEF Next, vars, TunnelProcess, KillTunnel, Interrupt,
         CloseStdin
<1> QED
  BY <1>1, NextKeepsProcessInv, NextKeepsServerInv DEF IInv

(* The inductive invariant of the operator's process.                        *)
THEOREM IInvHolds == Spec => []IInv
  BY InitIInv, NextIInv, PTL DEF Spec

(* Codes never outnumber the connections by more than one, and everything    *)
(* else keeps its type (main.go:64-180, tunnel.go:28-144).                   *)
THEOREM TypeCorrect == Spec => []TypeOK
<1>1. IInv => TypeOK
  <2> SUFFICES ASSUME IInv PROVE TypeOK
    OBVIOUS
  <2>1. codes <= Conns + 1
    <3>1. IsFiniteSet(1..Conns) /\ Cardinality(1..Conns) = Conns
      BY FS_Interval
    <3>2. Renewers \subseteq 1..Conns
      BY DEF Renewers
    <3>3. Cardinality(Renewers) \in Nat /\ Cardinality(Renewers) <= Conns
      BY <3>1, <3>2, FS_Subset, FS_CardinalityType
    <3> QED
      BY <3>3 DEF IInv, ServerInv, CodesCounted, ServerTyped
  <2>2. codes \in Nat /\ 1..codes \subseteq Codes
    BY <2>1 DEF IInv, ServerInv, ServerTyped
  <2>3. TunnelTypeOK
    BY DEF TunnelTypeOK, IInv, InstallInv, InstallTyped, ProcessInv, ProcessTyped, Pieced
  <2>4. handler \in [Links -> [pc : HandlerPC, code : {NoCode} \cup Codes, notifies : BOOLEAN]]
    <3> HIDE DEF Codes
    <3>1. \A j \in Links : handler[j] \in [pc : HandlerPC, code : {NoCode} \cup Codes,
                                           notifies : BOOLEAN]
      BY <2>2 DEF IInv, ServerInv, ServerTyped
    <3> QED
      BY <3>1 DEF IInv, ServerInv, ServerTyped
  <2> QED
    BY <2>1, <2>2, <2>3, <2>4 DEF TypeOK, IInv, ServerInv, ServerTyped
<1> QED
  BY <1>1, IInvHolds, PTL

(* Whatever the operators that share the temporary file do to each other,    *)
(* the binary installed is complete, unless a download was given up while    *)
(* another was under way (tunnel.go:28-84, 146-174).                         *)
THEOREM InstallationHolds == Spec => []InstalledIsComplete
<1>1. IInv => InstalledIsComplete
  BY DEF IInv, InstallInv
<1> QED
  BY <1>1, IInvHolds, PTL

(* When all callbacks are done, the file holds a code that was never used    *)
(* and the client knows that nobody is there, however many connections       *)
(* overlapped (main.go:98-160).                                              *)
THEOREM ReadyAgain == Spec => []ReadyForTheNextAgent
<1>1. IInv => ReadyForTheNextAgent
  BY DEF IInv, ServerInv, NobodyYet, StartingUp, FileWillBeGood, WillBeTold, Quiet,
         ReadyForTheNextAgent
<1> QED
  BY <1>1, IInvHolds, PTL
=============================================================================
