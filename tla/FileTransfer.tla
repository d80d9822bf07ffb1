---------------------------- MODULE FileTransfer ----------------------------
(***************************************************************************)
(* The chunked transfers of remote_file_upload and remote_file_download:   *)
(* the operator's loops (handleFileUpload and handleFileDownload in        *)
(* internal/mcp/server.go) and the two operations of the agent             *)
(* (UploadChunk and DownloadChunk in internal/fileops/fileops.go) on one   *)
(* local and one remote file, while other programs change both.            *)
(*                                                                         *)
(* Transfers follow each other: the loop that serves them is sequential.   *)
(* A call promises what RemoteCall says: a result is that of the one       *)
(* execution, a failed call was not executed, and one that is abandoned    *)
(* because its context was cancelled may still be executed at any time     *)
(* after.  A call that never returns is a behaviour that stops here.       *)
(***************************************************************************)
EXTENDS Naturals, Sequences, SequencesExt

CONSTANTS
  Files,        \* contents that other programs give to a file
  Absent,       \* what a file holds that does not exist
  ChunkSize,    \* transferChunkSize (1 MB)
  MaxSize,      \* the most that is uploaded (50 MB)
  MaxTransfers, \* bound: transfers asked for
  MaxFaults,    \* bound: calls without a result, failed reads and writes
  MaxChanges    \* bound: changes by other programs

ASSUME TransferAssumption ==
  /\ \A f \in Files : f \in Seq(Nat)
  /\ Absent \notin Seq(Nat)
  /\ ChunkSize \in Nat \ {0}
  /\ MaxSize \in Nat /\ MaxTransfers \in Nat /\ MaxFaults \in Nat /\ MaxChanges \in Nat

VARIABLES
  local, remote,  \* the file on the operator's and on the agent's machine
  task,           \* the transfer: upload or download, with or without overwrite
  pc,             \* where it is
  data,           \* upload: the local file as it was read; download: the last chunk
  short,          \* download: a chunk came with fewer bytes than were there
  size, total,    \* bytes and chunks announced
  index,          \* the chunk being transferred, from 0
  outcome,        \* of the last transfer
  before,         \* history: what the destination held when the transfer began
  others,         \* history: what else was done since, and to which file
  late,           \* the chunks of abandoned calls, which the agent may still write
  transfers, faults, changes  \* how many of each there were

files == <<local, remote>>
loop == <<data, short, size, total, index>>
counts == <<transfers, faults, changes>>
vars == <<files, task, pc, loop, outcome, before, others, late, counts>>

Bytes == Seq(Nat)

Machines == {"local", "remote"}

Init ==
  /\ local \in Files \cup {Absent}
  /\ remote \in Files \cup {Absent}
  /\ task = [kind |-> "none", overwrite |-> FALSE]
  /\ pc = "idle"
  /\ data = <<>> /\ short = FALSE /\ size = 0 /\ total = 1 /\ index = 0
  /\ outcome = "none"
  /\ before = Absent
  /\ others = {} /\ late = {}
  /\ transfers = 0 /\ faults = 0 /\ changes = 0

(* A variant for a mutant: an empty file has no chunk at all.               *)
ChunksOfNonempty(n) == (n + ChunkSize - 1) \div ChunkSize

ChunksOf(n) == IF n = 0 THEN 1 ELSE (n + ChunkSize - 1) \div ChunkSize

Offset == index * ChunkSize

(* At most ChunkSize bytes of f from the current offset on.                 *)
Piece(f) ==
  SubSeq(f, Offset + 1, IF Offset + ChunkSize < Len(f) THEN Offset + ChunkSize ELSE Len(f))

Fail ==
  /\ outcome' = "failed"
  /\ pc' = "idle"

(* One chunk is done: the next one, or the end.                              *)
NextChunk(n) ==
  /\ index' = index + 1
  /\ IF index + 1 = n
     THEN outcome' = "ok" /\ pc' = "idle"
     ELSE outcome' = "running" /\ pc' = "call"

-----------------------------------------------------------------------------
(* What one write leaves of a file that held f: all of the chunk c after     *)
(* prefix p, or, if the disk fails, the file as it was or a part of c.       *)

Written(f, p, c, new) == new = p \o c /\ faults' = faults

WriteFails(f, p, c, new) ==
  /\ faults < MaxFaults /\ faults' = faults + 1
  /\ \/ new = f
     \/ \E k \in 0..(Len(c) - 1) : new = p \o SubSeq(c, 1, k)

-----------------------------------------------------------------------------
(* Both loops: a transfer is asked for, and each chunk is a call.            *)

Start(kind, overwrite, destination) ==
  /\ pc = "idle" /\ transfers < MaxTransfers
  /\ transfers' = transfers + 1
  /\ task' = [kind |-> kind, overwrite |-> overwrite]
  /\ index' = 0 /\ short' = FALSE
  /\ before' = destination
  /\ others' = {}
  /\ UNCHANGED <<files, late, faults, changes>>

StartUpload(overwrite) ==
  /\ Start("upload", overwrite, remote)
  /\ IF local = Absent \/ Len(local) > MaxSize
     THEN Fail /\ data' = <<>> /\ size' = 0 /\ total' = 1
     ELSE /\ outcome' = "running" /\ pc' = "call"
          /\ data' = local
          /\ size' = Len(local)
          /\ total' = ChunksOf(Len(local))

StartDownload ==
  /\ Start("download", FALSE, local)
  /\ outcome' = "running" /\ pc' = "call"
  /\ data' = <<>> /\ size' = 0 /\ total' = 1

(* A variant for a mutant: the agent never looks whether the file exists.   *)
TaskUnchecked == IF task.kind = "download" THEN "stat" ELSE "write"

(* What the agent is asked to begin with.                                    *)
Task ==
  IF task.kind = "download" THEN "stat"
  ELSE IF index = 0 /\ ~task.overwrite THEN "exists" ELSE "write"

(* The request reaches the agent, which takes it up.                         *)
CallArrives ==
  /\ pc = "call"
  /\ pc' = Task
  /\ UNCHANGED <<files, task, loop, outcome, before, others, late, counts>>

(* SendRequest fails before anything is sent, or the user of the agent says  *)
(* no: the agent does nothing.                                              *)
CallFails ==
  /\ pc = "call" /\ faults < MaxFaults
  /\ faults' = faults + 1
  /\ Fail
  /\ UNCHANGED <<files, task, loop, before, others, late, transfers, changes>>

(* SendRequest returns because its context was cancelled, wherever the       *)
(* request is: the transfer is reported as failed, and the chunk of an       *)
(* upload may still be written, or have been, its answer unread.             *)
CallCancelled ==
  /\ pc \in {"call", "exists", "write", "stat", "read"} /\ faults < MaxFaults
  /\ faults' = faults + 1
  /\ outcome' = "unanswered" /\ pc' = "idle"
  /\ late' = IF task.kind = "download" THEN late
             ELSE late \cup {[transfer |-> transfers, first |-> index = 0, chunk |-> Piece(data),
                              pc |-> IF pc = "call" THEN Task ELSE pc]}
  /\ UNCHANGED <<files, task, loop, before, others, transfers, changes>>

-----------------------------------------------------------------------------
(* UploadChunk on the agent.                                                 *)

CheckExists ==
  /\ pc = "exists"
  /\ IF remote # Absent THEN Fail ELSE pc' = "write" /\ UNCHANGED outcome
  /\ UNCHANGED <<files, task, loop, before, others, late, counts>>

(* A variant for a mutant: the file is not truncated for the first chunk.   *)
BaseAlways(first, f) == IF f = Absent THEN <<>> ELSE f

(* The first chunk replaces the file, the others are appended to it.         *)
Base(first, f) == IF first THEN <<>> ELSE f

Kept(f) == Base(index = 0, f)

CannotAppend(f) == index > 0 /\ f = Absent

(* A variant for a mutant: the failure of a write is not noticed.           *)
WriteChunkIgnoresError ==
  /\ pc = "write" /\ ~CannotAppend(remote)
  /\ \/ Written(remote, Kept(remote), Piece(data), remote')
     \/ WriteFails(remote, Kept(remote), Piece(data), remote')
  /\ NextChunk(total)
  /\ UNCHANGED <<local, task, data, short, size, total, before, others, late, transfers, changes>>

WriteChunk ==
  /\ pc = "write"
  /\ \/ /\ ~CannotAppend(remote)
        /\ Written(remote, Kept(remote), Piece(data), remote')
        /\ NextChunk(total)
     \/ /\ ~CannotAppend(remote)
        /\ WriteFails(remote, Kept(remote), Piece(data), remote')
        /\ Fail /\ UNCHANGED index
     \/ /\ CannotAppend(remote)
        /\ Fail /\ UNCHANGED <<index, remote, faults>>
  /\ UNCHANGED <<local, task, data, short, size, total, before, others, late, transfers, changes>>

-----------------------------------------------------------------------------
(* DownloadChunk on the agent: the size is taken before the bytes are read.  *)
(* Only the size that comes with the first chunk is used.                    *)

StatFile ==
  /\ pc = "stat"
  /\ IF remote = Absent
     THEN Fail /\ UNCHANGED <<size, total>>
     ELSE /\ pc' = "read" /\ UNCHANGED outcome
          /\ IF index = 0 THEN size' = Len(remote) /\ total' = ChunksOf(Len(remote))
                          ELSE UNCHANGED <<size, total>>
  /\ UNCHANGED <<files, task, data, short, index, before, others, late, counts>>

(* ReadAt fails if there is nothing at the offset, even in an empty file.    *)
(* An error after some bytes is dropped: they are sent as if they were all,  *)
(* and nobody compares their number with what was asked for.                 *)
ReadChunk ==
  /\ pc = "read"
  /\ IF remote = Absent \/ Piece(remote) = <<>>
     THEN Fail /\ UNCHANGED <<data, short, faults>>
     ELSE \/ /\ data' = Piece(remote)
             /\ pc' = "save" /\ UNCHANGED <<outcome, short, faults>>
          \/ /\ faults < MaxFaults /\ faults' = faults + 1
             /\ Fail /\ UNCHANGED <<data, short>>
          \/ /\ faults < MaxFaults /\ faults' = faults + 1
             /\ \E k \in 1..(Len(Piece(remote)) - 1) : data' = SubSeq(Piece(remote), 1, k)
             /\ short' = TRUE
             /\ pc' = "save" /\ UNCHANGED outcome
  /\ UNCHANGED <<files, task, size, total, index, before, others, late, transfers, changes>>

(* The operator writes what it got.                                          *)
SaveChunk ==
  /\ pc = "save"
  /\ \/ /\ ~CannotAppend(local)
        /\ Written(local, Kept(local), data, local')
        /\ NextChunk(total)
     \/ /\ ~CannotAppend(local)
        /\ WriteFails(local, Kept(local), data, local')
        /\ Fail /\ UNCHANGED index
     \/ /\ CannotAppend(local)
        /\ Fail /\ UNCHANGED <<index, local, faults>>
  /\ UNCHANGED <<remote, task, data, short, size, total, before, others, late, transfers, changes>>

-----------------------------------------------------------------------------
(* The agent goes on with a request whose caller is gone.                    *)

LateCheck(r) ==
  /\ r.pc = "exists"
  /\ late' = (late \ {r}) \cup IF remote # Absent THEN {} ELSE {[r EXCEPT !.pc = "write"]}
  /\ UNCHANGED <<files, task, pc, loop, outcome, before, others, counts>>

(* To a later transfer, it is one more program that writes.                  *)
LateWrite(r) ==
  /\ r.pc = "write"
  /\ late' = late \ {r}
  /\ IF ~r.first /\ remote = Absent
     THEN UNCHANGED <<remote, others, faults>>
     ELSE /\ \/ Written(remote, Base(r.first, remote), r.chunk, remote')
             \/ WriteFails(remote, Base(r.first, remote), r.chunk, remote')
          /\ others' = IF r.transfer = transfers THEN others
                       ELSE others \cup {<<"remote", "late">>}
  /\ UNCHANGED <<local, task, pc, loop, outcome, before, transfers, changes>>

-----------------------------------------------------------------------------
(* Other programs create, replace, extend or remove either file.             *)

Effect(old, new) ==
  IF new = Absent THEN "removed"
  ELSE IF old = Absent THEN "replaced"
  ELSE IF IsPrefix(old, new) THEN "extended" ELSE "replaced"

OthersChange(machine, old, new) ==
  /\ changes < MaxChanges /\ changes' = changes + 1
  /\ new # old
  /\ others' = others \cup {<<machine, Effect(old, new)>>}
  /\ UNCHANGED <<task, pc, loop, outcome, before, late, transfers, faults>>

OthersAct ==
  \E new \in Files \cup {Absent} :
    \/ OthersChange("local", local, new) /\ local' = new /\ UNCHANGED remote
    \/ OthersChange("remote", remote, new) /\ remote' = new /\ UNCHANGED local

Next ==
  \/ \E overwrite \in BOOLEAN : StartUpload(overwrite)
  \/ StartDownload
  \/ CallArrives \/ CallFails \/ CallCancelled
  \/ CheckExists \/ WriteChunk
  \/ StatFile \/ ReadChunk \/ SaveChunk
  \/ \E r \in late : LateCheck(r) \/ LateWrite(r)
  \/ OthersAct

Spec == Init /\ [][Next]_vars

-----------------------------------------------------------------------------
(* The type of every variable, and the bounds.                              *)
TypeOK ==
  /\ local \in Bytes \cup {Absent} /\ remote \in Bytes \cup {Absent}
  /\ task \in [kind : {"none", "upload", "download"}, overwrite : BOOLEAN]
  /\ pc \in {"idle", "call", "exists", "write", "stat", "read", "save"}
  /\ data \in Bytes /\ short \in BOOLEAN /\ size \in Nat /\ total \in Nat \ {0}
  /\ index \in 0..total
  /\ outcome \in {"none", "running", "ok", "failed", "unanswered"}
  /\ before \in Bytes \cup {Absent}
  /\ others \subseteq (Machines \X {"removed", "replaced", "extended"}) \cup {<<"remote", "late">>}
  /\ late \subseteq [transfer : 0..MaxTransfers, first : BOOLEAN, chunk : Bytes,
                     pc : {"exists", "write"}]
  /\ transfers \in 0..MaxTransfers /\ faults \in 0..MaxFaults /\ changes \in 0..MaxChanges

OthersOnly(what) == others \subseteq what

(* An upload that reports success leaves the bytes that were read when it    *)
(* began, whatever happened to the source since, and even if others removed  *)
(* the destination meanwhile (server.go:525-568, fileops.go:614-646).        *)
UploadIsACopy ==
  /\ outcome = "running" /\ outcome' = "ok" /\ task.kind = "upload"
  /\ OthersOnly(({"local"} \X {"removed", "replaced", "extended"}) \cup {<<"remote", "removed">>})
  => remote' = data

(* A download none of whose reads was cut short by an error, of a file that  *)
(* others at most extend, say a log, leaves a prefix of it with at least the *)
(* bytes announced; of a file nobody touches, a copy (server.go:585-648,     *)
(* fileops.go:649-679).                                                     *)
DownloadIsAPrefix ==
  /\ outcome = "running" /\ outcome' = "ok" /\ task.kind = "download" /\ ~short
  /\ OthersOnly({<<"remote", "extended">>, <<"local", "removed">>})
  => /\ IsPrefix(local', remote)
     /\ Len(local') >= size
     /\ <<"remote", "extended">> \notin others => local' = remote

(* A read that an error cuts short does not fail the download, which then    *)
(* reports success without a copy (fileops.go:666); but what it leaves of a  *)
(* file nobody touches is then shorter than the size it reports, so that     *)
(* comparing the two tells, whatever chunks were cut (server.go:597, 646).   *)
ShortReadShows ==
  /\ outcome = "running" /\ outcome' = "ok" /\ task.kind = "download" /\ short
  /\ OthersOnly({<<"local", "removed">>})
  => Len(local') < size

SuccessIsACopy == [][UploadIsACopy /\ DownloadIsAPrefix /\ ShortReadShows]_vars

Destination == IF task.kind = "upload" THEN remote ELSE local

Source == IF task.kind = "upload" THEN data ELSE remote

DestinationLeftAlone ==
  LET machine == IF task.kind = "upload" THEN "remote" ELSE "local"
  IN \A e \in others : e[1] # machine

SourceKept ==
  task.kind # "upload" => /\ ~short
                          /\ \A e \in others : e[1] = "remote" => e[2] = "extended"

(* A transfer that failed at chunk i/n left what was there before, or the    *)
(* chunks before that one and at most a part of it, and nothing else: the    *)
(* report says how far it came.  If it failed because its call was cancelled *)
(* the chunk of an upload may be written too, whole, then or later, and this *)
(* is all that may be (server.go:549-557, 617-638).                          *)
FailureSaysHowFar ==
  outcome \in {"failed", "unanswered"} /\ DestinationLeftAlone /\ SourceKept =>
    \/ index = 0 /\ Destination = before
    \/ /\ Destination # Absent
       /\ IsPrefix(Destination, Source)
       /\ Offset <= Len(Destination)
       /\ \/ Len(Destination) < Offset + ChunkSize
          \/ /\ outcome = "unanswered" /\ task.kind = "upload"
             /\ Len(Destination) = Offset + ChunkSize

(* Without overwrite, an upload never touches a file that was there when it  *)
(* was asked for, nor does the repetition of an upload that failed half-way, *)
(* nor a chunk written after its call was cancelled (fileops.go:620-626).    *)
KeptUnlessOverwrite ==
  task.kind = "upload" /\ ~task.overwrite /\ before # Absent /\ DestinationLeftAlone =>
    remote = before /\ outcome # "ok"
=============================================================================
