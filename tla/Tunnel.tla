------------------------------- MODULE Tunnel -------------------------------
(***************************************************************************)
(* The tunnel of the operator (internal/tunnel/tunnel.go): getting the     *)
(* cloudflared binary, which every operator process on the machine does    *)
(* for itself in one shared directory, and running it as a child process.  *)
(*                                                                         *)
(* The file system is that of Windows, the only one the binary is          *)
(* downloaded for: a file that somebody has open can be opened and         *)
(* truncated again, but neither renamed nor removed.                       *)
(***************************************************************************)
EXTENDS Naturals, Sequences, FiniteSets

CONSTANTS
  Operators,  \* the operator processes on this machine
  Self,       \* the one whose tunnel it is
  Size,       \* pieces that the download arrives in
  Absent      \* what a file holds that does not exist

ASSUME TunnelAssumption ==
  /\ Self \in Operators
  /\ Size \in Nat \ {0}
  /\ Absent \notin Seq({"data", "hole"})

VARIABLES
  binary, tmp,  \* cloudflared.exe and cloudflared.exe.tmp
  dl,           \* per operator: EnsureCloudflared, and the pieces it has written
  upset,        \* history: a download was given up while another was under way
  interrupted,  \* the context of the main program is cancelled
  tun,          \* Start
  cf,           \* the child process
  url           \* the public address: printed by the child, sent by the scanner

installVars == <<binary, tmp, dl, upset>>
processVars == <<tun, cf, url>>

TunnelInit ==
  /\ binary = Absent /\ tmp = Absent
  /\ dl = [p \in Operators |-> [pc |-> "none", pos |-> 0]]
  /\ upset = FALSE
  /\ interrupted = FALSE
  /\ tun = "off" /\ cf = "none" /\ url = "none"

-----------------------------------------------------------------------------
(* EnsureCloudflared.                                                        *)

Goto(p, pc) == dl' = [dl EXCEPT ![p].pc = pc]

Returns(p, pc) == dl' = [dl EXCEPT ![p] = [pc |-> pc, pos |-> 0]]

At(p, pc) == dl[p].pc = pc

Open(f) == f # Absent /\ \E p \in Operators : At(p, "copy")

GivesUp(p) ==
  upset' = (upset \/ \E q \in Operators \ {p} : dl[q].pc \in {"copy", "rename"})

(* Stat, LookPath, and the request for the download, which may fail.        *)
Look(p) ==
  /\ At(p, "none")
  /\ \/ Goto(p, "ok")                               \* in the PATH
     \/ binary # Absent /\ Goto(p, "ok")
     \/ binary = Absent /\ (Goto(p, "create") \/ Goto(p, "failed"))
  /\ UNCHANGED <<binary, tmp, upset>>

CreateTmp(p) ==
  /\ At(p, "create")
  /\ tmp' = <<>>
  /\ dl' = [dl EXCEPT ![p] = [pc |-> "copy", pos |-> 0]]
  /\ UNCHANGED <<binary, upset>>

(* A write past the end leaves a hole before it.                            *)
Put(f, i) ==
  [j \in 1..(IF i > Len(f) THEN i ELSE Len(f)) |->
     IF j = i THEN "data" ELSE IF j <= Len(f) THEN f[j] ELSE "hole"]

(* A variant for a mutant: an off-by-one in the number of pieces.           *)
CopyPieceTooMany(p) ==
  /\ At(p, "copy") /\ dl[p].pos <= Size
  /\ tmp' = Put(tmp, dl[p].pos + 1)
  /\ dl' = [dl EXCEPT ![p].pos = @ + 1]
  /\ UNCHANGED <<binary, upset>>

CopyPiece(p) ==
  /\ At(p, "copy") /\ dl[p].pos < Size
  /\ tmp' = Put(tmp, dl[p].pos + 1)
  /\ dl' = [dl EXCEPT ![p].pos = @ + 1]
  /\ UNCHANGED <<binary, upset>>

CopyEnds(p) ==
  /\ At(p, "copy") /\ dl[p].pos = Size
  /\ Goto(p, "rename")
  /\ UNCHANGED <<binary, tmp, upset>>

(* A variant for a mutant: the error of the copy is ignored.                *)
CopyFailsUnnoticed(p) ==
  /\ At(p, "copy")
  /\ Goto(p, "rename")
  /\ GivesUp(p)
  /\ UNCHANGED <<binary, tmp>>

CopyFails(p) ==
  /\ At(p, "copy")
  /\ Goto(p, "remove")
  /\ GivesUp(p)
  /\ UNCHANGED <<binary, tmp>>

RemoveTmp(p) ==
  /\ At(p, "remove")
  /\ tmp' = IF Open(tmp) THEN tmp ELSE Absent
  /\ Returns(p, "failed")
  /\ UNCHANGED <<binary, upset>>

(* It fails if somebody has the file open, or runs the one to be replaced.  *)
Rename(p) ==
  /\ At(p, "rename")
  /\ \/ /\ tmp # Absent /\ ~Open(tmp)
        /\ binary' = tmp /\ tmp' = Absent
        /\ Returns(p, "ok")
     \/ /\ tmp = Absent \/ Open(tmp) \/ binary # Absent
        /\ Returns(p, "failed")
        /\ UNCHANGED <<binary, tmp>>
  /\ UNCHANGED upset

(* Another operator process is ended, or started once more.                 *)
Dies(p) ==
  /\ p # Self /\ dl[p].pc \in {"create", "copy", "remove", "rename"}
  /\ Returns(p, "dead")
  /\ GivesUp(p)
  /\ UNCHANGED <<binary, tmp>>

StartsAgain(p) ==
  /\ p # Self /\ dl[p].pc \in {"dead", "failed"}
  /\ Goto(p, "none")
  /\ UNCHANGED <<binary, tmp, upset>>

Ensure(p) ==
  \/ Look(p) \/ CreateTmp(p) \/ CopyPiece(p) \/ CopyEnds(p) \/ CopyFails(p)
  \/ RemoveTmp(p) \/ Rename(p)

Install ==
  /\ \E p \in Operators : Ensure(p) \/ Dies(p) \/ StartsAgain(p)
  /\ UNCHANGED <<interrupted, processVars>>

-----------------------------------------------------------------------------
(* Start: three goroutines and a timer.  The context of the child is done    *)
(* when the program's is, and when Start failed.                            *)

(* A variant for a mutant: Start fails without cancelling it.               *)
CancelledByProgram == interrupted

Cancelled == interrupted \/ tun = "failed"

StartProcess ==
  /\ tun = "off"
  /\ \/ tun' = "waiting" /\ cf' = "running"
     \/ tun' = "failed" /\ UNCHANGED cf
  /\ UNCHANGED url

PrintUrl == cf = "running" /\ url = "none" /\ url' = "printed" /\ UNCHANGED <<tun, cf>>

(* The line may be lost if the child exits first: Wait closes the pipe.      *)
ScanUrl == url = "printed" /\ url' = "sent" /\ UNCHANGED <<tun, cf>>

ChildExits ==
  /\ cf = "running"
  /\ cf' \in {"exited", "crashed"}
  /\ UNCHANGED <<tun, url>>

(* Wait returned an error.  Nothing is said of an exit with code 0.          *)
ReportCrash ==
  /\ cf = "crashed" /\ ~Cancelled
  /\ cf' = "reported"
  /\ UNCHANGED <<tun, url>>

KillCancelled ==
  /\ cf = "running" /\ Cancelled
  /\ cf' = "killed"
  /\ UNCHANGED <<tun, url>>

(* The select of Start, which takes any of its cases that is ready.         *)
TakeUrl == tun = "waiting" /\ url = "sent" /\ tun' = "up" /\ UNCHANGED <<cf, url>>

TakeError == tun = "waiting" /\ cf = "reported" /\ tun' = "failed" /\ UNCHANGED <<cf, url>>

(* A variant for a mutant: no timer.                                        *)
NoTimer == FALSE /\ UNCHANGED processVars

TimeIsUp == tun = "waiting" /\ tun' = "failed" /\ UNCHANGED <<cf, url>>

(* Stop, at the end of the program: there is a tunnel only if Start          *)
(* succeeded.                                                               *)
Stop ==
  /\ cf' = IF tun = "up" /\ cf = "running" THEN "killed" ELSE cf
  /\ UNCHANGED <<tun, url>>

-----------------------------------------------------------------------------
Pieces == [1..Size -> {"data"}]

TunnelTypeOK ==
  /\ binary \in Seq({"data", "hole"}) \cup {Absent}
  /\ tmp \in Seq({"data", "hole"}) \cup {Absent}
  /\ dl \in [Operators -> [pc : {"none", "create", "copy", "remove", "rename", "ok", "failed",
                                 "dead"}, pos : 0..Size]]
  /\ upset \in BOOLEAN
  /\ interrupted \in BOOLEAN
  /\ tun \in {"off", "waiting", "up", "failed"}
  /\ cf \in {"none", "running", "exited", "crashed", "reported", "killed"}
  /\ url \in {"none", "printed", "sent"}

(* Whatever the operators that share a temporary file do to each other: the  *)
(* binary that all of them will use from now on is complete, unless one gave *)
(* up its download while another one was under way (tunnel.go:37-39,        *)
(* 157-172).                                                                *)
InstalledIsComplete == binary \in Pieces \cup {Absent} \/ upset
=============================================================================
