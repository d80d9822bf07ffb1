------------------------- MODULE FileTransferProofs -------------------------
(***************************************************************************)
(* Proofs about FileTransfer, for files of any length, any size of a chunk *)
(* and any number of transfers, faults and changes by other programs.      *)
(*                                                                         *)
(* While a transfer runs, and as long as the others did nothing that the   *)
(* property at hand excludes, the destination holds exactly the bytes of   *)
(* the source before the chunk that is transferred next.                   *)
(***************************************************************************)
EXTENDS FileTransfer, SequenceTheorems, TLAPS

USE TransferAssumption DEF Bytes

Running == pc # "idle"

(* Which steps belong to which loop; there is always a chunk to transfer.    *)
InTheLoop ==
  /\ Running <=> outcome = "running"
  /\ Running => index < total /\ task.kind \in {"upload", "download"}
  /\ pc \in {"exists", "write"} => task.kind = "upload"
  /\ pc \in {"stat", "read", "save"} => task.kind = "download"
  /\ pc = "exists" => index = 0

(* f holds what g holds before the current chunk.                           *)
UpToOffset(f, g) == Len(f) = Offset /\ IsPrefix(f, g)

(* What others may do to the files without harm to an upload or a download.  *)
HarmlessToUpload ==
  ({"local"} \X {"removed", "replaced", "extended"}) \cup {<<"remote", "removed">>}

HarmlessToDownload == {<<"remote", "extended">>, <<"local", "removed">>}

(* So far nothing went wrong that a download does not notice.                *)
Smooth == ~short /\ OthersOnly(HarmlessToDownload)

Uploaded ==
  Running /\ task.kind = "upload" =>
    /\ total = ChunksOf(Len(data))
    /\ index > 0 /\ OthersOnly(HarmlessToUpload) => remote = Absent \/ UpToOffset(remote, data)

(* The size that was announced is that of the file, or less if it grew.      *)
SizeKnown ==
  /\ total = ChunksOf(size)
  /\ OthersOnly(HarmlessToDownload) =>
       /\ remote # Absent /\ size <= Len(remote)
       /\ <<"remote", "extended">> \notin others => size = Len(remote)

(* The chunk that was read is part of the file, and full or its end.        *)
ChunkRead ==
  /\ Len(data) <= ChunkSize
  /\ Smooth =>
       /\ Offset + Len(data) <= Len(remote)
       /\ \A i \in 1..Len(data) : data[i] = remote[Offset + i]
       /\ Len(data) = ChunkSize \/ size <= Offset + Len(data)

Downloaded ==
  Running /\ task.kind = "download" =>
    /\ index > 0 \/ pc \in {"read", "save"} => SizeKnown
    /\ index > 0 /\ Smooth => local = Absent \/ UpToOffset(local, remote)
    /\ pc = "save" => ChunkRead

(* A read cut short shows in the length of what is saved.                    *)
ShortSoFar ==
  Running /\ task.kind = "download" /\ OthersOnly({<<"local", "removed">>}) /\ ~CannotAppend(local) =>
    /\ Len(Kept(local)) <= Offset
    /\ short => IF pc = "save"
                THEN /\ Len(Kept(local)) + Len(data) < Offset + ChunkSize
                     /\ Len(Kept(local)) + Len(data) < size
                ELSE Len(Kept(local)) < Offset

(* Nothing happens to the destination before the first chunk is written.     *)
DestinationKept ==
  Running /\ DestinationLeftAlone /\ SourceKept =>
    IF index = 0 THEN Destination = before ELSE Destination # Absent

(* An upload that must not overwrite anything ends where it looks.          *)
EndsAtTheCheck ==
  task.kind = "upload" /\ ~task.overwrite /\ before # Absent /\ DestinationLeftAlone =>
    /\ remote = before /\ outcome # "ok"
    /\ Running => pc \in {"call", "exists"} /\ index = 0

(* c stands in g from the current offset on.                                *)
PartOf(c, g) ==
  Offset + Len(c) <= Len(g) /\ \A i \in 1..Len(c) : c[i] = g[Offset + i]

(* What is known of the chunk of the last transfer, an upload that was       *)
(* cancelled, while the agent may still write it.                            *)
ToBeWritten(r) ==
  /\ outcome = "unanswered" /\ pc = "idle" /\ task.kind = "upload"
  /\ r.first = (index = 0)
  /\ r.chunk \in Bytes /\ Len(r.chunk) <= ChunkSize /\ PartOf(r.chunk, data)
  /\ index > 0 /\ OthersOnly(HarmlessToUpload) => remote = Absent \/ UpToOffset(remote, data)
  /\ DestinationLeftAlone => IF index = 0 THEN remote = before ELSE remote # Absent
  /\ ~task.overwrite /\ before # Absent /\ DestinationLeftAlone => r.pc = "exists"

(* At most one chunk that is still to be written is of the last transfer.    *)
LateChunks ==
  \A r \in late :
    /\ r.transfer <= transfers
    /\ r.transfer = transfers =>
         ToBeWritten(r) /\ \A q \in late : q.transfer = transfers => q = r

IInv ==
  /\ TypeOK
  /\ InTheLoop
  /\ Uploaded
  /\ Downloaded
  /\ DestinationKept
  /\ EndsAtTheCheck
  /\ FailureSaysHowFar
  /\ ShortSoFar
  /\ LateChunks

-----------------------------------------------------------------------------
(* The chunks cover the file, and none of them but that of an empty file is  *)
(* empty.                                                                   *)
LEMMA ChunksSay ==
  ASSUME NEW n \in Nat
  PROVE  /\ ChunksOf(n) \in Nat \ {0}
         /\ n <= ChunksOf(n) * ChunkSize
         /\ \A i \in 0..(ChunksOf(n) - 1) : i * ChunkSize <= n /\ (i > 0 => i * ChunkSize < n)
<1>1. ASSUME NEW m \in Nat
      PROVE  /\ m \div ChunkSize \in Nat
             /\ (m \div ChunkSize) * ChunkSize <= m
             /\ m < (m \div ChunkSize) * ChunkSize + ChunkSize
  OBVIOUS
<1> QED
  BY <1>1 DEF ChunksOf

LEMMA OffsetSays ==
  ASSUME index \in Nat
  PROVE  /\ Offset \in Nat
         /\ index = 0 => Offset = 0
         /\ index' = index + 1 => Offset' = Offset + ChunkSize
  BY DEF Offset

(* Prefixes, byte by byte.                                                   *)
LEMMA PrefixSays ==
  ASSUME NEW s \in Bytes, NEW t \in Bytes
  PROVE  IsPrefix(s, t) <=> Len(s) <= Len(t) /\ \A i \in 1..Len(s) : s[i] = t[i]
  BY DEF IsPrefix

LEMMA PrefixTransitive ==
  ASSUME NEW s \in Bytes, NEW t \in Bytes, NEW u \in Bytes, IsPrefix(s, t), IsPrefix(t, u)
  PROVE  IsPrefix(s, u)
<1>1. Len(s) \in Nat /\ Len(t) \in Nat
  OBVIOUS
<1> QED
  BY <1>1, PrefixSays

LEMMA WholePrefix ==
  ASSUME NEW s \in Bytes, NEW t \in Bytes, IsPrefix(s, t), Len(t) <= Len(s)
  PROVE  s = t
<1>1. Len(s) = Len(t) /\ \A i \in 1..Len(s) : s[i] = t[i]
  BY PrefixSays
<1> QED
  BY <1>1, SeqEqual

LEMMA ConcatSays ==
  ASSUME NEW s \in Bytes, NEW t \in Bytes
  PROVE  /\ s \o t \in Bytes
         /\ Len(s \o t) = Len(s) + Len(t)
         /\ \A i \in 1..(Len(s) + Len(t)) :
              (s \o t)[i] = IF i <= Len(s) THEN s[i] ELSE t[i - Len(s)]
  OBVIOUS

(* The first k bytes, and all of them.                                      *)
LEMMA TakeSays ==
  ASSUME NEW c \in Bytes, NEW k \in 0..Len(c)
  PROVE  /\ SubSeq(c, 1, k) \in Bytes
         /\ Len(SubSeq(c, 1, k)) = k
         /\ \A i \in 1..k : SubSeq(c, 1, k)[i] = c[i]
         /\ k = Len(c) => SubSeq(c, 1, k) = c
<1>1. Len(c) \in Nat /\ k \in Nat
  OBVIOUS
<1>2. /\ SubSeq(c, 1, k) \in Bytes /\ Len(SubSeq(c, 1, k)) = k
      /\ \A i \in 1..k : SubSeq(c, 1, k)[i] = c[i]
  BY <1>1
<1> QED
  BY <1>1, <1>2, SeqEqual

LEMMA SubSeqSays ==
  ASSUME NEW f \in Seq(Nat), NEW m \in Nat \ {0}, NEW n \in Nat, n <= Len(f)
  PROVE  /\ SubSeq(f, m, n) \in Seq(Nat)
         /\ Len(SubSeq(f, m, n)) = IF m <= n THEN n - m + 1 ELSE 0
         /\ \A i \in 1..(n - m + 1) : SubSeq(f, m, n)[i] = f[m + i - 1]
<1>1. \A i \in m..n : f[i] \in Nat
  OBVIOUS
<1>2. m \in Int /\ n \in Int
  OBVIOUS
<1> QED
  BY ONLY <1>1, <1>2, SubSeqProperties

LEMMA PieceSays ==
  ASSUME NEW f \in Bytes, Offset \in Nat
  PROVE  /\ Piece(f) \in Bytes
         /\ Len(Piece(f)) <= ChunkSize
         /\ Offset <= Len(f) =>
              PartOf(Piece(f), f) /\ (Len(Piece(f)) = ChunkSize \/ Len(f) <= Offset + Len(Piece(f)))
<1> DEFINE m == Offset + 1
<1> DEFINE n == IF Offset + ChunkSize < Len(f) THEN Offset + ChunkSize ELSE Len(f)
<1>1. Len(f) \in Nat /\ m \in Nat \ {0} /\ n \in Nat /\ n <= Len(f) /\ n < m + ChunkSize
  OBVIOUS
<1>2. Piece(f) = SubSeq(f, m, n)
  BY DEF Piece
<1>3. Offset <= Len(f) => n >= m - 1
  OBVIOUS
<1> HIDE DEF m, n
<1>4. /\ SubSeq(f, m, n) \in Seq(Nat)
      /\ Len(SubSeq(f, m, n)) = IF m <= n THEN n - m + 1 ELSE 0
      /\ \A i \in 1..(n - m + 1) : SubSeq(f, m, n)[i] = f[m + i - 1]
  BY <1>1, SubSeqSays
<1> QED
  BY <1>1, <1>2, <1>3, <1>4 DEF PartOf, m, n

-----------------------------------------------------------------------------
(* The bytes that a write adds are the next ones of the source, all of them  *)
(* or, if it fails, some.                                                   *)
LEMMA ExtendsPrefix ==
  ASSUME NEW f \in Bytes, NEW g \in Bytes, NEW c \in Bytes, Offset \in Nat,
         UpToOffset(f, g), PartOf(c, g), NEW k \in 0..Len(c)
  PROVE  /\ f \o SubSeq(c, 1, k) \in Bytes
         /\ Len(f \o SubSeq(c, 1, k)) = Offset + k
         /\ IsPrefix(f \o SubSeq(c, 1, k), g)
<1> DEFINE d == SubSeq(c, 1, k)
<1>0. Len(f) <= Len(g) /\ \A i \in 1..Len(f) : f[i] = g[i]
  BY PrefixSays DEF UpToOffset
<1>1. /\ Len(c) \in Nat /\ Len(f) = Offset /\ Len(g) \in Nat /\ k \in Nat
      /\ Offset <= Len(g) /\ \A i \in 1..Offset : f[i] = g[i]
  BY <1>0 DEF UpToOffset
<1>2. d \in Bytes /\ Len(d) = k /\ \A i \in 1..k : d[i] = c[i]
  BY TakeSays
<1> HIDE DEF d
<1>3. /\ f \o d \in Bytes /\ Len(f \o d) = Offset + k
      /\ \A i \in 1..(Offset + k) : (f \o d)[i] = IF i <= Offset THEN f[i] ELSE d[i - Offset]
  BY <1>1, <1>2, ConcatSays
<1>4. \A i \in 1..(Offset + k) : (f \o d)[i] = g[i]
  <2> SUFFICES ASSUME NEW i \in 1..(Offset + k) PROVE (f \o d)[i] = g[i]
    OBVIOUS
  <2>1. CASE i <= Offset
    <3>1. i \in 1..Offset
      BY <2>1
    <3> QED
      BY <1>1, <1>3, <2>1, <3>1
  <2>2. CASE i > Offset
    <3>1. i - Offset \in 1..k /\ i - Offset \in 1..Len(c) /\ Offset + (i - Offset) = i
      BY <1>1, <2>2
    <3>2. c[i - Offset] = g[i]
      BY <3>1 DEF PartOf
    <3>3. d[i - Offset] = g[i]
      BY <1>2, <3>1, <3>2
    <3>4. (f \o d)[i] = d[i - Offset]
      BY <1>1, <1>3, <2>2
    <3> QED
      BY <3>3, <3>4
  <2>3. i <= Offset \/ i > Offset
    BY <1>1
  <2> QED
    BY <2>1, <2>2, <2>3
<1>5. Len(f \o d) <= Len(g) /\ \A i \in 1..Len(f \o d) : (f \o d)[i] = g[i]
  <2>1. Offset + k <= Len(g)
    BY <1>1 DEF PartOf
  <2> QED
    BY <1>3, <1>4, <2>1
<1>6. IsPrefix(f \o d, g)
  BY <1>3, <1>5, PrefixSays
<1> QED
  BY <1>3, <1>6 DEF d

LEMMA KeptSays ==
  ASSUME TypeOK, NEW f \in Bytes \cup {Absent}, ~CannotAppend(f)
  PROVE  /\ Kept(f) \in Bytes
         /\ IF index = 0 THEN Len(Kept(f)) = 0 ELSE Kept(f) = f
<1>1. <<>> \in Bytes /\ Len(<<>>) = 0
  BY EmptySeq
<1>2. index \in Nat
  BY DEF TypeOK
<1> QED
  BY <1>1, <1>2 DEF Kept, Base, CannotAppend

LEMMA WriteBaseTyped ==
  ASSUME TypeOK, NEW f \in Bytes \cup {Absent}, NEW p \in Bytes, NEW c \in Bytes, NEW new,
         Written(f, p, c, new) \/ WriteFails(f, p, c, new)
  PROVE  /\ new \in Bytes \cup {Absent} /\ faults' \in 0..MaxFaults
         /\ Written(f, p, c, new) => new \in Bytes
<1>2. \A k \in 0..(Len(c) - 1) : SubSeq(c, 1, k) \in Bytes
  OBVIOUS
<1>3. \A d \in Bytes : p \o d \in Bytes
  BY ConcatSays
<1> HIDE DEF Bytes
<1>4. CASE Written(f, p, c, new)
  BY <1>3, <1>4 DEF Written, TypeOK
<1>5. CASE WriteFails(f, p, c, new)
  <2>1. new \in Bytes \cup {Absent}
    BY <1>2, <1>3, <1>5 DEF WriteFails
  <2>2. faults' \in 0..MaxFaults
    BY <1>5 DEF WriteFails, TypeOK
  <2> QED
    BY <1>3, <2>1, <2>2 DEF Written
<1> QED
  BY <1>4, <1>5

LEMMA WriteTyped ==
  ASSUME TypeOK, NEW f \in Bytes \cup {Absent}, ~CannotAppend(f), NEW c \in Bytes, NEW new,
         Written(f, Kept(f), c, new) \/ WriteFails(f, Kept(f), c, new)
  PROVE  /\ new \in Bytes \cup {Absent} /\ faults' \in 0..MaxFaults
         /\ Written(f, Kept(f), c, new) => new \in Bytes
BY KeptSays, WriteBaseTyped

LEMMA WriteSays ==
  ASSUME TypeOK, NEW f \in Bytes \cup {Absent}, ~CannotAppend(f), NEW g \in Bytes,
         NEW c \in Bytes, PartOf(c, g), Len(c) <= ChunkSize,
         index > 0 => f = Absent \/ UpToOffset(f, g), NEW new
  PROVE  /\ Written(f, Kept(f), c, new) => IsPrefix(new, g) /\ Len(new) = Offset + Len(c)
         /\ WriteFails(f, Kept(f), c, new) =>
              \/ new = f
              \/ /\ new \in Bytes /\ IsPrefix(new, g)
                 /\ Offset <= Len(new) /\ Len(new) < Offset + ChunkSize
<1>1. index \in Nat /\ Offset \in Nat /\ (index = 0 => Offset = 0)
  BY OffsetSays DEF TypeOK
<1>2. Kept(f) \in Bytes /\ UpToOffset(Kept(f), g)
  <2>1. CASE index = 0
    <3>1. Kept(f) \in Bytes /\ Len(Kept(f)) = 0
      BY <2>1, KeptSays
    <3>2. Len(Kept(f)) <= Len(g) /\ \A i \in 1..Len(Kept(f)) : Kept(f)[i] = g[i]
      BY <3>1
    <3>3. IsPrefix(Kept(f), g)
      BY <3>1, <3>2, PrefixSays
    <3> QED
      BY <1>1, <2>1, <3>1, <3>3 DEF UpToOffset
  <2>2. CASE index > 0
    BY <1>1, <2>2, KeptSays DEF CannotAppend
  <2> QED
    BY <1>1, <2>1, <2>2
<1>3. \A k \in 0..Len(c) :
        /\ Kept(f) \o SubSeq(c, 1, k) \in Bytes
        /\ Len(Kept(f) \o SubSeq(c, 1, k)) = Offset + k
        /\ IsPrefix(Kept(f) \o SubSeq(c, 1, k), g)
  BY <1>1, <1>2, ExtendsPrefix
<1>4. Len(c) \in Nat /\ Len(c) \in 0..Len(c) /\ SubSeq(c, 1, Len(c)) = c
  BY TakeSays
<1>5. ASSUME Written(f, Kept(f), c, new) PROVE IsPrefix(new, g) /\ Len(new) = Offset + Len(c)
  BY <1>3, <1>4, <1>5 DEF Written
<1>6. ASSUME WriteFails(f, Kept(f), c, new), new # f
      PROVE  /\ new \in Bytes /\ IsPrefix(new, g)
             /\ Offset <= Len(new) /\ Len(new) < Offset + ChunkSize
  <2>1. PICK k \in 0..(Len(c) - 1) : new = Kept(f) \o SubSeq(c, 1, k)
    BY <1>6 DEF WriteFails
  <2>2. k \in 0..Len(c) /\ k \in Nat /\ k < Len(c)
    BY <1>4
  <2>3. new \in Bytes /\ Len(new) = Offset + k /\ IsPrefix(new, g)
    BY <1>3, <2>1, <2>2
  <2> QED
    BY <1>1, <1>4, <2>2, <2>3
<1> QED
  BY <1>5, <1>6

-----------------------------------------------------------------------------
LEMMA AloneIsHarmless ==
  ASSUME TypeOK, DestinationLeftAlone, SourceKept
  PROVE  /\ task.kind = "upload" => OthersOnly(HarmlessToUpload)
         /\ task.kind = "download" => Smooth
<1>1. ASSUME NEW e \in others
      PROVE  /\ task.kind = "upload" => e \in HarmlessToUpload
             /\ task.kind = "download" => e \in HarmlessToDownload
  <2>1. \/ \E m \in Machines, what \in {"removed", "replaced", "extended"} : e = <<m, what>>
        \/ e = <<"remote", "late">>
    BY DEF TypeOK
  <2>2. PICK m \in Machines, what \in {"removed", "replaced", "extended", "late"} : e = <<m, what>>
    BY <2>1 DEF Machines
  <2>3. e[1] = m /\ e[2] = what
    BY <2>2
  <2>4. CASE task.kind = "upload"
    <3>1. m = "local"
      BY <2>3, <2>4 DEF DestinationLeftAlone, Machines
    <3> QED
      BY <2>1, <2>2, <2>4, <3>1 DEF HarmlessToUpload
  <2>5. CASE task.kind = "download"
    <3>1. m = "remote" /\ what = "extended"
      BY <2>3, <2>5 DEF DestinationLeftAlone, SourceKept, Machines
    <3> QED
      BY <2>2, <2>5, <3>1 DEF HarmlessToDownload
  <2> QED
    BY <2>4, <2>5
<1>2. task.kind = "download" => ~short
  BY DEF SourceKept
<1> QED
  BY <1>1, <1>2 DEF OthersOnly, Smooth

(* A chunk of an abandoned call is not of a transfer that runs.              *)
LEMMA LateChunksKept ==
  ASSUME LateChunks, Running, UNCHANGED <<late, transfers>>
  PROVE  LateChunks'
BY DEF LateChunks, ToBeWritten, Running

LEMMA ShortSoFarKept ==
  ASSUME ShortSoFar, Running, pc # "save",
         UNCHANGED <<local, task, short, index, others>>, pc' # "save"
  PROVE  ShortSoFar'
<1>1. Offset' = Offset /\ Kept(local)' = Kept(local) /\ CannotAppend(local)' = CannotAppend(local)
  BY DEF Offset, Kept, Base, CannotAppend
<1> QED
  BY <1>1 DEF ShortSoFar, OthersOnly, Running

(* Before the current chunk is written, the destination holds the ones       *)
(* before it.                                                               *)
LEMMA DestinationSays ==
  ASSUME IInv, Running, DestinationLeftAlone, SourceKept
  PROVE  \/ index = 0 /\ Destination = before
         \/ /\ Destination # Absent
            /\ IsPrefix(Destination, Source)
            /\ Offset <= Len(Destination) /\ Len(Destination) < Offset + ChunkSize
<1> USE DEF IInv, Running
<1>1. index \in Nat /\ Offset \in Nat
  BY OffsetSays DEF TypeOK
<1>2. IF index = 0 THEN Destination = before ELSE Destination # Absent
  BY DEF DestinationKept
<1>3. ASSUME index > 0 PROVE UpToOffset(Destination, Source)
  <2>1. CASE task.kind = "upload"
    BY <1>1, <1>2, <1>3, <2>1, AloneIsHarmless DEF Uploaded, Destination, Source
  <2>2. CASE task.kind = "download"
    BY <1>1, <1>2, <1>3, <2>2, AloneIsHarmless DEF Downloaded, Destination, Source
  <2> QED
    BY <2>1, <2>2 DEF InTheLoop
<1> QED
  BY <1>1, <1>2, <1>3 DEF UpToOffset

(* A transfer that fails without a write has written the chunks before.      *)
LEMMA FailingKeepsIInv ==
  ASSUME IInv, Running, outcome' = "failed", pc' = "idle",
         UNCHANGED <<files, task, data, short, size, total, index, before, others, late, transfers, changes>>,
         faults' \in 0..MaxFaults
  PROVE  IInv'
<1> USE DEF IInv, files, Running
<1>1. TypeOK'
  BY DEF TypeOK
<1>2. InTheLoop' /\ Uploaded' /\ Downloaded' /\ DestinationKept'
  BY DEF InTheLoop, Uploaded, Downloaded, DestinationKept
<1>3. EndsAtTheCheck'
  BY DEF EndsAtTheCheck, DestinationLeftAlone
<1>4. FailureSaysHowFar'
  <2> SUFFICES ASSUME DestinationLeftAlone, SourceKept
               PROVE  \/ index = 0 /\ Destination = before
                      \/ /\ Destination # Absent
                         /\ IsPrefix(Destination, Source)
                         /\ Offset <= Len(Destination) /\ Len(Destination) < Offset + ChunkSize
    BY DEF FailureSaysHowFar, DestinationLeftAlone, SourceKept, Destination, Source, Offset
  <2> QED
    BY DestinationSays
<1>5. ShortSoFar' /\ LateChunks'
  BY LateChunksKept DEF ShortSoFar
<1> QED
  BY <1>1, <1>2, <1>3, <1>4, <1>5

-----------------------------------------------------------------------------
LEMMA StartKeepsIInv ==
  ASSUME IInv, StartDownload \/ \E overwrite \in BOOLEAN : StartUpload(overwrite)
  PROVE  IInv'
<1> USE DEF IInv, files, Running
<1>1. /\ UNCHANGED <<files, faults, changes, late>> /\ transfers' \in 0..MaxTransfers
      /\ index' = 0 /\ others' = {} /\ short' = FALSE /\ transfers' = transfers + 1
      /\ task' \in [kind : {"upload", "download"}, overwrite : BOOLEAN]
      /\ before' = IF task'.kind = "upload" THEN remote ELSE local
      /\ \/ outcome' = "failed" /\ pc' = "idle"
         \/ outcome' = "running" /\ pc' = "call"
  <2>1. ASSUME StartDownload PROVE outcome' = "running" /\ pc' = "call"
    BY <2>1 DEF StartDownload
  <2>2. ASSUME NEW overwrite \in BOOLEAN, StartUpload(overwrite)
        PROVE  /\ Start("upload", overwrite, remote)
               /\ \/ outcome' = "failed" /\ pc' = "idle"
                  \/ outcome' = "running" /\ pc' = "call"
    BY <2>2 DEF StartUpload, Fail
  <2>3. PICK kind \in {"upload", "download"}, overwrite \in BOOLEAN :
          Start(kind, overwrite, IF kind = "upload" THEN remote ELSE local)
    BY <2>2 DEF StartDownload
  <2>4. task' = [kind |-> kind, overwrite |-> overwrite]
    BY <2>3 DEF Start
  <2>5. transfers' \in 0..MaxTransfers /\ transfers' = transfers + 1
    BY <2>3 DEF Start, TypeOK
  <2>6. /\ UNCHANGED <<files, faults, changes, late>>
        /\ index' = 0 /\ others' = {} /\ short' = FALSE
        /\ before' = IF kind = "upload" THEN remote ELSE local
    BY <2>3 DEF Start
  <2>7. task'.kind = kind /\ task' \in [kind : {"upload", "download"}, overwrite : BOOLEAN]
    BY <2>4
  <2> QED
    BY <2>1, <2>2, <2>5, <2>6, <2>7
<1>2. data' \in Bytes /\ size' \in Nat /\ total' \in Nat \ {0}
  <2>1. CASE StartDownload
    BY <2>1, EmptySeq DEF StartDownload
  <2>2. CASE \E overwrite \in BOOLEAN : StartUpload(overwrite)
    <3>1. CASE local = Absent \/ Len(local) > MaxSize
      <4>1. data' = <<>> /\ size' = 0 /\ total' = 1
        BY <2>2, <3>1 DEF StartUpload
      <4> QED
        BY <4>1, EmptySeq
    <3>2. CASE ~(local = Absent \/ Len(local) > MaxSize)
      <4>1. data' = local /\ size' = Len(local) /\ total' = ChunksOf(Len(local))
        BY <2>2, <3>2 DEF StartUpload
      <4>2. local \in Bytes /\ Len(local) \in Nat
        BY <3>2 DEF TypeOK
      <4> QED
        BY <4>1, <4>2, ChunksSay
    <3> QED
      BY <3>1, <3>2
  <2> QED
    BY <2>1, <2>2
<1>3. Running' /\ task'.kind = "upload" => total' = ChunksOf(Len(data'))
  BY <1>1 DEF StartUpload, StartDownload, Start, Fail
<1>4. TypeOK'
  <2>1. before' \in Bytes \cup {Absent}
    BY <1>1 DEF TypeOK
  <2>2. task' \in [kind : {"none", "upload", "download"}, overwrite : BOOLEAN]
    BY <1>1
  <2>3. /\ UNCHANGED <<files, faults, changes, late>> /\ short' \in BOOLEAN
        /\ outcome' \in {"running", "failed"} /\ pc' \in {"idle", "call"} /\ others' = {}
        /\ transfers' \in 0..MaxTransfers /\ index' = 0
    BY <1>1
  <2> QED
    BY <1>2, <2>1, <2>2, <2>3 DEF TypeOK
<1>5. InTheLoop'
  BY <1>1, <1>2 DEF InTheLoop
<1>6. Uploaded' /\ Downloaded'
  BY <1>1, <1>3 DEF Uploaded, Downloaded
<1>7. Destination' = before'
  BY <1>1 DEF Destination
<1>8. DestinationKept' /\ FailureSaysHowFar'
  BY <1>1, <1>7 DEF DestinationKept, FailureSaysHowFar
<1>9. EndsAtTheCheck'
  BY <1>1 DEF EndsAtTheCheck
<1>10. ShortSoFar'
  BY <1>1 DEF ShortSoFar, Kept, Base, Offset
<1>11. LateChunks'
  <2>1. transfers \in Nat /\ \A r \in late : r.transfer \in Nat
    BY DEF TypeOK
  <2> QED
    BY <1>1, <2>1 DEF LateChunks
<1> QED
  BY <1>4, <1>5, <1>6, <1>8, <1>9, <1>10, <1>11

-----------------------------------------------------------------------------
(* The steps of a call that change no file.                                  *)
LEMMA CallArrivesKeepsIInv == IInv /\ CallArrives => IInv'
<1> SUFFICES ASSUME IInv, CallArrives PROVE IInv'
  OBVIOUS
<1> USE DEF IInv, files, loop, counts, Running
<1>1. /\ UNCHANGED <<files, task, loop, outcome, before, others, late, counts>> /\ pc = "call"
      /\ pc' \in {"stat", "exists", "write"}
      /\ pc' = "stat" <=> task.kind = "download"
      /\ pc' = "exists" => index = 0
      /\ pc' = "write" => index # 0 \/ task.overwrite
  BY DEF CallArrives, Task
<1>2. TypeOK'
  BY <1>1 DEF TypeOK
<1>3. InTheLoop'
  BY <1>1 DEF InTheLoop
<1>4. Uploaded' /\ Downloaded'
  BY <1>1 DEF Uploaded, Downloaded, InTheLoop, UpToOffset, Offset, SizeKnown, OthersOnly, Smooth
<1>5. DestinationKept' /\ FailureSaysHowFar'
  BY <1>1 DEF DestinationKept, FailureSaysHowFar, DestinationLeftAlone, SourceKept,
              Destination, Source, Offset, InTheLoop
<1>6. EndsAtTheCheck'
  BY <1>1 DEF EndsAtTheCheck, DestinationLeftAlone
<1>7. ShortSoFar' /\ LateChunks'
  BY <1>1, ShortSoFarKept, LateChunksKept
<1> QED
  BY <1>2, <1>3, <1>4, <1>5, <1>6, <1>7

LEMMA CheckExistsKeepsIInv == IInv /\ CheckExists => IInv'
<1> SUFFICES ASSUME IInv, CheckExists PROVE IInv'
  OBVIOUS
<1>1. CASE remote # Absent
  BY <1>1, FailingKeepsIInv DEF CheckExists, Fail, Running, loop, counts, IInv, TypeOK
<1>2. CASE remote = Absent
  <2> USE DEF IInv, files, loop, counts, Running
  <2>1. /\ UNCHANGED <<files, task, loop, outcome, before, others, late, counts>>
        /\ pc = "exists" /\ pc' = "write" /\ task.kind = "upload"
    BY <1>2 DEF CheckExists, InTheLoop
  <2>2. TypeOK'
    BY <2>1 DEF TypeOK
  <2>3. InTheLoop'
    BY <2>1 DEF InTheLoop
  <2>4. Uploaded' /\ Downloaded'
    BY <2>1 DEF Uploaded, Downloaded, UpToOffset, Offset, OthersOnly, Smooth
  <2>5. DestinationKept' /\ FailureSaysHowFar'
    BY <2>1 DEF DestinationKept, FailureSaysHowFar, DestinationLeftAlone, SourceKept,
                Destination, Source, Offset, InTheLoop
  <2>6. EndsAtTheCheck'
    BY <1>2, <2>1 DEF EndsAtTheCheck, DestinationLeftAlone
  <2>7. ShortSoFar' /\ LateChunks'
    BY <2>1, ShortSoFarKept, LateChunksKept
  <2> QED
    BY <2>2, <2>3, <2>4, <2>5, <2>6, <2>7
<1> QED
  BY <1>1, <1>2

(* The size is known from the first chunk on.                                *)
LEMMA StatFileKeepsIInv == IInv /\ StatFile => IInv'
<1> SUFFICES ASSUME IInv, StatFile PROVE IInv'
  OBVIOUS
<1>1. CASE remote = Absent
  BY <1>1, FailingKeepsIInv DEF StatFile, Fail, Running, counts, IInv, TypeOK
<1>2. CASE remote # Absent
  <2> USE DEF IInv, files, counts, Running
  <2>1. /\ UNCHANGED <<files, task, data, short, index, outcome, before, others, late, counts>>
        /\ pc = "stat" /\ pc' = "read" /\ task.kind = "download" /\ task.kind # "upload"
        /\ index < total /\ index \in Nat
        /\ IF index = 0 THEN size' = Len(remote) /\ total' = ChunksOf(Len(remote))
                        ELSE UNCHANGED <<size, total>>
    BY <1>2 DEF StatFile, InTheLoop, TypeOK
  <2>2. Len(remote) \in Nat
    BY <1>2 DEF TypeOK
  <2>3. size' \in Nat /\ total' \in Nat \ {0} /\ index < total'
    <3>1. CASE index = 0
      <4>1. ChunksOf(Len(remote)) \in Nat \ {0}
        BY <2>2, ChunksSay
      <4> QED
        BY <2>1, <2>2, <3>1, <4>1
    <3>2. CASE index # 0
      BY <2>1, <3>2 DEF TypeOK
    <3> QED
      BY <3>1, <3>2
  <2>4. TypeOK'
    BY <2>1, <2>3 DEF TypeOK
  <2>5. InTheLoop'
    BY <2>1, <2>3 DEF InTheLoop
  <2>6. SizeKnown'
    <3>1. CASE index = 0
      BY <1>2, <2>1, <2>2, <3>1 DEF SizeKnown
    <3>2. CASE index > 0
      <4>1. SizeKnown
        BY <2>1, <3>2 DEF Downloaded
      <4> QED
        BY <2>1, <3>2, <4>1 DEF SizeKnown, OthersOnly, Smooth
    <3> QED
      BY <2>1, <3>1, <3>2
  <2>7. Uploaded' /\ Downloaded'
    BY <2>1, <2>6 DEF Uploaded, Downloaded, UpToOffset, Offset, OthersOnly, Smooth
  <2>8. DestinationKept' /\ FailureSaysHowFar' /\ EndsAtTheCheck'
    BY <2>1 DEF DestinationKept, FailureSaysHowFar, EndsAtTheCheck, DestinationLeftAlone,
                SourceKept, Destination, Source, Offset, InTheLoop
  <2>9. ShortSoFar' /\ LateChunks'
    BY <2>1, ShortSoFarKept, LateChunksKept
  <2> QED
    BY <2>4, <2>5, <2>7, <2>8, <2>9
<1> QED
  BY <1>1, <1>2

(* Any first part of a piece is a part of the file.                          *)
LEMMA PieceCut ==
  ASSUME NEW f \in Bytes, Offset \in Nat, Offset <= Len(f), NEW k \in 0..Len(Piece(f))
  PROVE  /\ SubSeq(Piece(f), 1, k) \in Bytes
         /\ Len(SubSeq(Piece(f), 1, k)) = k
         /\ PartOf(SubSeq(Piece(f), 1, k), f)
<1>1. Piece(f) \in Bytes /\ PartOf(Piece(f), f)
  BY PieceSays
<1> DEFINE p == Piece(f)
<1>2. p \in Bytes /\ k \in 0..Len(p) /\ PartOf(p, f)
  BY <1>1
<1> HIDE DEF p
<1>3. /\ SubSeq(p, 1, k) \in Bytes /\ Len(SubSeq(p, 1, k)) = k
      /\ \A i \in 1..k : SubSeq(p, 1, k)[i] = p[i]
  BY <1>2, TakeSays
<1>4. Len(p) \in Nat /\ k \in Nat /\ k <= Len(p) /\ Len(f) \in Nat
  BY <1>2
<1>5. /\ Offset + Len(p) <= Len(f)
      /\ \A i \in 1..Len(p) : p[i] = f[Offset + i]
  BY <1>2 DEF PartOf
<1>6. Offset + k <= Len(f)
  BY <1>4, <1>5
<1>7. \A i \in 1..k : SubSeq(p, 1, k)[i] = f[Offset + i]
  BY <1>3, <1>4, <1>5
<1>8. PartOf(SubSeq(p, 1, k), f)
  BY <1>3, <1>6, <1>7 DEF PartOf
<1> QED
  BY <1>3, <1>8 DEF p

LEMMA ReadChunkKeepsIInv == IInv /\ ReadChunk => IInv'
<1> SUFFICES ASSUME IInv, ReadChunk PROVE IInv'
  OBVIOUS
<1>1. CASE Fail
  <2>1. faults' \in 0..MaxFaults
    BY DEF ReadChunk, IInv, TypeOK
  <2> QED
    BY <1>1, <2>1, FailingKeepsIInv DEF ReadChunk, Fail, Running, counts, IInv
<1>2. CASE ~Fail
  <2> USE DEF IInv, files, counts, Running
  <2> DEFINE p == Piece(remote)
  <2>1. /\ UNCHANGED <<files, task, size, total, index, outcome, before, others, late, transfers, changes>>
        /\ pc = "read" /\ pc' = "save" /\ task.kind = "download" /\ task.kind # "upload"
        /\ index < total /\ index \in Nat
        /\ remote \in Bytes /\ SizeKnown /\ size \in Nat /\ total \in Nat
        /\ faults' \in 0..MaxFaults
        /\ \/ data' = p /\ short' = short
           \/ short' = TRUE /\ \E k \in 1..(Len(p) - 1) : data' = SubSeq(p, 1, k)
    BY <1>2 DEF ReadChunk, InTheLoop, TypeOK, Downloaded
  <2>2. Offset \in Nat /\ Len(remote) \in Nat /\ Offset' = Offset
    BY <2>1, OffsetSays DEF Offset
  <2>3. Offset <= size
    <3>1. index \in 0..(ChunksOf(size) - 1)
      BY <2>1 DEF SizeKnown
    <3> QED
      BY <2>1, <3>1, ChunksSay DEF Offset
  <2>4. /\ p \in Bytes /\ Len(p) \in Nat /\ Len(p) <= ChunkSize
        /\ Offset <= Len(remote) =>
             PartOf(p, remote) /\ (Len(p) = ChunkSize \/ Len(remote) <= Offset + Len(p))
    BY <2>1, <2>2, PieceSays
  <2>5. /\ data' \in Bytes /\ Len(data') \in Nat /\ Len(data') <= Len(p)
        /\ ~short' => data' = p
        /\ short' /\ ~short => Len(data') < Len(p)
    <3>1. CASE data' = p /\ short' = short
      BY <2>4, <3>1
    <3>2. CASE short' = TRUE /\ \E k \in 1..(Len(p) - 1) : data' = SubSeq(p, 1, k)
      <4>1. PICK k \in 1..(Len(p) - 1) : data' = SubSeq(p, 1, k)
        BY <3>2
      <4>2. k \in 0..Len(p) /\ k < Len(p) /\ k \in Nat
        BY <2>4
      <4>3. data' \in Bytes /\ Len(data') = k
        BY <2>4, <4>1, <4>2, TakeSays
      <4> QED
        BY <3>2, <4>2, <4>3
    <3> QED
      BY <2>1, <3>1, <3>2
  <2> HIDE DEF p
  <2>6. ChunkRead'
    <3>1. ASSUME Smooth'
          PROVE  /\ Offset + Len(data') <= Len(remote)
                 /\ \A i \in 1..Len(data') : data'[i] = remote[Offset + i]
                 /\ Len(data') = ChunkSize \/ size <= Offset + Len(data')
      <4>1. size <= Len(remote) /\ data' = p
        BY <2>1, <2>5, <3>1 DEF SizeKnown, Smooth, OthersOnly
      <4> QED
        BY <2>1, <2>2, <2>3, <2>4, <4>1 DEF PartOf
    <3> QED
      BY <2>1, <2>2, <2>4, <2>5, <3>1 DEF ChunkRead
  <2>7. TypeOK'
    <3>1. short' \in BOOLEAN
      BY <2>1 DEF TypeOK
    <3> QED
      BY <2>1, <2>5, <3>1 DEF TypeOK
  <2>8. InTheLoop'
    BY <2>1 DEF InTheLoop
  <2>9. SizeKnown'
    BY <2>1 DEF SizeKnown, OthersOnly
  <2>10. Uploaded' /\ Downloaded'
    <3>1. Smooth' => Smooth
      BY <2>1 DEF Smooth, OthersOnly
    <3> QED
      BY <2>1, <2>2, <2>6, <2>9, <3>1 DEF Uploaded, Downloaded, UpToOffset
  <2>11. DestinationKept' /\ FailureSaysHowFar' /\ EndsAtTheCheck'
    <3>1. SourceKept' => SourceKept
      BY <2>1 DEF SourceKept
    <3> QED
      BY <2>1, <3>1 DEF DestinationKept, FailureSaysHowFar, EndsAtTheCheck,
                        DestinationLeftAlone, Destination, InTheLoop
  <2>12. ShortSoFar'
    <3> SUFFICES ASSUME OthersOnly({<<"local", "removed">>}), ~CannotAppend(local)
                 PROVE  /\ Len(Kept(local)) <= Offset
                        /\ short' => /\ Len(Kept(local)) + Len(data') < Offset + ChunkSize
                                     /\ Len(Kept(local)) + Len(data') < size
      <4>1. Kept(local)' = Kept(local) /\ CannotAppend(local)' = CannotAppend(local)
        BY <2>1 DEF Kept, Base, CannotAppend
      <4> QED
        BY <2>1, <2>2, <4>1 DEF ShortSoFar, OthersOnly
    <3>1. OthersOnly(HarmlessToDownload) /\ <<"remote", "extended">> \notin others
      BY DEF OthersOnly, HarmlessToDownload
    <3>2. size = Len(remote) /\ Offset + Len(p) <= size
      BY <2>1, <2>2, <2>3, <2>4, <3>1 DEF SizeKnown, PartOf
    <3>3. Len(Kept(local)) \in Nat
      BY KeptSays DEF TypeOK
    <3>4. /\ Len(Kept(local)) <= Offset
          /\ short => Len(Kept(local)) < Offset
      BY <2>1 DEF ShortSoFar
    <3>5. short' => Len(Kept(local)) + Len(data') < Offset + Len(p)
      BY <2>2, <2>4, <2>5, <3>3, <3>4
    <3> QED
      BY <2>1, <2>2, <2>4, <2>5, <3>2, <3>3, <3>4, <3>5
  <2>13. LateChunks'
    BY <2>1, LateChunksKept
  <2> QED
    BY <2>7, <2>8, <2>10, <2>11, <2>12, <2>13
<1> QED
  BY <1>1, <1>2

-----------------------------------------------------------------------------
(* Where a write takes its bytes from, on either side.                       *)
LEMMA UploadWrites ==
  ASSUME IInv, pc = "write"
  PROVE  /\ task.kind = "upload" /\ index \in 0..(total - 1) /\ total = ChunksOf(Len(data))
         /\ Offset \in Nat /\ Len(data) \in Nat
         /\ Piece(data) \in Bytes /\ Len(Piece(data)) <= ChunkSize /\ PartOf(Piece(data), data)
         /\ Len(Piece(data)) = ChunkSize \/ Len(data) <= Offset + Len(Piece(data))
<1>1. /\ task.kind = "upload" /\ index \in Nat /\ total \in Nat /\ index < total
      /\ total = ChunksOf(Len(data)) /\ data \in Bytes /\ Len(data) \in Nat
  BY DEF IInv, InTheLoop, Running, TypeOK, Uploaded
<1>2. Offset \in Nat
  BY <1>1, OffsetSays
<1>3. index \in 0..(total - 1)
  BY <1>1
<1>4. Offset <= Len(data)
  BY <1>1, <1>3, ChunksSay DEF Offset
<1> QED
  BY <1>1, <1>2, <1>3, <1>4, PieceSays

LEMMA DownloadSaves ==
  ASSUME IInv, pc = "save"
  PROVE  /\ task.kind = "download" /\ index \in 0..(total - 1) /\ total = ChunksOf(size)
         /\ Offset \in Nat /\ size \in Nat /\ data \in Bytes /\ Len(data) <= ChunkSize
         /\ Smooth =>
              /\ remote \in Bytes /\ PartOf(data, remote) /\ size <= Len(remote)
              /\ Len(data) = ChunkSize \/ size <= Offset + Len(data)
              /\ <<"remote", "extended">> \notin others => size = Len(remote)
<1>1. /\ task.kind = "download" /\ index \in Nat /\ total \in Nat /\ index < total
      /\ SizeKnown /\ ChunkRead /\ size \in Nat /\ data \in Bytes
  BY DEF IInv, InTheLoop, Running, TypeOK, Downloaded
<1>2. Offset \in Nat /\ index \in 0..(total - 1) /\ total = ChunksOf(size)
  BY <1>1, OffsetSays DEF SizeKnown
<1>3. Smooth =>
        /\ remote \in Bytes /\ size <= Len(remote)
        /\ <<"remote", "extended">> \notin others => size = Len(remote)
  BY <1>1 DEF SizeKnown, Smooth, IInv, TypeOK
<1>4. Smooth => PartOf(data, remote) /\ (Len(data) = ChunkSize \/ size <= Offset + Len(data))
  BY <1>1 DEF ChunkRead, PartOf
<1>5. Len(data) <= ChunkSize
  BY <1>1 DEF ChunkRead
<1> QED
  BY <1>1, <1>2, <1>3, <1>4, <1>5

(* A chunk that is not the last one is full.                                 *)
LEMMA FullUnlessLast ==
  ASSUME NEW n \in Nat, total = ChunksOf(n), index \in 0..(total - 1), index' = index + 1,
         NEW m \in Nat, m <= ChunkSize, m = ChunkSize \/ n <= Offset + m
  PROVE  /\ index + 1 # total => Offset' = Offset + m /\ index' \in 0..(total - 1)
         /\ index + 1 = total => n <= Offset + m
<1>1. /\ total \in Nat \ {0} /\ index \in Nat /\ Offset \in Nat
      /\ Offset' = Offset + ChunkSize /\ Offset' = (index + 1) * ChunkSize
  <2>1. total \in Nat \ {0}
    BY ChunksSay
  <2>2. index \in Nat
    BY <2>1
  <2> QED
    BY <2>1, <2>2, OffsetSays DEF Offset
<1>2. ASSUME index + 1 # total PROVE Offset' = Offset + m /\ index' \in 0..(total - 1)
  <2>1. index + 1 \in 0..(total - 1) /\ index + 1 > 0
    BY <1>1, <1>2
  <2>2. (index + 1) * ChunkSize < n
    BY <2>1, ChunksSay
  <2> QED
    BY <1>1, <2>1, <2>2
<1>3. ASSUME index + 1 = total PROVE n <= Offset + m
  <2>1. n <= total * ChunkSize
    BY ChunksSay
  <2> QED
    BY <1>1, <1>3, <2>1
<1> QED
  BY <1>2, <1>3

(* A chunk is written: the next one is called for, or the transfer is done.  *)
LEMMA WriteChunkKeepsIInv ==
  ASSUME IInv, WriteChunk
  PROVE  IInv' /\ (outcome' = "ok" /\ OthersOnly(HarmlessToUpload) => remote' = data)
<1> DEFINE p == Piece(data)
<1>1. /\ task.kind = "upload" /\ index \in 0..(total - 1) /\ total = ChunksOf(Len(data))
      /\ Offset \in Nat /\ Len(data) \in Nat /\ index \in Nat
      /\ p \in Bytes /\ Len(p) \in Nat /\ Len(p) <= ChunkSize /\ PartOf(p, data)
      /\ Len(p) = ChunkSize \/ Len(data) <= Offset + Len(p)
  BY UploadWrites DEF WriteChunk
<1>2. /\ pc = "write" /\ outcome = "running"
      /\ UNCHANGED <<local, task, data, short, size, total, before, others, late, transfers, changes>>
      /\ remote \in Bytes \cup {Absent} /\ data \in Bytes
  BY DEF WriteChunk, IInv, InTheLoop, Running, TypeOK
<1> HIDE DEF p
<1>3. CASE CannotAppend(remote) /\ Fail /\ UNCHANGED <<index, remote, faults>>
  BY <1>2, <1>3, FailingKeepsIInv DEF Fail, files, Running, IInv, TypeOK
<1>4. ASSUME ~CannotAppend(remote),
             Written(remote, Kept(remote), p, remote')
             \/ WriteFails(remote, Kept(remote), p, remote')
      PROVE  /\ remote' \in Bytes \cup {Absent} /\ faults' \in 0..MaxFaults
             /\ Written(remote, Kept(remote), p, remote') => remote' \in Bytes
             /\ OthersOnly(HarmlessToUpload) =>
                  /\ Written(remote, Kept(remote), p, remote') =>
                       IsPrefix(remote', data) /\ Len(remote') = Offset + Len(p)
                  /\ WriteFails(remote, Kept(remote), p, remote') =>
                       \/ remote' = remote
                       \/ /\ remote' \in Bytes /\ IsPrefix(remote', data)
                          /\ Offset <= Len(remote') /\ Len(remote') < Offset + ChunkSize
  <2>1. TypeOK
    BY DEF IInv
  <2>2. /\ remote' \in Bytes \cup {Absent} /\ faults' \in 0..MaxFaults
        /\ Written(remote, Kept(remote), p, remote') => remote' \in Bytes
    BY <1>1, <1>2, <1>4, <2>1, WriteTyped
  <2>3. index > 0 /\ OthersOnly(HarmlessToUpload) => remote = Absent \/ UpToOffset(remote, data)
    BY <1>1, <1>2 DEF IInv, Uploaded, Running
  <2> QED
    BY <1>1, <1>2, <1>4, <2>1, <2>2, <2>3, WriteSays
<1>5. CASE /\ ~CannotAppend(remote) /\ WriteFails(remote, Kept(remote), p, remote')
           /\ Fail /\ UNCHANGED index
  <2>1. CASE remote' = remote
    BY <1>2, <1>4, <1>5, <2>1, FailingKeepsIInv DEF Fail, files, Running
  <2>2. CASE remote' # remote
    <3>1. TypeOK'
      BY <1>2, <1>4, <1>5 DEF IInv, TypeOK, Fail
    <3>2. InTheLoop' /\ Uploaded' /\ Downloaded' /\ DestinationKept'
      BY <1>5 DEF Fail, InTheLoop, Uploaded, Downloaded, DestinationKept, Running
    <3>3. EndsAtTheCheck'
      BY <1>1, <1>2 DEF IInv, EndsAtTheCheck, DestinationLeftAlone, Running
    <3>4. FailureSaysHowFar'
      <4>1. DestinationLeftAlone' /\ SourceKept' => OthersOnly(HarmlessToUpload)
        BY <1>1, <1>2, AloneIsHarmless DEF IInv, DestinationLeftAlone, SourceKept
      <4>2. Destination' = remote' /\ Source' = data /\ Offset' = Offset
        BY <1>1, <1>2, <1>5 DEF Destination, Source, Offset
      <4> QED
        BY <1>4, <1>5, <2>2, <4>1, <4>2 DEF FailureSaysHowFar
    <3>5. ShortSoFar' /\ LateChunks'
      BY <1>2, <1>5, LateChunksKept DEF Fail, ShortSoFar, Running, IInv
    <3> QED
      BY <1>5, <3>1, <3>2, <3>3, <3>4, <3>5 DEF IInv, Fail
  <2> QED
    BY <1>5, <2>1, <2>2 DEF Fail
<1>6. CASE /\ ~CannotAppend(remote) /\ Written(remote, Kept(remote), p, remote')
           /\ NextChunk(total)
  <2>1. /\ index' = index + 1 /\ total \in Nat
        /\ IF index + 1 = total THEN outcome' = "ok" /\ pc' = "idle"
                                ELSE outcome' = "running" /\ pc' = "call"
    BY <1>1, <1>6 DEF NextChunk, IInv, TypeOK
  <2>2. /\ index + 1 # total => Offset' = Offset + Len(p) /\ index' \in 0..(total - 1)
        /\ index + 1 = total => Len(data) <= Offset + Len(p)
    BY <1>1, <2>1, FullUnlessLast
  <2>3. /\ remote' \in Bytes /\ remote' # Absent /\ faults' \in 0..MaxFaults
        /\ OthersOnly(HarmlessToUpload) => IsPrefix(remote', data) /\ Len(remote') = Offset + Len(p)
    BY <1>4, <1>6
  <2>4. TypeOK'
    <3>1. index' \in 0..total'
      BY <1>1, <1>2, <2>1
    <3> QED
      BY <1>2, <2>1, <2>3, <3>1 DEF IInv, TypeOK
  <2>5. InTheLoop'
    BY <1>1, <1>2, <2>1, <2>2 DEF InTheLoop, Running
  <2>6. Uploaded' /\ Downloaded'
    <3>1. OthersOnly(HarmlessToUpload)' <=> OthersOnly(HarmlessToUpload)
      BY <1>2 DEF OthersOnly, Smooth
    <3>2. pc' # "idle" /\ OthersOnly(HarmlessToUpload) => UpToOffset(remote, data)'
      BY <1>2, <2>1, <2>2, <2>3 DEF UpToOffset
    <3> QED
      BY <1>1, <1>2, <3>1, <3>2 DEF Uploaded, Downloaded, Running
  <2>7. DestinationKept' /\ FailureSaysHowFar'
    BY <1>1, <1>2, <2>1, <2>3 DEF DestinationKept, FailureSaysHowFar, Destination
  <2>8. EndsAtTheCheck'
    BY <1>1, <1>2 DEF IInv, EndsAtTheCheck, DestinationLeftAlone, Running
  <2>9. outcome' = "ok" /\ OthersOnly(HarmlessToUpload) => remote' = data
    BY <1>2, <2>1, <2>2, <2>3, WholePrefix
  <2>10. ShortSoFar' /\ LateChunks'
    BY <1>1, <1>2, LateChunksKept DEF ShortSoFar, Running, IInv
  <2> QED
    BY <2>4, <2>5, <2>6, <2>7, <2>8, <2>9, <2>10 DEF IInv
<1>7. \/ CannotAppend(remote) /\ Fail /\ UNCHANGED <<index, remote, faults>>
      \/ /\ ~CannotAppend(remote) /\ WriteFails(remote, Kept(remote), p, remote')
         /\ Fail /\ UNCHANGED index
      \/ ~CannotAppend(remote) /\ Written(remote, Kept(remote), p, remote') /\ NextChunk(total)
  BY DEF WriteChunk, p
<1> QED
  BY <1>3, <1>5, <1>6, <1>7 DEF Fail

LEMMA SaveChunkKeepsIInv ==
  ASSUME IInv, SaveChunk
  PROVE  /\ IInv'
         /\ outcome' = "ok" /\ Smooth =>
              /\ IsPrefix(local', remote) /\ Len(local') >= size
              /\ <<"remote", "extended">> \notin others => local' = remote
         /\ outcome' = "ok" /\ short /\ OthersOnly({<<"local", "removed">>}) => Len(local') < size
<1>1. /\ task.kind = "download" /\ index \in 0..(total - 1) /\ total = ChunksOf(size)
      /\ Offset \in Nat /\ size \in Nat /\ index \in Nat
      /\ data \in Bytes /\ Len(data) \in Nat /\ Len(data) <= ChunkSize
      /\ Smooth =>
           /\ remote \in Bytes /\ PartOf(data, remote) /\ size <= Len(remote)
           /\ Len(data) = ChunkSize \/ size <= Offset + Len(data)
           /\ <<"remote", "extended">> \notin others => size = Len(remote)
  BY DownloadSaves DEF SaveChunk
<1>2. /\ pc = "save" /\ outcome = "running"
      /\ UNCHANGED <<remote, task, data, short, size, total, before, others, late, transfers, changes>>
      /\ local \in Bytes \cup {Absent}
  BY DEF SaveChunk, IInv, InTheLoop, Running, TypeOK
<1>3. CASE CannotAppend(local) /\ Fail /\ UNCHANGED <<index, local, faults>>
  BY <1>2, <1>3, FailingKeepsIInv DEF Fail, files, Running, IInv, TypeOK
<1>4. ASSUME ~CannotAppend(local),
             Written(local, Kept(local), data, local')
             \/ WriteFails(local, Kept(local), data, local')
      PROVE  /\ local' \in Bytes \cup {Absent} /\ faults' \in 0..MaxFaults
             /\ Written(local, Kept(local), data, local') => local' \in Bytes
             /\ Smooth =>
                  /\ Written(local, Kept(local), data, local') =>
                       IsPrefix(local', remote) /\ Len(local') = Offset + Len(data)
                  /\ WriteFails(local, Kept(local), data, local') =>
                       \/ local' = local
                       \/ /\ local' \in Bytes /\ IsPrefix(local', remote)
                          /\ Offset <= Len(local') /\ Len(local') < Offset + ChunkSize
  <2>1. TypeOK
    BY DEF IInv
  <2>2. /\ local' \in Bytes \cup {Absent} /\ faults' \in 0..MaxFaults
        /\ Written(local, Kept(local), data, local') => local' \in Bytes
    BY <1>1, <1>2, <1>4, <2>1, WriteTyped
  <2>3. index > 0 /\ Smooth => local = Absent \/ UpToOffset(local, remote)
    BY <1>1, <1>2 DEF IInv, Downloaded, Running
  <2> QED
    BY <1>1, <1>2, <1>4, <2>1, <2>2, <2>3, WriteSays
<1>5. CASE /\ ~CannotAppend(local) /\ WriteFails(local, Kept(local), data, local')
           /\ Fail /\ UNCHANGED index
  <2>1. CASE local' = local
    BY <1>2, <1>4, <1>5, <2>1, FailingKeepsIInv DEF Fail, files, Running
  <2>2. CASE local' # local
    <3>1. TypeOK'
      BY <1>2, <1>4, <1>5 DEF IInv, TypeOK, Fail
    <3>2. InTheLoop' /\ Uploaded' /\ Downloaded' /\ DestinationKept'
      BY <1>5 DEF Fail, InTheLoop, Uploaded, Downloaded, DestinationKept, Running
    <3>3. EndsAtTheCheck'
      BY <1>1, <1>2 DEF EndsAtTheCheck
    <3>4. FailureSaysHowFar'
      <4>1. DestinationLeftAlone' /\ SourceKept' => Smooth
        BY <1>1, <1>2, AloneIsHarmless DEF IInv, DestinationLeftAlone, SourceKept
      <4>2. Destination' = local' /\ Source' = remote /\ Offset' = Offset
        BY <1>1, <1>2, <1>5 DEF Destination, Source, Offset
      <4> QED
        BY <1>4, <1>5, <2>2, <4>1, <4>2 DEF FailureSaysHowFar
    <3>5. ShortSoFar' /\ LateChunks'
      BY <1>2, <1>5, LateChunksKept DEF Fail, ShortSoFar, Running, IInv
    <3> QED
      BY <1>5, <3>1, <3>2, <3>3, <3>4, <3>5 DEF IInv, Fail
  <2> QED
    BY <1>5, <2>1, <2>2 DEF Fail
<1>6. CASE /\ ~CannotAppend(local) /\ Written(local, Kept(local), data, local')
           /\ NextChunk(total)
  <2>1. /\ index' = index + 1 /\ total \in Nat
        /\ IF index + 1 = total THEN outcome' = "ok" /\ pc' = "idle"
                                ELSE outcome' = "running" /\ pc' = "call"
    BY <1>1, <1>6 DEF NextChunk, IInv, TypeOK
  <2>2. index + 1 # total => index' \in 0..(total - 1)
    BY <1>1, <2>1
  <2>3. Smooth =>
          /\ index + 1 # total => Offset' = Offset + Len(data)
          /\ index + 1 = total => size <= Offset + Len(data)
    BY <1>1, <2>1, FullUnlessLast
  <2>4. /\ local' \in Bytes /\ local' # Absent /\ faults' \in 0..MaxFaults
        /\ Smooth =>
             IsPrefix(local', remote) /\ Len(local') = Offset + Len(data)
    BY <1>4, <1>6
  <2>5. TypeOK'
    <3>1. index' \in 0..total'
      BY <1>1, <1>2, <2>1
    <3> QED
      BY <1>2, <2>1, <2>4, <3>1 DEF IInv, TypeOK
  <2>6. InTheLoop'
    BY <1>1, <1>2, <2>1, <2>2 DEF InTheLoop, Running
  <2>7. Uploaded' /\ Downloaded'
    <3>1. Smooth' <=> Smooth
      BY <1>2 DEF OthersOnly, Smooth
    <3>2. pc' # "idle" /\ Smooth => UpToOffset(local, remote)'
      BY <1>2, <2>1, <2>3, <2>4 DEF UpToOffset
    <3>3. SizeKnown'
      <4>1. SizeKnown
        BY <1>1, <1>2 DEF IInv, Downloaded, Running
      <4> QED
        BY <1>2, <4>1 DEF SizeKnown, OthersOnly
    <3> QED
      BY <1>1, <1>2, <2>1, <3>1, <3>2, <3>3 DEF Uploaded, Downloaded, Running
  <2>8. DestinationKept' /\ FailureSaysHowFar'
    BY <1>1, <1>2, <2>1, <2>4 DEF DestinationKept, FailureSaysHowFar, Destination
  <2>9. EndsAtTheCheck'
    BY <1>1, <1>2 DEF EndsAtTheCheck
  <2>10. outcome' = "ok" /\ Smooth =>
           /\ IsPrefix(local', remote) /\ Len(local') >= size
           /\ <<"remote", "extended">> \notin others => local' = remote
    BY <1>1, <2>1, <2>3, <2>4, WholePrefix
  <2>11. OthersOnly({<<"local", "removed">>}) =>
           /\ Len(local') <= Offset + ChunkSize
           /\ short => Len(local') < Offset + ChunkSize /\ Len(local') < size
    <3> SUFFICES ASSUME OthersOnly({<<"local", "removed">>})
                 PROVE  /\ Len(local') <= Offset + ChunkSize
                        /\ short => Len(local') < Offset + ChunkSize /\ Len(local') < size
      OBVIOUS
    <3>1. local' = Kept(local) \o data /\ Kept(local) \in Bytes
      BY <1>2, <1>6, KeptSays DEF Written, IInv
    <3>2. Len(local') = Len(Kept(local)) + Len(data) /\ Len(Kept(local)) \in Nat
      BY <1>1, <3>1, ConcatSays
    <3>3. /\ Len(Kept(local)) <= Offset
          /\ short => /\ Len(Kept(local)) + Len(data) < Offset + ChunkSize
                      /\ Len(Kept(local)) + Len(data) < size
      BY <1>1, <1>2, <1>6 DEF IInv, ShortSoFar, Running
    <3> QED
      BY <1>1, <3>2, <3>3
  <2>12. ShortSoFar'
    <3> SUFFICES ASSUME OthersOnly({<<"local", "removed">>}), pc' = "call"
                 PROVE  /\ Len(Kept(local)') <= Offset'
                        /\ short => Len(Kept(local)') < Offset'
      BY <1>2, <2>1 DEF ShortSoFar, OthersOnly, Running
    <3>1. Kept(local)' = local' /\ Offset' = Offset + ChunkSize
      <4>1. index' # 0
        BY <1>1, <2>1
      <4> QED
        BY <1>1, <2>1, <4>1, OffsetSays DEF Kept, Base
    <3> QED
      BY <2>11, <3>1
  <2>13. LateChunks'
    BY <1>2, LateChunksKept DEF Running, IInv
  <2>14. outcome' = "ok" /\ short /\ OthersOnly({<<"local", "removed">>}) => Len(local') < size
    BY <2>11
  <2> QED
    BY <2>5, <2>6, <2>7, <2>8, <2>9, <2>10, <2>12, <2>13, <2>14 DEF IInv
<1>7. \/ CannotAppend(local) /\ Fail /\ UNCHANGED <<index, local, faults>>
      \/ /\ ~CannotAppend(local) /\ WriteFails(local, Kept(local), data, local')
         /\ Fail /\ UNCHANGED index
      \/ ~CannotAppend(local) /\ Written(local, Kept(local), data, local') /\ NextChunk(total)
  BY DEF SaveChunk
<1> QED
  BY <1>3, <1>5, <1>6, <1>7 DEF Fail

-----------------------------------------------------------------------------
(* What other programs do: harmless, or excluded by the history.             *)
LEMMA EffectSays ==
  ASSUME NEW old \in Bytes \cup {Absent}, NEW new \in Bytes \cup {Absent}
  PROVE  /\ Effect(old, new) \in {"removed", "replaced", "extended"}
         /\ Effect(old, new) = "removed" => new = Absent
         /\ Effect(old, new) = "extended" => old \in Bytes /\ new \in Bytes /\ IsPrefix(old, new)
  BY DEF Effect

LEMMA OthersTyped ==
  ASSUME TypeOK, NEW new \in Files \cup {Absent}, NEW machine \in Machines,
         NEW old \in Bytes \cup {Absent}, OthersChange(machine, old, new)
  PROVE  /\ new \in Bytes \cup {Absent}
         /\ others' \subseteq (Machines \X {"removed", "replaced", "extended"}) \cup {<<"remote", "late">>}
         /\ changes' \in 0..MaxChanges
<1>1. new \in Bytes \cup {Absent}
  OBVIOUS
<1>2. <<machine, Effect(old, new)>> \in Machines \X {"removed", "replaced", "extended"}
  BY <1>1, EffectSays
<1> QED
  BY <1>1, <1>2 DEF OthersChange, TypeOK

LEMMA LocalChangeKeepsIInv ==
  ASSUME IInv, NEW new \in Files \cup {Absent}, OthersChange("local", local, new),
         local' = new, UNCHANGED remote
  PROVE  IInv'
<1> DEFINE e == <<"local", Effect(local, new)>>
<1>1. /\ UNCHANGED <<remote, task, pc, data, short, size, total, index, outcome, before, late, transfers, faults>>
      /\ others' = others \cup {e} /\ TypeOK
  BY DEF OthersChange, loop, IInv
<1>2. TypeOK'
  <2>1. /\ new \in Bytes \cup {Absent}
        /\ others' \subseteq (Machines \X {"removed", "replaced", "extended"}) \cup {<<"remote", "late">>}
        /\ changes' \in 0..MaxChanges
    BY <1>1, OthersTyped DEF TypeOK, Machines
  <2> QED
    BY <1>1, <2>1 DEF TypeOK
<1>3. InTheLoop'
  BY <1>1 DEF IInv, InTheLoop, Running
<1>4. e[1] = "local" /\ (e \in HarmlessToDownload => local' = Absent)
  <2>1. e \in HarmlessToDownload => Effect(local, new) = "removed"
    BY DEF HarmlessToDownload
  <2> QED
    BY <1>1, <2>1, EffectSays DEF TypeOK
<1> HIDE DEF e
<1>5. Uploaded'
  BY <1>1 DEF IInv, Uploaded, Running, OthersOnly, Smooth, UpToOffset, Offset
<1>6. Downloaded'
  <2>1. SizeKnown => SizeKnown'
    BY <1>1 DEF SizeKnown, OthersOnly, Smooth
  <2>2. ChunkRead => ChunkRead'
    BY <1>1 DEF ChunkRead, OthersOnly, Smooth, Offset
  <2>3. Smooth' => local' = Absent
    BY <1>1, <1>4 DEF OthersOnly, Smooth
  <2> QED
    BY <1>1, <2>1, <2>2, <2>3 DEF IInv, Downloaded, Running
<1>7. DestinationKept' /\ FailureSaysHowFar' /\ EndsAtTheCheck'
  <2>1. CASE task.kind = "upload"
    <3>1. DestinationLeftAlone' => DestinationLeftAlone
      BY <1>1 DEF DestinationLeftAlone
    <3>2. SourceKept /\ Destination' = Destination /\ Source' = Source /\ Offset' = Offset
      BY <1>1, <2>1 DEF SourceKept, Destination, Source, Offset
    <3> QED
      BY <1>1, <2>1, <3>1, <3>2 DEF IInv, DestinationKept, FailureSaysHowFar, EndsAtTheCheck, Running
  <2>2. CASE task.kind # "upload"
    <3>1. ~DestinationLeftAlone'
      BY <1>1, <1>4, <2>2 DEF DestinationLeftAlone
    <3> QED
      BY <1>1, <2>2, <3>1 DEF DestinationKept, FailureSaysHowFar, EndsAtTheCheck
  <2> QED
    BY <2>1, <2>2
<1>8. ShortSoFar'
  <2> SUFFICES ASSUME OthersOnly({<<"local", "removed">>})', ~CannotAppend(local)', Running,
                      task.kind = "download"
               PROVE  ShortSoFar'
    BY <1>1 DEF ShortSoFar, Running
  <2>1. OthersOnly({<<"local", "removed">>}) /\ local' = Absent
    BY <1>1, <1>4 DEF OthersOnly, HarmlessToDownload
  <2>2. index = 0 /\ index' = 0
    BY <1>1, <2>1 DEF CannotAppend, TypeOK
  <2>3. Kept(local)' = Kept(local) /\ ~CannotAppend(local) /\ Offset' = Offset
    BY <1>1, <2>2 DEF Kept, Base, CannotAppend, Offset
  <2> QED
    BY <1>1, <2>1, <2>3 DEF IInv, ShortSoFar
<1>9. LateChunks'
  <2>1. \A m, w : <<m, w>>[1] = m
    OBVIOUS
  <2>2. DestinationLeftAlone' /\ task.kind = "upload" => DestinationLeftAlone
    BY <1>1 DEF DestinationLeftAlone
  <2>3. OthersOnly(HarmlessToUpload)' => OthersOnly(HarmlessToUpload)
    BY <1>1 DEF OthersOnly
  <2>4. ASSUME NEW r \in late, ToBeWritten(r) PROVE ToBeWritten(r)'
    BY <1>1, <2>2, <2>3, <2>4 DEF ToBeWritten, PartOf, UpToOffset, Offset
  <2> QED
    BY <1>1, <2>4 DEF IInv, LateChunks
<1> QED
  BY <1>2, <1>3, <1>5, <1>6, <1>7, <1>8, <1>9 DEF IInv

(* The remote file changes, and e says how.                                  *)
LEMMA RemoteOthersKeepsIInv ==
  ASSUME IInv, TypeOK', NEW e, others' = others \cup {e}, e[1] = "remote",
         e[2] \in {"removed", "replaced", "extended", "late"}, e = <<e[1], e[2]>>,
         e[2] = "removed" => remote' = Absent,
         e[2] = "extended" => remote \in Bytes /\ remote' \in Bytes /\ IsPrefix(remote, remote'),
         late' \subseteq late,
         UNCHANGED <<local, task, pc, data, short, size, total, index, outcome, before, transfers>>
  PROVE  IInv'
<1>1. /\ UNCHANGED <<local, task, pc, data, short, size, total, index, outcome, before, transfers>>
      /\ others' = others \cup {e} /\ TypeOK /\ remote \in Bytes \cup {Absent}
  BY DEF IInv, TypeOK
<1>2. TypeOK' /\ remote' \in Bytes \cup {Absent}
  BY DEF TypeOK
<1>3. InTheLoop'
  BY <1>1 DEF IInv, InTheLoop, Running
<1>4. /\ e[1] = "remote" /\ (e \in HarmlessToUpload => remote' = Absent)
      /\ e \in HarmlessToDownload => e = <<"remote", "extended">>
      /\ e = <<"remote", "extended">> =>
           remote \in Bytes /\ remote' \in Bytes /\ IsPrefix(remote, remote')
  BY DEF HarmlessToUpload, HarmlessToDownload
<1>5. Uploaded'
  <2>1. OthersOnly(HarmlessToUpload)' => remote' = Absent
    BY <1>1, <1>4 DEF OthersOnly, Smooth
  <2> QED
    BY <1>1, <2>1 DEF IInv, Uploaded, Running
<1>6. e = <<"remote", "extended">> =>
        /\ remote \in Bytes /\ remote' \in Bytes /\ Len(remote) <= Len(remote')
        /\ Len(remote) \in Nat /\ Len(remote') \in Nat
        /\ \A i \in 1..Len(remote) : remote[i] = remote'[i]
        /\ \A f \in Bytes : IsPrefix(f, remote) => IsPrefix(f, remote')
  BY <1>4, PrefixSays, PrefixTransitive
<1>7. Downloaded'
  <2>0. OthersOnly(HarmlessToDownload)' =>
          OthersOnly(HarmlessToDownload) /\ e = <<"remote", "extended">> /\ e \in others'
    BY <1>1, <1>4 DEF OthersOnly
  <2>1. Smooth' => Smooth /\ e = <<"remote", "extended">>
    BY <1>1, <2>0 DEF Smooth
  <2>2. ASSUME SizeKnown PROVE SizeKnown'
    <3>1. size \in Nat /\ Absent \notin Bytes
      BY <1>1 DEF TypeOK
    <3>2. ASSUME OthersOnly(HarmlessToDownload)'
          PROVE  /\ remote' # Absent /\ size <= Len(remote')
                 /\ <<"remote", "extended">> \in others'
      <4>1. size <= Len(remote)
        BY <2>0, <2>2, <3>2 DEF SizeKnown
      <4>2. remote' \in Bytes /\ Len(remote) <= Len(remote') /\ Len(remote) \in Nat /\ Len(remote') \in Nat
        BY <1>6, <2>0, <3>2
      <4> QED
        BY <2>0, <3>1, <3>2, <4>1, <4>2
    <3> QED
      BY <1>1, <2>2, <3>2 DEF SizeKnown
  <2>3. ASSUME ChunkRead, pc = "save" PROVE ChunkRead'
    <3>1. data \in Bytes /\ Len(data) \in Nat /\ Offset' = Offset
      BY <1>1 DEF TypeOK, Offset
    <3>2. Offset \in Nat
      BY <1>1, OffsetSays DEF TypeOK
    <3>3. ASSUME Smooth', NEW i \in 1..Len(data)
          PROVE  data[i] = remote'[Offset + i]
      <4>1. /\ Len(remote) \in Nat /\ Offset + Len(data) <= Len(remote)
            /\ data[i] = remote[Offset + i]
        BY <1>6, <2>1, <2>3, <3>3 DEF ChunkRead
      <4>2. Offset + i \in 1..Len(remote)
        BY SMTT(30), <3>1, <3>2, <4>1
      <4> QED
        BY <1>6, <2>1, <3>3, <4>1, <4>2
    <3>4. Smooth' => Offset + Len(data) <= Len(remote')
      BY <1>6, <2>1, <2>3, <3>1, <3>2 DEF ChunkRead
    <3> QED
      BY <1>1, <2>1, <2>3, <3>1, <3>3, <3>4 DEF ChunkRead
  <2>4. ASSUME Smooth', local # Absent, UpToOffset(local, remote)
        PROVE  UpToOffset(local, remote)'
    BY <1>1, <1>6, <2>1, <2>4 DEF UpToOffset, Offset, TypeOK
  <2> QED
    BY <1>1, <2>1, <2>2, <2>3, <2>4 DEF IInv, Downloaded, Running
<1>8. DestinationKept' /\ FailureSaysHowFar' /\ EndsAtTheCheck'
  <2>1. CASE task.kind = "upload"
    <3>1. ~DestinationLeftAlone'
      BY <1>1, <1>4, <2>1 DEF DestinationLeftAlone
    <3> QED
      BY <3>1 DEF DestinationKept, FailureSaysHowFar, EndsAtTheCheck
  <2>2. CASE task.kind # "upload"
    <3>1. /\ DestinationLeftAlone' => DestinationLeftAlone
          /\ SourceKept' => SourceKept /\ e = <<"remote", "extended">>
      BY <1>1, <1>4, <2>2 DEF DestinationLeftAlone, SourceKept
    <3>2. /\ Destination = local /\ Destination' = local /\ Source = remote /\ Source' = remote'
          /\ Offset' = Offset /\ local \in Bytes \cup {Absent}
      BY <1>1, <2>2 DEF Destination, Source, Offset, TypeOK
    <3>3. DestinationKept'
      BY <1>1, <3>1, <3>2 DEF IInv, DestinationKept, Running
    <3>4. FailureSaysHowFar'
      BY <1>1, <1>6, <3>1, <3>2 DEF IInv, FailureSaysHowFar
    <3> QED
      BY <1>1, <2>2, <3>3, <3>4 DEF EndsAtTheCheck
  <2> QED
    BY <2>1, <2>2
<1>9. ShortSoFar'
  <2>1. ~OthersOnly({<<"local", "removed">>})'
    BY <1>1, <1>4 DEF OthersOnly
  <2> QED
    BY <2>1 DEF ShortSoFar
<1>10. LateChunks'
  <2>1. task.kind = "upload" => ~DestinationLeftAlone'
    BY <1>1, <1>4 DEF DestinationLeftAlone
  <2>2. OthersOnly(HarmlessToUpload)' => remote' = Absent
    BY <1>1, <1>4 DEF OthersOnly
  <2>3. ASSUME NEW r \in late, ToBeWritten(r) PROVE ToBeWritten(r)'
    BY <1>1, <2>1, <2>2, <2>3 DEF ToBeWritten, PartOf, Offset
  <2> QED
    BY <1>1, <2>3 DEF IInv, LateChunks
<1> QED
  BY <1>2, <1>3, <1>5, <1>7, <1>8, <1>9, <1>10 DEF IInv

LEMMA RemoteChangeKeepsIInv ==
  ASSUME IInv, NEW new \in Files \cup {Absent}, OthersChange("remote", remote, new),
         remote' = new, UNCHANGED local
  PROVE  IInv'
<1> DEFINE e == <<"remote", Effect(remote, new)>>
<1>1. /\ UNCHANGED <<local, task, pc, data, short, size, total, index, outcome, before, late, transfers, faults>>
      /\ others' = others \cup {e} /\ TypeOK /\ remote \in Bytes \cup {Absent}
  BY DEF OthersChange, loop, IInv, TypeOK
<1>2. TypeOK' /\ new \in Bytes \cup {Absent}
  <2>1. /\ new \in Bytes \cup {Absent}
        /\ others' \subseteq (Machines \X {"removed", "replaced", "extended"}) \cup {<<"remote", "late">>}
        /\ changes' \in 0..MaxChanges
    BY <1>1, OthersTyped DEF Machines
  <2> QED
    BY <1>1, <2>1 DEF TypeOK
<1>3. /\ Effect(remote, new) \in {"removed", "replaced", "extended"}
      /\ Effect(remote, new) = "removed" => new = Absent
      /\ Effect(remote, new) = "extended" =>
           remote \in Bytes /\ new \in Bytes /\ IsPrefix(remote, new)
  BY <1>1, <1>2, EffectSays
<1>4. e[1] = "remote" /\ e[2] = Effect(remote, new)
  OBVIOUS
<1> HIDE DEF e
<1>5. e = <<e[1], e[2]>>
  BY <1>4 DEF e
<1> QED
  BY <1>1, <1>2, <1>3, <1>4, <1>5, RemoteOthersKeepsIInv

-----------------------------------------------------------------------------
(* A call is cancelled: from here on its chunk may be written late.          *)
LEMMA CallCancelledKeepsIInv == IInv /\ CallCancelled => IInv'
<1> SUFFICES ASSUME IInv, CallCancelled PROVE IInv'
  OBVIOUS
<1> DEFINE r == [transfer |-> transfers, first |-> index = 0, chunk |-> Piece(data),
                 pc |-> IF pc = "call" THEN Task ELSE pc]
<1>1. /\ UNCHANGED <<files, task, data, short, size, total, index, before, others, transfers, changes>>
      /\ pc \in {"call", "exists", "write", "stat", "read"} /\ Running
      /\ outcome' = "unanswered" /\ pc' = "idle" /\ faults' \in 0..MaxFaults
      /\ task.kind # "upload" => late' = late
      /\ task.kind = "upload" => late' = late \cup {r}
      /\ task.kind \in {"upload", "download"} /\ index \in Nat /\ index < total
  BY DEF CallCancelled, loop, IInv, InTheLoop, Running, TypeOK
<1>2. task.kind = "upload" =>
        /\ Piece(data) \in Bytes /\ Len(Piece(data)) <= ChunkSize /\ PartOf(Piece(data), data)
        /\ (IF pc = "call" THEN Task ELSE pc) \in {"exists", "write"}
  <2> SUFFICES ASSUME task.kind = "upload"
               PROVE  /\ Piece(data) \in Bytes /\ Len(Piece(data)) <= ChunkSize
                      /\ PartOf(Piece(data), data)
                      /\ (IF pc = "call" THEN Task ELSE pc) \in {"exists", "write"}
    OBVIOUS
  <2>1. Offset \in Nat /\ Offset <= Len(data) /\ data \in Bytes
    <3>1. Offset \in Nat /\ data \in Bytes /\ Len(data) \in Nat /\ total = ChunksOf(Len(data))
      BY <1>1, OffsetSays DEF IInv, TypeOK, Uploaded
    <3>2. index \in 0..(ChunksOf(Len(data)) - 1)
      BY <1>1, <3>1, ChunksSay
    <3> QED
      BY <3>1, <3>2, ChunksSay DEF Offset
  <2>2. pc \in {"call", "exists", "write"} /\ (pc = "call" => Task \in {"exists", "write"})
    BY <1>1 DEF IInv, InTheLoop, Task
  <2> QED
    BY <2>1, <2>2, PieceSays
<1>3. /\ r.transfer = transfers /\ r.first = (index = 0) /\ r.chunk = Piece(data)
      /\ r.pc = IF pc = "call" THEN Task ELSE pc
  OBVIOUS
<1>4. late' \subseteq [transfer : 0..MaxTransfers, first : BOOLEAN, chunk : Bytes,
                       pc : {"exists", "write"}]
  <2>1. task.kind = "upload" => r \in [transfer : 0..MaxTransfers, first : BOOLEAN, chunk : Bytes,
                                       pc : {"exists", "write"}]
    BY <1>2 DEF IInv, TypeOK
  <2> HIDE DEF r
  <2> QED
    BY <1>1, <2>1 DEF IInv, TypeOK
<1> HIDE DEF r
<1>10. PICK c : c = r
  OBVIOUS
<1>5. TypeOK'
  BY <1>1, <1>4 DEF IInv, TypeOK, files
<1>6. InTheLoop' /\ Uploaded' /\ Downloaded' /\ DestinationKept' /\ ShortSoFar'
  BY <1>1 DEF InTheLoop, Uploaded, Downloaded, DestinationKept, ShortSoFar, Running
<1>7. EndsAtTheCheck'
  BY <1>1 DEF IInv, EndsAtTheCheck, DestinationLeftAlone, Running, files
<1>8. FailureSaysHowFar'
  <2> SUFFICES ASSUME DestinationLeftAlone, SourceKept
               PROVE  \/ index = 0 /\ Destination = before
                      \/ /\ Destination # Absent
                         /\ IsPrefix(Destination, Source)
                         /\ Offset <= Len(Destination) /\ Len(Destination) < Offset + ChunkSize
    BY <1>1 DEF FailureSaysHowFar, DestinationLeftAlone, SourceKept, Destination, Source, Offset, files
  <2> QED
    BY <1>1, DestinationSays
<1>9. LateChunks'
  <2>1. \A q \in late : q.transfer <= transfers /\ q.transfer # transfers
    BY <1>1 DEF IInv, LateChunks, ToBeWritten, Running
  <2>2. ASSUME task.kind = "upload" PROVE ToBeWritten(c)'
    <3>1. UNCHANGED Offset
      BY <1>1 DEF Offset
    <3>2. c.chunk \in Bytes /\ Len(c.chunk) <= ChunkSize /\ PartOf(c.chunk, data)'
      BY <1>1, <1>2, <1>3, <1>10, <2>2, <3>1 DEF PartOf
    <3>3. /\ (index > 0 /\ OthersOnly(HarmlessToUpload) => remote = Absent \/ UpToOffset(remote, data))'
          /\ (DestinationLeftAlone => IF index = 0 THEN remote = before ELSE remote # Absent)'
      <4>1. SourceKept /\ Destination = remote
        BY <2>2 DEF SourceKept, Destination
      <4>2. index > 0 /\ OthersOnly(HarmlessToUpload) => remote = Absent \/ UpToOffset(remote, data)
        BY <1>1, <2>2 DEF IInv, Uploaded
      <4>3. DestinationLeftAlone => IF index = 0 THEN remote = before ELSE remote # Absent
        BY <1>1, <4>1 DEF IInv, DestinationKept
      <4> QED
        BY <1>1, <3>1, <4>2, <4>3 DEF UpToOffset, OthersOnly, DestinationLeftAlone, files
    <3>4. (~task.overwrite /\ before # Absent /\ DestinationLeftAlone)' => c.pc = "exists"
      <4> SUFFICES ASSUME ~task.overwrite, before # Absent, DestinationLeftAlone PROVE c.pc = "exists"
        BY <1>1 DEF DestinationLeftAlone
      <4>1. pc \in {"call", "exists"} /\ index = 0
        BY <1>1, <2>2 DEF IInv, EndsAtTheCheck
      <4> QED
        BY <1>3, <1>10, <2>2, <4>1 DEF Task
    <3>5. (c.first = (index = 0))'
      BY <1>1, <1>3, <1>10
    <3> QED
      BY <1>1, <2>2, <3>2, <3>3, <3>4, <3>5 DEF ToBeWritten
  <2>3. transfers \in Nat
    BY DEF IInv, TypeOK
  <2> QED
    <3>1. task.kind = "upload" => late' = late \cup {c} /\ c.transfer = transfers
      BY <1>1, <1>3, <1>10
    <3> QED
      BY <1>1, <2>1, <2>2, <2>3, <3>1 DEF LateChunks
<1> QED
  BY <1>5, <1>6, <1>7, <1>8, <1>9 DEF IInv

(* Late, the agent looks whether the file exists.                            *)
LEMMA LateCheckKeepsIInv ==
  ASSUME IInv, NEW r \in late, LateCheck(r)
  PROVE  IInv'
<1> DEFINE w == [r EXCEPT !.pc = "write"]
<1>1. /\ UNCHANGED <<files, task, pc, loop, outcome, before, others, counts>>
      /\ UNCHANGED <<local, remote, data, short, size, total, index, transfers, faults, changes>>
      /\ r.pc = "exists"
      /\ remote # Absent => late' = late \ {r}
      /\ remote = Absent => late' = (late \ {r}) \cup {w}
  BY DEF LateCheck, files, loop, counts
<1>2. r \in [transfer : 0..MaxTransfers, first : BOOLEAN, chunk : Bytes, pc : {"exists", "write"}]
  BY DEF IInv, TypeOK
<1>3. /\ w \in [transfer : 0..MaxTransfers, first : BOOLEAN, chunk : Bytes, pc : {"exists", "write"}]
      /\ w.transfer = r.transfer /\ w.first = r.first /\ w.chunk = r.chunk
  BY <1>2
<1> HIDE DEF w
<1>4. TypeOK'
  BY <1>1, <1>3 DEF IInv, TypeOK
<1>5. InTheLoop' /\ Uploaded' /\ Downloaded' /\ DestinationKept' /\ ShortSoFar'
  BY <1>1 DEF IInv, InTheLoop, Uploaded, Downloaded, DestinationKept, ShortSoFar, Running,
              UpToOffset, Offset, OthersOnly, Smooth, SizeKnown, ChunkRead, DestinationLeftAlone,
              SourceKept, Destination, CannotAppend, Kept, Base
<1>6. EndsAtTheCheck' /\ FailureSaysHowFar'
  BY <1>1 DEF IInv, EndsAtTheCheck, FailureSaysHowFar, DestinationLeftAlone, SourceKept,
              Destination, Source, Offset, Running
<1>7. LateChunks'
  <2>1. ASSUME NEW q \in late, ToBeWritten(q) PROVE ToBeWritten(q)'
    BY <1>1, <2>1 DEF ToBeWritten, PartOf, Offset, OthersOnly, UpToOffset, DestinationLeftAlone
  <2>2. ASSUME remote = Absent, ToBeWritten(r) PROVE ToBeWritten(w)'
    BY <1>1, <1>3, <2>2 DEF ToBeWritten, PartOf, Offset, OthersOnly, UpToOffset, DestinationLeftAlone
  <2> QED
    BY <1>1, <1>3, <2>1, <2>2 DEF IInv, LateChunks
<1> QED
  BY <1>4, <1>5, <1>6, <1>7 DEF IInv

(* Late, the agent writes.                                                   *)
LEMMA LateWriteKeepsIInv ==
  ASSUME IInv, NEW r \in late, LateWrite(r)
  PROVE  IInv'
<1>1. /\ UNCHANGED <<local, task, pc, data, short, size, total, index, outcome, before, transfers, changes>>
      /\ late' = late \ {r} /\ r.pc = "write" /\ TypeOK
      /\ remote \in Bytes \cup {Absent} /\ index \in Nat
  BY DEF LateWrite, loop, IInv, TypeOK
<1>2. r.first \in BOOLEAN /\ r.chunk \in Bytes
  BY DEF IInv, TypeOK
<1>3. CASE ~r.first /\ remote = Absent
  <2>1. UNCHANGED <<remote, others, faults>>
    BY <1>3 DEF LateWrite
  <2>2. TypeOK'
    BY <1>1, <2>1 DEF TypeOK
  <2>3. InTheLoop' /\ Uploaded' /\ Downloaded' /\ DestinationKept' /\ ShortSoFar'
    BY <1>1, <2>1 DEF IInv, InTheLoop, Uploaded, Downloaded, DestinationKept, ShortSoFar, Running,
                UpToOffset, Offset, OthersOnly, Smooth, SizeKnown, ChunkRead, DestinationLeftAlone,
                SourceKept, Destination, CannotAppend, Kept, Base
  <2>4. EndsAtTheCheck' /\ FailureSaysHowFar'
    BY <1>1, <2>1 DEF IInv, EndsAtTheCheck, FailureSaysHowFar, DestinationLeftAlone, SourceKept,
                Destination, Source, Offset, Running
  <2>5. LateChunks'
    <3>1. ASSUME NEW q \in late, ToBeWritten(q) PROVE ToBeWritten(q)'
      BY <1>1, <2>1, <3>1 DEF ToBeWritten, PartOf, Offset, OthersOnly, UpToOffset, DestinationLeftAlone
    <3> QED
      BY <1>1, <3>1 DEF IInv, LateChunks
  <2> QED
    BY <2>2, <2>3, <2>4, <2>5 DEF IInv
<1>4. CASE ~(~r.first /\ remote = Absent)
  <2>1. /\ \/ Written(remote, Base(r.first, remote), r.chunk, remote')
           \/ WriteFails(remote, Base(r.first, remote), r.chunk, remote')
        /\ others' = IF r.transfer = transfers THEN others ELSE others \cup {<<"remote", "late">>}
    BY <1>4 DEF LateWrite
  <2>2. remote' \in Bytes \cup {Absent} /\ faults' \in 0..MaxFaults
    <3>1. Base(r.first, remote) \in Bytes
      BY <1>1, <1>2, <1>4, EmptySeq DEF Base
    <3> QED
      BY <1>1, <1>2, <2>1, <3>1, WriteBaseTyped
  <2>3. TypeOK'
    <3>1. others' \subseteq (Machines \X {"removed", "replaced", "extended"}) \cup {<<"remote", "late">>}
      BY <1>1, <2>1 DEF TypeOK
    <3> QED
      BY <1>1, <2>2, <3>1 DEF TypeOK
  <2>4. CASE r.transfer # transfers
    <3> DEFINE e == <<"remote", "late">>
    <3>1. /\ e[1] = "remote" /\ e[2] = "late" /\ e = <<e[1], e[2]>> /\ others' = others \cup {e}
          /\ late' \subseteq late
      BY <1>1, <2>1, <2>4
    <3> HIDE DEF e
    <3> QED
      BY <1>1, <2>3, <3>1, RemoteOthersKeepsIInv
  <2>5. CASE r.transfer = transfers
    <3>1. ToBeWritten(r) /\ \A q \in late' : q.transfer # transfers
      BY <1>1, <2>5 DEF IInv, LateChunks
    <3>2. /\ outcome = "unanswered" /\ pc = "idle" /\ task.kind = "upload" /\ others' = others
          /\ r.first = (index = 0) /\ Len(r.chunk) <= ChunkSize /\ PartOf(r.chunk, data)
          /\ index > 0 /\ OthersOnly(HarmlessToUpload) => remote = Absent \/ UpToOffset(remote, data)
          /\ ~task.overwrite /\ before # Absent => ~DestinationLeftAlone
      BY <1>1, <2>1, <2>5, <3>1 DEF ToBeWritten
    <3>3. /\ InTheLoop' /\ Uploaded' /\ Downloaded' /\ DestinationKept' /\ ShortSoFar'
          /\ EndsAtTheCheck'
      BY <1>1, <3>2 DEF IInv, InTheLoop, Uploaded, Downloaded, DestinationKept, ShortSoFar, Running,
                        EndsAtTheCheck, DestinationLeftAlone
    <3>4. LateChunks'
      BY <1>1, <3>1 DEF IInv, LateChunks
    <3>5. FailureSaysHowFar'
      <4> SUFFICES ASSUME DestinationLeftAlone, SourceKept
                   PROVE  \/ index = 0 /\ remote' = before
                          \/ /\ remote' # Absent /\ IsPrefix(remote', data)
                             /\ Offset <= Len(remote') /\ Len(remote') <= Offset + ChunkSize
        <5>1. /\ DestinationLeftAlone' <=> DestinationLeftAlone
              /\ SourceKept' <=> SourceKept
              /\ Destination' = remote' /\ Source' = data /\ Offset' = Offset
          BY <1>1, <3>2 DEF DestinationLeftAlone, SourceKept, Destination, Source, Offset
        <5>2. Offset \in Nat /\ (remote' # Absent => Len(remote') \in Nat)
          BY <1>1, <2>2, OffsetSays
        <5> QED
          BY <1>1, <3>2, <5>1, <5>2 DEF FailureSaysHowFar
      <4>1. OthersOnly(HarmlessToUpload)
        BY <1>1, <3>2, AloneIsHarmless
      <4>2. Kept(remote) = Base(r.first, remote) /\ ~CannotAppend(remote)
        <5>1. CASE index = 0
          <6>1. r.first
            BY <3>2, <5>1
          <6> QED
            BY <1>1, <5>1, <6>1 DEF Kept, Base, CannotAppend
        <5>2. CASE index # 0
          <6>1. ~r.first
            BY <3>2, <5>2
          <6> QED
            BY <1>1, <1>4, <5>2, <6>1 DEF Kept, Base, CannotAppend
        <5> QED
          BY <5>1, <5>2
      <4>3. Offset \in Nat /\ data \in Bytes /\ Len(r.chunk) \in Nat
        BY <1>1, <1>2, OffsetSays DEF TypeOK
      <4>4. /\ Written(remote, Kept(remote), r.chunk, remote') =>
                 IsPrefix(remote', data) /\ Len(remote') = Offset + Len(r.chunk)
            /\ WriteFails(remote, Kept(remote), r.chunk, remote') =>
                 \/ remote' = remote
                 \/ /\ remote' \in Bytes /\ IsPrefix(remote', data)
                    /\ Offset <= Len(remote') /\ Len(remote') < Offset + ChunkSize
        BY <1>1, <1>2, <3>2, <4>1, <4>2, <4>3, WriteSays
      <4>5. Written(remote, Kept(remote), r.chunk, remote') => remote' \in Bytes
        BY <1>1, <1>2, <4>2, WriteTyped
      <4>6. CASE remote' = remote
        <5>1. \/ index = 0 /\ remote = before
              \/ remote # Absent /\ UpToOffset(remote, data)
          BY <1>1, <3>1, <3>2, <4>1 DEF ToBeWritten
        <5> QED
          BY <4>3, <4>6, <5>1 DEF UpToOffset
      <4>7. CASE remote' # remote
        BY <2>1, <3>2, <4>2, <4>3, <4>4, <4>5, <4>7
      <4> QED
        BY <4>6, <4>7
    <3> QED
      BY <2>3, <3>3, <3>4, <3>5 DEF IInv
  <2> QED
    BY <2>4, <2>5
<1> QED
  BY <1>3, <1>4

-----------------------------------------------------------------------------
LEMMA InitIInv == Init => IInv
<1> SUFFICES ASSUME Init PROVE IInv
  OBVIOUS
<1>1. TypeOK
  <2>1. <<>> \in Bytes /\ data = <<>>
    BY EmptySeq DEF Init
  <2>2. data \in Bytes
    BY <2>1
  <2>3. local \in Bytes \cup {Absent} /\ remote \in Bytes \cup {Absent}
    BY DEF Init
  <2>4. others = {} /\ late = {} /\ before = Absent /\ short = FALSE
    BY DEF Init
  <2>5. task \in [kind : {"none", "upload", "download"}, overwrite : BOOLEAN]
    BY DEF Init
  <2>6. /\ pc = "idle" /\ outcome = "none" /\ size = 0 /\ total = 1 /\ index = 0
        /\ transfers = 0 /\ faults = 0 /\ changes = 0
    BY DEF Init
  <2>7. transfers \in 0..MaxTransfers /\ faults \in 0..MaxFaults /\ changes \in 0..MaxChanges
    BY <2>6
  <2>8. size \in Nat /\ total \in Nat \ {0} /\ index \in 0..total
    BY <2>6
  <2>9. late \subseteq [transfer : 0..MaxTransfers, first : BOOLEAN, chunk : Bytes,
                        pc : {"exists", "write"}]
    BY <2>4
  <2>10. others \subseteq (Machines \X {"removed", "replaced", "extended"}) \cup {<<"remote", "late">>}
    BY <2>4
  <2> QED
    BY <2>2, <2>3, <2>4, <2>5, <2>6, <2>7, <2>8, <2>9, <2>10, Zenon DEF TypeOK
<1> QED
  BY <1>1 DEF Init, IInv, InTheLoop, Running, Uploaded, Downloaded, DestinationKept,
       EndsAtTheCheck, FailureSaysHowFar, ShortSoFar, LateChunks

LEMMA NextIInv == IInv /\ [Next]_vars => IInv'
<1> SUFFICES ASSUME IInv, [Next]_vars PROVE IInv'
  OBVIOUS
<1>1. CASE CallFails
  BY <1>1, FailingKeepsIInv DEF CallFails, Fail, Running, loop, IInv, TypeOK
<1>2. CASE OthersAct
  BY <1>2, LocalChangeKeepsIInv, RemoteChangeKeepsIInv DEF OthersAct
<1>3. CASE UNCHANGED vars
  <2>1. /\ UNCHANGED <<local, remote, task, pc, data, short, size, total, index, outcome, before>>
        /\ UNCHANGED <<others, late, transfers, faults, changes>>
    BY <1>3 DEF vars, files, loop, counts
  <2>2. TypeOK'
    BY <2>1 DEF IInv, TypeOK
  <2>3. InTheLoop' /\ Uploaded' /\ Downloaded' /\ DestinationKept' /\ ShortSoFar'
    BY <2>1 DEF IInv, InTheLoop, Uploaded, Downloaded, DestinationKept, ShortSoFar, Running,
                UpToOffset, Offset, OthersOnly, Smooth, SizeKnown, ChunkRead, DestinationLeftAlone,
                SourceKept, Destination, CannotAppend, Kept, Base
  <2>4. EndsAtTheCheck' /\ FailureSaysHowFar'
    BY <2>1 DEF IInv, EndsAtTheCheck, FailureSaysHowFar, DestinationLeftAlone, SourceKept,
                Destination, Source, Offset, Running
  <2>5. ASSUME NEW q \in late, ToBeWritten(q) PROVE ToBeWritten(q)'
    BY <2>1, <2>5 DEF ToBeWritten, PartOf, Offset, OthersOnly, UpToOffset, DestinationLeftAlone
  <2>6. LateChunks'
    BY <2>1, <2>5 DEF IInv, LateChunks
  <2> QED
    BY <2>2, <2>3, <2>4, <2>6 DEF IInv
<1> QED
  BY <1>1, <1>2, <1>3, StartKeepsIInv, CallArrivesKeepsIInv, CallCancelledKeepsIInv,
     CheckExistsKeepsIInv, WriteChunkKeepsIInv, StatFileKeepsIInv, ReadChunkKeepsIInv,
     SaveChunkKeepsIInv, LateCheckKeepsIInv, LateWriteKeepsIInv DEF Next

(* The inductive invariant of the transfers.                                 *)
THEOREM IInvHolds == Spec => []IInv
  BY InitIInv, NextIInv, PTL DEF Spec

(* The transfers keep their types; there is never a chunk beyond the last    *)
(* (server.go:525-648).                                                      *)
THEOREM TypeCorrect == Spec => []TypeOK
<1>1. IInv => TypeOK
  BY DEF IInv
<1> QED
  BY <1>1, IInvHolds, PTL

(* A transfer that reports success has copied the bytes read at its begin,   *)
(* or, downloading a file that grows, a prefix of it with at least the bytes *)
(* announced (server.go:525-648, fileops.go:614-679).                        *)
THEOREM SuccessCopies == Spec => SuccessIsACopy
<1>1. IInv /\ [Next]_vars => [UploadIsACopy /\ DownloadIsAPrefix /\ ShortReadShows]_vars
  <2> SUFFICES ASSUME IInv, Next, outcome = "running", outcome' = "ok"
               PROVE  UploadIsACopy /\ DownloadIsAPrefix /\ ShortReadShows
    BY DEF UploadIsACopy, DownloadIsAPrefix, ShortReadShows
  <2>1. WriteChunk \/ SaveChunk
    BY DEF Next, StartUpload, StartDownload, Fail, CallArrives, CallFails, CallCancelled,
         CheckExists, StatFile, ReadChunk, LateCheck, LateWrite, OthersAct, OthersChange
  <2>2. CASE WriteChunk
    <3>1. task.kind = "upload"
      BY <2>2, UploadWrites DEF WriteChunk
    <3>2. OthersOnly(HarmlessToUpload) => remote' = data
      BY <2>2, WriteChunkKeepsIInv
    <3> QED
      BY <3>1, <3>2 DEF UploadIsACopy, DownloadIsAPrefix, ShortReadShows, HarmlessToUpload
  <2>3. CASE SaveChunk
    <3>1. task.kind = "download"
      BY <2>3, DownloadSaves DEF SaveChunk
    <3>2. /\ Smooth =>
               /\ IsPrefix(local', remote) /\ Len(local') >= size
               /\ <<"remote", "extended">> \notin others => local' = remote
          /\ short /\ OthersOnly({<<"local", "removed">>}) => Len(local') < size
      BY <2>3, SaveChunkKeepsIInv
    <3> QED
      BY <3>1, <3>2 DEF UploadIsACopy, DownloadIsAPrefix, ShortReadShows, HarmlessToDownload, Smooth
  <2> QED
    BY <2>1, <2>2, <2>3
<1> QED
  BY <1>1, IInvHolds, PTL DEF Spec, SuccessIsACopy

(* A transfer that fails leaves what was there, or the chunks it reports and *)
(* at most a part of the next one (server.go:549-557, 617-638).              *)
THEOREM FailureIsExact == Spec => []FailureSaysHowFar
<1>1. IInv => FailureSaysHowFar
  BY DEF IInv
<1> QED
  BY <1>1, IInvHolds, PTL

(* Without overwrite, a file that was there is kept (fileops.go:614-646).    *)
THEOREM ExistingFileKept == Spec => []KeptUnlessOverwrite
<1>1. IInv => KeptUnlessOverwrite
  BY DEF IInv, EndsAtTheCheck, KeptUnlessOverwrite
<1> QED
  BY <1>1, IInvHolds, PTL
=============================================================================
