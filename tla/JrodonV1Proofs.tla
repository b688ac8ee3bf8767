--------------------------- MODULE JrodonV1Proofs ---------------------------
(***************************************************************************)
(* Proofs about jrodon, for every list of files, amount of memory, number  *)
(* and size of slabs, and set of failures: permits, slabs and upload       *)
(* permits are conserved, and an object that is completed after a zip job  *)
(* that finished is the whole stream.                                      *)
(*                                                                         *)
(* The invariant follows the two streams of the program. A file is in one  *)
(* place (listed, fetched, queued, written, lost), and what is in flight   *)
(* holds permits. The bytes sealed into parts and those in the slab being  *)
(* filled are the entries written and the part of the current one.         *)
(***************************************************************************)
EXTENDS JrodonV1, Sums, SequenceTheorems

Part == [len : Nat, at : {"channel", "spawned", "sending", "sent", "failed"}]

Types ==
  /\ handler \in {"list", "start", "downloads", "zip", "uploads", "complete",
                 "ok", "error", "refused"}
  /\ next \in 1 .. FileCount + 1
  /\ file \in [Files -> {"listed", "fetching", "queued", "zipping", "zipped", "lost"}]
  /\ queue \in Seq(Files) /\ zipped \in Seq(Files)
  /\ zip \in {"recv", "entry", "directory", "closing", "done", "failed"}
  /\ left \in Nat /\ fill \in 0 .. ChunkSize /\ claimed \in BOOLEAN
  /\ parts \in Seq(Part) /\ recvd \in 0 .. Len(parts)
  /\ upload \in {"recv", "join", "ok", "failed"}
-----------------------------------------------------------------------------
LEMMA Constants ==
  /\ FileCount \in Nat /\ Files = 1 .. FileCount /\ IsFiniteSet(Files)
  /\ Size \in [Files -> Nat] /\ \A f \in Files : EntrySize(f) \in Nat \ {0}
  /\ MaxMemory \in Nat /\ MaxUploads \in Nat \ {0} /\ ChunkSize \in Nat \ {0}
  /\ SlabCount \in Nat \ {0, 1} /\ DirectorySize \in Nat \ {0}
<1>1. FileCount \in Nat /\ Size \in [Files -> Nat]
  BY PipelineAssumption
<1>2. IsFiniteSet(1 .. FileCount)
  BY <1>1, FS_Interval, 1 \in Int, FileCount \in Int
<1> QED
  BY <1>1, <1>2, PipelineAssumption DEF Files, EntrySize

LEMMA SetPartIs ==
  ASSUME parts \in Seq(Part), NEW k \in DOMAIN parts,
         NEW at \in {"channel", "spawned", "sending", "sent", "failed"}, SetPart(k, at)
  PROVE  /\ parts' \in Seq(Part) /\ Len(parts') = Len(parts) /\ DOMAIN parts' = DOMAIN parts
         /\ \A i \in DOMAIN parts : /\ parts'[i].len = parts[i].len
                                    /\ parts'[i].at = IF i = k THEN at ELSE parts[i].at
<1> DEFINE p == [parts[k] EXCEPT !.at = at]
<1>1. k \in 1 .. Len(parts) /\ parts[k] \in Part
  BY ElementOfSeq
<1>2. p \in Part /\ p.len = parts[k].len /\ p.at = at
  BY <1>1 DEF Part
<1>3. parts' = [parts EXCEPT ![k] = p]
  BY DEF SetPart
<1> HIDE DEF p
<1>4. /\ parts' \in Seq(Part) /\ Len(parts') = Len(parts)
      /\ \A i \in 1 .. Len(parts) : parts'[i] = IF i = k THEN p ELSE parts[i]
  BY <1>1, <1>2, <1>3, ExceptSeq
<1>5. DOMAIN parts' = 1 .. Len(parts) /\ DOMAIN parts = 1 .. Len(parts)
  BY <1>4
<1> QED
  BY <1>2, <1>4, <1>5

LEMMA SealIs ==
  ASSUME parts \in Seq(Part), fill \in Nat, Seal
  PROVE  /\ parts' \in Seq(Part) /\ Len(parts') = Len(parts) + 1
         /\ DOMAIN parts' = DOMAIN parts \cup {Len(parts) + 1} /\ Len(parts) + 1 \notin DOMAIN parts
         /\ \A i \in DOMAIN parts : parts'[i] = parts[i]
         /\ parts'[Len(parts) + 1] = [len |-> fill, at |-> "channel"]
  BY DEF Seal, Part

LEMMA InitTypes == Init => Types
  BY Constants DEF Init, Types

LEMMA TypesStep == Types /\ [Next]_vars => Types'
<1> SUFFICES ASSUME Types, [Next]_vars PROVE Types'
  OBVIOUS
<1>1. CASE HandlerStep
  BY <1>1
     DEF Types, HandlerStep, List, Start, AwaitDownloads, AwaitZip, AwaitUploads, Complete, zipVars
<1>2. CASE Acquire
  BY <1>2, Constants DEF Types, Acquire, zipVars
<1>3. ASSUME NEW f \in Files, FetchStep(f) PROVE Types'
  <2>1. CASE Fetched(f)
    <3>1. Append(queue, f) \in Seq(Files)
      BY AppendProperties DEF Types
    <3> QED
      BY <2>1, <3>1 DEF Types, Fetched, zipVars
  <2>2. CASE FetchFailed(f)
    BY <2>2 DEF Types, FetchFailed, zipVars
  <2> QED
    BY <1>3, <2>1, <2>2 DEF FetchStep
<1>4. CASE Take
  <2>1. Head(queue) \in Files /\ Tail(queue) \in Seq(Files)
    BY <1>4 DEF Types, Take
  <2>2. EntrySize(Head(queue)) \in Nat
    BY <2>1, Constants
  <2> QED
    BY <1>4, <2>1, <2>2 DEF Types, Take
<1>5. CASE Finish \/ WriteSlab \/ ClaimSlab
  <2>1. CASE Finish
    BY <2>1, Constants DEF Types, Finish
  <2>2. CASE WriteSlab
    <3>1. fill' \in 0 .. ChunkSize /\ left' \in Nat
      BY <2>2, Constants DEF Types, WriteSlab, Room
    <3>2. UNCHANGED <<handler, next, file, queue, zip, zipped, claimed, parts, recvd, upload>>
      BY <2>2 DEF WriteSlab
    <3> QED
      BY <3>1, <3>2 DEF Types
  <2>3. CASE ClaimSlab
    <3>1. /\ fill' \in 0 .. ChunkSize /\ claimed' = TRUE
          /\ UNCHANGED <<handler, next, file, queue, zip, left, zipped, parts, recvd, upload>>
      BY <2>3, Constants DEF ClaimSlab
    <3> QED
      BY <3>1 DEF Types
  <2> QED
    BY <1>5, <2>1, <2>2, <2>3
<1>6. CASE SealSlab
  <2>1. parts' \in Seq(Part) /\ Len(parts') = Len(parts) + 1
    <3>1. parts \in Seq(Part) /\ fill \in Nat /\ Seal
      BY <1>6, Constants DEF Types, SealSlab
    <3> QED
      BY <3>1, SealIs
  <2>2. /\ claimed' = FALSE
        /\ UNCHANGED <<handler, next, file, queue, zip, left, zipped, fill, recvd, upload>>
    BY <1>6 DEF SealSlab
  <2>3. recvd' \in 0 .. Len(parts')
    BY <2>1, <2>2 DEF Types
  <2> QED
    BY <2>1, <2>2, <2>3 DEF Types
<1>7. CASE Flush
  <2>1. parts' \in Seq(Part) /\ Len(parts') >= Len(parts)
    <3>1. CASE fill > 0
      <4>1. parts \in Seq(Part) /\ fill \in Nat /\ Seal
        BY <1>7, <3>1, Constants DEF Types, Flush
      <4> QED
        BY <4>1, SealIs
    <3>2. CASE ~(fill > 0)
      BY <1>7, <3>2 DEF Types, Flush
    <3> QED
      BY <3>1, <3>2
  <2>2. /\ zip' = "done" /\ claimed' = FALSE
        /\ UNCHANGED <<handler, next, file, queue, left, zipped, fill, recvd, upload>>
    BY <1>7 DEF Flush
  <2>3. recvd' \in 0 .. Len(parts')
    BY <2>1, <2>2 DEF Types
  <2> QED
    BY <2>1, <2>2, <2>3 DEF Types
<1>8. CASE Abandon
  <2>1. <<>> \in Seq(Files)
    BY EmptySeq
  <2> QED
    BY <1>8, <2>1 DEF Types, Abandon
<1>9. ASSUME NEW f \in Files, EntryWritten(f) \/ EntryRefused(f) PROVE Types'
  <2>1. CASE EntryWritten(f)
    BY <2>1 DEF Types, EntryWritten
  <2>2. CASE EntryRefused(f)
    BY <2>2, Constants DEF Types, EntryRefused
  <2> QED
    BY <1>9, <2>1, <2>2
<1>10. CASE RecvLease
  <2>1. recvd + 1 \in DOMAIN parts
    BY <1>10 DEF Types, RecvLease
  <2>2. parts' \in Seq(Part) /\ Len(parts') = Len(parts)
    BY <1>10, <2>1, SetPartIs DEF Types, RecvLease
  <2> QED
    BY <1>10, <2>1, <2>2 DEF Types, RecvLease, zipVars
<1>11. CASE RecvEnd \/ Join
  BY <1>11 DEF Types, RecvEnd, Join, zipVars
<1>12. ASSUME NEW k \in DOMAIN parts, PartStep(k) PROVE Types'
  <2>1. parts' \in Seq(Part) /\ Len(parts') = Len(parts)
    BY <1>12, SetPartIs DEF Types, PartStep, PartSend, PartSent
  <2> QED
    BY <1>12, <2>1 DEF Types, PartStep, PartSend, PartSent, zipVars
<1>13. CASE UNCHANGED vars
  BY <1>13 DEF Types, vars, zipVars
<1> QED
  BY <1>1, <1>2, <1>3, <1>4, <1>5, <1>6, <1>7, <1>8, <1>9, <1>10, <1>11, <1>12, <1>13
     DEF Next, ZipStep, UploadStep
-----------------------------------------------------------------------------
(* Files *)

(* The queue holds the files that were fetched and not taken, once each. *)
Flow ==
  /\ \A f \in Files : f >= next <=> file[f] = "listed"
  /\ \A i \in DOMAIN queue : file[queue[i]] = "queued"
  /\ \A i, j \in DOMAIN queue : queue[i] = queue[j] => i = j
  /\ \A f \in Files : file[f] = "queued" => \E i \in DOMAIN queue : queue[i] = f

LEMMA HeadIs ==
  ASSUME queue \in Seq(Files), queue # <<>>
  PROVE  /\ Head(queue) \in Files /\ Head(queue) = queue[1] /\ 1 \in DOMAIN queue
         /\ Tail(queue) \in Seq(Files)
         /\ \A i \in DOMAIN Tail(queue) : i + 1 \in DOMAIN queue /\ i + 1 # 1 /\ Tail(queue)[i] = queue[i + 1]
         /\ \A i \in DOMAIN queue : i # 1 => i - 1 \in DOMAIN Tail(queue) /\ queue[i] = Tail(queue)[i - 1]
<1>1. /\ Head(queue) \in Files /\ Head(queue) = queue[1] /\ Len(queue) \in Nat \ {0}
      /\ Tail(queue) \in Seq(Files) /\ Len(Tail(queue)) = Len(queue) - 1
      /\ \A i \in 1 .. Len(Tail(queue)) : Tail(queue)[i] = queue[i + 1]
  BY HeadTailProperties, EmptySeq, ElementOfSeq
<1>2. DOMAIN queue = 1 .. Len(queue) /\ DOMAIN Tail(queue) = 1 .. Len(queue) - 1
  BY <1>1
<1> QED
  BY <1>1, <1>2

(* The steps that move a file, or change what the zip job does. *)
LEMMA FileSteps ==
  ASSUME [Next]_vars
  PROVE  \/ UNCHANGED <<next, permits, file, queue, zip, zipped>>
         \/ Acquire \/ Take \/ Finish \/ Abandon \/ Flush
         \/ \E f \in Files : Fetched(f) \/ FetchFailed(f) \/ EntryWritten(f) \/ EntryRefused(f)
<1> DEFINE Same == UNCHANGED <<next, permits, file, queue, zip, zipped>>
<1>1. HandlerStep => Same
  BY DEF HandlerStep, List, Start, AwaitDownloads, AwaitZip, AwaitUploads, Complete, zipVars
<1>2. WriteSlab \/ SealSlab \/ ClaimSlab => Same
  BY DEF WriteSlab, SealSlab, ClaimSlab
<1>3. UploadStep => Same
  BY DEF UploadStep, RecvLease, RecvEnd, Join, zipVars
<1>4. \A k : PartStep(k) => Same
  BY DEF PartStep, PartSend, PartSent, zipVars
<1>5. UNCHANGED vars => Same
  BY DEF vars, zipVars
<1> HIDE DEF Same
<1> QED
  BY <1>1, <1>2, <1>3, <1>4, <1>5 DEF Next, ZipStep, FetchStep, Same

LEMMA FlowStep == Types /\ Flow /\ [Next]_vars => Flow'
<1> SUFFICES ASSUME Types, Flow, [Next]_vars PROVE Flow'
  OBVIOUS
<1> DEFINE Same == UNCHANGED <<next, file, queue>>
<1>0. ASSUME Same PROVE Flow'
  BY <1>0 DEF Flow
<1>1. CASE UNCHANGED <<next, permits, file, queue>>
  BY <1>1, <1>0
<1>2. CASE Acquire
  <2>1. /\ next \in Files /\ next' = next + 1 /\ queue' = queue
        /\ \A g \in Files : file'[g] = IF g = next THEN "fetching" ELSE file[g]
    BY <1>2 DEF Acquire, Types
  <2>2. file[next] = "listed" /\ \A i \in DOMAIN queue : queue[i] \in Files
    BY <2>1, Constants DEF Flow, Types
  <2>3. \A g \in Files : g >= next' <=> file'[g] = "listed"
    BY <2>1, Constants DEF Flow
  <2> QED
    BY <2>1, <2>2, <2>3 DEF Flow
<1>3. ASSUME NEW f \in Files, Fetched(f) \/ FetchFailed(f) PROVE Flow'
  <2>1. file[f] = "fetching"
    BY <1>3 DEF Fetched, FetchFailed
  <2>2. CASE UNCHANGED queue
    <3>1. file' = [file EXCEPT ![f] = "lost"] /\ next' = next
      BY <1>3, <2>2 DEF Fetched, FetchFailed, Types
    <3> QED
      BY <2>1, <2>2, <3>1 DEF Flow, Types
  <2>3. CASE queue' # queue
    <3>1. file' = [file EXCEPT ![f] = "queued"] /\ next' = next /\ queue' = Append(queue, f)
      BY <1>3, <2>3 DEF Fetched, FetchFailed
    <3>2. /\ DOMAIN queue' = DOMAIN queue \cup {Len(queue) + 1} /\ Len(queue) + 1 \notin DOMAIN queue
          /\ \A i \in DOMAIN queue : queue'[i] = queue[i]
          /\ queue'[Len(queue) + 1] = f
      BY <3>1 DEF Types
    <3>3. \A i \in DOMAIN queue : queue[i] # f /\ queue[i] \in Files
      BY <2>1 DEF Flow, Types
    <3>4. \A g \in Files : file'[g] = IF g = f THEN "queued" ELSE file[g]
      BY <3>1 DEF Types
    <3>5. \A i \in DOMAIN queue' : file'[queue'[i]] = "queued"
      BY <3>2, <3>3, <3>4 DEF Flow
    <3>6. \A i, j \in DOMAIN queue' : queue'[i] = queue'[j] => i = j
      BY <3>2, <3>3 DEF Flow
    <3>7. \A g \in Files : file'[g] = "queued" => \E i \in DOMAIN queue' : queue'[i] = g
      BY <3>2, <3>4 DEF Flow
    <3>8. \A g \in Files : g >= next' <=> file'[g] = "listed"
      BY <2>1, <3>1, <3>4 DEF Flow
    <3> QED
      BY <3>5, <3>6, <3>7, <3>8 DEF Flow
  <2> QED
    BY <2>2, <2>3
<1>4. CASE Take
  <2>1. queue \in Seq(Files) /\ queue # <<>>
    BY <1>4 DEF Types, Take
  <2> DEFINE h == Head(queue)
  <2>2. queue' = Tail(queue) /\ file' = [file EXCEPT ![h] = "zipping"] /\ next' = next
    BY <1>4 DEF Take
  <2>3. h \in Files /\ file[h] = "queued" /\ h = queue[1] /\ 1 \in DOMAIN queue
    BY <2>1, HeadIs DEF Flow
  <2>4. \A g \in Files : file'[g] = IF g = h THEN "zipping" ELSE file[g]
    BY <2>2, <2>3 DEF Types
  <2>5. \A i \in DOMAIN queue' : i + 1 \in DOMAIN queue /\ i + 1 # 1 /\ queue'[i] = queue[i + 1]
    BY <2>1, <2>2, HeadIs
  <2>6. \A i \in DOMAIN queue : i # 1 => i - 1 \in DOMAIN queue' /\ queue[i] = queue'[i - 1]
    BY <2>1, <2>2, HeadIs
  <2>7. \A i \in DOMAIN queue' : i \in Nat
    BY <2>1, <2>2, HeadIs
  <2>8. \A i \in DOMAIN queue : queue[i] \in Files
    BY <2>1
  <2> HIDE DEF h
  <2>9. \A i \in DOMAIN queue' : file'[queue'[i]] = "queued"
    BY <2>3, <2>4, <2>5, <2>8 DEF Flow
  <2>10. \A i, j \in DOMAIN queue' : queue'[i] = queue'[j] => i = j
    BY <2>5, <2>7 DEF Flow
  <2>11. \A g \in Files : file'[g] = "queued" => \E i \in DOMAIN queue' : queue'[i] = g
    BY <2>3, <2>4, <2>6 DEF Flow
  <2>12. \A g \in Files : g >= next' <=> file'[g] = "listed"
    BY <2>2, <2>3, <2>4 DEF Flow
  <2> QED
    BY <2>9, <2>10, <2>11, <2>12 DEF Flow
<1>5. CASE Finish \/ Flush
  BY <1>5, <1>1 DEF Finish, Flush
<1>6. CASE Abandon
  <2>1. next' = next /\ queue' = <<>> /\ DOMAIN queue' = {}
    BY <1>6 DEF Abandon
  <2>2. \A g \in Files : file'[g] = IF file[g] = "queued" THEN "lost" ELSE file[g]
    BY <1>6 DEF Abandon, Queued
  <2> QED
    BY <2>1, <2>2 DEF Flow
<1>7. ASSUME NEW f \in Files, EntryWritten(f) \/ EntryRefused(f) PROVE Flow'
  <2>1. /\ file[f] = "zipping" /\ UNCHANGED <<next, queue>>
        /\ \E to \in {"zipped", "lost"} : file' = [file EXCEPT ![f] = to]
    BY <1>7 DEF EntryWritten, EntryRefused
  <2>2. \A i \in DOMAIN queue : queue[i] \in Files
    BY DEF Types
  <2>3. \A g \in Files : IF g = f THEN file'[g] \in {"zipped", "lost"} ELSE file'[g] = file[g]
    BY <2>1 DEF Types
  <2> QED
    BY <2>1, <2>2, <2>3 DEF Flow
<1> QED
  BY <1>1, <1>2, <1>3, <1>4, <1>5, <1>6, <1>7, FileSteps
-----------------------------------------------------------------------------
(* Memory *)

LEMMA BytesIs ==
  ASSUME NEW fs, fs \subseteq Files
  PROVE  /\ IsFiniteSet(fs) /\ Bytes(fs) \in Nat /\ \A f \in fs : Size[f] \in Int
         /\ \A f \in fs : Bytes(fs) = Bytes(fs \ {f}) + Size[f]
         /\ \A f \in Files \ fs : Bytes(fs \cup {f}) = Bytes(fs) + Size[f]
<1>1. IsFiniteSet(fs) /\ \A f \in Files : Size[f] \in Nat
  BY Constants, FS_Subset
<1>2. Bytes(fs) \in Nat
  BY <1>1, SumNat DEF Bytes
<1>3. ASSUME NEW f \in fs PROVE Bytes(fs) = Bytes(fs \ {f}) + Size[f]
  <2>1. Bytes(fs) = Size[f] + Bytes(fs \ {f})
    BY <1>1, SumRemove DEF Bytes
  <2>2. IsFiniteSet(fs \ {f})
    BY <1>1, FS_Subset
  <2>3. Bytes(fs \ {f}) \in Nat
    BY <1>1, <2>2, SumNat DEF Bytes
  <2> QED
    BY <1>1, <2>1, <2>3
<1>4. ASSUME NEW f \in Files \ fs PROVE Bytes(fs \cup {f}) = Bytes(fs) + Size[f]
  <2>1. \A x \in fs \cup {f} : Size[x] \in Int
    BY <1>1
  <2> QED
    BY <1>1, <2>1, SumAdd DEF Bytes
<1> QED
  BY <1>1, <1>2, <1>3, <1>4

Memory == permits \in 0 .. MaxMemory /\ permits + Bytes(Held) = MaxMemory

LEMMA MemoryStep == Types /\ Flow /\ Memory /\ [Next]_vars => Memory'
<1> SUFFICES ASSUME Types, Flow, Memory, [Next]_vars PROVE Memory'
  OBVIOUS
<1> DEFINE Same == permits' = permits /\ Held' = Held
<1>0. ASSUME Same PROVE Memory'
  <2>1. Bytes(Held)' = Bytes(Held)
    BY <1>0 DEF Bytes
  <2> QED
    BY <1>0, <2>1 DEF Memory
<1>a. Held \subseteq Files /\ IsFiniteSet(Held) /\ Bytes(Held) \in Nat /\ permits \in Nat /\ MaxMemory \in Nat
  BY BytesIs, Constants DEF Held, Memory
(* A file leaves those in flight with its permits. *)
<1>b. ASSUME NEW f \in Held, Held' = Held \ {f}, permits' = permits + Size[f] PROVE Memory'
  <2>1. Bytes(Held) = Bytes(Held \ {f}) + Size[f] /\ Size[f] \in Nat
    BY <1>a, BytesIs, Constants
  <2>2. Bytes(Held)' = Bytes(Held \ {f}) /\ Bytes(Held \ {f}) \in Nat
    BY <1>a, <1>b, BytesIs DEF Bytes
  <2> QED
    BY <1>a, <1>b, <2>1, <2>2 DEF Memory
<1>1. CASE UNCHANGED <<next, permits, file, queue>>
  BY <1>1, <1>0 DEF Held
<1>2. CASE Acquire
  <2>1. next \in Files /\ next \notin Held /\ Size[next] <= permits /\ permits' = permits - Size[next]
    BY <1>2, Constants DEF Acquire, Flow, Held, Types
  <2>2. Held' = Held \cup {next}
    BY <1>2, <2>1 DEF Acquire, Held, Types
  <2>3. Bytes(Held)' = Bytes(Held) + Size[next] /\ Size[next] \in Nat
    BY <1>a, <2>1, <2>2, BytesIs, Constants DEF Bytes
  <2> QED
    BY <1>a, <2>1, <2>3 DEF Memory
<1>3. ASSUME NEW f \in Files, Fetched(f) \/ FetchFailed(f) PROVE Memory'
  <2>1. file[f] = "fetching" /\ f \in Held
    BY <1>3 DEF Fetched, FetchFailed, Held
  <2>2. CASE file' = [file EXCEPT ![f] = "queued"]
    <3>1. permits' = permits
      BY <1>3, <2>1, <2>2 DEF Fetched, FetchFailed, Types
    <3>2. Held' = Held
      BY <2>1, <2>2 DEF Held, Types
    <3> QED
      BY <3>1, <3>2, <1>0
  <2>3. CASE file' = [file EXCEPT ![f] = "lost"]
    <3>1. permits' = permits + Size[f]
      BY <1>3, <2>1, <2>3 DEF Fetched, FetchFailed, Types
    <3>2. Held' = Held \ {f}
      BY <2>1, <2>3 DEF Held, Types
    <3> QED
      BY <2>1, <3>1, <3>2, <1>b
  <2> QED
    BY <1>3, <2>2, <2>3 DEF Fetched, FetchFailed
<1>4. CASE Take
  <2>1. Head(queue) \in Files /\ file[Head(queue)] = "queued"
    BY <1>4, HeadIs DEF Take, Types, Flow
  <2>2. Held' = Held
    BY <1>4, <2>1 DEF Take, Held, Types
  <2>3. permits' = permits
    BY <1>4 DEF Take
  <2> QED
    BY <2>2, <2>3, <1>0
<1>5. CASE Finish \/ Flush
  BY <1>5, <1>1 DEF Finish, Flush
<1>6. CASE Abandon
  <2>1. /\ Held = Held' \cup Queued /\ Held' \cap Queued = {}
        /\ Held' \subseteq Files /\ Queued \subseteq Files
    BY <1>6 DEF Abandon, Held, Queued
  <2> DEFINE H == Held'
  <2>2. IsFiniteSet(H) /\ IsFiniteSet(Queued) /\ Bytes(H) \in Nat /\ Bytes(Queued) \in Nat
    BY <2>1, BytesIs
  <2>3. \A x \in H \cup Queued : Size[x] \in Int
    BY <2>1, Constants
  <2> HIDE DEF H
  <2>4. Bytes(H \cup Queued) = Bytes(H) + Bytes(Queued)
    <3>1. H \cap Queued = {}
      BY <2>1 DEF H
    <3> QED
      BY <2>2, <2>3, <3>1, SumParts DEF Bytes
  <2>5. Bytes(Held) = Bytes(H) + Bytes(Queued)
    BY <2>1, <2>4, Zenon DEF H
  <2>6. permits' = permits + Bytes(Queued) /\ Bytes(Held)' = Bytes(H)
    BY <1>6 DEF Abandon, H, Bytes
  <2> QED
    BY <1>a, <2>2, <2>5, <2>6 DEF Memory
<1>7. ASSUME NEW f \in Files, EntryWritten(f) \/ EntryRefused(f) PROVE Memory'
  <2>1. f \in Held /\ permits' = permits + Size[f]
    BY <1>7 DEF EntryWritten, EntryRefused, Held
  <2>2. Held' = Held \ {f}
    BY <1>7 DEF EntryWritten, EntryRefused, Held, Types
  <2> QED
    BY <2>1, <2>2, <1>b
<1> QED
  BY <1>1, <1>2, <1>3, <1>4, <1>5, <1>6, <1>7, FileSteps
-----------------------------------------------------------------------------
(* Entries *)

(* The zip job writes one file at a time. *)
Zipping ==
  /\ \A f \in Files : file[f] = "zipping" => zip = "entry"
  /\ zip = "entry" => \E f \in Files : file[f] = "zipping"
  /\ \A f, g \in Files : file[f] = "zipping" /\ file[g] = "zipping" => f = g

Zipped == {f \in Files : file[f] = "zipped"}
EntriesSize(fs) == SumFunctionOnSet([f \in Files |-> EntrySize(f)], fs)

(* The entries written are the files that were zipped, once each. *)
ZippedOnce ==
  /\ {zipped[i] : i \in DOMAIN zipped} = Zipped
  /\ Len(zipped) = Cardinality(Zipped)
  /\ EntryBytes = EntriesSize(Zipped)

(* When it writes the directory every file has been written or lost, and a   *)
(* file is lost by its own download or by an entry that was refused.         *)
Drained ==
  /\ zip \in {"directory", "done"} =>
       next = FileCount + 1 /\ \A f \in Files : file[f] \in {"zipped", "lost"}
  /\ \A f \in Files : file[f] = "lost" => f \in FetchFails \/ zip \in {"closing", "failed"}

LEMMA ZippingStep == Types /\ Flow /\ Zipping /\ [Next]_vars => Zipping'
<1> SUFFICES ASSUME Types, Flow, Zipping, [Next]_vars PROVE Zipping'
  OBVIOUS
<1>1. CASE UNCHANGED <<file, zip>>
  BY <1>1 DEF Zipping
<1>2. CASE Acquire
  <2>1. zip' = zip /\ \A g \in Files : file'[g] = IF g = next THEN "fetching" ELSE file[g]
    BY <1>2 DEF Acquire, Types, zipVars
  <2>2. next \in Files /\ file[next] = "listed"
    BY <1>2, Constants DEF Acquire, Flow
  <2> QED
    BY <2>1, <2>2 DEF Zipping
<1>3. ASSUME NEW f \in Files, Fetched(f) \/ FetchFailed(f) PROVE Zipping'
  <2>1. file[f] = "fetching" /\ zip' = zip
    BY <1>3 DEF Fetched, FetchFailed, zipVars
  <2>2. \A g \in Files : IF g = f THEN file'[g] \in {"queued", "lost"} ELSE file'[g] = file[g]
    BY <1>3 DEF Fetched, FetchFailed, Types
  <2> QED
    BY <2>1, <2>2 DEF Zipping
<1>4. CASE Take
  <2>1. Head(queue) \in Files
    BY <1>4, HeadIs DEF Take, Types
  <2>2. zip = "recv" /\ zip' = "entry"
    BY <1>4 DEF Take
  <2>3. \A g \in Files : file'[g] = IF g = Head(queue) THEN "zipping" ELSE file[g]
    BY <1>4, <2>1 DEF Take, Types
  <2> QED
    BY <2>1, <2>2, <2>3 DEF Zipping
<1>5. CASE Finish \/ Flush
  BY <1>5 DEF Finish, Flush, Zipping
<1>6. CASE Abandon
  <2>1. zip = "closing" /\ zip' = "failed"
    BY <1>6 DEF Abandon
  <2>2. \A g \in Files : file'[g] \in {file[g], "lost"}
    BY <1>6 DEF Abandon
  <2> QED
    BY <2>1, <2>2 DEF Zipping
<1>7. ASSUME NEW f \in Files, EntryWritten(f) \/ EntryRefused(f) PROVE Zipping'
  <2>1. file[f] = "zipping" /\ zip' # "entry"
    BY <1>7 DEF EntryWritten, EntryRefused
  <2>2. \A g \in Files : IF g = f THEN file'[g] \in {"zipped", "lost"} ELSE file'[g] = file[g]
    BY <1>7 DEF EntryWritten, EntryRefused, Types
  <2> QED
    BY <2>1, <2>2 DEF Zipping
<1> QED
  BY <1>1, <1>2, <1>3, <1>4, <1>5, <1>6, <1>7, FileSteps

LEMMA DrainedStep == Types /\ Flow /\ Zipping /\ Drained /\ [Next]_vars => Drained'
<1> SUFFICES ASSUME Types, Flow, Zipping, Drained, [Next]_vars PROVE Drained'
  OBVIOUS
<1>1. CASE UNCHANGED <<next, file, zip>>
  BY <1>1 DEF Drained
<1>2. CASE Acquire
  <2>1. /\ zip' = zip /\ next \in Files
        /\ \A g \in Files : file'[g] = IF g = next THEN "fetching" ELSE file[g]
    BY <1>2 DEF Acquire, Types, zipVars
  <2>2. next # FileCount + 1
    BY <2>1, Constants
  <2> QED
    BY <2>1, <2>2 DEF Drained
<1>3. ASSUME NEW f \in Files, Fetched(f) \/ FetchFailed(f) PROVE Drained'
  <2>1. file[f] = "fetching" /\ zip' = zip
    BY <1>3 DEF Fetched, FetchFailed, zipVars
  <2>2. zip \notin {"directory", "done"}
    BY <2>1 DEF Drained
  <2>3. \A g \in Files : IF g = f THEN file'[g] = "lost" => f \in FetchFails \/ zip = "failed"
                        ELSE file'[g] = file[g]
    BY <1>3, <2>2 DEF Fetched, FetchFailed, Types, ReceiverOpen
  <2> QED
    BY <2>1, <2>2, <2>3 DEF Drained
<1>4. CASE Take
  <2>1. Head(queue) \in Files
    BY <1>4, HeadIs DEF Take, Types
  <2>2. zip = "recv" /\ zip' = "entry"
    BY <1>4 DEF Take
  <2>3. \A g \in Files : file'[g] = IF g = Head(queue) THEN "zipping" ELSE file[g]
    BY <1>4, <2>1 DEF Take, Types
  <2> QED
    BY <2>1, <2>2, <2>3 DEF Drained
<1>5. CASE Finish
  <2>1. zip = "recv" /\ file' = file /\ next' = next /\ zip' = "directory"
    BY <1>5 DEF Finish
  <2>2. next = FileCount + 1 /\ \A f \in Files : file[f] # "fetching"
    BY <1>5, Constants DEF Finish, SendersDropped, Types
  <2>3. \A f \in Files : file[f] # "queued"
    <3>1. DOMAIN queue = {}
      BY <1>5 DEF Finish
    <3> QED
      BY <3>1 DEF Flow
  <2>4. \A f \in Files : file[f] # "listed"
    <3>1. \A f \in Files : ~(f >= next)
      BY <2>2, Constants
    <3> QED
      BY <3>1 DEF Flow
  <2>5. \A f \in Files : file[f] # "zipping"
    BY <2>1 DEF Zipping
  <2> QED
    BY <2>1, <2>2, <2>3, <2>4, <2>5 DEF Types, Drained
<1>6. CASE Flush
  BY <1>6 DEF Flush, Drained
<1>7. CASE Abandon
  BY <1>7 DEF Abandon, Drained
<1>8. ASSUME NEW f \in Files, EntryWritten(f) \/ EntryRefused(f) PROVE Drained'
  <2>1. file[f] = "zipping" /\ zip = "entry" /\ zip' \in {"recv", "closing"}
    BY <1>8 DEF EntryWritten, EntryRefused
  <2>2. \A g \in Files : IF g = f THEN file'[g] = "lost" => zip' = "closing" ELSE file'[g] = file[g]
    BY <1>8 DEF EntryWritten, EntryRefused, Types
  <2> QED
    BY <2>1, <2>2 DEF Drained
<1> QED
  BY <1>1, <1>2, <1>3, <1>4, <1>5, <1>6, <1>7, <1>8, FileSteps

LEMMA EntriesSizeIs ==
  ASSUME NEW fs, fs \subseteq Files
  PROVE  /\ EntriesSize(fs) \in Nat
         /\ \A f \in Files \ fs : EntriesSize(fs \cup {f}) = EntriesSize(fs) + EntrySize(f)
<1> DEFINE s == [f \in Files |-> EntrySize(f)]
<1>1. IsFiniteSet(fs) /\ \A f \in Files : s[f] \in Nat /\ s[f] = EntrySize(f)
  BY Constants, FS_Subset
<1> HIDE DEF s
<1>2. SumFunctionOnSet(s, fs) \in Nat
  BY <1>1, SumNat
<1>3. ASSUME NEW f \in Files \ fs PROVE SumFunctionOnSet(s, fs \cup {f}) = SumFunctionOnSet(s, fs) + EntrySize(f)
  <2>1. \A x \in fs \cup {f} : s[x] \in Int
    BY <1>1
  <2>2. SumFunctionOnSet(s, fs \cup {f}) = SumFunctionOnSet(s, fs) + s[f]
    BY <1>1, <2>1, SumAdd
  <2> QED
    BY <1>1, <2>2
<1> QED
  BY <1>2, <1>3 DEF EntriesSize, s

LEMMA EntryBytesType == ASSUME Types PROVE EntryBytes \in Nat
<1> DEFINE sizes == [i \in DOMAIN zipped |-> EntrySize(zipped[i])]
<1>1. DOMAIN zipped = 1 .. Len(zipped) /\ Len(zipped) \in Nat /\ \A i \in DOMAIN zipped : zipped[i] \in Files
  BY ElementOfSeq DEF Types
<1>2. IsFiniteSet(DOMAIN zipped)
  <2>1. 1 \in Int /\ Len(zipped) \in Int
    BY <1>1
  <2> QED
    BY <1>1, <2>1, FS_Interval
<1>3. \A i \in DOMAIN zipped : sizes[i] \in Nat
  BY <1>1, Constants
<1> HIDE DEF sizes
<1>4. SumFunctionOnSet(sizes, DOMAIN zipped) \in Nat
  BY <1>2, <1>3, SumNat
<1> QED
  BY <1>4 DEF EntryBytes, sizes

LEMMA EntryBytesNext ==
  ASSUME Types, NEW f \in Files, zipped' = Append(zipped, f)
  PROVE  EntryBytes' = EntryBytes + EntrySize(f)
<1> DEFINE n == Len(zipped)
           sizes == [i \in DOMAIN zipped |-> EntrySize(zipped[i])]
           sizes1 == [i \in DOMAIN zipped' |-> EntrySize(zipped'[i])]
<1>1. /\ n \in Nat /\ DOMAIN zipped = 1 .. n /\ DOMAIN zipped' = 1 .. n + 1
      /\ \A i \in 1 .. n : zipped'[i] = zipped[i] /\ zipped[i] \in Files
      /\ zipped'[n + 1] = f
  BY DEF Types
<1>2. /\ \A k \in 1 .. n : sizes1[k] \in Int /\ sizes[k] = sizes1[k]
      /\ sizes1[n + 1] = EntrySize(f) /\ EntrySize(f) \in Int
  BY <1>1, Constants
<1> HIDE DEF sizes, sizes1, n
<1>3. SumFunctionOnSet(sizes1, 1 .. n + 1) = SumFunctionOnSet(sizes, 1 .. n) + sizes1[n + 1]
  BY <1>1, <1>2, SumNext
<1>4. EntryBytes' = SumFunctionOnSet(sizes1, 1 .. n + 1)
  BY <1>1, Zenon DEF EntryBytes, sizes1
<1>5. EntryBytes = SumFunctionOnSet(sizes, 1 .. n)
  BY <1>1, Zenon DEF EntryBytes, sizes
<1> QED
  BY <1>2, <1>3, <1>4, <1>5

LEMMA ZippedOnceStep == Types /\ Flow /\ ZippedOnce /\ [Next]_vars => ZippedOnce'
<1> SUFFICES ASSUME Types, Flow, ZippedOnce, [Next]_vars PROVE ZippedOnce'
  OBVIOUS
<1>0. ASSUME zipped' = zipped, Zipped' = Zipped PROVE ZippedOnce'
  BY <1>0 DEF ZippedOnce, EntryBytes, EntriesSize
<1>1. CASE UNCHANGED <<file, zipped>>
  BY <1>1, <1>0 DEF Zipped
<1>2. CASE Acquire
  <2>1. next \in Files /\ file[next] = "listed"
    BY <1>2, Constants DEF Acquire, Flow
  <2> QED
    BY <1>2, <2>1, <1>0 DEF Acquire, Types, Zipped, zipVars
<1>3. ASSUME NEW f \in Files, Fetched(f) \/ FetchFailed(f) \/ EntryRefused(f) PROVE ZippedOnce'
  <2>1. zipped' = zipped /\ file[f] # "zipped"
    BY <1>3 DEF Fetched, FetchFailed, EntryRefused, zipVars
  <2>2. \A g \in Files : IF g = f THEN file'[g] # "zipped" ELSE file'[g] = file[g]
    BY <1>3 DEF Fetched, FetchFailed, EntryRefused, Types
  <2> QED
    BY <2>1, <2>2, <1>0 DEF Zipped
<1>4. CASE Take
  <2>1. Head(queue) \in Files /\ file[Head(queue)] = "queued"
    BY <1>4, HeadIs DEF Take, Types, Flow
  <2>2. \A g \in Files : file'[g] = IF g = Head(queue) THEN "zipping" ELSE file[g]
    BY <1>4, <2>1 DEF Take, Types
  <2>3. zipped' = zipped
    BY <1>4 DEF Take
  <2> QED
    BY <2>1, <2>2, <2>3, <1>0 DEF Zipped
<1>5. CASE Finish \/ Flush
  BY <1>5, <1>1 DEF Finish, Flush
<1>6. CASE Abandon
  BY <1>6, <1>0 DEF Abandon, Zipped, Queued
<1>7. ASSUME NEW f \in Files, EntryWritten(f) PROVE ZippedOnce'
  <2> DEFINE n == Len(zipped)
  <2>1. zipped' = Append(zipped, f) /\ file[f] = "zipping" /\ file' = [file EXCEPT ![f] = "zipped"]
    BY <1>7 DEF EntryWritten
  <2>2. Zipped' = Zipped \cup {f} /\ f \in Files \ Zipped /\ Zipped \subseteq Files
    BY <2>1 DEF Zipped, Types
  <2>3. /\ n \in Nat /\ DOMAIN zipped = 1 .. n /\ DOMAIN zipped' = 1 .. n + 1 /\ Len(zipped') = n + 1
        /\ \A i \in 1 .. n : zipped'[i] = zipped[i] /\ zipped[i] \in Files
        /\ zipped'[n + 1] = f
    BY <2>1 DEF Types
  <2>4. Cardinality(Zipped \cup {f}) = Cardinality(Zipped) + 1
    <3>1. IsFiniteSet(Zipped)
      BY <2>2, Constants, FS_Subset
    <3> QED
      BY <2>2, <3>1, FS_AddElement
  <2>5. Len(zipped') = Cardinality(Zipped')
    BY <2>2, <2>3, <2>4 DEF ZippedOnce
  <2>6. {zipped'[i] : i \in DOMAIN zipped'} = Zipped'
    <3>1. {zipped'[i] : i \in DOMAIN zipped'} = {zipped[i] : i \in DOMAIN zipped} \cup {f}
      BY <2>3
    <3> QED
      BY <2>2, <3>1 DEF ZippedOnce
  <2>7. EntryBytes' = EntryBytes + EntrySize(f)
    BY <2>1, EntryBytesNext
  <2>8. EntriesSize(Zipped)' = EntriesSize(Zipped) + EntrySize(f)
    <3>1. EntriesSize(Zipped \cup {f}) = EntriesSize(Zipped) + EntrySize(f)
      BY <2>2, EntriesSizeIs
    <3> QED
      BY <2>2, <3>1, Zenon DEF EntriesSize
  <2> QED
    BY <2>5, <2>6, <2>7, <2>8 DEF ZippedOnce
<1> QED
  BY <1>1, <1>2, <1>3, <1>4, <1>5, <1>6, <1>7, FileSteps
-----------------------------------------------------------------------------
(* Slabs and parts *)

(* The parts not received yet are in the channel; what is sealed and not     *)
(* copied and the slab being filled are within the ring, the copies within   *)
(* the upload permits.                                                       *)
Slabs ==
  /\ \A k \in DOMAIN parts : k > recvd <=> parts[k].at = "channel"
  /\ Cardinality(Waiting) + (IF claimed THEN 1 ELSE 0) <= SlabCount
  /\ Cardinality(Sending) <= MaxUploads

(* The loop ends when nothing can come; the job is ok when all were sent;    *)
(* the object is made of them.                                               *)
Ends ==
  /\ upload # "recv" => WriterDropped /\ recvd = Len(parts) /\ Waiting = {}
  /\ upload = "ok" => \A k \in DOMAIN parts : parts[k].at = "sent"
  /\ handler \in {"complete", "ok"} => upload = "ok"
  /\ object # <<>> => object = parts /\ upload = "ok"

(* The steps that touch a part or the slab being filled. *)
LEMMA PartSteps ==
  ASSUME [Next]_vars
  PROVE  \/ UNCHANGED <<parts, recvd, upload, claimed>>
         \/ SealSlab \/ ClaimSlab \/ Abandon \/ Flush \/ RecvLease \/ RecvEnd \/ Join
         \/ \E k \in DOMAIN parts : PartSend(k) \/ PartSent(k)
<1> DEFINE Same == UNCHANGED <<parts, recvd, upload, claimed>>
<1>1. HandlerStep => Same
  BY DEF HandlerStep, List, Start, AwaitDownloads, AwaitZip, AwaitUploads, Complete, zipVars
<1>2. Acquire \/ Take \/ Finish \/ WriteSlab => Same
  BY DEF Acquire, Take, Finish, WriteSlab, zipVars
<1>3. \A f : FetchStep(f) \/ EntryWritten(f) \/ EntryRefused(f) => Same
  BY DEF FetchStep, Fetched, FetchFailed, EntryWritten, EntryRefused, zipVars
<1>4. UNCHANGED vars => Same
  BY DEF vars, zipVars
<1> HIDE DEF Same
<1> QED
  BY <1>1, <1>2, <1>3, <1>4 DEF Next, ZipStep, UploadStep, PartStep, Same

LEMMA PartsFinite ==
  ASSUME Types
  PROVE  /\ DOMAIN parts = 1 .. Len(parts) /\ Len(parts) \in Nat
         /\ IsFiniteSet(Waiting) /\ Cardinality(Waiting) \in Nat
         /\ IsFiniteSet(Sending) /\ Cardinality(Sending) \in Nat
<1>1. DOMAIN parts = 1 .. Len(parts) /\ Len(parts) \in Nat
  BY DEF Types
<1>2. IsFiniteSet(1 .. Len(parts))
  <2>1. 1 \in Int /\ Len(parts) \in Int
    BY <1>1
  <2> QED
    BY <2>1, FS_Interval
<1>3. Waiting \subseteq 1 .. Len(parts) /\ Sending \subseteq 1 .. Len(parts)
  BY <1>1 DEF Waiting, Sending
<1>4. IsFiniteSet(Waiting) /\ IsFiniteSet(Sending)
  BY <1>2, <1>3, FS_Subset
<1> QED
  BY <1>1, <1>4, FS_CardinalityType

(* The zip job is in a slab, but between the seal of a full one and the next. *)
Filling ==
  /\ zip \in {"done", "failed"} => ~claimed
  /\ zip \notin {"done", "failed"} /\ left = 0 => claimed
  /\ zip \in {"recv", "done"} => left = 0

LEMMA FillingStep == Types /\ Filling /\ [Next]_vars => Filling'
<1> SUFFICES ASSUME Types, Filling, [Next]_vars PROVE Filling'
  OBVIOUS
<1>1. CASE UNCHANGED <<zip, left, claimed>>
  BY <1>1 DEF Filling
<1>2. CASE HandlerStep \/ Acquire \/ UploadStep
  <2>1. UNCHANGED <<zip, left, claimed>>
    BY <1>2 DEF HandlerStep, List, Start, AwaitDownloads, AwaitZip, AwaitUploads, Complete,
         Acquire, UploadStep, RecvLease, RecvEnd, Join, zipVars
  <2> QED
    BY <2>1, <1>1
<1>3. ASSUME NEW f \in Files, FetchStep(f) PROVE Filling'
  BY <1>3, <1>1 DEF FetchStep, Fetched, FetchFailed, zipVars
<1>4. ASSUME NEW k \in DOMAIN parts, PartStep(k) PROVE Filling'
  BY <1>4, <1>1 DEF PartStep, PartSend, PartSent, zipVars
<1>5. CASE Take
  <2>1. zip = "recv" /\ zip' = "entry" /\ claimed' = claimed /\ left' = EntrySize(Head(queue))
    BY <1>5 DEF Take
  <2>2. EntrySize(Head(queue)) # 0
    BY <1>5, HeadIs, Constants DEF Take, Types
  <2> QED
    BY <2>1, <2>2 DEF Filling
<1>6. CASE Finish
  BY <1>6, Constants DEF Finish, Filling
<1>7. CASE WriteSlab
  <2>1. UNCHANGED <<zip, claimed>> /\ claimed /\ zip \notin {"done", "failed", "recv"}
    BY <1>7 DEF WriteSlab, Writing
  <2> QED
    BY <2>1 DEF Filling
<1>8. CASE SealSlab
  <2>1. UNCHANGED <<zip, left>> /\ left # 0 /\ ~claimed' /\ zip \notin {"done", "failed", "recv"}
    BY <1>8 DEF SealSlab, Writing, Types
  <2> QED
    BY <2>1 DEF Filling
<1>9. CASE ClaimSlab
  <2>1. UNCHANGED <<zip, left>> /\ claimed' /\ zip \notin {"done", "failed", "recv"}
    BY <1>9 DEF ClaimSlab, Writing
  <2> QED
    BY <2>1 DEF Filling
<1>10. CASE Flush
  <2>1. left = 0 /\ left' = left /\ zip' = "done" /\ ~claimed'
    BY <1>10 DEF Flush
  <2> QED
    BY <2>1 DEF Filling
<1>11. CASE Abandon
  <2>1. zip' = "failed" /\ ~claimed'
    BY <1>11 DEF Abandon
  <2> QED
    BY <2>1 DEF Filling
<1>12. ASSUME NEW f \in Files, EntryWritten(f) PROVE Filling'
  <2>1. zip = "entry" /\ left = 0 /\ zip' = "recv" /\ UNCHANGED <<left, claimed>>
    BY <1>12 DEF EntryWritten
  <2> QED
    BY <2>1 DEF Filling
<1>13. ASSUME NEW f \in Files, EntryRefused(f) PROVE Filling'
  <2>1. zip' = "closing" /\ left' # 0 /\ claimed' = claimed
    BY <1>13, Constants DEF EntryRefused
  <2> QED
    BY <2>1 DEF Filling
<1>14. CASE UNCHANGED vars
  BY <1>14, <1>1 DEF vars, zipVars
<1> QED
  BY <1>2, <1>3, <1>4, <1>5, <1>6, <1>7, <1>8, <1>9, <1>10, <1>11, <1>12, <1>13, <1>14
     DEF Next, ZipStep

LEMMA SlabsStep == Types /\ Filling /\ Slabs /\ [Next]_vars => Slabs'
<1> SUFFICES ASSUME Types, Filling, Slabs, [Next]_vars PROVE Slabs'
  OBVIOUS
<1>a. /\ DOMAIN parts = 1 .. Len(parts) /\ Len(parts) \in Nat
      /\ IsFiniteSet(Waiting) /\ Cardinality(Waiting) \in Nat
      /\ IsFiniteSet(Sending) /\ Cardinality(Sending) \in Nat
      /\ SlabCount \in Nat /\ MaxUploads \in Nat
  BY PartsFinite, Constants
<1>0. ASSUME UNCHANGED <<parts, recvd>>, Cardinality(Waiting) + (IF claimed' THEN 1 ELSE 0) <= SlabCount
      PROVE  Slabs'
  BY <1>0 DEF Slabs, Waiting, Sending
<1>1. CASE UNCHANGED <<parts, recvd, claimed>>
  BY <1>1 DEF Slabs, Waiting, Sending
(* The slab being filled becomes a part in the channel. *)
<1>b. ASSUME Seal, fill \in Nat, claimed, ~claimed', recvd' = recvd PROVE Slabs'
  <2>1. /\ DOMAIN parts' = DOMAIN parts \cup {Len(parts) + 1} /\ Len(parts) + 1 \notin DOMAIN parts
        /\ \A i \in DOMAIN parts : parts'[i] = parts[i]
        /\ parts'[Len(parts) + 1].at = "channel"
    BY <1>b, SealIs DEF Types
  <2>2. Waiting' = Waiting \cup {Len(parts) + 1} /\ Len(parts) + 1 \notin Waiting
    BY <2>1 DEF Waiting
  <2>3. Sending' = Sending
    BY <2>1 DEF Sending
  <2>4. Cardinality(Waiting)' = Cardinality(Waiting) + 1
    BY <1>a, <2>2, FS_AddElement
  <2>5. \A k \in DOMAIN parts' : k > recvd' <=> parts'[k].at = "channel"
    BY <1>a, <1>b, <2>1 DEF Slabs, Types
  <2>6. Cardinality(Waiting) + 1 <= SlabCount
    BY <1>a, <1>b DEF Slabs
  <2>7. Cardinality(Waiting)' + (IF claimed' THEN 1 ELSE 0) <= SlabCount
    BY <1>a, <1>b, <2>4, <2>6
  <2>8. Cardinality(Sending)' <= MaxUploads
    BY <2>3 DEF Slabs
  <2> QED
    BY <2>5, <2>7, <2>8 DEF Slabs
<1>2. CASE SealSlab
  <2>1. Seal /\ fill \in Nat /\ claimed /\ ~claimed' /\ recvd' = recvd
    BY <1>2, Constants DEF SealSlab, Types
  <2> QED
    BY <2>1, <1>b
<1>3. CASE ClaimSlab
  <2>a. Waiting \subseteq Passed /\ IsFiniteSet(Passed)
    BY <1>a, FS_AddElement DEF Passed
  <2>b. Cardinality(Waiting) <= Cardinality(Passed) /\ Cardinality(Passed) \in Nat
    BY <2>a, FS_Subset, FS_CardinalityType
  <2>1. ~claimed /\ SlabCount - Cardinality(Waiting) > 0 /\ parts' = parts /\ recvd' = recvd
    BY <1>3, <1>a, <2>b, Constants DEF ClaimSlab
  <2>2. Cardinality(Waiting) + (IF claimed' THEN 1 ELSE 0) <= SlabCount
    BY <1>a, <2>1
  <2> QED
    BY <2>1, <2>2, <1>0
<1>4. CASE Abandon
  <2>1. ~claimed' /\ parts' = parts /\ recvd' = recvd
    BY <1>4 DEF Abandon
  <2>2. Cardinality(Waiting) + (IF claimed' THEN 1 ELSE 0) <= SlabCount
    BY <1>a, <2>1 DEF Slabs
  <2> QED
    BY <2>1, <2>2, <1>0
<1>5. CASE Flush
  <2>1. ~claimed' /\ recvd' = recvd /\ claimed /\ fill \in Nat
    BY <1>5, Constants DEF Flush, Types, Filling
  <2>2. CASE fill > 0
    BY <1>5, <2>1, <2>2, <1>b DEF Flush
  <2>3. CASE ~(fill > 0)
    <3>1. parts' = parts
      BY <1>5, <2>3 DEF Flush
    <3>2. Cardinality(Waiting) + (IF claimed' THEN 1 ELSE 0) <= SlabCount
      BY <1>a, <2>1 DEF Slabs
    <3> QED
      BY <2>1, <3>1, <3>2, <1>0
  <2> QED
    BY <2>2, <2>3
<1>6. CASE RecvLease
  <2>1. recvd + 1 \in DOMAIN parts /\ recvd' = recvd + 1 /\ claimed' = claimed
    BY <1>6, <1>a DEF RecvLease, Types, zipVars
  <2>2. /\ DOMAIN parts' = DOMAIN parts
        /\ \A i \in DOMAIN parts : parts'[i].at = IF i = recvd + 1 THEN "spawned" ELSE parts[i].at
    BY <1>6, <2>1, SetPartIs DEF RecvLease, Types
  <2>3. parts[recvd + 1].at = "channel"
    BY <2>1 DEF Slabs, Types
  <2>4. Waiting' = Waiting /\ Sending' = Sending
    BY <2>1, <2>2, <2>3 DEF Waiting, Sending
  <2>5. \A k \in DOMAIN parts' : k > recvd' <=> parts'[k].at = "channel"
    <3>1. recvd \in Nat /\ \A k \in DOMAIN parts : k \in Nat
      BY <1>a DEF Types
    <3>2. \A k \in DOMAIN parts : k > recvd <=> parts[k].at = "channel"
      BY DEF Slabs
    <3>3. \A k \in DOMAIN parts : k > recvd + 1 <=> k > recvd /\ k # recvd + 1
      BY <3>1
    <3>4. \A k \in DOMAIN parts : parts'[k].at = "channel" <=> parts[k].at = "channel" /\ k # recvd + 1
      BY <2>2
    <3> QED
      BY <2>1, <2>2, <3>2, <3>3, <3>4
  <2>6. Cardinality(Waiting)' + (IF claimed' THEN 1 ELSE 0) <= SlabCount
    BY <2>1, <2>4 DEF Slabs
  <2>7. Cardinality(Sending)' <= MaxUploads
    BY <2>4 DEF Slabs
  <2> QED
    BY <2>5, <2>6, <2>7 DEF Slabs
<1>7. CASE RecvEnd \/ Join
  BY <1>7, <1>1 DEF RecvEnd, Join, zipVars
<1>8. ASSUME NEW k \in DOMAIN parts, PartSend(k) PROVE Slabs'
  <2>1. /\ UNCHANGED <<recvd, claimed>> /\ parts[k].at = "spawned"
        /\ Cardinality(Sending) < MaxUploads
    BY <1>8 DEF PartSend, MayCopy, zipVars
  <2>2. /\ DOMAIN parts' = DOMAIN parts
        /\ \A i \in DOMAIN parts : parts'[i].at = IF i = k THEN "sending" ELSE parts[i].at
    BY <1>8, SetPartIs DEF PartSend, Types
  <2>3. Waiting' = Waiting \ {k} /\ k \in Waiting
    BY <2>1, <2>2 DEF Waiting
  <2>4. Sending' = Sending \cup {k} /\ k \notin Sending
    BY <2>1, <2>2 DEF Sending
  <2>5. Cardinality(Waiting)' = Cardinality(Waiting) - 1
    BY <1>a, <2>3, FS_RemoveElement
  <2>6. Cardinality(Sending)' = Cardinality(Sending) + 1
    BY <1>a, <2>4, FS_AddElement
  <2>7. \A i \in DOMAIN parts' : i > recvd' <=> parts'[i].at = "channel"
    BY <2>1, <2>2 DEF Slabs
  <2>8. Cardinality(Waiting)' + (IF claimed' THEN 1 ELSE 0) <= SlabCount
    BY <1>a, <2>1, <2>5 DEF Slabs
  <2>9. Cardinality(Sending)' <= MaxUploads
    BY <1>a, <2>1, <2>6
  <2> QED
    BY <2>7, <2>8, <2>9 DEF Slabs
<1>9. ASSUME NEW k \in DOMAIN parts, PartSent(k) PROVE Slabs'
  <2>1. UNCHANGED <<recvd, claimed>> /\ parts[k].at = "sending"
    BY <1>9 DEF PartSent, zipVars
  <2>2. PICK at \in {"sent", "failed"} : SetPart(k, at)
    BY <1>9 DEF PartSent
  <2>3. /\ DOMAIN parts' = DOMAIN parts
        /\ \A i \in DOMAIN parts : parts'[i].at = IF i = k THEN at ELSE parts[i].at
    BY <2>2, SetPartIs DEF Types
  <2>4. Waiting' = Waiting
    BY <2>1, <2>3 DEF Waiting
  <2>5. Sending' = Sending \ {k} /\ k \in Sending
    BY <2>1, <2>3 DEF Sending
  <2>6. Cardinality(Sending)' = Cardinality(Sending) - 1
    BY <1>a, <2>5, FS_RemoveElement
  <2>7. \A i \in DOMAIN parts' : i > recvd' <=> parts'[i].at = "channel"
    BY <2>1, <2>3 DEF Slabs
  <2>8. Cardinality(Waiting)' + (IF claimed' THEN 1 ELSE 0) <= SlabCount
    BY <2>1, <2>4 DEF Slabs
  <2>9. Cardinality(Sending)' <= MaxUploads
    BY <1>a, <2>6 DEF Slabs
  <2> QED
    BY <2>7, <2>8, <2>9 DEF Slabs
<1> QED
  BY <1>1, <1>2, <1>3, <1>4, <1>5, <1>6, <1>7, <1>8, <1>9, PartSteps

LEMMA EndsStep == Types /\ Filling /\ Slabs /\ Ends /\ [Next]_vars => Ends'
<1> SUFFICES ASSUME Types, Filling, Slabs, Ends, [Next]_vars PROVE Ends'
  OBVIOUS
<1>a. ASSUME upload = "recv", upload' = "recv", UNCHANGED <<handler, object>> PROVE Ends'
  BY <1>a DEF Ends
(* A step that seals is one of a writer that is there. *)
<1>1. CASE SealSlab \/ ClaimSlab \/ Abandon \/ Flush
  <2>1. ~WriterDropped /\ UNCHANGED <<handler, object, upload>>
    BY <1>1 DEF SealSlab, ClaimSlab, Abandon, Flush, Writing, WriterDropped
  <2>2. upload = "recv"
    BY <2>1 DEF Ends
  <2> QED
    BY <2>1, <2>2, <1>a
<1>2. CASE RecvLease
  BY <1>2, <1>a DEF RecvLease
<1>3. CASE RecvEnd
  <2>1. /\ upload = "recv" /\ upload' = "join" /\ UNCHANGED <<handler, object, parts, recvd, zip>>
        /\ WriterDropped /\ recvd = Len(parts) /\ Waiting = {}
    BY <1>3 DEF RecvEnd, zipVars
  <2> QED
    BY <2>1 DEF Ends, WriterDropped, Waiting
<1>4. CASE Join
  <2>1. /\ upload = "join" /\ UNCHANGED <<handler, object, parts, recvd, zip>>
        /\ \A k \in DOMAIN parts : parts[k].at \in {"sent", "failed"}
        /\ upload' = IF \E k \in DOMAIN parts : parts[k].at = "failed" THEN "failed" ELSE "ok"
    BY <1>4 DEF Join, zipVars
  <2>2. upload' = "ok" => \A k \in DOMAIN parts : parts[k].at = "sent"
    BY <2>1
  <2> QED
    BY <2>1, <2>2 DEF Ends, WriterDropped, Waiting
<1>5. ASSUME NEW k \in DOMAIN parts, PartSend(k) \/ PartSent(k) PROVE Ends'
  <2>1. UNCHANGED <<handler, object, upload, recvd, zip>> /\ parts[k].at \in {"spawned", "sending"}
    BY <1>5 DEF PartSend, PartSent, MayCopy, zipVars
  <2>2. upload # "ok"
    BY <2>1 DEF Ends
  <2>3. PICK at \in {"sending", "sent", "failed"} : SetPart(k, at)
    BY <1>5 DEF PartSend, PartSent
  <2>4. /\ Len(parts') = Len(parts) /\ DOMAIN parts' = DOMAIN parts
        /\ \A i \in DOMAIN parts : parts'[i].at = IF i = k THEN at ELSE parts[i].at
    BY <2>3, SetPartIs DEF Types
  <2>5. Waiting = {} => Waiting' = {}
    BY <2>4 DEF Waiting
  <2>6. upload # "recv" => WriterDropped' /\ recvd' = Len(parts') /\ Waiting' = {}
    BY <2>1, <2>4, <2>5 DEF Ends, WriterDropped
  <2> QED
    BY <2>1, <2>2, <2>6 DEF Ends
<1>6. CASE HandlerStep
  <2>1. UNCHANGED <<parts, recvd, upload, zip>>
    BY <1>6 DEF HandlerStep, List, Start, AwaitDownloads, AwaitZip, AwaitUploads, Complete, zipVars
  <2>2. Waiting' = Waiting /\ WriterDropped' = WriterDropped
    BY <2>1 DEF Waiting, WriterDropped
  <2>3. \/ object' = object /\ (handler' \in {"complete", "ok"} => upload = "ok")
        \/ object' = parts /\ handler = "complete"
    BY <1>6 DEF HandlerStep, List, Start, AwaitDownloads, AwaitZip, AwaitUploads, Complete
  <2> QED
    BY <2>1, <2>2, <2>3 DEF Ends
<1>7. ASSUME UNCHANGED <<handler, object, parts, recvd, upload>>, WriterDropped => WriterDropped'
      PROVE  Ends'
  <2>1. Waiting' = Waiting
    BY <1>7 DEF Waiting
  <2> QED
    BY <1>7, <2>1 DEF Ends
<1>8. CASE Acquire
  BY <1>8, <1>7 DEF Acquire, zipVars, WriterDropped
<1>9. ASSUME NEW f \in Files, FetchStep(f) PROVE Ends'
  BY <1>9, <1>7 DEF FetchStep, Fetched, FetchFailed, zipVars, WriterDropped
<1>10. CASE Take \/ Finish \/ WriteSlab
  BY <1>10, <1>7 DEF Take, Finish, WriteSlab, WriterDropped
<1>11. ASSUME NEW f \in Files, EntryWritten(f) \/ EntryRefused(f) PROVE Ends'
  BY <1>11, <1>7 DEF EntryWritten, EntryRefused, WriterDropped
<1>12. CASE UNCHANGED vars
  BY <1>12, <1>7 DEF vars, zipVars, WriterDropped
<1> QED
  BY <1>1, <1>2, <1>3, <1>4, <1>5, <1>6, <1>8, <1>9, <1>10, <1>11, <1>12
     DEF Next, ZipStep, UploadStep, PartStep
-----------------------------------------------------------------------------
(* Bytes *)

Current == IF claimed THEN fill ELSE 0

(* What is sealed and in the slab is what was written. *)
Stream ==
  /\ zip = "recv" => BytesOf(parts) + Current = EntryBytes
  /\ \A f \in Files : file[f] = "zipping" =>
       BytesOf(parts) + Current + left = EntryBytes + EntrySize(f)
  /\ zip \in {"directory", "closing", "done"} =>
       BytesOf(parts) + Current + left = EntryBytes + DirectorySize
  /\ zip = "failed" => BytesOf(parts) <= EntryBytes + DirectorySize

(* Every part is full but one that ends the stream. *)
FullParts ==
  /\ zip # "done" => BytesOf(parts) = ChunkSize * Len(parts)
  /\ ChunkSize * Len(parts) < BytesOf(parts) + ChunkSize

LEMMA BytesOfType ==
  ASSUME NEW ps \in Seq(Part)
  PROVE  BytesOf(ps) \in Nat
<1> DEFINE lens == [k \in DOMAIN ps |-> ps[k].len]
<1>1. DOMAIN ps = 1 .. Len(ps) /\ Len(ps) \in Nat /\ \A k \in DOMAIN ps : ps[k] \in Part
  BY ElementOfSeq
<1>2. IsFiniteSet(DOMAIN ps)
  <2>1. 1 \in Int /\ Len(ps) \in Int
    BY <1>1
  <2> QED
    BY <1>1, <2>1, FS_Interval
<1>3. \A k \in DOMAIN ps : lens[k] \in Nat
  BY <1>1 DEF Part
<1> HIDE DEF lens
<1>4. SumFunctionOnSet(lens, DOMAIN ps) \in Nat
  BY <1>2, <1>3, SumNat
<1> QED
  BY <1>4 DEF BytesOf, lens

LEMMA BytesOfEmpty == BytesOf(<<>>) = 0
<1> DEFINE lens == [k \in DOMAIN <<>> |-> <<>>[k].len]
<1>1. DOMAIN <<>> = {} /\ IsFiniteSet({})
  BY FS_EmptySet
<1>2. \A k \in {} : lens[k] \in Int
  OBVIOUS
<1> HIDE DEF lens
<1>3. SumFunctionOnSet(lens, {}) = 0
  BY <1>1, <1>2, SumType
<1> QED
  BY <1>1, <1>3, Zenon DEF BytesOf, lens

LEMMA BytesSealed ==
  ASSUME parts \in Seq(Part), fill \in Nat, Seal
  PROVE  BytesOf(parts') = BytesOf(parts) + fill
<1> DEFINE n == Len(parts)
           lens == [k \in DOMAIN parts |-> parts[k].len]
           lens1 == [k \in DOMAIN parts' |-> parts'[k].len]
<1>1. /\ DOMAIN parts' = DOMAIN parts \cup {n + 1} /\ n + 1 \notin DOMAIN parts
      /\ \A i \in DOMAIN parts : parts'[i] = parts[i]
      /\ parts'[n + 1].len = fill
  BY SealIs
<1>2. n \in Nat /\ DOMAIN parts = 1 .. n /\ DOMAIN parts' = 1 .. n + 1 /\ \A i \in 1 .. n : parts[i] \in Part
  BY <1>1, ElementOfSeq
<1>3. (\A k \in 1 .. n : lens1[k] \in Int /\ lens[k] = lens1[k]) /\ lens1[n + 1] = fill /\ fill \in Int
  BY <1>1, <1>2 DEF Part
<1> HIDE DEF n, lens, lens1
<1>4. SumFunctionOnSet(lens1, 1 .. n + 1) = SumFunctionOnSet(lens, 1 .. n) + lens1[n + 1]
  BY <1>2, <1>3, SumNext
<1>5. BytesOf(parts') = SumFunctionOnSet(lens1, 1 .. n + 1)
  BY <1>2, Zenon DEF BytesOf, lens1
<1>6. BytesOf(parts) = SumFunctionOnSet(lens, 1 .. n)
  BY <1>2, Zenon DEF BytesOf, lens
<1> QED
  BY <1>3, <1>4, <1>5, <1>6

LEMMA BytesMoved ==
  ASSUME parts \in Seq(Part), NEW k \in DOMAIN parts,
         NEW at \in {"channel", "spawned", "sending", "sent", "failed"}, SetPart(k, at)
  PROVE  BytesOf(parts') = BytesOf(parts)
<1>1. DOMAIN parts' = DOMAIN parts /\ \A i \in DOMAIN parts : parts'[i].len = parts[i].len
  BY SetPartIs
<1>2. [i \in DOMAIN parts' |-> parts'[i].len] = [i \in DOMAIN parts |-> parts[i].len]
  BY <1>1
<1> QED
  BY <1>1, <1>2, Zenon DEF BytesOf

(* The steps that write. *)
LEMMA ByteSteps ==
  ASSUME Types, [Next]_vars
  PROVE  \/ /\ UNCHANGED <<file, zip, left, zipped, fill, claimed>>
            /\ BytesOf(parts') = BytesOf(parts) /\ Len(parts') = Len(parts)
         \/ Acquire \/ Take \/ Finish \/ WriteSlab \/ SealSlab \/ ClaimSlab \/ Abandon \/ Flush
         \/ \E f \in Files : Fetched(f) \/ FetchFailed(f) \/ EntryWritten(f) \/ EntryRefused(f)
<1> DEFINE Same == /\ UNCHANGED <<file, zip, left, zipped, fill, claimed>>
                   /\ BytesOf(parts') = BytesOf(parts) /\ Len(parts') = Len(parts)
<1>1. HandlerStep \/ RecvEnd \/ Join => Same
  BY DEF HandlerStep, List, Start, AwaitDownloads, AwaitZip, AwaitUploads, Complete, RecvEnd,
     Join, zipVars
<1>2. RecvLease => Same
  <2> SUFFICES ASSUME RecvLease PROVE Same
    OBVIOUS
  <2>1. /\ recvd + 1 \in DOMAIN parts /\ SetPart(recvd + 1, "spawned")
        /\ UNCHANGED <<file, zip, left, zipped, fill, claimed>>
    BY DEF RecvLease, Types, zipVars
  <2> QED
    BY <2>1, BytesMoved, SetPartIs DEF Types
<1>3. ASSUME NEW k \in DOMAIN parts, PartStep(k) PROVE Same
  <2>1. PICK at \in {"sending", "sent", "failed"} : SetPart(k, at)
    BY <1>3 DEF PartStep, PartSend, PartSent
  <2>2. UNCHANGED <<file, zip, left, zipped, fill, claimed>>
    BY <1>3 DEF PartStep, PartSend, PartSent, zipVars
  <2> QED
    BY <2>1, <2>2, BytesMoved, SetPartIs DEF Types
<1>4. UNCHANGED vars => Same
  BY DEF vars, zipVars
<1> HIDE DEF Same
<1> QED
  BY <1>1, <1>2, <1>3, <1>4 DEF Next, ZipStep, FetchStep, UploadStep, Same

LEMMA FullPartsStep == Types /\ Filling /\ FullParts /\ [Next]_vars => FullParts'
<1> SUFFICES ASSUME Types, Filling, FullParts, [Next]_vars PROVE FullParts'
  OBVIOUS
<1> DEFINE bytes == BytesOf(parts)
           n == Len(parts)
<1>a. bytes \in Nat /\ n \in Nat /\ ChunkSize \in Nat \ {0} /\ fill \in 0 .. ChunkSize
  BY BytesOfType, Constants DEF Types
<1>0. ASSUME BytesOf(parts') = bytes, Len(parts') = n, zip' = zip \/ zip # "done" PROVE FullParts'
  BY <1>0 DEF FullParts
<1>1. CASE UNCHANGED <<file, zip, left, zipped, fill, claimed>> /\ BytesOf(parts') = bytes /\ Len(parts') = n
  BY <1>1, <1>0
<1>2. CASE Acquire \/ Take \/ Finish \/ WriteSlab \/ ClaimSlab
  <2>1. parts' = parts /\ (zip' = zip \/ zip # "done")
    BY <1>2 DEF Acquire, Take, Finish, WriteSlab, ClaimSlab, zipVars
  <2> QED
    BY <2>1, <1>0
<1>3. ASSUME NEW f \in Files, Fetched(f) \/ FetchFailed(f) PROVE FullParts'
  BY <1>3, <1>0 DEF Fetched, FetchFailed, zipVars
<1>4. ASSUME NEW f \in Files, EntryWritten(f) \/ EntryRefused(f) PROVE FullParts'
  BY <1>4, <1>0 DEF EntryWritten, EntryRefused
<1>5. CASE Abandon
  BY <1>5, <1>0 DEF Abandon
<1>6. ChunkSize * (n + 1) = ChunkSize * n + ChunkSize /\ ChunkSize * n \in Nat
  BY <1>a
<1>7. CASE SealSlab
  <2>1. Seal /\ fill = ChunkSize /\ zip' = zip /\ zip # "done"
    BY <1>7 DEF SealSlab, Writing
  <2>2. BytesOf(parts') = bytes + ChunkSize /\ Len(parts') = n + 1
    BY <1>a, <2>1, BytesSealed, SealIs DEF Types
  <2>3. bytes = ChunkSize * n
    BY <2>1 DEF FullParts
  <2> HIDE DEF bytes, n
  <2>4. BytesOf(parts') = ChunkSize * Len(parts')
    BY <1>6, <2>2, <2>3
  <2>5. BytesOf(parts') \in Nat
    BY <1>a, <2>2
  <2>6. ChunkSize * Len(parts') < BytesOf(parts') + ChunkSize
    BY <1>a, <2>4, <2>5
  <2> QED
    BY <2>4, <2>6 DEF FullParts
<1>8. CASE Flush
  <2>1. zip = "directory" /\ zip' = "done"
    BY <1>8 DEF Flush
  <2>2. bytes = ChunkSize * n
    BY <2>1 DEF FullParts
  <2>3. CASE fill > 0
    <3>1. Seal
      BY <1>8, <2>3 DEF Flush
    <3>2. BytesOf(parts') = bytes + fill /\ Len(parts') = n + 1
      BY <1>a, <3>1, BytesSealed, SealIs DEF Types
    <3> HIDE DEF bytes, n
    <3>3. ChunkSize * Len(parts') < BytesOf(parts') + ChunkSize
      BY <1>a, <1>6, <2>2, <2>3, <3>2
    <3> QED
      BY <2>1, <3>3 DEF FullParts
  <2>4. CASE ~(fill > 0)
    <3>1. parts' = parts
      BY <1>8, <2>4 DEF Flush
    <3> QED
      BY <2>1, <3>1 DEF FullParts
  <2> QED
    BY <2>3, <2>4
<1> HIDE DEF bytes, n
<1> QED
  BY <1>1, <1>2, <1>3, <1>4, <1>5, <1>7, <1>8, ByteSteps DEF bytes, n

LEMMA Numbers ==
  ASSUME Types
  PROVE  /\ BytesOf(parts) \in Nat /\ EntryBytes \in Nat /\ left \in Nat /\ fill \in 0 .. ChunkSize
         /\ Len(parts) \in Nat /\ ChunkSize \in Nat \ {0} /\ DirectorySize \in Nat
         /\ \A f \in Files : EntrySize(f) \in Nat
<1>1. parts \in Seq(Part) /\ left \in Nat /\ fill \in 0 .. ChunkSize /\ Len(parts) \in Nat
  BY DEF Types
<1>2. BytesOf(parts) \in Nat
  BY <1>1, BytesOfType
<1>3. EntryBytes \in Nat
  BY EntryBytesType
<1> QED
  BY <1>1, <1>2, <1>3, Constants

LEMMA StreamStep ==
  Types /\ Flow /\ Zipping /\ Filling /\ Stream /\ [Next]_vars => Stream'
<1> SUFFICES ASSUME Types, Flow, Zipping, Filling, Stream, [Next]_vars PROVE Stream'
  OBVIOUS
<1> DEFINE bytes == BytesOf(parts)
<1>a. /\ bytes \in Nat /\ EntryBytes \in Nat /\ Current \in Nat /\ left \in Nat /\ fill \in 0 .. ChunkSize
      /\ ChunkSize \in Nat /\ DirectorySize \in Nat /\ \A f \in Files : EntrySize(f) \in Nat
  BY Numbers DEF Current
<1>b. ASSUME UNCHANGED <<zip, zipped>>, \A f \in Files : file'[f] = "zipping" => file[f] = "zipping",
             BytesOf(parts') + Current' + left' = bytes + Current + left,
             zip = "recv" => BytesOf(parts') + Current' = bytes + Current,
             zip # "failed" \/ BytesOf(parts') = bytes
      PROVE  Stream'
  <2>1. EntryBytes' = EntryBytes
    BY <1>b DEF EntryBytes
  <2> QED
    BY <1>b, <2>1 DEF Stream
<1>1. CASE UNCHANGED <<file, zip, left, zipped, fill, claimed>> /\ BytesOf(parts') = bytes
  BY <1>1, <1>b DEF Current
<1>2. CASE Acquire
  <2>1. UNCHANGED <<zip, left, zipped, fill, claimed, parts>>
    BY <1>2 DEF Acquire, zipVars
  <2>2. \A f \in Files : file'[f] = "zipping" => file[f] = "zipping"
    BY <1>2 DEF Acquire, Types
  <2> QED
    BY <2>1, <2>2, <1>b DEF Current
<1>3. ASSUME NEW f \in Files, Fetched(f) \/ FetchFailed(f) PROVE Stream'
  <2>1. UNCHANGED <<zip, left, zipped, fill, claimed, parts>>
    BY <1>3 DEF Fetched, FetchFailed, zipVars
  <2>2. \A g \in Files : file'[g] = "zipping" => file[g] = "zipping"
    BY <1>3 DEF Fetched, FetchFailed, Types
  <2> QED
    BY <2>1, <2>2, <1>b DEF Current
<1>4. CASE Take
  <2> DEFINE h == Head(queue)
  <2>1. h \in Files
    BY <1>4, HeadIs DEF Take, Types
  <2>2. /\ zip = "recv" /\ zip' = "entry" /\ left' = EntrySize(h)
        /\ UNCHANGED <<zipped, fill, claimed, parts>>
    BY <1>4 DEF Take
  <2>3. \A g \in Files : g # h => file'[g] = file[g] /\ file[g] # "zipping"
    BY <1>4, <2>1, <2>2 DEF Take, Types, Zipping
  <2>4. bytes + Current = EntryBytes
    BY <2>2 DEF Stream
  <2>5. EntryBytes' = EntryBytes /\ Current' = Current /\ BytesOf(parts') = bytes
    BY <2>2 DEF EntryBytes, Current
  <2> HIDE DEF h, bytes
  <2>6. BytesOf(parts') + Current' + left' = EntryBytes' + EntrySize(h)
    BY <1>a, <2>1, <2>2, <2>4, <2>5
  <2> QED
    BY <2>2, <2>3, <2>6 DEF Stream
<1>5. CASE Finish
  <2>1. /\ zip = "recv" /\ zip' = "directory" /\ left' = DirectorySize
        /\ UNCHANGED <<file, zipped, fill, claimed, parts>>
    BY <1>5 DEF Finish
  <2>2. bytes + Current = EntryBytes /\ \A f \in Files : file[f] # "zipping"
    BY <2>1 DEF Stream, Zipping
  <2>3. EntryBytes' = EntryBytes /\ Current' = Current /\ BytesOf(parts') = bytes
    BY <2>1 DEF EntryBytes, Current
  <2> HIDE DEF bytes
  <2>4. BytesOf(parts') + Current' + left' = EntryBytes' + DirectorySize
    BY <1>a, <2>1, <2>2, <2>3
  <2> QED
    BY <2>1, <2>2, <2>4 DEF Stream
<1>6. CASE WriteSlab
  <2>1. PICK n \in Nat : n <= left /\ fill' = fill + n /\ left' = left - n
    BY <1>6, <1>a DEF WriteSlab, Room
  <2>2. UNCHANGED <<file, zip, zipped, claimed, parts>> /\ claimed /\ zip \notin {"recv", "failed"}
    BY <1>6 DEF WriteSlab, Writing
  <2>3. Current = fill /\ Current' = fill + n
    BY <2>1, <2>2 DEF Current
  <2>4. bytes + Current' + left' = bytes + Current + left
    BY <1>a, <2>1, <2>3
  <2> QED
    BY <2>2, <2>4, <1>b
<1>7. CASE SealSlab
  <2>1. /\ UNCHANGED <<file, zip, left, zipped, fill>> /\ claimed /\ ~claimed' /\ Seal
        /\ zip \notin {"recv", "failed"}
    BY <1>7 DEF SealSlab, Writing
  <2>2. Current = fill /\ Current' = 0
    BY <2>1 DEF Current
  <2>3. BytesOf(parts') = bytes + fill
    BY <1>a, <2>1, BytesSealed DEF Types
  <2>4. BytesOf(parts') + Current' + left' = bytes + Current + left
    BY <1>a, <2>1, <2>2, <2>3
  <2> QED
    BY <2>1, <2>4, <1>b
<1>8. CASE ClaimSlab
  <2>1. /\ UNCHANGED <<file, zip, left, zipped, parts>> /\ ~claimed /\ fill' = 0
        /\ zip \notin {"recv", "failed"}
    BY <1>8 DEF ClaimSlab, Writing
  <2>2. Current = 0 /\ Current' = 0
    BY <2>1 DEF Current
  <2> QED
    BY <2>1, <2>2, <1>b
<1>9. CASE Abandon
  <2>1. zip = "closing" /\ zip' = "failed" /\ left = 0 /\ UNCHANGED <<zipped, parts>>
    BY <1>9 DEF Abandon
  <2>2. \A f \in Files : file'[f] # "zipping"
    BY <1>9, <2>1 DEF Abandon, Zipping
  <2>3. bytes + Current + left = EntryBytes + DirectorySize
    BY <2>1 DEF Stream
  <2>4. EntryBytes' = EntryBytes /\ BytesOf(parts') = bytes
    BY <2>1 DEF EntryBytes
  <2> HIDE DEF bytes
  <2>5. BytesOf(parts') <= EntryBytes' + DirectorySize
    BY <1>a, <2>3, <2>4
  <2> QED
    BY <2>1, <2>2, <2>5 DEF Stream
<1>10. CASE Flush
  <2>1. /\ zip = "directory" /\ zip' = "done" /\ left = 0 /\ claimed /\ ~claimed'
        /\ UNCHANGED <<file, zipped, left>>
    BY <1>10 DEF Flush, Filling
  <2>2. Current = fill /\ Current' = 0 /\ EntryBytes' = EntryBytes
    BY <2>1 DEF Current, EntryBytes
  <2>3. BytesOf(parts') = bytes + fill
    <3>1. CASE fill > 0
      <4>1. Seal
        BY <1>10, <3>1 DEF Flush
      <4> QED
        BY <1>a, <4>1, BytesSealed DEF Types
    <3>2. CASE ~(fill > 0)
      BY <1>10, <1>a, <3>2 DEF Flush
    <3> QED
      BY <3>1, <3>2
  <2>4. bytes + Current + left = EntryBytes + DirectorySize /\ \A f \in Files : file[f] # "zipping"
    BY <2>1 DEF Stream, Zipping
  <2> HIDE DEF bytes
  <2>5. BytesOf(parts') + Current' + left' = EntryBytes' + DirectorySize
    BY <1>a, <2>1, <2>2, <2>3, <2>4
  <2> QED
    BY <2>1, <2>4, <2>5 DEF Stream
<1>11. ASSUME NEW f \in Files, EntryWritten(f) PROVE Stream'
  <2>1. /\ zip = "entry" /\ left = 0 /\ file[f] = "zipping" /\ zip' = "recv"
        /\ zipped' = Append(zipped, f) /\ UNCHANGED <<left, fill, claimed, parts>>
    BY <1>11 DEF EntryWritten
  <2>2. \A g \in Files : file'[g] # "zipping"
    BY <1>11, <2>1 DEF EntryWritten, Zipping, Types
  <2>3. bytes + Current + left = EntryBytes + EntrySize(f)
    BY <2>1 DEF Stream
  <2>4. EntryBytes' = EntryBytes + EntrySize(f) /\ Current' = Current /\ BytesOf(parts') = bytes
    BY <2>1, EntryBytesNext DEF Current
  <2> HIDE DEF bytes
  <2>5. BytesOf(parts') + Current' = EntryBytes'
    BY <1>a, <2>1, <2>3, <2>4
  <2> QED
    BY <2>1, <2>2, <2>5 DEF Stream
<1>12. ASSUME NEW f \in Files, EntryRefused(f) PROVE Stream'
  <2>1. /\ zip = "entry" /\ left = EntrySize(f) /\ file[f] = "zipping" /\ zip' = "closing"
        /\ left' = DirectorySize /\ UNCHANGED <<zipped, fill, claimed, parts>>
    BY <1>12 DEF EntryRefused
  <2>2. \A g \in Files : file'[g] # "zipping"
    BY <1>12, <2>1 DEF EntryRefused, Zipping, Types
  <2>3. bytes + Current + left = EntryBytes + EntrySize(f)
    BY <2>1 DEF Stream
  <2>4. EntryBytes' = EntryBytes /\ Current' = Current /\ BytesOf(parts') = bytes
    BY <2>1 DEF Current, EntryBytes
  <2> HIDE DEF bytes
  <2>5. BytesOf(parts') + Current' + left' = EntryBytes' + DirectorySize
    BY <1>a, <2>1, <2>3, <2>4
  <2> QED
    BY <2>1, <2>2, <2>5 DEF Stream
<1> HIDE DEF bytes
<1> QED
  BY <1>1, <1>2, <1>3, <1>4, <1>5, <1>6, <1>7, <1>8, <1>9, <1>10, <1>11, <1>12, ByteSteps DEF bytes
-----------------------------------------------------------------------------
(* The invariant *)

Inv ==
  /\ Types /\ Flow /\ Memory
  /\ Zipping /\ ZippedOnce /\ Drained
  /\ Filling /\ Slabs /\ Ends /\ Stream /\ FullParts

LEMMA InitInv == Init => Inv
<1> SUFFICES ASSUME Init PROVE Inv
  OBVIOUS
<1>1. Types /\ Flow /\ Zipping /\ Drained /\ Filling
  <2>1. Types
    BY InitTypes
  <2>2. Flow
    BY Constants DEF Init, Flow
  <2> QED
    BY <2>1, <2>2 DEF Init, Zipping, Drained, Filling
<1>2. Memory
  <2>1. Held = {} /\ permits = MaxMemory /\ MaxMemory \in Nat
    BY Constants DEF Init, Held
  <2>2. Bytes({}) = 0
    <3>1. IsFiniteSet({}) /\ \A x \in {} : Size[x] \in Int
      BY FS_EmptySet
    <3> QED
      BY <3>1, SumType DEF Bytes
  <2>3. Bytes(Held) = 0
    BY <2>1, <2>2, Zenon
  <2> QED
    BY <2>1, <2>3 DEF Memory
<1>3. EntryBytes = 0
  <2> DEFINE sizes == [i \in DOMAIN zipped |-> EntrySize(zipped[i])]
  <2>1. DOMAIN zipped = {} /\ IsFiniteSet({}) /\ \A i \in {} : sizes[i] \in Int
    BY FS_EmptySet DEF Init
  <2> HIDE DEF sizes
  <2>2. SumFunctionOnSet(sizes, {}) = 0
    BY <2>1, SumType
  <2> QED
    BY <2>1, <2>2, Zenon DEF EntryBytes, sizes
<1>4. ZippedOnce
  <2>1. Zipped = {} /\ zipped = <<>> /\ DOMAIN zipped = {} /\ Len(zipped) = 0
    BY DEF Init, Zipped
  <2>2. EntriesSize({}) = 0
    <3> DEFINE s == [f \in Files |-> EntrySize(f)]
    <3>1. IsFiniteSet({}) /\ \A x \in {} : s[x] \in Int
      BY FS_EmptySet
    <3> HIDE DEF s
    <3>2. SumFunctionOnSet(s, {}) = 0
      BY <3>1, SumType
    <3> QED
      BY <3>2 DEF EntriesSize, s
  <2>3. EntriesSize(Zipped) = 0
    BY <2>1, <2>2, Zenon
  <2>4. Cardinality(Zipped) = 0
    BY <2>1, FS_EmptySet
  <2>5. {zipped[i] : i \in DOMAIN zipped} = Zipped
    BY <2>1
  <2> QED
    BY <1>3, <2>1, <2>3, <2>4, <2>5 DEF ZippedOnce
<1>5. Slabs /\ Ends
  <2>1. /\ DOMAIN parts = {} /\ claimed /\ upload = "recv" /\ handler = "list" /\ object = <<>>
        /\ Waiting = {} /\ Sending = {}
    BY DEF Init, Waiting, Sending
  <2>2. Cardinality(Waiting) = 0 /\ Cardinality(Sending) = 0
    BY <2>1, FS_EmptySet
  <2>3. Slabs
    BY <2>1, <2>2, Constants DEF Slabs
  <2>4. Ends
    BY <2>1 DEF Ends
  <2> QED
    BY <2>3, <2>4
<1>6. BytesOf(parts) = 0 /\ Len(parts) = 0 /\ ChunkSize \in Nat \ {0}
  BY BytesOfEmpty, Constants DEF Init
<1>7. Stream
  BY <1>3, <1>6 DEF Init, Stream, Current
<1>8. FullParts
  BY <1>6 DEF FullParts
<1> QED
  BY <1>1, <1>2, <1>4, <1>5, <1>7, <1>8 DEF Inv

LEMMA InvStep == Inv /\ [Next]_vars => Inv'
  BY TypesStep, FlowStep, MemoryStep, ZippingStep, ZippedOnceStep, DrainedStep, FillingStep,
     SlabsStep, EndsStep, StreamStep, FullPartsStep DEF Inv

(* The stream is the directory and at most an entry for each file, and what  *)
(* is sealed is part of it.                                                  *)
LEMMA PartsBounded == ASSUME Inv PROVE Len(parts) <= MaxParts
<1> DEFINE bytes == BytesOf(parts)
           all == EntriesSize(Files)
<1>1. /\ bytes \in Nat /\ EntryBytes \in Nat /\ left \in Nat /\ Current \in Nat /\ all \in Nat
      /\ DirectorySize \in Nat /\ Len(parts) \in Nat /\ ChunkSize \in Nat \ {0}
      /\ \A f \in Files : EntrySize(f) \in Nat
  <2>1. EntriesSize(Files) \in Nat
    BY EntriesSizeIs
  <2>2. Types
    BY DEF Inv
  <2>3. Current \in Nat
    BY <2>2, Numbers DEF Current
  <2> QED
    BY <2>1, <2>2, <2>3, Numbers
<1>2. \A fs \in SUBSET Files : EntriesSize(fs) <= all
  <2> DEFINE s == [f \in Files |-> EntrySize(f)]
  <2>1. IsFiniteSet(Files) /\ \A f \in Files : s[f] \in Nat
    BY Constants
  <2> HIDE DEF s
  <2>2. \A fs \in SUBSET Files : SumFunctionOnSet(s, fs) <= SumFunctionOnSet(s, Files)
    BY <2>1, SumWithin
  <2> QED
    BY <2>2 DEF EntriesSize, s
<1>3. EntryBytes <= all /\ \A f \in Files : file[f] = "zipping" => EntryBytes + EntrySize(f) <= all
  <2>1. EntryBytes = EntriesSize(Zipped) /\ Zipped \in SUBSET Files
    BY DEF Inv, ZippedOnce, Zipped
  <2>2. ASSUME NEW f \in Files, file[f] = "zipping" PROVE EntryBytes + EntrySize(f) <= all
    <3>1. f \in Files \ Zipped /\ Zipped \cup {f} \in SUBSET Files
      BY <2>2 DEF Zipped
    <3>2. EntriesSize(Zipped \cup {f}) = EntryBytes + EntrySize(f)
      BY <2>1, <3>1, EntriesSizeIs
    <3> QED
      BY <1>2, <3>1, <3>2
  <2> QED
    BY <1>2, <2>1, <2>2
<1> HIDE DEF bytes, all
<1>4. bytes <= all + DirectorySize
  <2>1. CASE zip = "entry"
    <3>1. PICK f \in Files : file[f] = "zipping"
      BY <2>1 DEF Inv, Zipping
    <3>2. bytes + Current + left = EntryBytes + EntrySize(f)
      BY <3>1 DEF Inv, Stream, bytes
    <3> QED
      BY <1>1, <1>3, <3>1, <3>2
  <2>2. CASE zip = "recv"
    <3>1. bytes + Current = EntryBytes
      BY <2>2 DEF Inv, Stream, bytes
    <3> QED
      BY <1>1, <1>3, <3>1
  <2>3. CASE zip \in {"directory", "closing", "done"}
    <3>1. bytes + Current + left = EntryBytes + DirectorySize
      BY <2>3 DEF Inv, Stream, bytes
    <3> QED
      BY <1>1, <1>3, <3>1
  <2>4. CASE zip = "failed"
    <3>1. bytes <= EntryBytes + DirectorySize
      BY <2>4 DEF Inv, Stream, bytes
    <3> QED
      BY <1>1, <1>3, <3>1
  <2> QED
    BY <2>1, <2>2, <2>3, <2>4 DEF Inv, Types
<1>5. StreamSize = all + DirectorySize /\ StreamSize \in Nat
  BY <1>1 DEF StreamSize, EntriesSize, all
<1>6. ChunkSize * Len(parts) < StreamSize + ChunkSize
  <2>1. ChunkSize * Len(parts) < bytes + ChunkSize
    BY DEF Inv, FullParts, bytes
  <2>2. ChunkSize * Len(parts) \in Nat
    BY <1>1
  <2> QED
    BY <1>1, <1>4, <1>5, <2>1, <2>2
<1>7. Len(parts) <= 1 + StreamSize \div ChunkSize
  <2> DEFINE L == Len(parts)
             q == StreamSize \div ChunkSize
  <2>1. q \in Nat /\ StreamSize < ChunkSize * q + ChunkSize
    BY <1>1, <1>5
  <2> HIDE DEF L, q
  <2>2. SUFFICES ASSUME L >= q + 2 PROVE FALSE
    BY <1>1, <2>1 DEF L, q
  <2>3. ChunkSize * L >= ChunkSize * (q + 2) /\ ChunkSize * (q + 2) = ChunkSize * q + ChunkSize + ChunkSize
    BY <1>1, <2>1, <2>2 DEF L
  <2>4. ChunkSize * L \in Nat /\ ChunkSize * q \in Nat
    BY <1>1, <2>1 DEF L
  <2>5. ChunkSize * L < StreamSize + ChunkSize
    BY <1>6 DEF L
  <2> QED
    BY <1>1, <1>5, <2>1, <2>3, <2>4, <2>5
<1> QED
  BY <1>7 DEF MaxParts

LEMMA SpecInv == Spec => []Inv
  BY InitInv, InvStep, PTL DEF Spec
-----------------------------------------------------------------------------
(* Theorems *)

LEMMA TypeOKHolds == ASSUME Inv PROVE TypeOK
<1>1. Types /\ permits \in 0 .. MaxMemory /\ Len(parts) <= MaxParts
  BY PartsBounded DEF Inv, Memory
<1>2. \A i \in DOMAIN queue : queue[i] \in Files
  BY <1>1, ElementOfSeq DEF Types
<1> QED
  BY <1>1, <1>2 DEF Types, TypeOK

(* The types of the pipeline, and no more parts than the stream has chunks.  *)
(* (download_files_job, zip_job, upload_job of jrodon/src/main.rs.)          *)
THEOREM PipelineTypeOK == Spec => []TypeOK
  BY SpecInv, TypeOKHolds, PTL

(* Memory permits, slabs and upload permits are conserved on every path: a   *)
(* fetch that fails, a receiver that is gone, an entry that is refused.      *)
THEOREM PipelineConserves == Spec => []PermitsConserved
<1>1. Inv => PermitsConserved
  <2> SUFFICES ASSUME Inv PROVE PermitsConserved
    OBVIOUS
  <2>1. permits + Bytes(Held) = MaxMemory /\ TypeOK
    BY TypeOKHolds DEF Inv, Memory
  <2>2. Cardinality(Waiting) \in Nat /\ SlabCount \in Nat
    BY PartsFinite, Constants DEF Inv
  <2>3. Cardinality(Waiting) + (IF claimed THEN 1 ELSE 0) <= SlabCount /\ Cardinality(Sending) <= MaxUploads
    BY DEF Inv, Slabs
  <2>4. FreeSlabs >= 0
    BY <2>2, <2>3 DEF FreeSlabs
  <2> QED
    BY <2>1, <2>3, <2>4 DEF PermitsConserved
<1> QED
  BY SpecInv, <1>1, PTL

(* An object that S3 made after a zip job that finished is the whole stream. *)
THEOREM PipelineObjectWhole == Spec => []ObjectWhole
<1>1. Inv => ObjectWhole
  <2> SUFFICES ASSUME Inv, object # <<>>, zip = "done" PROVE
         /\ BytesOf(object) = EntryBytes + DirectorySize
         /\ \A k \in DOMAIN object : object[k].at = "sent"
         /\ {zipped[i] : i \in DOMAIN zipped} = {f \in Files : file[f] # "lost"}
         /\ Len(zipped) = Cardinality({f \in Files : file[f] # "lost"})
         /\ \A f \in Files : file[f] = "lost" => f \in FetchFails
    BY DEF ObjectWhole
  <2>1. object = parts /\ \A k \in DOMAIN parts : parts[k].at = "sent"
    BY DEF Inv, Ends
  <2>2. /\ BytesOf(parts) + Current + left = EntryBytes + DirectorySize
        /\ Current = 0 /\ left = 0
    BY DEF Inv, Stream, Filling, Current
  <2>3. BytesOf(parts) = EntryBytes + DirectorySize
    BY <2>2, Numbers DEF Inv
  <2>4. Zipped = {f \in Files : file[f] # "lost"} /\ \A f \in Files : file[f] = "lost" => f \in FetchFails
    BY DEF Inv, Drained, Zipped
  <2>5. {zipped[i] : i \in DOMAIN zipped} = Zipped /\ Len(zipped) = Cardinality(Zipped)
    BY DEF Inv, ZippedOnce
  <2>6. BytesOf(object) = EntryBytes + DirectorySize /\ \A k \in DOMAIN object : object[k].at = "sent"
    BY <2>1, <2>3
  <2>7. Len(zipped) = Cardinality({f \in Files : file[f] # "lost"})
    BY <2>4, <2>5, Zenon
  <2>8. {zipped[i] : i \in DOMAIN zipped} = {f \in Files : file[f] # "lost"}
    BY <2>4, <2>5, Zenon
  <2> QED
    BY <2>4, <2>6, <2>7, <2>8
<1> QED
  BY SpecInv, <1>1, PTL
=============================================================================
