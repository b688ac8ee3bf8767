------------------------------ MODULE JrodonV1 ------------------------------
(***************************************************************************)
(* One invocation of the jrodon contender (contenders/rust/jrodon):        *)
(* a download job fetches objects concurrently under a memory semaphore,   *)
(* a blocking zip job writes them as ZIP entries into the slab ring, an    *)
(* upload job sends the sealed slabs as the parts of a multipart upload,   *)
(* and the handler awaits the three jobs in that order and completes the   *)
(* upload.                                                                 *)
(*                                                                         *)
(* The ring is taken at the level SlabRing proves: slabs are cut in stream *)
(* order, all full but the last, and a lease returns its slab when it is   *)
(* dropped. Bytes are counted, not named. Each S3 call may fail.           *)
(*                                                                         *)
(* A definition that stands just before another one of the same shape and  *)
(* whose name extends it (FetchFailedLeak, ...) is that one with a         *)
(* plausible bug; no specification uses it.                                *)
(***************************************************************************)
EXTENDS Integers, Sequences, FiniteSets, Functions

CONSTANTS
  FileCount,    (* files listed, in listing order: 1 .. FileCount          *)
  Size,         (* file -> its size                                        *)
  MaxMemory,    (* MAX_DOWNLOADS_MEMORY, permits of the memory semaphore   *)
  MaxUploads,   (* MAX_CONCURRENT_UPLOADS                                  *)
  ChunkSize,    (* CHUNK_SIZE_BYTES, the size of a slab                    *)
  SlabCount,    (* BUFFER_CHUNKS_COUNT                                     *)
  DirectorySize,(* bytes of the central directory (external: the zip crate)*)
  MinPart,      (* S3's least size for a part that is not the last one     *)
  FetchFails,   (* files whose download may fail                           *)
  UploadFails,  (* an upload_part may fail                                 *)
  ZipFails      (* files add_file may refuse                               *)

Files == 1 .. FileCount
EntrySize(f) == 1 + Size[f]        (* the local header counts for one byte *)
Bytes(fs) == SumFunctionOnSet(Size, fs)

ASSUME PipelineAssumption ==
  /\ FileCount \in Nat /\ Size \in [Files -> Nat]
  /\ {MaxMemory, MaxUploads, ChunkSize, DirectorySize, MinPart} \subseteq Nat \ {0}
  /\ SlabCount \in Nat \ {0, 1}
  /\ FetchFails \subseteq Files /\ ZipFails \subseteq Files /\ UploadFails \in BOOLEAN

VARIABLES
  handler,   (* what the handler awaits, or its answer                      *)
  next,      (* the file the download job acquires permits for              *)
  permits,   (* available permits of the memory semaphore                   *)
  file,      (* file -> where its data is                                   *)
  queue,     (* the channel from the download tasks to the zip job          *)
  zip,       (* what the zip job does                                       *)
  left,      (* bytes of the entry or directory it has yet to write         *)
  zipped,    (* the entries written, in order                               *)
  fill,      (* bytes in the slab the ring's writer is in                   *)
  claimed,   (* that slab is not sealed yet                                 *)
  parts,     (* part number - 1 slabs sealed so far: [len, at]              *)
  recvd,     (* leases the upload loop has received                         *)
  upload,    (* what the upload job does, or its result                     *)
  object     (* parts of the object S3 made at completion; <<>>: none       *)

zipVars == <<zip, left, zipped, fill, claimed>>
vars == <<handler, next, permits, file, queue, zipVars, parts, recvd, upload, object>>

(* "refused" is an error answered before the jobs are spawned. *)
Running == handler \notin {"list", "start", "refused"}
Waiting == {k \in DOMAIN parts : parts[k].at \in {"channel", "spawned"}}
Sending == {k \in DOMAIN parts : parts[k].at = "sending"}
FreeSlabs == SlabCount - Cardinality(Waiting) - (IF claimed THEN 1 ELSE 0)

ReceiverOpen == zip \notin {"done", "failed"}
WriterDropped == zip \in {"done", "failed"}
Writing == zip \in {"entry", "directory", "closing"}

Init ==
  /\ handler = "list"
  /\ next = 1 /\ permits = MaxMemory
  /\ file = [f \in Files |-> "listed"] /\ queue = <<>>
  /\ zip = "recv" /\ left = 0 /\ zipped = <<>> /\ fill = 0 /\ claimed = TRUE
  /\ parts = <<>> /\ recvd = 0 /\ upload = "recv"
  /\ object = <<>>
-----------------------------------------------------------------------------
(* The handler *)

List ==
  /\ handler = "list" /\ handler' \in {"start", "refused"}
  /\ UNCHANGED <<next, permits, file, queue, zipVars, parts, recvd, upload, object>>

(* start_multipart_upload, then the three jobs are spawned. *)
Start ==
  /\ handler = "start" /\ handler' \in {"downloads", "refused"}
  /\ UNCHANGED <<next, permits, file, queue, zipVars, parts, recvd, upload, object>>

(* The download job is awaited, not the tasks it spawned. *)
AwaitDownloads ==
  /\ handler = "downloads" /\ next > FileCount
  /\ handler' = "zip"
  /\ UNCHANGED <<next, permits, file, queue, zipVars, parts, recvd, upload, object>>

(* The zip job returns (): a failure has only been logged. *)
AwaitZip ==
  /\ handler = "zip" /\ WriterDropped
  /\ handler' = "uploads"
  /\ UNCHANGED <<next, permits, file, queue, zipVars, parts, recvd, upload, object>>

AwaitUploads ==
  /\ handler = "uploads" /\ upload \in {"ok", "failed"}
  /\ handler' = IF upload = "ok" THEN "complete" ELSE "error"
  /\ UNCHANGED <<next, permits, file, queue, zipVars, parts, recvd, upload, object>>

(* The parts sorted by number become the object; S3 refuses an empty list    *)
(* and a small part that is not the last, and any call may fail.             *)
Completable == /\ parts # <<>>
               /\ \A k \in 1 .. Len(parts) - 1 : parts[k].len >= MinPart

Complete ==
  /\ handler = "complete"
  /\ \/ Completable /\ handler' = "ok" /\ object' = parts
     \/ handler' = "error" /\ UNCHANGED object
  /\ UNCHANGED <<next, permits, file, queue, zipVars, parts, recvd, upload>>
-----------------------------------------------------------------------------
(* The download job and its tasks *)

(* acquire_many_owned(size), then a task is spawned. *)
Acquire ==
  /\ Running /\ next \in Files /\ Size[next] <= permits
  /\ permits' = permits - Size[next]
  /\ file' = [file EXCEPT ![next] = "fetching"]
  /\ next' = next + 1
  /\ UNCHANGED <<handler, queue, zipVars, parts, recvd, upload, object>>

(* The data goes to the zip job with its permits; when the receiver is gone *)
(* both are dropped with the failed send.                                   *)
Fetched(f) ==
  /\ file[f] = "fetching"
  /\ IF ReceiverOpen
     THEN /\ file' = [file EXCEPT ![f] = "queued"]
          /\ queue' = Append(queue, f)
          /\ UNCHANGED permits
     ELSE /\ file' = [file EXCEPT ![f] = "lost"]
          /\ permits' = permits + Size[f]
          /\ UNCHANGED queue
  /\ UNCHANGED <<handler, next, zipVars, parts, recvd, upload, object>>

(* download_file fails: the task ends with an error nobody looks at. *)
FetchFailedLeak(f) ==
  /\ file[f] = "fetching" /\ f \in FetchFails
  /\ file' = [file EXCEPT ![f] = "lost"]
  /\ UNCHANGED <<handler, next, permits, queue, zipVars, parts, recvd, upload, object>>

FetchFailed(f) ==
  /\ file[f] = "fetching" /\ f \in FetchFails
  /\ file' = [file EXCEPT ![f] = "lost"]
  /\ permits' = permits + Size[f]
  /\ UNCHANGED <<handler, next, queue, zipVars, parts, recvd, upload, object>>
-----------------------------------------------------------------------------
(* The zip job *)

Take ==
  /\ Running /\ zip = "recv" /\ queue # <<>>
  /\ queue' = Tail(queue)
  /\ file' = [file EXCEPT ![Head(queue)] = "zipping"]
  /\ zip' = "entry" /\ left' = EntrySize(Head(queue))
  /\ UNCHANGED <<handler, next, permits, zipped, fill, claimed, parts, recvd,
                 upload, object>>

(* blocking_recv returns None when every sender is dropped: the download     *)
(* job's and those of the tasks.                                             *)
SendersDroppedEarly == next > FileCount
SendersDropped == next > FileCount /\ \A f \in Files : file[f] # "fetching"

Finish ==
  /\ Running /\ zip = "recv" /\ queue = <<>> /\ SendersDropped
  /\ zip' = "directory" /\ left' = DirectorySize
  /\ UNCHANGED <<handler, next, permits, file, queue, zipped, fill, claimed, parts,
                 recvd, upload, object>>

(* The ring's writer: fill the slab, seal it when full, claim another one.   *)
Room == ChunkSize - fill

WriteSlab ==
  /\ Writing /\ left > 0 /\ claimed /\ fill < ChunkSize
  /\ LET n == IF left <= Room THEN left ELSE Room IN
       fill' = fill + n /\ left' = left - n
  /\ UNCHANGED <<handler, next, permits, file, queue, zip, zipped, claimed, parts,
                 recvd, upload, object>>

Seal == parts' = Append(parts, [len |-> fill, at |-> "channel"])

SealSlab ==
  /\ Writing /\ left > 0 /\ claimed /\ fill = ChunkSize
  /\ Seal /\ claimed' = FALSE
  /\ UNCHANGED <<handler, next, permits, file, queue, zip, left, zipped, fill, recvd,
                 upload, object>>

(* The scan ends where it began, at the slab just sealed: that one is never *)
(* taken, even when it is the only one that is free.                        *)
Passed == Waiting \cup {Len(parts)}

ClaimSlab ==
  /\ Writing /\ ~claimed /\ Cardinality(Passed) < SlabCount
  /\ claimed' = TRUE /\ fill' = 0
  /\ UNCHANGED <<handler, next, permits, file, queue, zip, left, zipped, parts, recvd,
                 upload, object>>

(* The entry is written; the permits are dropped at the end of the turn. *)
EntryWrittenLeak(f) ==
  /\ zip = "entry" /\ left = 0 /\ file[f] = "zipping"
  /\ zipped' = Append(zipped, f)
  /\ file' = [file EXCEPT ![f] = "zipped"]
  /\ zip' = "recv"
  /\ UNCHANGED <<handler, next, permits, queue, left, fill, claimed, parts, recvd,
                 upload, object>>

EntryWritten(f) ==
  /\ zip = "entry" /\ left = 0 /\ file[f] = "zipping"
  /\ zipped' = Append(zipped, f)
  /\ file' = [file EXCEPT ![f] = "zipped"]
  /\ permits' = permits + Size[f]
  /\ zip' = "recv"
  /\ UNCHANGED <<handler, next, queue, left, fill, claimed, parts, recvd, upload, object>>

(* add_file refuses the entry, before it writes any of it: the job returns,  *)
(* and the drop of the zip writer still writes the directory of the entries  *)
(* so far (external: the zip crate) ...                                      *)
EntryRefused(f) ==
  /\ zip = "entry" /\ file[f] = "zipping" /\ f \in ZipFails /\ left = EntrySize(f)
  /\ zip' = "closing" /\ left' = DirectorySize
  /\ file' = [file EXCEPT ![f] = "lost"]
  /\ permits' = permits + Size[f]
  /\ UNCHANGED <<handler, next, queue, zipped, fill, claimed, parts, recvd, upload, object>>

(* ... but nothing flushes the ring's writer: its last slab is dropped with  *)
(* it, and then the queue with its permits.                                  *)
Queued == {f \in Files : file[f] = "queued"}

Abandon ==
  /\ zip = "closing" /\ left = 0
  /\ zip' = "failed" /\ claimed' = FALSE /\ queue' = <<>>
  /\ file' = [f \in Files |-> IF f \in Queued THEN "lost" ELSE file[f]]
  /\ permits' = permits + Bytes(Queued)
  /\ UNCHANGED <<handler, next, left, zipped, fill, parts, recvd, upload, object>>

(* finish returned the writer; flush seals what the last slab holds.         *)

Flush ==
  /\ zip = "directory" /\ left = 0
  /\ zip' = "done" /\ claimed' = FALSE
  /\ IF fill > 0 THEN Seal ELSE UNCHANGED parts
  /\ UNCHANGED <<handler, next, permits, file, queue, left, zipped, fill, recvd,
                 upload, object>>
-----------------------------------------------------------------------------
(* The upload job and its tasks *)

SetPart(k, at) == parts' = [parts EXCEPT ![k].at = at]

RecvLease ==
  /\ Running /\ upload = "recv" /\ recvd < Len(parts)
  /\ recvd' = recvd + 1 /\ SetPart(recvd + 1, "spawned")
  /\ UNCHANGED <<handler, next, permits, file, queue, zipVars, upload, object>>

(* recv returns None once the writer and every lease are gone. *)
RecvEnd ==
  /\ Running /\ upload = "recv" /\ recvd = Len(parts)
  /\ WriterDropped /\ Waiting = {}
  /\ upload' = "join"
  /\ UNCHANGED <<handler, next, permits, file, queue, zipVars, parts, recvd, object>>

(* A task with an upload permit copies its slab, which frees the slab, and   *)
(* sends the copy.                                                           *)
MayCopy(k) == parts[k].at = "spawned" /\ Cardinality(Sending) < MaxUploads

PartSend(k) ==
  /\ MayCopy(k) /\ SetPart(k, "sending")
  /\ UNCHANGED <<handler, next, permits, file, queue, zipVars, recvd, upload, object>>

PartSent(k) ==
  /\ parts[k].at = "sending"
  /\ \/ SetPart(k, "sent")
     \/ UploadFails /\ SetPart(k, "failed")
  /\ UNCHANGED <<handler, next, permits, file, queue, zipVars, recvd, upload, object>>

(* join_all, then collect: one failed part fails the job. *)
Join ==
  /\ upload = "join" /\ \A k \in DOMAIN parts : parts[k].at \in {"sent", "failed"}
  /\ upload' = IF \E k \in DOMAIN parts : parts[k].at = "failed" THEN "failed" ELSE "ok"
  /\ UNCHANGED <<handler, next, permits, file, queue, zipVars, parts, recvd, object>>
-----------------------------------------------------------------------------
HandlerStep == List \/ Start \/ AwaitDownloads \/ AwaitZip \/ AwaitUploads \/ Complete
FetchStep(f) == Fetched(f) \/ FetchFailed(f)
ZipStep == \/ Take \/ Finish \/ WriteSlab \/ SealSlab \/ ClaimSlab \/ Flush \/ Abandon
           \/ \E f \in Files : EntryWritten(f) \/ EntryRefused(f)
UploadStep == RecvLease \/ RecvEnd \/ Join
PartStep(k) == PartSend(k) \/ PartSent(k)

Next == \/ HandlerStep \/ Acquire \/ ZipStep \/ UploadStep
        \/ \E f \in Files : FetchStep(f)
        \/ \E k \in DOMAIN parts : PartStep(k)

(* Every job and task keeps running: S3 calls return, one way or the other,  *)
(* within the SDK's timeouts. At most MaxParts parts are sealed.             *)
StreamSize == DirectorySize + SumFunctionOnSet([f \in Files |-> EntrySize(f)], Files)
MaxParts == 1 + StreamSize \div ChunkSize

Fairness ==
  /\ WF_vars(HandlerStep) /\ WF_vars(Acquire) /\ WF_vars(ZipStep) /\ WF_vars(UploadStep)
  /\ \A f \in Files : WF_vars(FetchStep(f))
  /\ \A k \in 1 .. MaxParts : WF_vars(k \in DOMAIN parts /\ PartStep(k))

Spec == Init /\ [][Next]_vars /\ Fairness
-----------------------------------------------------------------------------
(* Properties *)

TypeOK ==
  /\ handler \in {"list", "start", "downloads", "zip", "uploads", "complete",
                 "ok", "error", "refused"}
  /\ next \in 1 .. FileCount + 1 /\ permits \in 0 .. MaxMemory
  /\ file \in [Files -> {"listed", "fetching", "queued", "zipping", "zipped", "lost"}]
  /\ \A i \in DOMAIN queue : queue[i] \in Files
  /\ zip \in {"recv", "entry", "directory", "closing", "done", "failed"}
  /\ left \in Nat /\ fill \in 0 .. ChunkSize /\ claimed \in BOOLEAN
  /\ Len(parts) <= MaxParts /\ recvd \in 0 .. Len(parts)
  /\ upload \in {"recv", "join", "ok", "failed"}

Held == {f \in Files : file[f] \in {"fetching", "queued", "zipping"}}

(* Permits are neither lost nor made up on any path, the failing ones        *)
(* included: what is not available is the data in flight, a leak would end   *)
(* in a download job that waits for ever. Slabs and copies of slabs stay     *)
(* within their tunables.                                                    *)
PermitsConserved ==
  /\ TypeOK
  /\ permits + Bytes(Held) = MaxMemory
  /\ FreeSlabs >= 0 /\ Cardinality(Sending) <= MaxUploads

(* The object S3 holds is the whole stream when the zip job finished: the    *)
(* directory and the entry, once, of every file but those whose own download *)
(* failed; nothing truncated.                                                *)
EntryBytes == SumFunctionOnSet([i \in DOMAIN zipped |-> EntrySize(zipped[i])], DOMAIN zipped)
BytesOf(ps) == SumFunctionOnSet([k \in DOMAIN ps |-> ps[k].len], DOMAIN ps)

ObjectWhole ==
  (object # <<>> /\ zip = "done") =>
    /\ BytesOf(object) = EntryBytes + DirectorySize
    /\ \A k \in DOMAIN object : object[k].at = "sent"
    /\ {zipped[i] : i \in DOMAIN zipped} = {f \in Files : file[f] # "lost"}
    /\ Len(zipped) = Cardinality({f \in Files : file[f] # "lost"})
    /\ \A f \in Files : file[f] = "lost" => f \in FetchFails

(* The handler answers, provided that no file is larger than the memory      *)
(* semaphore: the pipeline cannot block on its own bounds.                   *)
HandlerAnswers == <>(handler \in {"ok", "error", "refused"})
=============================================================================
