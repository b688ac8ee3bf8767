------------------------------ MODULE SebstoTs ------------------------------
(***************************************************************************)
(* One invocation of the TypeScript contender (sebsto): three stages that  *)
(* are async functions on one event loop. Downloads run under a budget of  *)
(* bytes, the zip stage cuts its stream into chunks, the upload stage      *)
(* sends the chunks as the parts of a multipart upload, and the job waits  *)
(* until the three have settled.                                           *)
(*                                                                         *)
(* What a stage does between two awaits is a microtask; the event loop     *)
(* takes the next answer of S3 only when no microtask is left (Quiet).     *)
(* Bytes are counted, not named.                                           *)
(*                                                                         *)
(* ReleaseSize, ClosedFirst and ClosedOnSuccess are plausible bugs in the  *)
(* definition they precede; no specification uses them.                    *)
(***************************************************************************)
EXTENDS Integers, Sequences, FiniteSets, FiniteSetsExt, SequencesExt, Functions

CONSTANTS
  Size,         (* the objects listed: a sequence of sizes                  *)
  Budget,       (* MAX_DOWNLOADS_MEMORY                                     *)
  ChunkSize,    (* CHUNK_SIZE_BYTES                                         *)
  MaxInFlight,  (* BUFFER_CHUNKS_COUNT                                      *)
  MaxUploads,   (* MAX_CONCURRENT_UPLOADS                                   *)
  DirectorySize,(* bytes of the directory and of the records after it       *)
  FetchFails,   (* objects whose download may fail                          *)
  PartFails     (* an UploadPart may fail                                   *)

Files == DOMAIN Size

(* The last one is what makes the Promise.race of the upload stage           *)
(* unreachable: a chunk that is being sent still holds its slot.             *)
ASSUME SebstoTsAssumption ==
  /\ Size \in Seq(Nat) /\ {Budget, ChunkSize, MaxInFlight, DirectorySize} \subseteq Nat \ {0}
  /\ FetchFails \subseteq Files /\ PartFails \in BOOLEAN
  /\ MaxUploads \in Nat /\ MaxInFlight <= MaxUploads

VARIABLES
  job,        (* what runArchiveJob awaits, or how it ended                 *)
  next,       (* the file the download loop acquires bytes for              *)
  available,  (* of the ByteSemaphore                                       *)
  file,       (* file -> where its body is                                  *)
  queue,      (* the FileChannel                                            *)
  downloads,  (* the download stage: loop, all, ok, failed                  *)
  zip,        (* the zip stage: recv, entry, directory, finish, done        *)
  left,       (* bytes of the entry or directory it has yet to append       *)
  cursor,     (* bytes in the chunk being filled                            *)
  zipped,     (* the entries written, in order                              *)
  part,       (* the chunks emitted: [len, at], in order of part number     *)
  uploads,    (* the upload stage: recv, all, ok, failed                    *)
  completed,  (* part numbers sent, as they arrived                         *)
  object,     (* parts of the object S3 made, <<>>: none                    *)
  s3_failed   (* a call has failed                                          *)

fileVars == <<next, available, file, queue, downloads>>
chunkVars == <<zip, left, cursor, zipped>>
partVars == <<part, uploads, completed>>
jobVars == <<job, fileVars, chunkVars, partVars, object, s3_failed>>

Needed(f) == Min({Size[f], Budget})
EntrySize(f) == Size[f] + 1               (* its headers count for one byte  *)
At(where) == {k \in DOMAIN part : part[k].at = where}
InFlight == At("queued") \cup At("sending")

JobInit ==
  /\ job = "list" /\ next = 1 /\ available = Budget
  /\ file = [f \in Files |-> "listed"] /\ queue = <<>> /\ downloads = "loop"
  /\ zip = "recv" /\ left = 0 /\ cursor = 0 /\ zipped = <<>>
  /\ part = <<>> /\ uploads = "recv" /\ completed = <<>>
  /\ object = <<>> /\ s3_failed = FALSE
-----------------------------------------------------------------------------
(* The download stage *)

Acquire ==
  /\ downloads = "loop" /\ next \in Files /\ available >= Needed(next)
  /\ available' = available - Needed(next)
  /\ file' = [file EXCEPT ![next] = "fetching"] /\ next' = next + 1
  /\ UNCHANGED <<queue, downloads, chunkVars, partVars>>

(* Promise.all(inflight): from here on a failed download has a handler.      *)
AwaitDownloads ==
  /\ downloads = "loop" /\ next = Len(Size) + 1
  /\ downloads' = "all"
  /\ UNCHANGED <<next, available, file, queue, chunkVars, partVars>>

DownloadsDone ==
  /\ downloads = "all" /\ "fetching" \notin Range(file)
  /\ downloads' = "ok"
  /\ UNCHANGED <<next, available, file, queue, chunkVars, partVars>>

(* finally { out.finish() }, whichever way the stage ends.                   *)
ClosedOnSuccess == downloads = "ok"
ChannelClosed == downloads \in {"ok", "failed"}

DownloadsWait ==
  \/ downloads = "loop" /\ next \in Files /\ available < Needed(next)
  \/ downloads = "all" /\ "fetching" \in Range(file)
  \/ downloads \in {"ok", "failed"}
-----------------------------------------------------------------------------
(* The zip stage and its ChunkProducer *)

Take ==
  /\ zip = "recv" /\ queue # <<>>
  /\ zip' = "entry" /\ left' = EntrySize(Head(queue))
  /\ file' = [file EXCEPT ![Head(queue)] = "zipping"] /\ queue' = Tail(queue)
  /\ UNCHANGED <<next, available, downloads, cursor, zipped, partVars>>

ClosedFirst == zip = "recv" /\ ChannelClosed
NoMoreFiles == zip = "recv" /\ queue = <<>> /\ ChannelClosed

Directory ==
  /\ NoMoreFiles
  /\ zip' = "directory" /\ left' = DirectorySize
  /\ UNCHANGED <<fileVars, cursor, zipped, partVars>>

(* A chunk that is full is emitted before anything else is appended.         *)
AppendBytes ==
  /\ left > 0 /\ cursor < ChunkSize
  /\ LET take == Min({left, ChunkSize - cursor}) IN
       cursor' = cursor + take /\ left' = left - take
  /\ UNCHANGED <<fileVars, zip, zipped, partVars>>

ChunkReady == cursor = ChunkSize \/ (zip = "finish" /\ cursor > 0)

Emit ==
  /\ ChunkReady /\ Cardinality(InFlight) < MaxInFlight
  /\ part' = Append(part, [len |-> cursor, at |-> "queued"]) /\ cursor' = 0
  /\ UNCHANGED <<fileVars, zip, left, zipped, uploads, completed>>

Appended(at) == zip = at /\ left = 0 /\ cursor < ChunkSize

ReleaseSize(f) == available + Size[f]
Released(f) == available + Needed(f)
EntryWritten ==
  /\ Appended("entry")
  /\ \E f \in Files :
       /\ file[f] = "zipping" /\ file' = [file EXCEPT ![f] = "zipped"]
       /\ available' = Released(f) /\ zipped' = Append(zipped, f)
  /\ zip' = "recv"
  /\ UNCHANGED <<next, queue, downloads, left, cursor, partVars>>

DirectoryWritten ==
  /\ Appended("directory") /\ zip' = "finish"
  /\ UNCHANGED <<fileVars, left, cursor, zipped, partVars>>

ProducerDone ==
  /\ zip = "finish" /\ cursor = 0 /\ zip' = "done"
  /\ UNCHANGED <<fileVars, left, cursor, zipped, partVars>>

ZipWaits ==
  \/ zip = "recv" /\ queue = <<>> /\ ~ChannelClosed
  \/ ChunkReady /\ Cardinality(InFlight) >= MaxInFlight
  \/ zip = "done"
-----------------------------------------------------------------------------
(* The upload stage *)

Send ==
  /\ uploads = "recv" /\ At("queued") # {}
  /\ part' = [part EXCEPT ![Min(At("queued"))].at = "sending"]
  /\ UNCHANGED <<fileVars, chunkVars, uploads, completed>>

(* Promise.all(inflight) sees the parts that are still being sent.           *)
AwaitUploads ==
  /\ uploads = "recv" /\ At("queued") = {} /\ zip = "done"
  /\ uploads' = "all"
  /\ UNCHANGED <<fileVars, chunkVars, part, completed>>

UploadsDone ==
  /\ uploads = "all" /\ At("sending") = {}
  /\ uploads' = "ok"
  /\ UNCHANGED <<fileVars, chunkVars, part, completed>>

UploadsWait ==
  \/ uploads = "recv" /\ At("queued") = {} /\ zip # "done"
  \/ uploads = "all" /\ At("sending") # {}
  \/ uploads \in {"ok", "failed"}

(* Promise.allSettled, then the first failure or the completion.             *)
AllSettled == {downloads, uploads} \subseteq {"ok", "failed"} /\ zip = "done"
Settled ==
  /\ AllSettled
  /\ job' = IF downloads = "ok" /\ uploads = "ok" THEN "complete" ELSE "abort"
  /\ UNCHANGED <<fileVars, chunkVars, partVars>>

DownloadStage == Acquire \/ AwaitDownloads \/ DownloadsDone
ZipStage == Take \/ Directory \/ AppendBytes \/ Emit \/ EntryWritten \/ DirectoryWritten \/ ProducerDone
UploadStage == Send \/ AwaitUploads \/ UploadsDone

Microtask ==
  /\ job = "run"
  /\ \/ (DownloadStage \/ ZipStage \/ UploadStage) /\ UNCHANGED job
     \/ Settled
  /\ UNCHANGED <<object, s3_failed>>

(* No microtask is left: every stage is at an await that must still wait.    *)
Quiet ==
  \/ job # "run"
  \/ DownloadsWait /\ ZipWaits /\ UploadsWait /\ ~AllSettled
-----------------------------------------------------------------------------
(* Answers of S3 *)

(* A body that fails while the loop still awaits the budget has no handler:  *)
(* the runtime ends the process on an unhandled rejection.                   *)
FetchEnds(f) ==
  /\ Quiet /\ file[f] = "fetching" /\ job # "crashed"
  /\ \/ /\ file' = [file EXCEPT ![f] = "queued"] /\ queue' = Append(queue, f)
        /\ UNCHANGED <<job, downloads, s3_failed>>
     \/ /\ f \in FetchFails
        /\ file' = [file EXCEPT ![f] = "failed"] /\ s3_failed' = TRUE
        /\ job' = IF downloads = "loop" THEN "crashed" ELSE job
        /\ downloads' = IF downloads = "all" THEN "failed" ELSE downloads
        /\ UNCHANGED queue
  /\ UNCHANGED <<next, available, chunkVars, partVars, object>>

(* A failure before Promise.all removes the promise from inflight: cleanup   *)
(* counts as its handler, and nothing is left to see it.                     *)
PartEnds(k) ==
  /\ Quiet /\ part[k].at = "sending" /\ job # "crashed"
  /\ \/ /\ part' = [part EXCEPT ![k].at = "sent"] /\ completed' = Append(completed, k)
        /\ UNCHANGED <<uploads, s3_failed>>
     \/ /\ PartFails
        /\ part' = [part EXCEPT ![k].at = "failed"] /\ s3_failed' = TRUE
        /\ uploads' = IF uploads = "all" THEN "failed" ELSE uploads
        /\ UNCHANGED completed
  /\ UNCHANGED <<job, fileVars, chunkVars, object>>

(* listFiles and CreateMultipartUpload: no upload to abort yet.              *)
JobStarts ==
  /\ \/ job = "list" /\ job' = "create" /\ UNCHANGED s3_failed
     \/ job = "create" /\ job' = "run" /\ UNCHANGED s3_failed
     \/ job \in {"list", "create"} /\ job' = "error" /\ s3_failed' = TRUE
  /\ UNCHANGED <<fileVars, chunkVars, partVars, object>>

(* S3 refuses an empty list, and one that does not ascend. It may have made  *)
(* the object when the call fails.                                           *)
NumbersUpTo(k) == {i \in DOMAIN completed : completed[i] <= k}
Sorted ==
  [i \in DOMAIN completed |->
     CHOOSE k \in Range(completed) : Cardinality(NumbersUpTo(k - 1)) < i /\ i <= Cardinality(NumbersUpTo(k))]
Acceptable == Sorted # <<>> /\ \A i \in 1 .. Len(Sorted) - 1 : Sorted[i] < Sorted[i + 1]

Complete ==
  /\ job = "complete"
  /\ \/ Acceptable /\ job' = "ok" /\ object' = Sorted /\ UNCHANGED s3_failed
     \/ /\ job' = "abort" /\ s3_failed' = (s3_failed \/ Acceptable)
        /\ object' \in IF Acceptable THEN {<<>>, Sorted} ELSE {<<>>}
  /\ UNCHANGED <<fileVars, chunkVars, partVars>>

(* Whether the abort fails or not, the first error is the answer.            *)
Abort ==
  /\ job = "abort" /\ job' = "error"
  /\ UNCHANGED <<fileVars, chunkVars, partVars, object, s3_failed>>
-----------------------------------------------------------------------------
JobStep == JobStarts \/ Complete \/ Abort
S3Answers ==
  \/ \E f \in Files : FetchEnds(f)
  \/ \E k \in DOMAIN part : PartEnds(k)

JobNext == Microtask \/ JobStep \/ S3Answers

(* The event loop runs what is ready, and S3 answers every call: the SDK     *)
(* times out and retries, then reports a failure.                            *)
JobFairness == WF_jobVars(Microtask) /\ WF_jobVars(JobStep) /\ WF_jobVars(S3Answers)

JobSpec == JobInit /\ [][JobNext]_jobVars /\ JobFairness
-----------------------------------------------------------------------------
(* Properties *)

(* The state of the three stages. A file is in the channel, or the one the   *)
(* zip stage writes, exactly when its state says so.                         *)
JobTypeOK ==
  /\ job \in {"list", "create", "run", "complete", "abort", "ok", "error", "crashed"}
  /\ downloads \in {"loop", "all", "ok", "failed"}
  /\ zip \in {"recv", "entry", "directory", "finish", "done"}
  /\ uploads \in {"recv", "all", "ok", "failed"}
  /\ left \in Nat /\ cursor \in 0 .. ChunkSize /\ s3_failed \in BOOLEAN
  /\ {f \in Files : file[f] = "queued"} = Range(queue) /\ IsInjective(queue)
  /\ {f \in Files : file[f] = "listed"} = next .. Len(Size)
  /\ Cardinality({f \in Files : file[f] = "zipping"}) = (IF zip = "entry" THEN 1 ELSE 0)

(* ByteSemaphore and ChunkProducer: the budget is what no file holds, and a  *)
(* failed download holds its bytes for ever; a file above the capacity       *)
(* returns what it took, no more. The chunks queued and being sent together  *)
(* never outnumber the slots: a part keeps its slot until it has settled.    *)
Held == {f \in Files : file[f] \in {"fetching", "queued", "zipping", "failed"}}
BudgetExact ==
  /\ JobTypeOK
  /\ available >= 0
  /\ available + SumFunctionOnSet([f \in Files |-> Needed(f)], Held) = Budget
  /\ Cardinality(InFlight) <= MaxInFlight

(* runUploadStage and CompleteMultipartUpload: any archive that exists, even *)
(* one whose completion was reported as failed, was cut from the entry, once,*)
(* of every file and the directory. It lacks the parts whose upload failed   *)
(* before the end of the stream and no other: never the last one, never one  *)
(* of a stream that misses a file.                                           *)
StreamBytes == SumFunctionOnSet([f \in Files |-> EntrySize(f)], Range(zipped)) + DirectorySize
ArchiveHoles ==
  object # <<>> =>
    /\ IsInjective(zipped) /\ Range(zipped) = Files
    /\ SumFunction([k \in DOMAIN part |-> part[k].len]) = StreamBytes
    /\ Range(object) = DOMAIN part \ At("failed") /\ Last(object) = Len(part)
    /\ \A k \in 1 .. Len(part) - 1 : part[k].len = ChunkSize

(* runArchiveJob: no stage waits for another that has given up. The job ends,*)
(* and not well only if a call has failed.                                   *)
JobHasCause == <>(job = "ok" \/ (job \in {"error", "crashed"} /\ s3_failed))

(* index.ts:699-701, "The original `p` rejection propagates through the      *)
(* `Promise.race` / `Promise.all` below": whoever is answered "ok" has an    *)
(* archive of which every part was uploaded.                                 *)
OkMeansEveryPart == job = "ok" => \A k \in DOMAIN part : part[k].at = "sent"
=============================================================================
