------------------------------ MODULE PartJobs ------------------------------
(***************************************************************************)
(* From the layout to the jobs of the multipart upload (into_part_jobs and *)
(* PartJobsBuilder of jrodon-v2 and jrodon-v3): the builder registers the  *)
(* entries in layout order, keeps the running archive offset that goes     *)
(* into each local header, extends the last upload job when it can, and    *)
(* appends the central directory.                                          *)
(*                                                                         *)
(* As in ZipLayout, a definition that no specification uses and that       *)
(* stands before one of the same shape is a plausible bug in it.           *)
(***************************************************************************)
EXTENDS ZipLayout, FiniteSetsExt, SequencesExt

CONSTANTS
  MaxMemory        (* MAX_PART_JOB_TASKS_MEMORY, the budget of running jobs *)

(* A regular half of a Duo fits: 5 and 10 MiB (MinPart and Target) against   *)
(* 50, and names of at most 1024 bytes in the headers.                       *)
LongestLoc(f) == LocSize(Max32 + 1, NameLen[f])

ASSUME BuilderAssumption ==
  /\ MaxMemory \in Nat \ {0}
  /\ \A f, b \in 1 .. MaxFiles :
       /\ 2 * MinPart + LongestLoc(f) <= MaxMemory
       /\ Target + MinPart + LongestLoc(f) + LongestLoc(b) <= MaxMemory

VARIABLES
  taken,    (* layout parts turned into jobs                                *)
  half,     (* of the next one: "files", or "copy" when add_files is done   *)
  jobs,     (* the PartJobs: [type, elems, bytes] or [type, file, from, bytes] *)
  offset,   (* current_archive_offset                                       *)
  cdfh_sizes, (* of the entries registered, predicted                       *)
  eocd64,   (* the end records to write: [count, bytes, at]                 *)
  built     (* finalize has returned the jobs                               *)

builderVars == <<taken, half, jobs, offset, cdfh_sizes, eocd64, built>>
allVars == <<vars, builderVars>>

(* An element of an upload: a whole file, the header and first bytes of a    *)
(* copied one, or the directory (file 0). locOffset is what its header says. *)
Elem(f, locOffset, bytes) == [file |-> f, locOffset |-> locOffset, bytes |-> bytes]
Upload(elems, bytes) == [type |-> "upload", elems |-> elems, bytes |-> bytes]
CopyWhole(f, from) == [type |-> "copy", file |-> f, from |-> from, bytes |-> size[f]]
Copy(f, from) == [type |-> "copy", file |-> f, from |-> from, bytes |-> size[f] - from]

(* The bytes of the first n of a sequence of jobs, or of elements.           *)
BytesUpTo(s, n) == SumFunctionOnSet([i \in DOMAIN s |-> s[i].bytes], 1 .. n)
Counted(s) == BytesUpTo(s, Len(s))

LastIsUpload == jobs # <<>> /\ Last(jobs).type = "upload"
Extended(job, elems, bytes) ==
  [job EXCEPT !.elems = @ \o elems, !.bytes = @ + bytes]
ToLast(elems, bytes) == [jobs EXCEPT ![Len(jobs)] = Extended(@, elems, bytes)]

BuilderInit ==
  /\ taken = 0 /\ half = "files" /\ jobs = <<>> /\ offset = 0 /\ built = FALSE
  /\ cdfh_sizes = <<>> /\ eocd64 = [count |-> 0, bytes |-> 0, at |-> 0]
-----------------------------------------------------------------------------
Part == parts[taken + 1]
More == phase = "done" /\ ~built /\ taken < Len(parts)
PartTaken == taken' = taken + 1 /\ half' = "files"

(* add_files: the headers take their offsets one after the other. *)
BytesBefore(entries, j) ==
  SumFunctionOnSet([i \in DOMAIN entries |-> EntrySize(entries[i])], 1 .. j - 1)

EntryElems(entries) ==
  [j \in DOMAIN entries |->
     Elem(entries[j], offset + BytesBefore(entries, j), EntrySize(entries[j]))]

(* The central header predicted for an entry registered at the offset. *)
Predicted(f, locOffset) == CdfhSize(size[f], NameLen[f], locOffset)

(* Where the files go: into the last upload job, whose elements are counted  *)
(* again, or a new one, even when there are none.                            *)
Recounted(job, elems) ==
  [job EXCEPT !.elems = @ \o elems, !.bytes = Counted(job.elems \o elems)]
NewUpload(elems, bytes) == Append(jobs, Upload(elems, bytes))

AddFiles ==
  /\ More /\ half = "files"
  /\ LET elems == EntryElems(Part.regular.entries)
         bytes == Counted(elems)
     IN  /\ jobs' = IF LastIsUpload THEN [jobs EXCEPT ![Len(jobs)] = Recounted(@, elems)]
                    ELSE NewUpload(elems, bytes)
         /\ offset' = offset + bytes
         /\ cdfh_sizes' = cdfh_sizes \o
              [j \in DOMAIN elems |-> Predicted(elems[j].file, elems[j].locOffset)]
  /\ IF Part.kind = "duo" THEN half' = "copy" /\ UNCHANGED taken ELSE PartTaken
  /\ UNCHANGED <<vars, eocd64, built>>

(* copy_file and partial_copy_file: header and first bytes join the last     *)
(* upload, the rest is a copy job. The code panics if the last job is not an *)
(* upload.                                                                   *)
AfterCopyNoStart(b, start) == offset + Loc(b) + (size[b] - start)
AfterCopy(b, start) == offset + Loc(b) + start + (size[b] - start)

CopyFile ==
  /\ More /\ half = "copy" /\ LastIsUpload
  /\ LET b == Part.big
         elem == Elem(b, offset, Loc(b) + Part.start)
     IN  /\ jobs' = Append(ToLast(<<elem>>, elem.bytes), Copy(b, Part.start))
         /\ offset' = AfterCopy(b, Part.start)
         /\ cdfh_sizes' = Append(cdfh_sizes, Predicted(b, offset))
  /\ PartTaken
  /\ UNCHANGED <<vars, eocd64, built>>

(* finalize: the directory extends the last upload or makes one of its own. *)
Eocd64 == [count |-> Len(cdfh_sizes), bytes |-> SumFunction(cdfh_sizes), at |-> offset]

Finalize ==
  /\ phase = "done" /\ ~built /\ taken = Len(parts)
  /\ eocd64' = Eocd64
  /\ LET bytes == Eocd64.bytes + EndSize(Eocd64.count, Eocd64.bytes, Eocd64.at)
         elems == <<Elem(0, offset, bytes)>>
     IN  jobs' = IF LastIsUpload THEN ToLast(elems, bytes) ELSE NewUpload(elems, bytes)
  /\ built' = TRUE
  /\ UNCHANGED <<vars, taken, half, offset, cdfh_sizes>>
-----------------------------------------------------------------------------
(* The directory as it is written: one central header per element with a     *)
(* local header, which carries the offset; then the end records.             *)
HeaderElems ==
  UNION {{jobs[k].elems[j] : j \in DOMAIN jobs[k].elems} :
           k \in {k \in DOMAIN jobs : jobs[k].type = "upload"}}
Headers == {e \in HeaderElems : e.file # 0}
Central(e) == CdfhRecord(size[e.file], NameLen[e.file], e.locOffset)
End == EndRecord(eocd64.count, eocd64.bytes, eocd64.at)
Directory == SumFunction([e \in Headers |-> Central(e).written])
-----------------------------------------------------------------------------
Plan == Next /\ UNCHANGED builderVars
Build == AddFiles \/ CopyFile \/ Finalize

PlanInit == Init /\ BuilderInit
PlanSpec == PlanInit /\ [][Plan \/ Build]_allVars
-----------------------------------------------------------------------------
(* Properties *)

(* Every local header says where it really is once the parts are put         *)
(* together, the directory included: a job that changes size after its       *)
(* successors were placed, or an offset that forgets copied bytes, would     *)
(* make an archive no reader can open.                                       *)
HeadersMatch ==
  \A k \in DOMAIN jobs : jobs[k].type = "upload" =>
    \A j \in DOMAIN jobs[k].elems :
      jobs[k].elems[j].locOffset =
        BytesUpTo(jobs, k - 1) + BytesUpTo(jobs[k].elems, j - 1)

(* And a reader of the directory finds there what is in the archive: one     *)
(* record per file with its size and offset, and where the records start.    *)
(* (An offset that is exactly u32::MAX reads as a mark of ZIP64.)            *)
DirectoryReads ==
  built =>
    /\ \A f \in Files : Cardinality({e \in Headers : e.file = f}) = 1
    /\ \A e \in Headers : ReadSize(Central(e)) = size[e.file]
                         /\ (e.locOffset # Max32 => ReadAt(Central(e)) = e.locOffset)
    /\ ReadEnd(End) = <<Len(size), Directory, offset>>

OffsetsMatch == HeadersMatch /\ DirectoryReads

(* The budget a job asks for and its buffer are its part_size: it is the     *)
(* size of its elements, and the size predicted for each is what it writes.  *)
(* A slice too short would cut its header or the directory without an error. *)
BufferFits ==
  /\ \A k \in DOMAIN jobs : jobs[k].type = "upload" =>
       jobs[k].bytes = BytesUpTo(jobs[k].elems, Len(jobs[k].elems))
  /\ \A f \in Files : Loc(f) = LocRecord(size[f], NameLen[f]).written
  /\ built => Last(Last(jobs).elems).bytes = Directory + End.written

(* The panics of internal_copy_file are out of reach: a copy follows the     *)
(* upload that holds its header.                                             *)
CopyFollowsUpload == (More /\ half = "copy") => LastIsUpload

(* S3 accepts the upload: every part but the last has MinPart bytes. *)
PartsBigEnough == built => \A k \in 1 .. Len(jobs) - 1 : jobs[k].bytes >= MinPart

(* A job above MaxMemory waits for permits that do not exist. Only the last  *)
(* one may be: the Singles, merged into one upload whatever their number     *)
(* (part_builder.rs:79), and the directory.                                  *)
OnlyLastOverBudget == \A k \in 1 .. Len(jobs) - 1 : jobs[k].type = "upload" => jobs[k].bytes <= MaxMemory

(* Every job can be executed, but for the budget of the last one. *)
JobsLegal == BufferFits /\ CopyFollowsUpload /\ PartsBigEnough /\ OnlyLastOverBudget

(* Uploads and copies together carry each file's header and bytes once.      *)
Share(f, s) == SumFunction([i \in DOMAIN s |-> IF s[i].file = f THEN s[i].bytes ELSE 0])
Carried(f) ==
  SumFunction([k \in DOMAIN jobs |->
     IF jobs[k].type = "upload" THEN Share(f, jobs[k].elems) ELSE Share(f, <<jobs[k]>>)])

FilesCarried == built => \A f \in Files : Carried(f) = EntrySize(f)
=============================================================================
