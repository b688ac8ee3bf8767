------------------------------- MODULE SebstoC -------------------------------
(***************************************************************************)
(* One invocation of the C contender (sebsto): a zipper thread keeps a     *)
(* window of downloads in flight, writes each one that is there into the   *)
(* ZIP, and hands the bytes in batches to an upload whose length nobody    *)
(* knows before the last write says so. Downloads and the upload end in    *)
(* callbacks, on threads of the S3 client (CRT).                           *)
(*                                                                         *)
(* The archive is the sequence of its bytes: of the entries (header and    *)
(* body), a record per entry, and the end record. The scan for a finished  *)
(* download is one step: a download that ends behind its back might as     *)
(* well have ended after it.                                               *)
(*                                                                         *)
(* A definition that stands next to one of the same shape and that no      *)
(* specification uses (ReleaseOnSuccess, TailLost, ...) is a plausible bug *)
(* in it.                                                                  *)
(***************************************************************************)
EXTENDS Integers, Sequences, FiniteSets, FiniteSetsExt, SequencesExt

CONSTANTS
  Lists,         (* lists of objects: sequences of sizes                    *)
  MaxDownloads,  (* MAX_CONCURRENT_DOWNLOADS                                *)
  MaxInflight,   (* MAX_DOWNLOAD_INFLIGHT_BYTES                             *)
  BatchSize,     (* UPLOAD_BATCH_BYTES                                      *)
  CountLimit,    (* 0xFFFF: the largest count of entries of 16 bits         *)
  Limit          (* 0xFFFFFFFF: from here on a value needs ZIP64            *)

ASSUME SebstoAssumption ==
  /\ MaxDownloads \in Nat \ {0} /\ MaxInflight \in Nat \ {0} /\ BatchSize \in Nat \ {0}
  /\ CountLimit \in Nat \ {0} /\ Limit \in Nat \ {0}
  /\ Lists \subseteq Seq(0 .. Limit - 1)

VARIABLES
  size,       (* the objects listed                                         *)
  handler,    (* list, start, join, or its answer                           *)
  zipper,     (* none, loop, wait, feed, finish, end, cleanup, gone         *)
  idx,        (* the download it looks at, or 0                             *)
  download,   (* id -> none, flight, done, error, fed                       *)
  inflight, inflight_bytes,
  entries,    (* those of the zip writer: [id, offset]                      *)
  batch,      (* bytes kept for the next write                              *)
  sent,       (* bytes the upload has taken                                 *)
  write_failed, ok,
  upload,     (* none, open, closed (eof taken), ok, failed: its callback   *)
  archive,    (* what the archive key holds                                 *)
  faulty      (* a call has failed                                          *)

window == <<download, inflight, inflight_bytes>>
writer == <<entries, batch, sent, write_failed>>
vars == <<size, handler, zipper, idx, window, writer, ok, upload, archive, faulty>>

Ids == DOMAIN size
InWindow == {i \in Ids : download[i] \in {"flight", "done", "error"}}
Completed == Cardinality({i \in Ids : download[i] = "fed"})
NextToStart == {i \in Ids : download[i] = "none" /\ \A j \in 1 .. i - 1 : download[j] # "none"}

Init ==
  /\ size \in Lists
  /\ handler = "list" /\ zipper = "none" /\ idx = 0
  /\ download = [i \in Ids |-> "none"] /\ inflight = 0 /\ inflight_bytes = 0
  /\ entries = <<>> /\ batch = <<>> /\ sent = <<>>
  /\ write_failed = FALSE /\ ok = FALSE
  /\ upload = "none" /\ archive = <<>> /\ faulty = FALSE
-----------------------------------------------------------------------------
(* The handler *)

ListObjects ==
  /\ handler = "list"
  /\ \/ handler' = "start" /\ UNCHANGED faulty
     \/ handler' = "error" /\ faulty' = TRUE
  /\ UNCHANGED <<size, zipper, idx, window, writer, ok, upload, archive>>

StartUpload ==
  /\ handler = "start"
  /\ \/ handler' = "join" /\ upload' = "open" /\ zipper' = "loop" /\ UNCHANGED faulty
     \/ handler' = "error" /\ faulty' = TRUE /\ UNCHANGED <<upload, zipper>>
  /\ UNCHANGED <<size, idx, window, writer, ok, archive>>

(* The thread is joined, then the callback of the upload awaited. *)
Answer ==
  /\ handler = "join" /\ zipper = "gone" /\ upload \in {"ok", "failed"}
  /\ handler' = IF ok /\ upload = "ok" THEN "ok" ELSE "error"
  /\ UNCHANGED <<size, zipper, idx, window, writer, ok, upload, archive, faulty>>
-----------------------------------------------------------------------------
(* The zipper thread: the window of downloads *)

Zipper(at, next) == zipper = at /\ zipper' = next
InLoop == zipper = "loop" /\ Completed < Len(size)

Room(i) == inflight < MaxDownloads /\ inflight_bytes + size[i] <= MaxInflight
MayStart == {i \in NextToStart : Room(i)}

StartDownload ==
  /\ InLoop
  /\ \E i \in MayStart :
       \/ /\ download' = [download EXCEPT ![i] = "flight"]
          /\ inflight' = inflight + 1 /\ inflight_bytes' = inflight_bytes + size[i]
          /\ UNCHANGED <<zipper, ok, faulty>>
       \/ zipper' = "end" /\ ok' = FALSE /\ faulty' = TRUE /\ UNCHANGED window
  /\ UNCHANGED <<size, handler, idx, writer, upload, archive>>

(* The lowest that has ended, else wait for the lowest in flight. *)
Ended == {i \in Ids : download[i] \in {"done", "error"}}

Pick ==
  /\ InLoop /\ MayStart = {} /\ InWindow # {}
  /\ idx' = Min(IF Ended # {} THEN Ended ELSE InWindow)
  /\ Zipper("loop", IF Ended # {} THEN "feed" ELSE "wait")
  /\ UNCHANGED <<size, handler, window, writer, ok, upload, archive, faulty>>

Awaited ==
  /\ idx \in Ended /\ Zipper("wait", "feed")
  /\ UNCHANGED <<size, handler, idx, window, writer, ok, upload, archive, faulty>>

(* Everything is fed. Or nothing is in flight and nothing can start ("should *)
(* not happen"): the next object is larger than the window.                  *)
LoopEnds ==
  /\ zipper = "loop"
  /\ Completed = Len(size) \/ (MayStart = {} /\ InWindow = {})
  /\ zipper' = "finish"
  /\ UNCHANGED <<size, handler, idx, window, writer, ok, upload, archive, faulty>>
-----------------------------------------------------------------------------
(* The zipper thread: the ZIP writer and the batches *)

EntryBytes(i) == [n \in 1 .. size[i] + 1 |-> <<"entry", i, n>>]

(* Whole batches of what is pending. A write is refused once the upload has  *)
(* failed; the bytes it took before are of no use then.                      *)
Full(bytes) == (Len(bytes) \div BatchSize) * BatchSize
TailLost(bytes) == IF Full(bytes) > 0 THEN <<>> ELSE bytes
Rest(bytes) == SubSeq(bytes, Full(bytes) + 1, Len(bytes))

Refused(bytes) == Full(bytes) > 0 /\ upload = "failed"
Write(bytes) ==
  IF Refused(bytes) THEN write_failed' = TRUE /\ UNCHANGED <<batch, sent>>
  ELSE /\ batch' = Rest(bytes) /\ sent' = sent \o SubSeq(bytes, 1, Full(bytes))
       /\ UNCHANGED write_failed

ReleaseOnSuccess(i) ==
  /\ download' = [download EXCEPT ![i] = "fed"]
  /\ IF write_failed' THEN UNCHANGED <<inflight, inflight_bytes>>
     ELSE inflight' = inflight - 1 /\ inflight_bytes' = inflight_bytes - size[i]
Release(i) ==
  /\ download' = [download EXCEPT ![i] = "fed"]
  /\ inflight' = inflight - 1 /\ inflight_bytes' = inflight_bytes - size[i]

Feed ==
  /\ zipper = "feed" /\ download[idx] = "done"
  /\ entries' = Append(entries, [id |-> idx, offset |-> Len(sent) + Len(batch)])
  /\ Write(batch \o EntryBytes(idx))
  /\ Release(idx)
  /\ zipper' = IF write_failed' THEN "end" ELSE "loop"
  /\ ok' = IF write_failed' THEN FALSE ELSE ok
  /\ UNCHANGED <<size, handler, idx, upload, archive, faulty>>

DownloadFailed ==
  /\ zipper = "feed" /\ download[idx] = "error"
  /\ zipper' = "end" /\ ok' = FALSE
  /\ UNCHANGED <<size, handler, idx, window, writer, upload, archive, faulty>>

(* The directory. A count of 16 bits; the ZIP64 records, which hold it whole, *)
(* are written for 32-bit values only, the count compared as one of them.    *)
Zip64(v) == v >= Limit
EndRecord(count, cd_offset, cd_size) ==
  <<"end",
    IF \E v \in {count, cd_offset, cd_size} : Zip64(v) THEN count ELSE Min({count, CountLimit}),
    cd_offset>>
DirectoryBytes(cd_offset) ==
  Append([n \in DOMAIN entries |-> <<"record", entries[n].id, entries[n].offset>>],
         EndRecord(Len(entries), cd_offset, Len(entries)))

(* The last write takes what is pending and says that it is the last. *)
LastWrite(bytes) ==
  IF upload = "failed" THEN write_failed' = TRUE /\ UNCHANGED <<batch, sent, upload>>
  ELSE batch' = <<>> /\ sent' = sent \o bytes /\ upload' = "closed" /\ UNCHANGED write_failed

Finish ==
  /\ Zipper("finish", "cleanup")
  /\ LastWrite(batch \o DirectoryBytes(Len(sent) + Len(batch)))
  /\ ok' = ~write_failed'
  /\ UNCHANGED <<size, handler, idx, window, entries, archive, faulty>>

(* After a failure: an end for the upload, unless it had failed. *)
EndSilent ==
  /\ Zipper("end", "cleanup")
  /\ UNCHANGED <<size, handler, idx, window, writer, ok, upload, archive, faulty>>
EndOfFile ==
  /\ Zipper("end", "cleanup")
  /\ IF write_failed THEN UNCHANGED <<batch, sent, upload, write_failed>> ELSE LastWrite(batch)
  /\ UNCHANGED <<size, handler, idx, window, entries, ok, archive, faulty>>

(* The downloads are freed when their callbacks have run. *)
Cleanup ==
  /\ \A i \in Ids : download[i] # "flight"
  /\ Zipper("cleanup", "gone")
  /\ UNCHANGED <<size, handler, idx, window, writer, ok, upload, archive, faulty>>
-----------------------------------------------------------------------------
(* The S3 client *)

DlFinish(i) ==
  /\ download[i] = "flight"
  /\ \/ download' = [download EXCEPT ![i] = "done"] /\ UNCHANGED faulty
     \/ download' = [download EXCEPT ![i] = "error"] /\ faulty' = TRUE
  /\ UNCHANGED <<size, handler, zipper, idx, inflight, inflight_bytes, writer, ok, upload, archive>>

(* An upload fails at any time, writes are refused from then on; or it is    *)
(* complete. The error of a completion may hide that it took place.          *)
UpFinish ==
  /\ \/ upload = "closed" /\ upload' = "ok" /\ archive' = sent /\ UNCHANGED faulty
     \/ upload = "open" /\ upload' = "failed" /\ faulty' = TRUE /\ UNCHANGED archive
     \/ upload = "closed" /\ upload' = "failed" /\ faulty' = TRUE /\ archive' \in {archive, sent}
  /\ UNCHANGED <<size, handler, zipper, idx, window, writer, ok>>
-----------------------------------------------------------------------------
HandlerStep == ListObjects \/ StartUpload \/ Answer
ZipperStep ==
  \/ StartDownload \/ Pick \/ Awaited \/ LoopEnds
  \/ Feed \/ DownloadFailed \/ Finish \/ EndOfFile \/ Cleanup

Next == HandlerStep \/ ZipperStep \/ UpFinish \/ \E i \in Ids : DlFinish(i)

(* Threads run; the client answers every download, and an upload that has    *)
(* been told its end or has failed. An open upload needs never end.          *)
AnyId == UNION {DOMAIN l : l \in Lists}
Fairness ==
  /\ WF_vars(HandlerStep) /\ WF_vars(ZipperStep)
  /\ \A i \in AnyId : WF_vars(i \in Ids /\ DlFinish(i))
  /\ WF_vars(upload = "closed" /\ UpFinish)

Spec == Init /\ [][Next]_vars /\ Fairness
-----------------------------------------------------------------------------
(* Properties *)

(* The counters of zipper_thread are those of the requests it still holds,    *)
(* on every path out of the loop, and within both bounds; a callback never    *)
(* finds its download freed.                                                  *)
TypeOK ==
  /\ size \in Lists
  /\ handler \in {"list", "start", "join", "ok", "error"}
  /\ zipper \in {"none", "loop", "wait", "feed", "finish", "end", "cleanup", "gone"}
  /\ download \in [Ids -> {"none", "flight", "done", "error", "fed"}]
  /\ upload \in {"none", "open", "closed", "ok", "failed"}
  /\ zipper \in {"wait", "feed"} => idx \in InWindow
  /\ inflight = Cardinality(InWindow) /\ inflight <= MaxDownloads
  /\ inflight_bytes = SumFunctionOnSet(size, InWindow) /\ inflight_bytes <= MaxInflight
  /\ zipper = "gone" => \A i \in Ids : download[i] # "flight"
  /\ Len(batch) < BatchSize \/ upload \in {"closed", "ok"}

(* What an unzip program finds from the end record on is one whole entry for  *)
(* each of the objects.                                                      *)
Holds(bytes, ids) ==
  LET end == bytes[Len(bytes)]
      records == SubSeq(bytes, end[3] + 1, Len(bytes) - 1)
  IN  /\ end[1] = "end" /\ end[2] = Cardinality(ids) /\ Len(records) = Cardinality(ids)
      /\ {records[n][2] : n \in DOMAIN records} = ids
      /\ \A n \in DOMAIN records :
           LET i == records[n][2] IN
             SubSeq(bytes, records[n][3] + 1, records[n][3] + size[i] + 1) = EntryBytes(i)

(* zipper_thread and handle_invocation: an answer of success means that every *)
(* object is in the archive, in whatever order the downloads end. But from an *)
(* object larger than the window on none is, and nobody is told ("shouldn't   *)
(* happen", main.c:617). A count is capped at 16 bits.                         *)
Larger == {i \in Ids : size[i] > MaxInflight}
Archived == IF Larger = {} THEN Ids ELSE 1 .. Min(Larger) - 1
OkMeansWhole ==
  handler = "ok" /\ Cardinality(Archived) <= CountLimit => Holds(archive, Archived)

(* The handler answers, and with an error only after a call has failed: the   *)
(* upload is told its end, or has failed, however the zipper ends.            *)
AnswerHasCause == <>(handler = "ok" \/ (handler = "error" /\ faulty))
=============================================================================
