---------------------------- MODULE ChainAssembly ----------------------------
(***************************************************************************)
(* One invocation of the figment-engine-chain contender: the plan, which   *)
(* builds each segment object by a chain of multipart uploads (every link  *)
(* copies the object so far and appends one piece), and its execution, in  *)
(* which segments start when the CRCs of their headers are known and are   *)
(* stitched into the archive as soon as they are complete.                 *)
(*                                                                         *)
(* A call that is retried until it is answered is one call; only the       *)
(* failure of the last attempt shows. The pace of the calls is the subject *)
(* of RateLimit.                                                           *)
(*                                                                         *)
(* A definition that stands next to one of the same shape and that no      *)
(* specification uses (StealLenShort, WokenOne, ...) is a plausible bug in *)
(* it.                                                                     *)
(***************************************************************************)
EXTENDS FigmentFiles

CONSTANTS
  HeadWindow,  (* CRC_CONCURRENCY                                           *)
  BuildWindow  (* SEGMENT_CONCURRENCY                                       *)

ASSUME ChainAssumption == HeadWindow \in Nat \ {0} /\ BuildWindow \in Nat \ {0}

VARIABLES
  head,      (* id -> todo, flight, ok, failed: the HEAD that gets its CRC  *)
  phase,     (* segment -> where its future is                              *)
  link,      (* segment -> the link it is building                          *)
  parts,     (* segment -> parts uploaded for that link                     *)
  object,    (* segment -> the object of the last link completed            *)
  stitched   (* part number of the archive -> bytes                         *)

segmentVars == <<phase, link, parts, object>>
chainVars == <<files, plan, handler, head, segmentVars, stitched, archive, faulty>>
-----------------------------------------------------------------------------
(* The plan *)

SmallIds == Ascending({i \in Ids : files[i].size < Floor})

(* One bucket per big; the smalls are dealt to them in turn. *)
Count == Len(Bigs)
Dealt(k) == (Len(SmallIds) + Count - k) \div Count
SmallsOf(k) == [j \in 1 .. Dealt(k) |-> SmallIds[(j - 1) * Count + k]]

Buckets == [k \in DOMAIN Bigs |-> <<Bigs[k]>> \o SmallsOf(k)]
ChainOrder == FlattenSeq(Buckets)

(* The header of the next big rides at the end of the object. *)
PiecesAlone(k) == FlattenSeq([j \in DOMAIN SmallsOf(k) |->
                               <<Header(SmallsOf(k)[j]), Body(SmallsOf(k)[j])>>])
Pieces(k) ==
  PiecesAlone(k) \o IF k = Count THEN <<>> ELSE <<Header(Bigs[k + 1])>>

(* The only body bytes that are read: they fill up the part of the first   *)
(* header, that has no object to ride on.                                  *)
StealLenShort == Floor - files[Bigs[1]].header - 1
StealLen == Max({0, Floor - files[Bigs[1]].header})

(* A link: what its first part is, and the slices appended (none or one). *)
Appends(first, k) == [first |-> first, append |-> k]
Forward(pieces) == [n \in DOMAIN pieces |-> Appends("previous", <<pieces[n]>>)]

Links(k) ==
  IF k = 1
  THEN <<Appends("bootstrap", <<BodySlice(Bigs[1], StealLen, files[Bigs[1]].size)>>)>>
         \o Forward(Pieces(1))
  ELSE IF Pieces(k) = <<>> THEN <<Appends("anchor", <<>>)>>
  ELSE <<Appends("anchor", <<Head(Pieces(k))>>)>> \o Forward(Tail(Pieces(k)))

ObjectLen(k) ==
  files[Bigs[k]].size + (IF k = 1 THEN files[Bigs[1]].header ELSE 0)
    + SumFunction([n \in DOMAIN Pieces(k) |-> SliceLen(Pieces(k)[n])])

(* The CRCs a segment waits for: of its anchor, and of all it appends. *)
CrcIds(k) == {Bigs[k]} \cup {Pieces(k)[n].id : n \in DOMAIN Pieces(k)}

ChainPlan ==
  [order     |-> ChainOrder,
   offsets   |-> Offsets(ChainOrder),
   directory |-> DirectoryOffset(ChainOrder),
   segments  |-> [k \in DOMAIN Bigs |->
                    [anchor |-> Bigs[k], links |-> Links(k), length |-> ObjectLen(k),
                     crcs |-> CrcIds(k)]]]

Segments == DOMAIN plan.segments
SegmentCount == Len(plan.segments)
-----------------------------------------------------------------------------
ChainInit ==
  /\ files \in Lists /\ plan = ChainPlan
  /\ handler = "list"
  /\ head = [i \in Ids |-> "todo"]
  /\ phase = [k \in Segments |-> "todo"] /\ link = [k \in Segments |-> 1]
  /\ parts = [k \in Segments |-> <<>>] /\ object = [k \in Segments |-> <<>>]
  /\ stitched = <<>> /\ archive = <<>>
  /\ faulty = FALSE

(* A call that gives up: its last attempt failed, or its error is not one to *)
(* retry.                                                                   *)
CallFails == faulty' = TRUE
CallAnswered == UNCHANGED faulty

(* The lister fails, or the plan: without a big there is no segment. *)
Plan ==
  /\ handler = "list"
  /\ \/ CallAnswered /\ handler' = IF Segments = {} THEN "refused" ELSE "create"
     \/ CallFails /\ handler' = "error"
  /\ UNCHANGED <<files, plan, head, segmentVars, stitched, archive>>

CreateStitch ==
  /\ handler = "create"
  /\ \/ CallAnswered /\ handler' = "build"
     \/ CallFails /\ handler' = "error"
  /\ UNCHANGED <<files, plan, head, segmentVars, stitched, archive>>
-----------------------------------------------------------------------------
(* The HEAD stream, in plan order *)

HeadsInFlight == {i \in Ids : head[i] = "flight"}
HeadRoom == Cardinality(HeadsInFlight) < HeadWindow

IssueHead ==
  /\ handler = "build" /\ HeadRoom
  /\ \E n \in DOMAIN plan.order :
       /\ head[plan.order[n]] = "todo" /\ \A m \in 1 .. n - 1 : head[plan.order[m]] # "todo"
       /\ head' = [head EXCEPT ![plan.order[n]] = "flight"]
  /\ UNCHANGED <<files, plan, handler, segmentVars, stitched, archive, faulty>>

(* put wakes the segments that wait. *)
Asleep == {k \in Segments : phase[k] = "asleep"}
WokenOne == IF Asleep = {} THEN phase ELSE [phase EXCEPT ![Min(Asleep)] = "check"]
Woken == [k \in Segments |-> IF k \in Asleep THEN "check" ELSE phase[k]]

HeadEnds(i) ==
  /\ handler = "build" /\ head[i] = "flight"
  /\ \/ CallAnswered /\ head' = [head EXCEPT ![i] = "ok"] /\ phase' = Woken
     \/ CallFails /\ head' = [head EXCEPT ![i] = "failed"] /\ UNCHANGED phase
  /\ UNCHANGED <<files, plan, handler, link, parts, object, stitched, archive>>

(* The stream is collected before its errors are looked at; then try_join    *)
(* drops the build.                                                         *)
HeadsEnded == \A i \in Ids : head[i] \in {"ok", "failed"}
HeadsFailed == \E i \in Ids : head[i] = "failed"

ProducerFails ==
  /\ handler = "build" /\ HeadsEnded /\ HeadsFailed
  /\ handler' = "error"
  /\ UNCHANGED <<files, plan, head, segmentVars, stitched, archive, faulty>>
-----------------------------------------------------------------------------
(* The future of a segment *)

Known(ids) == \A i \in ids : head[i] = "ok"
Ended(k) == phase[k] \in {"ok", "failed"}
Building(k, at) == handler = "build" /\ phase[k] = at
Goto(k, at) == phase' = [phase EXCEPT ![k] = at]
Fails(k) == CallFails /\ Goto(k, "failed") /\ UNCHANGED <<link, parts, object, stitched>>
OfSegment == UNCHANGED <<files, plan, handler, head, archive>>

StartSegment(k) ==
  /\ Building(k, "todo") /\ \A j \in 1 .. k - 1 : phase[j] # "todo"
  /\ Cardinality({j \in Segments : phase[j] # "todo" /\ ~Ended(j)}) < BuildWindow
  /\ Goto(k, "check")
  /\ OfSegment /\ UNCHANGED <<link, parts, object, stitched, faulty>>

(* wait_for: subscribed before it checks, in one poll. *)
Gate(k) ==
  /\ Building(k, "check")
  /\ Goto(k, IF Known(plan.segments[k].crcs) THEN "create" ELSE "asleep")
  /\ OfSegment /\ UNCHANGED <<link, parts, object, stitched, faulty>>

CreateLink(k) ==
  /\ Building(k, "create")
  /\ \/ /\ CallAnswered /\ Goto(k, "first")
        /\ parts' = [parts EXCEPT ![k] = <<>>]
        /\ UNCHANGED <<link, object, stitched>>
     \/ Fails(k)
  /\ OfSegment

(* meta_of: a header cannot be written without its CRC. *)
NeedsCrc(id, k, upload) ==
  IF Known({id}) THEN upload
  ELSE CallAnswered /\ Goto(k, "failed") /\ UNCHANGED <<link, parts, object, stitched>>

Uploaded(k, bytes, next) ==
  /\ CallAnswered /\ Goto(k, next)
  /\ parts' = [parts EXCEPT ![k] = Append(@, bytes)]
  /\ UNCHANGED <<link, object, stitched>>

Link(k) == plan.segments[k].links[link[k]]
FirstPart(k) ==
  CASE Link(k).first = "bootstrap" ->
         Bytes(Header(plan.segments[k].anchor)) \o Bytes(BodySlice(plan.segments[k].anchor, 0, Link(k).append[1].from))
    [] Link(k).first = "anchor" -> Bytes(Body(plan.segments[k].anchor))
    [] Link(k).first = "previous" -> object[k]

UploadFirst(k) ==
  LET upload == Uploaded(k, FirstPart(k), IF Link(k).append = <<>> THEN "complete" ELSE "append")
                \/ Fails(k)
  IN  /\ Building(k, "first")
      /\ IF Link(k).first = "bootstrap" THEN NeedsCrc(plan.segments[k].anchor, k, upload) ELSE upload
      /\ OfSegment

AppendPiece(k) ==
  LET piece == Head(Link(k).append)
      upload == Uploaded(k, Bytes(piece), "complete") \/ Fails(k)
  IN  /\ Building(k, "append")
      /\ IF piece.of = "header" THEN NeedsCrc(piece.id, k, upload) ELSE upload
      /\ OfSegment

(* A completion that is answered by a retryable error may have taken place:   *)
(* its retry finds no such upload and gives up. Nobody reads that object.     *)
CompleteLink(k) ==
  /\ Building(k, "complete")
  /\ \/ /\ CallAnswered
        /\ object' = [object EXCEPT ![k] = FlattenSeq(parts[k])]
        /\ IF link[k] = Len(plan.segments[k].links) THEN Goto(k, "stitch") /\ UNCHANGED link
           ELSE Goto(k, "create") /\ link' = [link EXCEPT ![k] = @ + 1]
        /\ UNCHANGED <<parts, stitched>>
     \/ Fails(k)
  /\ OfSegment

(* The part number is the place of the segment, whenever it is complete. *)
StitchPartArrival(k) == Cardinality(DOMAIN stitched) + 1
StitchPart(k) == k

StitchSegment(k) ==
  /\ Building(k, "stitch")
  /\ \/ /\ CallAnswered /\ Goto(k, "ok")
        /\ stitched' = [n \in DOMAIN stitched \cup {StitchPart(k)} |->
                          IF n = StitchPart(k) THEN object[k] ELSE stitched[n]]
        /\ UNCHANGED <<link, parts, object>>
     \/ Fails(k)
  /\ OfSegment
-----------------------------------------------------------------------------
(* The end *)

BuildJoined ==
  /\ handler = "build" /\ HeadsEnded /\ ~HeadsFailed /\ \A k \in Segments : Ended(k)
  /\ handler' = "directory"
  /\ UNCHANGED <<files, plan, head, segmentVars, stitched, archive, faulty>>

(* The results of the segments are looked at after the directory is uploaded. *)
UploadDirectory ==
  /\ handler = "directory"
  /\ \/ /\ CallAnswered
        /\ stitched' = [n \in DOMAIN stitched \cup {SegmentCount + 1} |->
                          IF n = SegmentCount + 1 THEN Directory ELSE stitched[n]]
        /\ handler' = IF \A k \in Segments : phase[k] = "ok" THEN "complete" ELSE "error"
     \/ CallFails /\ handler' = "error" /\ UNCHANGED stitched
  /\ UNCHANGED <<files, plan, head, segmentVars, archive>>

(* Parts sorted by their number. Not retried: an error may hide a success. *)
Assembled ==
  LET numbers == Ascending(DOMAIN stitched) IN
  FlattenSeq([n \in DOMAIN numbers |-> stitched[numbers[n]]])

CompleteStitch ==
  /\ handler = "complete"
  /\ \/ CallAnswered /\ archive' = Assembled /\ handler' = "ok"
     \/ CallFails /\ archive' \in {archive, Assembled} /\ handler' = "error"
  /\ UNCHANGED <<files, plan, head, segmentVars, stitched>>
-----------------------------------------------------------------------------
RunStep ==
  Plan \/ CreateStitch \/ ProducerFails \/ BuildJoined \/ UploadDirectory \/ CompleteStitch
SegmentStep(k) ==
  \/ StartSegment(k) \/ Gate(k) \/ CreateLink(k) \/ UploadFirst(k) \/ AppendPiece(k)
  \/ CompleteLink(k) \/ StitchSegment(k)

ChainNext ==
  \/ RunStep \/ IssueHead
  \/ \E i \in Ids : HeadEnds(i)
  \/ \E k \in Segments : SegmentStep(k)

(* Futures are polled when they are woken, and S3 answers every call. *)
AnyId == UNION {DOMAIN l : l \in Lists}
ChainFairness ==
  /\ WF_chainVars(RunStep) /\ WF_chainVars(IssueHead)
  /\ \A i \in AnyId : WF_chainVars(i \in Ids /\ HeadEnds(i))
  /\ \A k \in AnyId : WF_chainVars(k \in Segments /\ SegmentStep(k))

ChainSpec == ChainInit /\ [][ChainNext]_chainVars /\ ChainFairness
-----------------------------------------------------------------------------
(* Properties *)

(* The state of run and of its futures. *)
ChainTypeOK ==
  /\ files \in Lists
  /\ handler \in {"list", "create", "build", "directory", "complete", "ok", "error", "refused"}
  /\ head \in [Ids -> {"todo", "flight", "ok", "failed"}]
  /\ Cardinality(HeadsInFlight) <= HeadWindow
  /\ phase \in [Segments -> {"todo", "check", "asleep", "create", "first", "append",
                             "complete", "stitch", "ok", "failed"}]
  /\ \A k \in Segments : link[k] \in DOMAIN plan.segments[k].links /\ Len(parts[k]) <= 2
  /\ DOMAIN stitched \subseteq 1 .. SegmentCount + 1
  /\ faulty \in BOOLEAN

(* build_one_link and plan_segment_chain: S3 refuses a completion with a part *)
(* below the floor that is not the last. No link and no stitch is refused,    *)
(* and segments have the length that the plan's assertions add up to the      *)
(* offset of the directory.                                                   *)
LinksLegal ==
  /\ ChainTypeOK
  /\ \A k \in Segments : Len(parts[k]) = 2 => Len(parts[k][1]) >= Floor
  /\ \A k \in Segments \cap DOMAIN stitched :
       Len(stitched[k]) >= Floor /\ Len(stitched[k]) = plan.segments[k].length
  /\ Segments # {} => SumFunction([k \in Segments |-> plan.segments[k].length]) = plan.directory

(* run always ends, although segments sleep in wait_for until a CRC arrives;  *)
(* it ends well unless a call has failed for good: meta_of never misses a CRC. *)
RunHasCause ==
  <>(\/ handler = "ok" \/ (handler = "error" /\ faulty)
     \/ (handler = "refused" /\ Segments = {}))
=============================================================================
