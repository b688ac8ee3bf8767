---------------------------- MODULE FigmentEngine ----------------------------
(***************************************************************************)
(* One invocation of the figment-engine contender: the plan of a single    *)
(* multipart upload, whose parts are server-side copies of big files and   *)
(* streams of small files and headers; its execution in two pools; and the *)
(* fallback, that builds the whole archive in memory.                      *)
(*                                                                         *)
(* A call that is retried until it is answered is one call; only the       *)
(* failure of the last attempt shows. Calls that nothing runs beside (the  *)
(* HEADs, the GETs of the fallback) are one action. Requests still under   *)
(* way when an error is returned may reach S3 later; their upload is never *)
(* completed.                                                              *)
(*                                                                         *)
(* A definition that stands next to one of the same shape and that no      *)
(* specification uses (MaxStealWhole, InArrival, ...) is a plausible bug   *)
(* in it.                                                                  *)
(***************************************************************************)
EXTENDS FigmentFiles

CONSTANTS
  CopyWindow,    (* COPY_CONCURRENCY                                        *)
  StreamWindow   (* STREAM_CONCURRENCY                                      *)

ASSUME FigmentAssumption == CopyWindow \in Nat \ {0} /\ StreamWindow \in Nat \ {0}

VARIABLES
  part,       (* part number -> todo, flight, ok: its future in a pool      *)
  uploaded,   (* part number -> bytes, at S3                                *)
  completed   (* the part numbers in the order of their answers             *)

vars == <<files, plan, handler, part, uploaded, completed, archive, faulty>>
-----------------------------------------------------------------------------
(* The plan *)

Whole(id) == <<Header(id), Body(id)>>

SmallestFirst ==
  {p \in Ids \X Ids : \/ files[p[1]].size < files[p[2]].size
                      \/ files[p[1]].size = files[p[2]].size /\ p[1] < p[2]}
Smalls == InOrder({i \in Ids : files[i].size < Floor}, SmallestFirst)

(* VIABILITY_MIN_TOTAL *)
Viable ==
  Bigs # <<>> /\ SumFunction([i \in Ids |-> files[i].size]) >= 4 * Floor

(* The rest of a big that has given its prefix is a part of its own. *)
MaxStealWhole(big) == files[big].size
MaxSteal(big) == files[big].size - Floor

(* The stream part before the copy of a big: smalls from the s-th on, until  *)
(* they and the header reach the floor, or the big can lend what is missing  *)
(* and a small was taken if there was one.                                   *)
Taken(s, j) == SumFunctionOnSet([i \in DOMAIN Smalls |-> EntryLen(Smalls[i])], s .. s + j - 1)
WithHeader(big, s, j) == Taken(s, j) + files[big].header
NoneLeft(s, j) == s + j > Len(Smalls)
Gap(big, s, j) == Max({0, Floor - WithHeader(big, s, j)})

EnoughPulled(big, s, j) ==
  \/ Gap(big, s, j) = 0
  \/ NoneLeft(s, j)
  \/ j > 0 /\ Gap(big, s, j) <= MaxSteal(big)
Pulled(big, s) == Min({j \in 0 .. Len(Smalls) + 1 - s : EnoughPulled(big, s, j)})

Stolen(big, s, j) ==
  IF j > 0 \/ NoneLeft(s, j) THEN Min({Gap(big, s, j), MaxSteal(big)}) ELSE 0

(* The k-th big takes its smalls from the FirstSmall[k]-th on. *)
FirstSmall[k \in 1 .. Len(Bigs) + 1] ==
  IF k = 1 THEN 1
  ELSE LET s == FirstSmall[k - 1] IN s + Pulled(Bigs[k - 1], s)
Batch(k) == SubSeq(Smalls, FirstSmall[k], FirstSmall[k + 1] - 1)

Stream(slices) == [kind |-> "stream", slices |-> slices]
Copy(slice) == [kind |-> "copy", slices |-> <<slice>>]
Prefix(id, len) == IF len > 0 THEN <<BodySlice(id, 0, len)>> ELSE <<>>

PartsOfBig(k) ==
  LET big == Bigs[k]
      first == FirstSmall[k]
      batch == Batch(k)
      steal == Stolen(big, first, Len(batch))
      smalls == FlattenSeq([i \in DOMAIN batch |-> Whole(batch[i])])
  IN  IF WithHeader(big, first, Len(batch)) + steal >= Floor
      THEN <<Stream(smalls \o <<Header(big)>> \o Prefix(big, steal)),
             Copy(BodySlice(big, steal, files[big].size))>>
      ELSE <<Stream(smalls \o Whole(big))>>

(* The smalls that no big took share the last part with the directory. *)
Leftover == SubSeq(Smalls, FirstSmall[Len(Bigs) + 1], Len(Smalls))
LastPart == Stream(FlattenSeq([i \in DOMAIN Leftover |-> Whole(Leftover[i])]))

Order == FlattenSeq([k \in DOMAIN Bigs |-> Append(Batch(k), Bigs[k])]) \o Leftover

SinglePlan ==
  [order |-> Order, offsets |-> Offsets(Order), directory |-> DirectoryOffset(Order),
   parts |-> Append(FlattenSeq([k \in DOMAIN Bigs |-> PartsOfBig(k)]), LastPart)]

(* The fallback keeps the order of the list. *)
Listed == [i \in Ids |-> i]
FallbackPlan ==
  [order |-> Listed, offsets |-> Offsets(Listed), directory |-> DirectoryOffset(Listed),
   parts |-> <<>>]

Numbers == DOMAIN plan.parts
Fast == Numbers # {}
SliceBytes(slices) == FlattenSeq([i \in DOMAIN slices |-> Bytes(slices[i])])
-----------------------------------------------------------------------------
Init ==
  /\ files \in Lists
  /\ plan = IF Viable THEN SinglePlan ELSE FallbackPlan
  /\ handler = "list"
  /\ part = [n \in Numbers |-> "todo"]
  /\ uploaded = <<>> /\ completed = <<>> /\ archive = <<>>
  /\ faulty = FALSE

(* A call of the handler: answered, or it fails for good and so does run. *)
Answered(next) == handler' = next /\ UNCHANGED faulty
GivesUp == handler' = "error" /\ faulty' = TRUE
Call(at, next) ==
  /\ handler = at
  /\ Answered(next) \/ GivesUp
  /\ UNCHANGED <<files, plan, part, uploaded, completed, archive>>

ListAndPlan == Call("list", IF Fast THEN "heads" ELSE "relist")

(* All HEADs are collected before the first error, a missing CRC included. *)
FillCrcs == Call("heads", "create")
CreateMpu == Call("create", IF Fast THEN "parts" ELSE "chunks")
-----------------------------------------------------------------------------
(* The two pools *)

OfKind(kind) == {n \in Numbers : plan.parts[n].kind = kind}
Window(kind) == IF kind = "copy" THEN CopyWindow ELSE StreamWindow
InFlight(kind) == {n \in OfKind(kind) : part[n] = "flight"}

Room(kind) == Cardinality(InFlight(kind)) < Window(kind)

StartPart(n) ==
  LET kind == plan.parts[n].kind IN
  /\ handler = "parts" /\ part[n] = "todo" /\ Room(kind)
  /\ \A m \in OfKind(kind) : m < n => part[m] # "todo"
  /\ part' = [part EXCEPT ![n] = "flight"]
  /\ UNCHANGED <<files, plan, handler, uploaded, completed, archive, faulty>>

PartBytes(n) ==
  SliceBytes(plan.parts[n].slices) \o IF n = Len(plan.parts) THEN Directory ELSE <<>>

PartEnds(n) ==
  /\ handler = "parts" /\ part[n] = "flight"
  /\ \/ /\ part' = [part EXCEPT ![n] = "ok"]
        /\ uploaded' = [m \in DOMAIN uploaded \cup {n} |-> IF m = n THEN PartBytes(n) ELSE uploaded[m]]
        /\ completed' = Append(completed, n)
        /\ Answered(IF \A m \in Numbers : part'[m] = "ok" THEN "complete" ELSE "parts")
     \/ GivesUp /\ UNCHANGED <<part, uploaded, completed>>
  /\ UNCHANGED <<files, plan, archive>>
-----------------------------------------------------------------------------
(* The fallback *)

InMemory == FlattenSeq([i \in Ids |-> SliceBytes(Whole(i))]) \o Directory

Relist == Call("relist", "get")
GetAll == Call("get", IF Len(InMemory) < Floor THEN "put" ELSE "create")

(* A completion is not retried: an error may hide that it took place. *)
Ends(bytes) ==
  \/ archive' = bytes /\ Answered("ok")
  \/ archive' \in {archive, bytes} /\ GivesUp

PutArchive ==
  /\ handler = "put" /\ Ends(InMemory)
  /\ UNCHANGED <<files, plan, part, uploaded, completed>>

Chunks == (Len(InMemory) + Floor - 1) \div Floor
Chunk(n) == SubSeq(InMemory, (n - 1) * Floor + 1, Min({n * Floor, Len(InMemory)}))

UploadChunk ==
  LET n == Len(completed) + 1 IN
  /\ handler = "chunks"
  /\ \/ /\ uploaded' = Append(uploaded, Chunk(n)) /\ completed' = Append(completed, n)
        /\ Answered(IF n = Chunks THEN "complete" ELSE "chunks")
     \/ GivesUp /\ UNCHANGED <<uploaded, completed>>
  /\ UNCHANGED <<files, plan, part, archive>>
-----------------------------------------------------------------------------
(* The completion *)

InArrival == completed
Sorted == Ascending(ToSet(completed))

(* S3 wants ascending numbers, and no part below the floor but the last. *)
Accepted(numbers) ==
  \A i \in 1 .. Len(numbers) - 1 :
    numbers[i] < numbers[i + 1] /\ Len(uploaded[numbers[i]]) >= Floor
Joined(numbers) == FlattenSeq([i \in DOMAIN numbers |-> uploaded[numbers[i]]])

CompleteMpu ==
  /\ handler = "complete"
  /\ IF Accepted(Sorted) THEN Ends(Joined(Sorted))
     ELSE Answered("error") /\ UNCHANGED archive
  /\ UNCHANGED <<files, plan, part, uploaded, completed>>
-----------------------------------------------------------------------------
HandlerStep ==
  \/ ListAndPlan \/ FillCrcs \/ CreateMpu
  \/ Relist \/ GetAll \/ PutArchive \/ UploadChunk \/ CompleteMpu
PartStep(n) == StartPart(n) \/ PartEnds(n)

Next == HandlerStep \/ \E n \in Numbers : PartStep(n)

(* S3 answers every call, in the end with an error; a future that is woken   *)
(* is polled.                                                               *)
MaxParts == 2 * Max({Len(l) : l \in Lists}) + 1
Fairness ==
  /\ WF_vars(HandlerStep)
  /\ \A n \in 1 .. MaxParts : WF_vars(n \in Numbers /\ PartStep(n))

Spec == Init /\ [][Next]_vars /\ Fairness
-----------------------------------------------------------------------------
(* Properties *)

(* The state of assemble, of its pools and of the fallback. Neither pool     *)
(* takes the slots of the other (buffer_unordered, assemble.rs).             *)
TypeOK ==
  /\ files \in Lists
  /\ handler \in {"list", "heads", "create", "parts", "relist", "get", "put", "chunks",
                  "complete", "ok", "error"}
  /\ part \in [Numbers -> {"todo", "flight", "ok"}]
  /\ Cardinality(InFlight("copy")) <= CopyWindow
  /\ Cardinality(InFlight("stream")) <= StreamWindow
  /\ DOMAIN uploaded = {completed[i] : i \in DOMAIN completed}
  /\ Fast => DOMAIN uploaded = {n \in Numbers : part[n] = "ok"}
  /\ faulty \in BOOLEAN

(* plan_single_mpu and stream_fallback::run: whatever smalls there are, each *)
(* part but the last reaches the floor, the rest of a copied big that lent a *)
(* prefix included. Otherwise S3 refuses the completion.                     *)
PartsLegal ==
  /\ TypeOK
  /\ \A n \in DOMAIN uploaded :
       Len(uploaded[n]) >= Floor \/ n = IF Fast THEN Len(plan.parts) ELSE Chunks

(* handler: every run ends, and well unless a call has failed for good: what  *)
(* the plan asks of S3 is never refused, in whatever order the parts arrive.  *)
AnswerHasCause == <>(handler = "ok" \/ (handler = "error" /\ faulty))
=============================================================================
