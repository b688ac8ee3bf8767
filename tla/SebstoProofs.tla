----------------------------- MODULE SebstoProofs -----------------------------
(***************************************************************************)
(* The TypeScript and the C contenders.                                    *)
(*                                                                         *)
(* TypeScript, for every list of objects, budget, chunk size and number of *)
(* slots: the byte budget and the slots are exact, and an archive that     *)
(* exists lacks only the parts whose failure nobody saw.  The stream is    *)
(* followed by a balance: the bytes in parts, in the chunk being filled    *)
(* and yet to append are those of the entries begun.  That the last part   *)
(* never fails unseen is a matter of scheduling: once it is emitted, no    *)
(* answer of S3 is taken before the upload stage awaits all.               *)
(*                                                                         *)
(* C, for every list of objects, window and batch: the window counts the   *)
(* requests in flight, and success means a whole archive.  Its downloads   *)
(* start in order; the bytes sent and those batched hold, for every entry  *)
(* fed, the record of where the writer placed it.                          *)
(***************************************************************************)
EXTENDS SebstoC, SebstoTs, Sums, SequenceTheorems

Places == {"listed", "fetching", "queued", "zipping", "zipped", "failed"}
PartRecord == [len : Nat, at : {"queued", "sending", "sent", "failed"}]

Shapes ==
  /\ file \in [Files -> Places] /\ next \in 1 .. Len(Size) + 1
  /\ available \in Int /\ queue \in Seq(Files)
  /\ zipped \in Seq(Files) /\ part \in Seq(PartRecord) /\ completed \in Seq(Nat)

(* The zip stage and its chunks. *)
Ending == zip \in {"directory", "finish", "done"}
Emitted == Ending /\ left = 0 /\ cursor = 0
Begun == {f \in Files : file[f] \in {"zipping", "zipped"}}
Lens(p) == SumFunctionOnSet([k \in DOMAIN p |-> p[k].len], DOMAIN p)
Entries(S) == SumFunctionOnSet([f \in Files |-> EntrySize(f)], S)

Idle ==
  /\ zip \in {"recv", "finish", "done"} => left = 0
  /\ zip = "recv" => cursor < ChunkSize
  /\ zip = "done" => cursor = 0

Once == IsInjective(zipped) /\ Range(zipped) = {f \in Files : file[f] = "zipped"}

Balance == Lens(part) + cursor + left = Entries(Begun) + (IF Ending THEN DirectorySize ELSE 0)

FullParts == \A k \in DOMAIN part : part[k].len # ChunkSize => k = Len(part) /\ zip # "directory" /\ Emitted

Written == Idle /\ Once /\ Balance /\ FullParts

(* A download that fails is seen, unless the process has crashed; what the   *)
(* zip stage has not taken when it writes the directory never came.          *)
Drained ==
  /\ downloads # "loop" => next = Len(Size) + 1
  /\ downloads = "ok" => \A f \in Files : file[f] # "fetching"
  /\ \A f \in Files : file[f] = "failed" => job = "crashed" \/ downloads = "failed"
  /\ Ending => ChannelClosed
  /\ Ending /\ downloads = "ok" => queue = <<>>

(* The upload stage awaits what is being sent only at the end of the stream, *)
(* and the last part does not fail before.                                   *)
PartsAwaited ==
  /\ uploads \in {"all", "ok"} => zip = "done" /\ At("queued") = {}
  /\ uploads = "ok" => At("sending") = {}
  /\ Range(completed) = At("sent")
  /\ Emitted /\ uploads # "failed" => \A k \in DOMAIN part : k = Len(part) => part[k].at # "failed"

Answered ==
  /\ job \in {"list", "create"} => part = <<>>
  /\ job = "error" => AllSettled \/ part = <<>>
  /\ job \in {"abort", "ok"} => AllSettled
  /\ job = "complete" \/ object # <<>> => AllSettled /\ downloads = "ok" /\ uploads = "ok"
  /\ object # <<>> => job \in {"ok", "abort", "error"} /\ object = Sorted

Inv == BudgetExact /\ Shapes /\ Written /\ Drained /\ PartsAwaited /\ Answered
-----------------------------------------------------------------------------
(* Files, parts and their sums *)

LEMMA LeastOf ==
  ASSUME NEW a \in Int, NEW b \in Int
  PROVE  Min({a, b}) \in {a, b} /\ Min({a, b}) <= a /\ Min({a, b}) <= b
<1>1. \E x \in {a, b} : \A y \in {a, b} : x <= y
  BY a <= b \/ b <= a
<1> QED
  BY <1>1 DEF Min

LEMMA FilesAre ==
  /\ Files = 1 .. Len(Size) /\ Len(Size) \in Nat /\ IsFiniteSet(Files)
  /\ \A f \in Files : Size[f] \in Nat /\ Needed(f) \in Nat /\ Needed(f) <= Budget /\ EntrySize(f) \in Nat \ {0}
<1>1. Files = 1 .. Len(Size) /\ Len(Size) \in Nat /\ \A f \in Files : Size[f] \in Nat
  BY SebstoTsAssumption DEF Files
<1>2. IsFiniteSet(Files)
  BY <1>1, FS_Interval
<1>3. ASSUME NEW f \in Files PROVE Needed(f) \in Nat /\ Needed(f) <= Budget /\ EntrySize(f) \in Nat \ {0}
  <2>1. Size[f] \in Int /\ Budget \in Int /\ Size[f] \in Nat /\ Budget \in Nat
    BY <1>1, SebstoTsAssumption
  <2>2. Needed(f) \in {Size[f], Budget} /\ Needed(f) <= Budget
    BY <2>1, LeastOf DEF Needed
  <2> QED
    BY <2>1, <2>2 DEF EntrySize
<1> QED
  BY <1>1, <1>2, <1>3

LEMMA ConstantsAre ==
  /\ Budget \in Nat \ {0} /\ ChunkSize \in Nat \ {0} /\ MaxInFlight \in Nat \ {0}
  /\ DirectorySize \in Nat \ {0}
  BY SebstoTsAssumption

(* One more file, or one less, in a sum over files. *)
LEMMA NeededAdd ==
  \A S \in SUBSET Files : \A f \in Files \ S :
    LET sum(T) == SumFunctionOnSet([g \in Files |-> Needed(g)], T) IN
    sum(S) \in Nat /\ sum(S \cup {f}) = sum(S) + Needed(f)
<1> TAKE S \in SUBSET Files
<1> TAKE f \in Files \ S
<1> DEFINE w == [g \in Files |-> Needed(g)]
<1>1. IsFiniteSet(S) /\ f \notin S /\ \A g \in S \cup {f} : w[g] \in Nat /\ w[g] = Needed(g)
  BY FilesAre, FS_Subset
<1> HIDE DEF w
<1>2. SumFunctionOnSet(w, S) \in Nat /\ SumFunctionOnSet(w, S \cup {f}) = SumFunctionOnSet(w, S) + w[f]
  BY <1>1, SumNat, SumAdd
<1> QED
  BY <1>1, <1>2 DEF w

LEMMA EntriesAdd ==
  \A S \in SUBSET Files : \A f \in Files \ S :
    Entries(S) \in Nat /\ Entries(S \cup {f}) = Entries(S) + EntrySize(f)
<1> TAKE S \in SUBSET Files
<1> TAKE f \in Files \ S
<1> DEFINE w == [g \in Files |-> EntrySize(g)]
<1>1. IsFiniteSet(S) /\ f \notin S /\ \A g \in S \cup {f} : w[g] \in Nat /\ w[g] = EntrySize(g)
  BY FilesAre, FS_Subset
<1> HIDE DEF w
<1>2. SumFunctionOnSet(w, S) \in Nat /\ SumFunctionOnSet(w, S \cup {f}) = SumFunctionOnSet(w, S) + w[f]
  BY <1>1, SumNat, SumAdd
<1> QED
  BY <1>1, <1>2 DEF w, Entries

LEMMA EntriesNat == \A S \in SUBSET Files : Entries(S) \in Nat
<1> TAKE S \in SUBSET Files
<1> DEFINE w == [g \in Files |-> EntrySize(g)]
<1>1. IsFiniteSet(S) /\ \A g \in S : w[g] \in Nat
  BY FilesAre, FS_Subset
<1> HIDE DEF w
<1>2. SumFunctionOnSet(w, S) \in Nat
  BY <1>1, SumNat
<1> QED
  BY <1>2 DEF w, Entries

LEMMA PartAt ==
  \A p \in Seq(PartRecord) : \A k \in DOMAIN p :
    p[k] \in PartRecord /\ p[k].len \in Nat /\ p[k].at \in {"queued", "sending", "sent", "failed"}
<1> TAKE p \in Seq(PartRecord)
<1> TAKE k \in DOMAIN p
<1>1. p[k] \in PartRecord
  OBVIOUS
<1> QED
  BY <1>1 DEF PartRecord

(* The bytes of the parts, when one is appended and when one moves on. *)
LEMMA LensNat == \A p \in Seq(PartRecord) : Lens(p) \in Nat /\ (p = <<>> => Lens(p) = 0)
<1> TAKE p \in Seq(PartRecord)
<1> DEFINE w == [k \in DOMAIN p |-> p[k].len]
<1>1. DOMAIN p = 1 .. Len(p) /\ Len(p) \in Nat
  OBVIOUS
<1>2. IsFiniteSet(DOMAIN p)
  BY <1>1, FS_Interval
<1>3. \A k \in DOMAIN p : w[k] \in Nat
  BY <1>1, PartAt
<1>4. p = <<>> => DOMAIN p = {}
  OBVIOUS
<1> HIDE DEF w
<1>5. SumFunctionOnSet(w, DOMAIN p) \in Nat /\ (DOMAIN p = {} => SumFunctionOnSet(w, DOMAIN p) = 0)
  BY <1>2, <1>3, SumNat, SumType
<1> QED
  BY <1>4, <1>5 DEF w, Lens

LEMMA LensAppend ==
  \A p \in Seq(PartRecord) : \A n \in Nat : \A a : Lens(Append(p, [len |-> n, at |-> a])) = Lens(p) + n
<1> TAKE p \in Seq(PartRecord)
<1> TAKE n \in Nat
<1> TAKE a
<1> DEFINE q == Append(p, [len |-> n, at |-> a])
           f == [k \in DOMAIN p |-> p[k].len]
           g == [k \in DOMAIN q |-> q[k].len]
           m == Len(p)
<1>1. m \in Nat /\ DOMAIN p = 1 .. m /\ DOMAIN q = 1 .. m + 1
  OBVIOUS
<1>2. \A k \in 1 .. m : q[k] = p[k] /\ p[k].len \in Nat
  BY <1>1, PartAt
<1>3. q[m + 1] = [len |-> n, at |-> a]
  OBVIOUS
<1>4. \A k \in 1 .. m : g[k] \in Int /\ f[k] = g[k]
  BY <1>1, <1>2
<1>5. g[m + 1] = n
  BY <1>1, <1>3
<1> HIDE DEF f, g, m, q
<1>6. SumFunctionOnSet(g, 1 .. m + 1) = SumFunctionOnSet(f, 1 .. m) + g[m + 1]
  BY <1>1, <1>4, <1>5, SumNext
<1> QED
  BY <1>1, <1>5, <1>6 DEF f, g, q, Lens

LEMMA LensMoved ==
  \A p \in Seq(PartRecord) : \A k \in DOMAIN p : \A a : Lens([p EXCEPT ![k].at = a]) = Lens(p)
<1> TAKE p \in Seq(PartRecord)
<1> TAKE k \in DOMAIN p
<1> TAKE a
<1> DEFINE q == [p EXCEPT ![k].at = a]
           f == [i \in DOMAIN p |-> p[i].len]
           g == [i \in DOMAIN q |-> q[i].len]
<1>1. DOMAIN q = DOMAIN p /\ IsFiniteSet(DOMAIN p)
  BY FS_Interval
<1>2. \A i \in DOMAIN p : q[i].len = p[i].len /\ p[i].len \in Nat
  BY PartAt
<1>3. \A i \in DOMAIN p : f[i] \in Int /\ f[i] = g[i]
  BY <1>1, <1>2
<1> HIDE DEF f, g, q
<1>4. SumFunctionOnSet(f, DOMAIN p) = SumFunctionOnSet(g, DOMAIN p)
  BY <1>1, <1>3, SumSame
<1> QED
  BY <1>1, <1>4 DEF f, g, q, Lens

(* What the zip stage writes is one file, when it writes an entry. *)
Zipping == {f \in Files : file[f] = "zipping"}

LEMMA ZippingIs ==
  ASSUME JobTypeOK
  PROVE  /\ zip # "entry" => \A f \in Files : file[f] # "zipping"
         /\ zip = "entry" => \E f \in Files : Zipping = {f}
<1>1. IsFiniteSet(Zipping)
  BY FilesAre, FS_Subset DEF Zipping
<1>2. CASE zip # "entry"
  <2>1. Cardinality(Zipping) = 0
    BY <1>2 DEF JobTypeOK, Zipping
  <2>2. Zipping = {}
    BY <1>1, <2>1, FS_EmptySet
  <2> QED
    BY <1>2, <2>2 DEF Zipping
<1>3. CASE zip = "entry"
  <2>1. Cardinality(Zipping) = 1
    BY <1>3 DEF JobTypeOK, Zipping
  <2>2. \E f : Zipping = {f}
    BY <1>1, <2>1, FS_Singleton
  <2> QED
    BY <1>3, <2>2 DEF Zipping
<1> QED
  BY <1>2, <1>3
-----------------------------------------------------------------------------
(* Steps *)

Stage == DownloadStage \/ ZipStage \/ UploadStage
Running == job = "run" /\ UNCHANGED <<job, object, s3_failed>>

LEMMA StepIs ==
  ASSUME [JobNext]_jobVars
  PROVE  \/ Stage /\ Running
         \/ Settled /\ job = "run" /\ UNCHANGED <<object, s3_failed>>
         \/ JobStep
         \/ \E f \in Files : FetchEnds(f)
         \/ \E k \in DOMAIN part : PartEnds(k)
         \/ UNCHANGED jobVars
  BY DEF JobNext, Microtask, S3Answers, Stage, Running

(* The places of files, file by file. *)
Flow ==
  /\ \A f \in Files : file[f] = "queued" <=> \E i \in DOMAIN queue : queue[i] = f
  /\ \A i, j \in DOMAIN queue : queue[i] = queue[j] => i = j
  /\ \A f \in Files : file[f] = "listed" <=> f >= next
  /\ \A f, g \in Files : file[f] = "zipping" /\ file[g] = "zipping" => f = g
  /\ (\E f \in Files : file[f] = "zipping") <=> zip = "entry"

FlowTypes == file \in [Files -> Places] /\ queue \in Seq(Files) /\ next \in 1 .. Len(Size) + 1

Tallies ==
  /\ {f \in Files : file[f] = "queued"} = Range(queue) /\ IsInjective(queue)
  /\ {f \in Files : file[f] = "listed"} = next .. Len(Size)
  /\ Cardinality({f \in Files : file[f] = "zipping"}) = (IF zip = "entry" THEN 1 ELSE 0)

LEMMA FlowIs == JobTypeOK /\ Shapes => Flow /\ FlowTypes
<1> SUFFICES ASSUME JobTypeOK, Shapes PROVE Flow /\ FlowTypes
  OBVIOUS
<1>1. FlowTypes
  BY DEF Shapes, FlowTypes
<1>2. \A f \in Files : file[f] = "queued" <=> \E i \in DOMAIN queue : queue[i] = f
  BY DEF JobTypeOK, Range
<1>3. \A i, j \in DOMAIN queue : queue[i] = queue[j] => i = j
  BY DEF JobTypeOK, IsInjective
<1>4. ASSUME NEW f \in Files PROVE file[f] = "listed" <=> f >= next
  <2>1. file[f] = "listed" <=> f \in next .. Len(Size)
    BY DEF JobTypeOK
  <2> QED
    BY <1>1, <2>1, FilesAre DEF FlowTypes
<1>5. /\ \A f, g \in Files : file[f] = "zipping" /\ file[g] = "zipping" => f = g
      /\ (\E f \in Files : file[f] = "zipping") <=> zip = "entry"
  BY ZippingIs DEF Zipping
<1> QED
  BY <1>1, <1>2, <1>3, <1>4, <1>5 DEF Flow

LEMMA TalliesIs == Flow /\ FlowTypes => Tallies
<1> SUFFICES ASSUME Flow, FlowTypes PROVE Tallies
  OBVIOUS
<1>1. {f \in Files : file[f] = "queued"} = Range(queue)
  <2>1. \A i \in DOMAIN queue : queue[i] \in Files
    BY DEF FlowTypes
  <2> QED
    BY <2>1 DEF Flow, Range
<1>2. IsInjective(queue)
  BY DEF Flow, IsInjective
<1>3. {f \in Files : file[f] = "listed"} = next .. Len(Size)
  <2>1. \A f \in next .. Len(Size) : f \in Files
    BY FilesAre DEF FlowTypes
  <2>2. \A f \in Files : f \in next .. Len(Size) <=> f >= next
    BY FilesAre DEF FlowTypes
  <2> QED
    BY <2>1, <2>2 DEF Flow
<1>4. Cardinality(Zipping) = (IF zip = "entry" THEN 1 ELSE 0)
  <2>1. CASE zip = "entry"
    <3>1. PICK f \in Files : file[f] = "zipping"
      BY <2>1 DEF Flow
    <3>2. Zipping = {f}
      BY <3>1 DEF Flow, Zipping
    <3> QED
      BY <2>1, <3>2, FS_Singleton
  <2>2. CASE zip # "entry"
    <3>1. Zipping = {}
      BY <2>2 DEF Flow, Zipping
    <3> QED
      BY <2>2, <3>1, FS_EmptySet
  <2> QED
    BY <2>1, <2>2
<1> QED
  BY <1>1, <1>2, <1>3, <1>4 DEF Tallies, Zipping

LEMMA TalliesNext == Flow' /\ FlowTypes' => Tallies'
  BY TalliesIs, PTL

LEMMA FlowKept ==
  ASSUME Inv, [JobNext]_jobVars
  PROVE  Flow' /\ FlowTypes'
<1>1. Flow /\ FlowTypes
  BY FlowIs DEF Inv, BudgetExact
<1> USE FilesAre
<1>2. CASE Acquire
  <2>1. next \in Files /\ next' = next + 1 /\ file' = [file EXCEPT ![next] = "fetching"]
        /\ UNCHANGED <<queue, zip>>
    BY <1>2 DEF Acquire, chunkVars
  <2>2. FlowTypes'
    BY <1>1, <2>1 DEF FlowTypes, Places
  <2>3. \A f \in Files : f # next => file'[f] = file[f]
    BY <1>1, <2>1 DEF FlowTypes
  <2>4. file'[next] = "fetching" /\ file[next] = "listed" /\ next \in Nat
    BY <1>1, <2>1 DEF FlowTypes, Flow
  <2> QED
    BY <1>1, <2>1, <2>2, <2>3, <2>4 DEF Flow
<1>3. CASE Take
  <2> DEFINE h == Head(queue)
  <2>1. /\ zip = "recv" /\ zip' = "entry" /\ queue # <<>> /\ queue' = Tail(queue) /\ UNCHANGED next
        /\ file' = [file EXCEPT ![h] = "zipping"]
    BY <1>3 DEF Take
  <2>2. /\ h \in Files /\ h = queue[1] /\ 1 \in DOMAIN queue /\ queue' \in Seq(Files)
        /\ DOMAIN queue' = 1 .. Len(queue) - 1 /\ DOMAIN queue = 1 .. Len(queue) /\ Len(queue) \in Nat
        /\ \A i \in 1 .. Len(queue) - 1 : queue'[i] = queue[i + 1]
    BY <1>1, <2>1 DEF FlowTypes
  <2> HIDE DEF h
  <2>3. FlowTypes'
    BY <1>1, <2>1, <2>2 DEF FlowTypes, Places
  <2>4. file'[h] = "zipping" /\ file[h] = "queued" /\ \A f \in Files : f # h => file'[f] = file[f]
    BY <1>1, <2>1, <2>2 DEF FlowTypes, Flow
  <2>5. ASSUME NEW i \in DOMAIN queue', NEW j \in DOMAIN queue', queue'[i] = queue'[j] PROVE i = j
    <3>0. \A m \in DOMAIN queue' : m \in Int /\ m + 1 \in DOMAIN queue /\ queue'[m] = queue[m + 1]
      BY <2>2
    <3>1. /\ i \in Int /\ j \in Int /\ i + 1 \in DOMAIN queue /\ j + 1 \in DOMAIN queue
          /\ queue[i + 1] = queue[j + 1]
      BY <3>0, <2>5, Zenon
    <3>2. i + 1 = j + 1
      BY <1>1, <3>1 DEF Flow
    <3> QED
      BY <3>1, <3>2
  <2>6. ASSUME NEW f \in Files PROVE file'[f] = "queued" <=> \E i \in DOMAIN queue' : queue'[i] = f
    <3>1. CASE f = h
      <4>1. \A i \in DOMAIN queue' : i + 1 \in DOMAIN queue /\ i + 1 # 1 /\ queue'[i] = queue[i + 1]
        BY <2>2
      <4> QED
        BY <1>1, <2>2, <2>4, <3>1, <4>1 DEF Flow
    <3>2. CASE f # h
      <4>1. (\E i \in DOMAIN queue : queue[i] = f) <=> \E i \in DOMAIN queue' : queue'[i] = f
        <5>1. \A i \in DOMAIN queue : queue[i] = f => i - 1 \in DOMAIN queue' /\ queue'[i - 1] = f
          BY <2>2, <3>2
        <5>2. \A i \in DOMAIN queue' : i + 1 \in DOMAIN queue /\ queue'[i] = queue[i + 1]
          BY <2>2
        <5> QED
          BY <5>1, <5>2
      <4> QED
        BY <1>1, <2>4, <3>2, <4>1 DEF Flow
    <3> QED
      BY <3>1, <3>2
  <2>7. \A f \in Files : file[f] # "zipping"
    BY <1>1, <2>1 DEF Flow
  <2>8. \A f \in Files : file'[f] = "listed" <=> f >= next'
    BY <1>1, <2>1, <2>4 DEF Flow
  <2> QED
    BY <2>1, <2>2, <2>3, <2>4, <2>5, <2>6, <2>7, <2>8 DEF Flow
<1>4. CASE EntryWritten
  <2>1. PICK f \in Files : file[f] = "zipping" /\ file' = [file EXCEPT ![f] = "zipped"]
    BY <1>4 DEF EntryWritten
  <2>2. zip = "entry" /\ zip' = "recv" /\ UNCHANGED <<next, queue>>
    BY <1>4 DEF EntryWritten, Appended
  <2>3. FlowTypes'
    BY <1>1, <2>1, <2>2 DEF FlowTypes, Places
  <2>4. file'[f] = "zipped" /\ \A g \in Files : g # f => file'[g] = file[g]
    BY <1>1, <2>1 DEF FlowTypes
  <2> QED
    BY <1>1, <2>1, <2>2, <2>3, <2>4 DEF Flow
<1>5. ASSUME NEW f \in Files, FetchEnds(f) PROVE Flow' /\ FlowTypes'
  <2>1. file[f] = "fetching" /\ UNCHANGED <<zip, next>>
    BY <1>5 DEF FetchEnds, chunkVars
  <2>2. CASE file' = [file EXCEPT ![f] = "queued"] /\ queue' = Append(queue, f)
    <3>1. /\ queue' \in Seq(Files) /\ DOMAIN queue' = 1 .. Len(queue) + 1 /\ Len(queue) \in Nat
          /\ DOMAIN queue = 1 .. Len(queue) /\ queue'[Len(queue) + 1] = f
          /\ \A i \in 1 .. Len(queue) : queue'[i] = queue[i]
      BY <1>1, <2>2 DEF FlowTypes
    <3>2. FlowTypes'
      BY <1>1, <2>1, <2>2, <3>1 DEF FlowTypes, Places
    <3>3. file'[f] = "queued" /\ \A g \in Files : g # f => file'[g] = file[g]
      BY <1>1, <2>2 DEF FlowTypes
    <3>4. \A i \in DOMAIN queue : queue[i] # f
      BY <1>1, <2>1 DEF Flow
    <3>5. ASSUME NEW i \in DOMAIN queue', NEW j \in DOMAIN queue', queue'[i] = queue'[j] PROVE i = j
      <4>1. \A m \in DOMAIN queue' : m = Len(queue) + 1 \/ (m \in DOMAIN queue /\ queue'[m] = queue[m])
        BY <3>1
      <4>2. i \in DOMAIN queue /\ j \in DOMAIN queue => i = j
        BY <1>1, <3>5, <4>1, <3>1 DEF Flow
      <4> QED
        BY <3>1, <3>4, <3>5, <4>1, <4>2
    <3>6. ASSUME NEW g \in Files PROVE file'[g] = "queued" <=> \E i \in DOMAIN queue' : queue'[i] = g
      <4>1. Len(queue) + 1 \in DOMAIN queue' /\ DOMAIN queue \subseteq DOMAIN queue'
        BY <3>1
      <4>2. \A i \in DOMAIN queue' : i \in DOMAIN queue \/ i = Len(queue) + 1
        BY <3>1
      <4>3. CASE g = f
        BY <3>1, <3>3, <4>1, <4>3
      <4>4. CASE g # f
        <5>1. (\E i \in DOMAIN queue : queue[i] = g) <=> \E i \in DOMAIN queue' : queue'[i] = g
          BY <3>1, <4>1, <4>2, <4>4
        <5> QED
          BY <1>1, <3>3, <4>4, <5>1 DEF Flow
      <4> QED
        BY <4>3, <4>4
    <3>7. \A g \in Files : file'[g] = "listed" <=> g >= next'
      <4>1. next' = next /\ \A g \in Files : file'[g] = "listed" <=> file[g] = "listed"
        BY <2>1, <3>3
      <4> QED
        BY <1>1, <4>1 DEF Flow
    <3>8. \A g \in Files : file'[g] = "zipping" <=> file[g] = "zipping"
      BY <2>1, <3>3
    <3> QED
      BY <1>1, <2>1, <3>2, <3>5, <3>6, <3>7, <3>8 DEF Flow
  <2>3. CASE file' = [file EXCEPT ![f] = "failed"] /\ UNCHANGED queue
    <3>1. file'[f] = "failed" /\ \A g \in Files : g # f => file'[g] = file[g]
      BY <1>1, <2>3 DEF FlowTypes
    <3>2. FlowTypes'
      BY <1>1, <2>1, <2>3 DEF FlowTypes, Places
    <3> QED
      BY <1>1, <2>1, <2>3, <3>1, <3>2 DEF Flow
  <2> QED
    BY <1>5, <2>2, <2>3 DEF FetchEnds
<1>6. ASSUME UNCHANGED <<file, queue, next>>, zip' = zip \/ {zip, zip'} \subseteq {"recv", "directory", "finish", "done"}
      PROVE  Flow' /\ FlowTypes'
  BY <1>1, <1>6 DEF Flow, FlowTypes
<1>7. CASE AwaitDownloads \/ DownloadsDone \/ UploadStage \/ Settled
  BY <1>6, <1>7 DEF AwaitDownloads, DownloadsDone, UploadStage, Send, AwaitUploads, UploadsDone,
     Settled, chunkVars, fileVars
<1>8. CASE Directory \/ AppendBytes \/ Emit \/ DirectoryWritten \/ ProducerDone
  BY <1>6, <1>8 DEF Directory, NoMoreFiles, AppendBytes, Emit, DirectoryWritten, ProducerDone, Appended,
     fileVars
<1>9. CASE JobStep \/ (\E k \in DOMAIN part : PartEnds(k)) \/ UNCHANGED jobVars
  BY <1>6, <1>9 DEF JobStep, JobStarts, Complete, Abort, PartEnds, jobVars, fileVars, chunkVars
<1> QED
  BY <1>2, <1>3, <1>4, <1>5, <1>7, <1>8, <1>9, StepIs DEF Stage, DownloadStage, ZipStage

(* The types of what the stages count and emit.                              *)
Bytes == left \in Nat /\ cursor \in 0 .. ChunkSize /\ available \in Int
PartLists == zipped \in Seq(Files) /\ part \in Seq(PartRecord) /\ completed \in Seq(Nat)
Controls ==
  /\ job \in {"list", "create", "run", "complete", "abort", "ok", "error", "crashed"}
  /\ downloads \in {"loop", "all", "ok", "failed"}
  /\ zip \in {"recv", "entry", "directory", "finish", "done"}
  /\ uploads \in {"recv", "all", "ok", "failed"}

LEMMA FirstQueued ==
  ASSUME part \in Seq(PartRecord), At("queued") # {}
  PROVE  Min(At("queued")) \in At("queued")
<1>1. At("queued") \subseteq Nat
  BY DEF At
<1>2. \E m \in At("queued") : \A k \in At("queued") : m <= k
  BY <1>1, Least
<1> QED
  BY <1>2 DEF Min

LEMMA BytesKept ==
  ASSUME Inv, [JobNext]_jobVars
  PROVE  Bytes'
<1>1. Bytes /\ ChunkSize \in Nat \ {0} /\ DirectorySize \in Nat
  BY ConstantsAre DEF Inv, BudgetExact, JobTypeOK, Shapes, Bytes
<1>2. FlowTypes
  BY FlowIs DEF Inv, BudgetExact
<1>3. CASE Acquire
  <2>1. next \in Files /\ available' = available - Needed(next) /\ UNCHANGED <<left, cursor>>
    BY <1>3 DEF Acquire, chunkVars
  <2> QED
    BY <1>1, <2>1, FilesAre DEF Bytes
<1>4. CASE Take
  <2>1. Head(queue) \in Files /\ left' = EntrySize(Head(queue)) /\ UNCHANGED <<cursor, available>>
    BY <1>2, <1>4 DEF Take, FlowTypes
  <2> QED
    BY <1>1, <2>1, FilesAre DEF Bytes
<1>5. CASE AppendBytes
  <2> DEFINE m == Min({left, ChunkSize - cursor})
  <2>1. /\ left > 0 /\ cursor < ChunkSize /\ cursor' = cursor + m /\ left' = left - m
        /\ UNCHANGED available
    BY <1>5 DEF AppendBytes, fileVars
  <2>2. left \in Int /\ ChunkSize - cursor \in Int
    BY <1>1 DEF Bytes
  <2>3. m \in {left, ChunkSize - cursor} /\ m <= left /\ m <= ChunkSize - cursor
    BY <2>2, LeastOf
  <2> HIDE DEF m
  <2> QED
    BY <1>1, <2>1, <2>3 DEF Bytes
<1>6. CASE EntryWritten
  <2>1. (\E f \in Files : available' = Released(f)) /\ UNCHANGED <<left, cursor>>
    BY <1>6 DEF EntryWritten
  <2> QED
    BY <1>1, <2>1, FilesAre DEF Bytes, Released
<1>7. CASE Directory \/ Emit
  BY <1>1, <1>7 DEF Directory, Emit, Bytes, fileVars
<1>8. ASSUME UNCHANGED <<left, cursor, available>> PROVE Bytes'
  BY <1>1, <1>8 DEF Bytes
<1>9. CASE AwaitDownloads \/ DownloadsDone \/ UploadStage \/ Settled \/ DirectoryWritten \/ ProducerDone
  BY <1>8, <1>9 DEF AwaitDownloads, DownloadsDone, UploadStage, Send, AwaitUploads, UploadsDone,
     Settled, DirectoryWritten, ProducerDone, chunkVars, fileVars
<1>10. CASE JobStep \/ (\E f \in Files : FetchEnds(f)) \/ (\E k \in DOMAIN part : PartEnds(k)) \/ UNCHANGED jobVars
  BY <1>8, <1>10 DEF JobStep, JobStarts, Complete, Abort, FetchEnds, PartEnds, jobVars, fileVars, chunkVars
<1> QED
  BY <1>3, <1>4, <1>5, <1>6, <1>7, <1>9, <1>10, StepIs DEF Stage, DownloadStage, ZipStage

LEMMA ListsKept ==
  ASSUME Inv, [JobNext]_jobVars
  PROVE  PartLists'
<1>1. PartLists /\ Bytes
  BY DEF Inv, BudgetExact, JobTypeOK, Shapes, PartLists, Bytes
<1>2. ASSUME NEW k \in DOMAIN part, NEW a \in {"queued", "sending", "sent", "failed"},
             part' = [part EXCEPT ![k].at = a]
      PROVE  part' \in Seq(PartRecord)
  <2>1. part[k] \in PartRecord /\ [part[k] EXCEPT !.at = a] \in PartRecord
    BY <1>1, PartAt DEF PartLists, PartRecord
  <2>2. part' = [part EXCEPT ![k] = [part[k] EXCEPT !.at = a]]
    BY <1>2
  <2> QED
    BY <1>1, <2>1, <2>2 DEF PartLists
<1>3. CASE Emit
  <2>1. [len |-> cursor, at |-> "queued"] \in PartRecord
    BY <1>1 DEF Bytes, PartRecord
  <2>2. part' = Append(part, [len |-> cursor, at |-> "queued"]) /\ UNCHANGED <<zipped, completed>>
    BY <1>3 DEF Emit
  <2> QED
    BY <1>1, <2>1, <2>2 DEF PartLists
<1>4. CASE Send
  <2>1. PICK k \in DOMAIN part : part' = [part EXCEPT ![k].at = "sending"]
    <3>1. Min(At("queued")) \in At("queued")
      BY <1>1, <1>4, FirstQueued DEF Send, PartLists
    <3> QED
      BY <1>4, <3>1 DEF Send, At
  <2> QED
    BY <1>1, <1>2, <1>4, <2>1 DEF Send, PartLists, chunkVars
<1>5. ASSUME NEW k \in DOMAIN part, PartEnds(k) PROVE PartLists'
  <2>1. CASE part' = [part EXCEPT ![k].at = "sent"] /\ completed' = Append(completed, k)
    <3>1. k \in Nat /\ zipped' = zipped
      BY <1>1, <1>5 DEF PartLists, PartEnds, chunkVars
    <3>2. completed' \in Seq(Nat)
      BY <1>1, <2>1, <3>1 DEF PartLists
    <3>3. part' \in Seq(PartRecord)
      BY <1>2, <2>1
    <3> QED
      BY <1>1, <3>1, <3>2, <3>3 DEF PartLists
  <2>2. CASE part' = [part EXCEPT ![k].at = "failed"] /\ UNCHANGED completed
    BY <1>1, <1>2, <1>5, <2>2 DEF PartEnds, PartLists, chunkVars
  <2> QED
    BY <1>5, <2>1, <2>2 DEF PartEnds
<1>6. CASE EntryWritten
  BY <1>1, <1>6 DEF EntryWritten, PartLists, partVars
<1>7. ASSUME UNCHANGED <<zipped, part, completed>> PROVE PartLists'
  BY <1>1, <1>7 DEF PartLists
<1>8. CASE DownloadStage \/ Settled \/ JobStep \/ (\E f \in Files : FetchEnds(f)) \/ UNCHANGED jobVars
  BY <1>7, <1>8 DEF DownloadStage, Acquire, AwaitDownloads, DownloadsDone, Settled, JobStep, JobStarts,
     Complete, Abort, FetchEnds, jobVars, chunkVars, partVars
<1>9. CASE Take \/ Directory \/ AppendBytes \/ DirectoryWritten \/ ProducerDone \/ AwaitUploads \/ UploadsDone
  BY <1>7, <1>9 DEF Take, Directory, AppendBytes, DirectoryWritten, ProducerDone, AwaitUploads, UploadsDone,
     chunkVars, partVars
<1> QED
  BY <1>3, <1>4, <1>5, <1>6, <1>8, <1>9, StepIs DEF Stage, ZipStage, UploadStage

LEMMA ControlsKept ==
  ASSUME Inv, [JobNext]_jobVars
  PROVE  Controls' /\ s3_failed' \in BOOLEAN
<1>1. Controls /\ s3_failed \in BOOLEAN
  BY DEF Inv, BudgetExact, JobTypeOK, Controls
<1>2. CASE Stage /\ Running
  <2>1. job' = job /\ s3_failed' = s3_failed
    BY <1>2 DEF Running
  <2>2. CASE DownloadStage
    BY <1>1, <2>1, <2>2 DEF DownloadStage, Acquire, AwaitDownloads, DownloadsDone, Controls, chunkVars, partVars
  <2>3. CASE ZipStage
    BY <1>1, <2>1, <2>3 DEF ZipStage, Take, Directory, AppendBytes, Emit, EntryWritten, DirectoryWritten,
       ProducerDone, Controls, fileVars, partVars
  <2>4. CASE UploadStage
    BY <1>1, <2>1, <2>4 DEF UploadStage, Send, AwaitUploads, UploadsDone, Controls, fileVars, chunkVars
  <2> QED
    BY <1>2, <2>2, <2>3, <2>4 DEF Stage
<1>3. CASE Settled /\ UNCHANGED <<object, s3_failed>>
  BY <1>1, <1>3 DEF Settled, Controls, fileVars, chunkVars, partVars
<1>4. CASE JobStep
  BY <1>1, <1>4 DEF JobStep, JobStarts, Complete, Abort, Controls, fileVars, chunkVars, partVars
<1>5. CASE (\E f \in Files : FetchEnds(f)) \/ (\E k \in DOMAIN part : PartEnds(k))
  BY <1>1, <1>5 DEF FetchEnds, PartEnds, Controls, fileVars, chunkVars, partVars
<1>6. CASE UNCHANGED jobVars
  BY <1>1, <1>6 DEF Controls, jobVars, fileVars, chunkVars, partVars
<1> QED
  BY <1>2, <1>3, <1>4, <1>5, <1>6, StepIs

LEMMA TypesKept ==
  ASSUME Inv, [JobNext]_jobVars
  PROVE  JobTypeOK' /\ Shapes'
<1>1. Tallies' /\ FlowTypes'
  BY FlowKept, TalliesNext
<1>2. Bytes' /\ PartLists' /\ Controls' /\ s3_failed' \in BOOLEAN
  BY BytesKept, ListsKept, ControlsKept
<1>3. JobTypeOK'
  BY <1>1, <1>2 DEF JobTypeOK, Tallies, Bytes, Controls
<1> QED
  BY <1>1, <1>2, <1>3 DEF Shapes, FlowTypes, Bytes, PartLists
-----------------------------------------------------------------------------
(* The byte budget and the slots *)

Taken(S) == SumFunctionOnSet([g \in Files |-> Needed(g)], S)
Balanced == available >= 0 /\ available + Taken(Held) = Budget

LEMMA TakenAdd ==
  \A S \in SUBSET Files : \A f \in Files \ S : Taken(S) \in Nat /\ Taken(S \cup {f}) = Taken(S) + Needed(f)
  BY NeededAdd DEF Taken

LEMMA BudgetKept ==
  ASSUME Inv, [JobNext]_jobVars
  PROVE  Balanced'
<1>1. Balanced /\ Flow /\ FlowTypes /\ available \in Int /\ Budget \in Nat
  BY FlowIs, ConstantsAre DEF Inv, BudgetExact, Balanced, Taken, Shapes
<1>2. Held \subseteq Files
  BY DEF Held
<1>3. ASSUME UNCHANGED available, \A f \in Files : f \in Held' <=> f \in Held PROVE Balanced'
  <2>1. Held' = Held
    BY <1>3 DEF Held
  <2> QED
    BY <1>1, <1>3, <2>1 DEF Balanced, Taken
<1>4. CASE Acquire
  <2>1. /\ next \in Files /\ available >= Needed(next) /\ available' = available - Needed(next)
        /\ file' = [file EXCEPT ![next] = "fetching"]
    BY <1>4 DEF Acquire
  <2>2. file[next] = "listed" /\ next \in Nat
    BY <1>1, <2>1, FilesAre DEF Flow, FlowTypes
  <2>3. next \notin Held /\ Held' = Held \cup {next}
    BY <1>1, <2>1, <2>2 DEF Held, FlowTypes
  <2>4. Taken(Held) \in Nat /\ Taken(Held \cup {next}) = Taken(Held) + Needed(next)
    BY <1>2, <2>1, <2>3, TakenAdd
  <2>5. Taken(Held') = Taken(Held) + Needed(next)
    BY <2>3, <2>4
  <2>6. Needed(next) \in Nat
    BY <2>1, FilesAre
  <2>7. available' >= 0 /\ available' + Taken(Held') = Budget
    BY <1>1, <2>1, <2>4, <2>5, <2>6 DEF Balanced
  <2> QED
    BY <2>7 DEF Balanced, Taken
<1>5. CASE EntryWritten
  <2>1. PICK f \in Files : /\ file[f] = "zipping" /\ file' = [file EXCEPT ![f] = "zipped"]
                           /\ available' = available + Needed(f)
    BY <1>5 DEF EntryWritten, Released
  <2>2. f \notin Held' /\ Held = Held' \cup {f} /\ Held' \subseteq Files
    BY <1>1, <2>1 DEF Held, FlowTypes
  <2> DEFINE H == Held'
  <2> HIDE DEF H
  <2>3. H \in SUBSET Files /\ f \in Files \ H /\ Held = H \cup {f}
    BY <2>1, <2>2 DEF H
  <2>4. Taken(H) \in Nat /\ Taken(Held) = Taken(H) + Needed(f)
    BY <2>3, TakenAdd
  <2>5. available' >= 0 /\ available' + Taken(H) = Budget
    BY <1>1, <2>1, <2>4, FilesAre DEF Balanced
  <2> QED
    BY <2>5 DEF Balanced, Taken, H
<1>6. CASE Take
  <2>1. /\ queue # <<>> /\ file' = [file EXCEPT ![Head(queue)] = "zipping"] /\ UNCHANGED available
        /\ Head(queue) = queue[1] /\ 1 \in DOMAIN queue
    BY <1>1, <1>6 DEF Take, FlowTypes
  <2>2. queue[1] \in Files /\ file[queue[1]] = "queued"
    BY <1>1, <2>1 DEF Flow, FlowTypes
  <2>3. \A f \in Files : f \in Held' <=> f \in Held
    BY <1>1, <2>1, <2>2 DEF Held, FlowTypes
  <2> QED
    BY <1>3, <2>1, <2>3
<1>7. ASSUME NEW f \in Files, FetchEnds(f) PROVE Balanced'
  <2>1. file[f] = "fetching" /\ UNCHANGED available /\ \E a \in {"queued", "failed"} : file' = [file EXCEPT ![f] = a]
    BY <1>7 DEF FetchEnds
  <2>2. \A g \in Files : g \in Held' <=> g \in Held
    BY <1>1, <2>1 DEF Held, FlowTypes
  <2> QED
    BY <1>3, <2>1, <2>2
<1>8. ASSUME UNCHANGED <<file, available>> PROVE Balanced'
  BY <1>3, <1>8 DEF Held
<1>9. CASE AwaitDownloads \/ DownloadsDone \/ UploadStage \/ Settled
  BY <1>8, <1>9 DEF AwaitDownloads, DownloadsDone, UploadStage, Send, AwaitUploads, UploadsDone,
     Settled, fileVars
<1>10. CASE Directory \/ AppendBytes \/ Emit \/ DirectoryWritten \/ ProducerDone
  BY <1>8, <1>10 DEF Directory, AppendBytes, Emit, DirectoryWritten, ProducerDone, fileVars
<1>11. CASE JobStep \/ (\E k \in DOMAIN part : PartEnds(k)) \/ UNCHANGED jobVars
  BY <1>8, <1>11 DEF JobStep, JobStarts, Complete, Abort, PartEnds, jobVars, fileVars
<1> QED
  BY <1>4, <1>5, <1>6, <1>7, <1>9, <1>10, <1>11, StepIs DEF Stage, DownloadStage, ZipStage

(* How a step changes the parts. *)
PartMoved(k, from, to) == part[k].at = from /\ part' = [part EXCEPT ![k].at = to]

LEMMA PartSteps ==
  ASSUME Inv, [JobNext]_jobVars
  PROVE  \/ Emit /\ Running
         \/ Send /\ Running /\ \E k \in DOMAIN part : PartMoved(k, "queued", "sending")
         \/ \E k \in DOMAIN part : PartEnds(k) /\ \E a \in {"sent", "failed"} : PartMoved(k, "sending", a)
         \/ UNCHANGED <<part, completed>>
<1>0. part \in Seq(PartRecord)
  BY DEF Inv, Shapes
<1>1. CASE Send /\ Running
  <2>1. Min(At("queued")) \in At("queued")
    BY <1>0, <1>1, FirstQueued DEF Send
  <2>2. Min(At("queued")) \in DOMAIN part /\ PartMoved(Min(At("queued")), "queued", "sending")
    BY <1>1, <2>1 DEF Send, At, PartMoved
  <2> QED
    BY <1>1, <2>2
<1>2. ASSUME NEW k \in DOMAIN part, PartEnds(k)
      PROVE  \E a \in {"sent", "failed"} : PartMoved(k, "sending", a)
  BY <1>2 DEF PartEnds, PartMoved
<1>3. CASE DownloadStage \/ Settled \/ JobStep \/ (\E f \in Files : FetchEnds(f)) \/ UNCHANGED jobVars
  BY <1>3 DEF DownloadStage, Acquire, AwaitDownloads, DownloadsDone, Settled, JobStep, JobStarts,
     Complete, Abort, FetchEnds, jobVars, partVars
<1>4. CASE Take \/ Directory \/ AppendBytes \/ EntryWritten \/ DirectoryWritten \/ ProducerDone \/ AwaitUploads \/ UploadsDone
  BY <1>4 DEF Take, Directory, AppendBytes, EntryWritten, DirectoryWritten, ProducerDone, AwaitUploads, UploadsDone, partVars
<1> QED
  BY <1>1, <1>2, <1>3, <1>4, StepIs DEF Stage, ZipStage, UploadStage

LEMMA MovedAt ==
  ASSUME part \in Seq(PartRecord), NEW k \in DOMAIN part, NEW from, NEW to, PartMoved(k, from, to)
  PROVE  /\ DOMAIN part' = DOMAIN part /\ part'[k].at = to /\ part'[k].len = part[k].len
         /\ \A j \in DOMAIN part : j # k => part'[j] = part[j]
         /\ Len(part') = Len(part) /\ Lens(part') = Lens(part)
<1>1. part[k] \in PartRecord
  BY PartAt
<1>2. part' = [part EXCEPT ![k].at = to] /\ Lens(part') = Lens(part)
  BY LensMoved DEF PartMoved
<1>3. DOMAIN part' = DOMAIN part /\ \A j \in DOMAIN part : j # k => part'[j] = part[j]
  BY <1>2
<1>4. part'[k].at = to /\ part'[k].len = part[k].len
  BY <1>1, <1>2 DEF PartRecord
<1>5. Len(part') = Len(part)
  BY <1>2
<1> QED
  BY <1>2, <1>3, <1>4, <1>5

LEMMA SlotsKept ==
  ASSUME Inv, [JobNext]_jobVars
  PROVE  Cardinality(InFlight)' <= MaxInFlight
<1>1. part \in Seq(PartRecord) /\ Cardinality(InFlight) <= MaxInFlight /\ MaxInFlight \in Nat
  BY ConstantsAre DEF Inv, BudgetExact, Shapes
<1>2. IsFiniteSet(DOMAIN part) /\ InFlight \subseteq DOMAIN part
  BY <1>1, FS_Interval DEF InFlight, At
<1>3. IsFiniteSet(InFlight) /\ Cardinality(InFlight) \in Nat
  BY <1>2, FS_Subset, FS_CardinalityType
<1>4. CASE Emit
  <2>1. part' = Append(part, [len |-> cursor, at |-> "queued"]) /\ Cardinality(InFlight) < MaxInFlight
    BY <1>4 DEF Emit
  <2>2. InFlight' \subseteq InFlight \cup {Len(part) + 1}
    BY <1>1, <2>1 DEF InFlight, At
  <2>3. IsFiniteSet(InFlight \cup {Len(part) + 1}) /\ Cardinality(InFlight \cup {Len(part) + 1}) <= Cardinality(InFlight) + 1
    <3> DEFINE New == Len(part) + 1
    <3>1. Cardinality(InFlight \cup {New}) = IF New \in InFlight THEN Cardinality(InFlight) ELSE Cardinality(InFlight) + 1
      BY <1>3, FS_AddElement
    <3>2. IsFiniteSet(InFlight \cup {New})
      BY <1>3, FS_AddElement
    <3> QED
      BY <1>3, <3>1, <3>2
  <2>4. Cardinality(InFlight') <= Cardinality(InFlight \cup {Len(part) + 1})
        /\ Cardinality(InFlight') \in Nat /\ Cardinality(InFlight \cup {Len(part) + 1}) \in Nat
    BY <2>2, <2>3, FS_Subset, FS_CardinalityType
  <2> QED
    BY <1>1, <1>3, <2>1, <2>3, <2>4
<1>5. ASSUME InFlight' \subseteq InFlight PROVE Cardinality(InFlight)' <= MaxInFlight
  <2>1. Cardinality(InFlight') <= Cardinality(InFlight) /\ Cardinality(InFlight') \in Nat
    BY <1>3, <1>5, FS_Subset, FS_CardinalityType
  <2> QED
    BY <1>1, <1>3, <2>1
<1>6. ASSUME NEW k \in DOMAIN part, NEW from, NEW to, PartMoved(k, from, to), from \in {"queued", "sending"}
      PROVE  InFlight' \subseteq InFlight
  BY <1>1, <1>6, MovedAt DEF InFlight, At, PartMoved
<1>7. CASE UNCHANGED part
  BY <1>5, <1>7 DEF InFlight, At
<1> QED
  BY <1>4, <1>5, <1>6, <1>7, PartSteps
-----------------------------------------------------------------------------
(* What is written *)

(* How a step changes the places of files. *)
FileMoved(f, from, to) == file[f] = from /\ file' = [file EXCEPT ![f] = to]

LEMMA FileSteps ==
  ASSUME Inv, [JobNext]_jobVars
  PROVE  \/ Acquire /\ Running /\ next \in Files /\ FileMoved(next, "listed", "fetching")
         \/ Take /\ Running /\ \E f \in Files : f = Head(queue) /\ FileMoved(f, "queued", "zipping")
         \/ /\ EntryWritten /\ Running
            /\ \E f \in Files : FileMoved(f, "zipping", "zipped") /\ zipped' = Append(zipped, f)
         \/ \E f \in Files : FetchEnds(f) /\ \E a \in {"queued", "failed"} : FileMoved(f, "fetching", a)
         \/ UNCHANGED <<file, zipped, available, next, queue>>
<1>0. Flow /\ FlowTypes
  BY FlowIs DEF Inv, BudgetExact
<1>1. CASE Acquire /\ Running
  <2>1. file[next] = "listed"
    BY <1>0, <1>1, FilesAre DEF Acquire, Flow, FlowTypes
  <2> QED
    BY <1>1, <2>1 DEF Acquire, FileMoved
<1>2. CASE Take /\ Running
  <2>1. Head(queue) = queue[1] /\ 1 \in DOMAIN queue /\ queue[1] \in Files
    BY <1>0, <1>2 DEF Take, FlowTypes
  <2>2. file[queue[1]] = "queued"
    BY <1>0, <2>1 DEF Flow
  <2> QED
    BY <1>2, <2>1, <2>2 DEF Take, FileMoved
<1>3. CASE EntryWritten /\ Running
  BY <1>3 DEF EntryWritten, FileMoved
<1>4. ASSUME NEW f \in Files, FetchEnds(f) PROVE \E a \in {"queued", "failed"} : FileMoved(f, "fetching", a)
  BY <1>4 DEF FetchEnds, FileMoved
<1>5. CASE AwaitDownloads \/ DownloadsDone \/ UploadStage \/ Settled
  BY <1>5 DEF AwaitDownloads, DownloadsDone, UploadStage, Send, AwaitUploads, UploadsDone,
     Settled, fileVars, chunkVars
<1>6. CASE Directory \/ AppendBytes \/ Emit \/ DirectoryWritten \/ ProducerDone
  BY <1>6 DEF Directory, AppendBytes, Emit, DirectoryWritten, ProducerDone, fileVars
<1>7. CASE JobStep \/ (\E k \in DOMAIN part : PartEnds(k)) \/ UNCHANGED jobVars
  BY <1>7 DEF JobStep, JobStarts, Complete, Abort, PartEnds, jobVars, fileVars, chunkVars
<1> QED
  BY <1>1, <1>2, <1>3, <1>4, <1>5, <1>6, <1>7, StepIs DEF Stage, DownloadStage, ZipStage

LEMMA FileMovedAt ==
  ASSUME FlowTypes, NEW f \in Files, NEW from, NEW to, FileMoved(f, from, to)
  PROVE  file'[f] = to /\ \A g \in Files : g # f => file'[g] = file[g]
  BY DEF FileMoved, FlowTypes

LEMMA OnceKept ==
  ASSUME Inv, [JobNext]_jobVars
  PROVE  Once'
<1>1. Once /\ FlowTypes /\ zipped \in Seq(Files)
  BY FlowIs DEF Inv, BudgetExact, Written, Shapes
<1>2. ASSUME NEW f \in Files, NEW from, NEW to, FileMoved(f, from, to), zipped' = zipped,
             from # "zipped", to # "zipped"
      PROVE  Once'
  <2>1. \A g \in Files : file'[g] = "zipped" <=> file[g] = "zipped"
    BY <1>1, <1>2, FileMovedAt DEF FileMoved
  <2> QED
    BY <1>1, <1>2, <2>1 DEF Once
<1>3. ASSUME NEW f \in Files, FileMoved(f, "zipping", "zipped"), zipped' = Append(zipped, f) PROVE Once'
  <2>1. /\ DOMAIN zipped' = 1 .. Len(zipped) + 1 /\ Len(zipped) \in Nat /\ DOMAIN zipped = 1 .. Len(zipped)
        /\ zipped'[Len(zipped) + 1] = f /\ \A i \in 1 .. Len(zipped) : zipped'[i] = zipped[i]
    BY <1>1, <1>3
  <2>2. file[f] = "zipping" /\ file'[f] = "zipped" /\ \A g \in Files : g # f => file'[g] = file[g]
    BY <1>1, <1>3, FileMovedAt DEF FileMoved
  <2>3. \A i \in DOMAIN zipped : zipped[i] # f
    BY <1>1, <2>2 DEF Once, Range
  <2>4. \A m \in DOMAIN zipped' : m = Len(zipped) + 1 \/ (m \in DOMAIN zipped /\ zipped'[m] = zipped[m])
    BY <2>1
  <2>5. ASSUME NEW i \in DOMAIN zipped', NEW j \in DOMAIN zipped', zipped'[i] = zipped'[j] PROVE i = j
    <3>1. i \in DOMAIN zipped /\ j \in DOMAIN zipped => i = j
      BY <1>1, <2>4, <2>5, <2>1 DEF Once, IsInjective
    <3> QED
      BY <2>1, <2>3, <2>4, <2>5, <3>1
  <2>6. Range(zipped') = Range(zipped) \cup {f}
    <3>1. Len(zipped) + 1 \in DOMAIN zipped' /\ \A i \in DOMAIN zipped : i \in DOMAIN zipped'
      BY <2>1
    <3> QED
      BY <2>1, <2>4, <3>1 DEF Range
  <2>7. {g \in Files : file'[g] = "zipped"} = {g \in Files : file[g] = "zipped"} \cup {f}
    BY <2>2
  <2> QED
    BY <1>1, <2>5, <2>6, <2>7 DEF Once, IsInjective
<1>4. CASE Acquire /\ next \in Files /\ FileMoved(next, "listed", "fetching")
  BY <1>2, <1>4 DEF Acquire, chunkVars
<1>5. CASE Take /\ \E f \in Files : f = Head(queue) /\ FileMoved(f, "queued", "zipping")
  BY <1>2, <1>5 DEF Take
<1>6. CASE \E f \in Files : FetchEnds(f) /\ \E a \in {"queued", "failed"} : FileMoved(f, "fetching", a)
  BY <1>2, <1>6 DEF FetchEnds, chunkVars
<1>7. CASE UNCHANGED <<file, zipped>>
  BY <1>1, <1>7 DEF Once
<1> QED
  BY <1>3, <1>4, <1>5, <1>6, <1>7, FileSteps

LEMMA BegunKept ==
  ASSUME Inv, [JobNext]_jobVars
  PROVE  IF Take THEN Entries(Begun') = Entries(Begun) + EntrySize(Head(queue)) ELSE Begun' = Begun
<1>1. Flow /\ FlowTypes /\ Begun \subseteq Files
  BY FlowIs DEF Inv, BudgetExact, Begun
<1>2. CASE Take
  <2> DEFINE f == Head(queue)
  <2>1. f = queue[1] /\ 1 \in DOMAIN queue /\ f \in Files
    BY <1>1, <1>2 DEF Take, FlowTypes
  <2>2. FileMoved(f, "queued", "zipping")
    BY <1>1, <1>2, <2>1 DEF Take, FileMoved, Flow
  <2> HIDE DEF f
  <2>3. f \notin Begun /\ Begun' = Begun \cup {f}
    BY <1>1, <2>1, <2>2, FileMovedAt DEF Begun, FileMoved
  <2>4. Entries(Begun \cup {f}) = Entries(Begun) + EntrySize(f)
    BY <1>1, <2>1, <2>3, EntriesAdd
  <2> QED
    BY <1>2, <2>3, <2>4 DEF f
<1>3. ASSUME NEW f \in Files, NEW from, NEW to, FileMoved(f, from, to),
             from \in {"zipping", "zipped"} <=> to \in {"zipping", "zipped"}
      PROVE  Begun' = Begun
  BY <1>1, <1>3, FileMovedAt DEF Begun, FileMoved
<1>4. ASSUME UNCHANGED file PROVE Begun' = Begun
  BY <1>4 DEF Begun
<1> QED
  BY <1>2, <1>3, <1>4, FileSteps

(* The steps of the zip stage that touch the chunk or the stream's end.      *)
ZipRests == UNCHANGED <<zip, left, cursor>>

LEMMA ZipSteps ==
  ASSUME [JobNext]_jobVars
  PROVE  \/ (Take \/ Directory \/ AppendBytes \/ Emit \/ EntryWritten \/ DirectoryWritten \/ ProducerDone) /\ Running
         \/ ZipRests
<1>1. CASE DownloadStage \/ UploadStage \/ Settled
  BY <1>1 DEF DownloadStage, Acquire, AwaitDownloads, DownloadsDone, UploadStage, Send, AwaitUploads,
     UploadsDone, Settled, chunkVars, ZipRests
<1>2. CASE JobStep \/ (\E f \in Files : FetchEnds(f)) \/ (\E k \in DOMAIN part : PartEnds(k)) \/ UNCHANGED jobVars
  BY <1>2 DEF JobStep, JobStarts, Complete, Abort, FetchEnds, PartEnds, jobVars, chunkVars, ZipRests
<1> QED
  BY <1>1, <1>2, StepIs DEF Stage, ZipStage

LEMMA IdleKept ==
  ASSUME Inv, [JobNext]_jobVars
  PROVE  Idle'
<1>1. Idle /\ left \in Nat /\ cursor \in 0 .. ChunkSize /\ ChunkSize \in Nat \ {0}
  BY ConstantsAre DEF Inv, BudgetExact, JobTypeOK, Written
<1>2. CASE Take \/ Directory \/ AppendBytes
  BY <1>1, <1>2 DEF Take, Directory, NoMoreFiles, AppendBytes, Idle
<1>3. CASE Emit \/ EntryWritten \/ DirectoryWritten \/ ProducerDone
  BY <1>1, <1>3 DEF Emit, ChunkReady, EntryWritten, DirectoryWritten, ProducerDone, Appended, Idle
<1>4. CASE ZipRests
  BY <1>1, <1>4 DEF Idle, ZipRests
<1> QED
  BY <1>2, <1>3, <1>4, ZipSteps

LEMMA LensSteps ==
  ASSUME Inv, [JobNext]_jobVars
  PROVE  IF Emit THEN Lens(part') = Lens(part) + cursor ELSE Lens(part') = Lens(part)
<1>1. part \in Seq(PartRecord) /\ cursor \in Nat
  BY ConstantsAre DEF Inv, BudgetExact, JobTypeOK, Shapes
<1>2. CASE Emit
  BY <1>1, <1>2, LensAppend DEF Emit
<1>3. ASSUME NEW k \in DOMAIN part, NEW from, NEW to, PartMoved(k, from, to) PROVE Lens(part') = Lens(part)
  BY <1>1, <1>3, MovedAt
<1> QED
  BY <1>2, <1>3, PartSteps

LEMMA BalanceKept ==
  ASSUME Inv, [JobNext]_jobVars
  PROVE  Balance'
<1> DEFINE L == Lens(part)
           M == Lens(part')
           E == Entries(Begun)
           F == Entries(Begun')
<1>1. /\ L + cursor + left = E + (IF Ending THEN DirectorySize ELSE 0)
      /\ Idle /\ left \in Nat /\ cursor \in 0 .. ChunkSize /\ ChunkSize \in Nat \ {0} /\ DirectorySize \in Nat
  BY ConstantsAre DEF Inv, BudgetExact, JobTypeOK, Written, Balance
<1>2. L \in Nat /\ E \in Nat
  BY LensNat, EntriesNat DEF Inv, Shapes, Begun
<1>3. IF Take THEN F = E + EntrySize(Head(queue)) ELSE F = E
  BY BegunKept
<1>4. IF Emit THEN M = L + cursor ELSE M = L
  BY LensSteps
<1>5. SUFFICES M + cursor' + left' = F + (IF Ending' THEN DirectorySize ELSE 0)
  BY DEF Balance, Lens, Entries, Ending, Begun
<1>6. Take => /\ zip = "recv" /\ zip' = "entry" /\ left' = EntrySize(Head(queue)) /\ cursor' = cursor
              /\ M = L /\ EntrySize(Head(queue)) \in Nat
  <2>1. Take => Head(queue) \in Files
    BY DEF Take, Inv, Shapes
  <2> QED
    BY <2>1, FilesAre DEF Take, partVars
<1>7. Emit => zip' = zip /\ left' = left /\ cursor' = 0
  BY DEF Emit
<1> HIDE DEF L, M, E, F
<1>8. CASE Take
  BY <1>1, <1>2, <1>3, <1>6, <1>8 DEF Ending, Idle
<1>9. CASE Directory \/ DirectoryWritten \/ ProducerDone \/ EntryWritten
  <2>1. /\ ~Take /\ ~Emit /\ cursor' = cursor
        /\ \/ zip = "recv" /\ zip' = "directory" /\ left' = DirectorySize
           \/ zip = "directory" /\ zip' = "finish" /\ left' = left
           \/ zip = "finish" /\ zip' = "done" /\ left' = left
           \/ zip = "entry" /\ zip' = "recv" /\ left' = left
    BY <1>6, <1>7, <1>9 DEF Directory, NoMoreFiles, DirectoryWritten, ProducerDone, EntryWritten, Appended
  <2> QED
    BY <1>1, <1>2, <1>3, <1>4, <2>1 DEF Ending, Idle
<1>10. CASE AppendBytes
  <2> DEFINE m == Min({left, ChunkSize - cursor})
  <2>0. left \in Int /\ ChunkSize - cursor \in Int
    BY <1>1
  <2>1. zip' = zip /\ part' = part /\ cursor' = cursor + m /\ left' = left - m
    BY <1>10 DEF AppendBytes, partVars
  <2>3. m \in {left, ChunkSize - cursor}
    BY <2>0, LeastOf
  <2> HIDE DEF m
  <2>2. M = L /\ ~Take
    BY <1>6, <2>1 DEF M, L
  <2> QED
    BY <1>1, <1>2, <1>3, <2>1, <2>2, <2>3 DEF Ending
<1>11. CASE Emit
  BY <1>1, <1>2, <1>3, <1>4, <1>6, <1>7, <1>11 DEF Ending
<1>12. CASE ZipRests
  BY <1>1, <1>2, <1>3, <1>4, <1>6, <1>7, <1>12 DEF ZipRests, Ending
<1> QED
  BY <1>8, <1>9, <1>10, <1>11, <1>12, ZipSteps

LEMMA FullKept ==
  ASSUME Inv, [JobNext]_jobVars
  PROVE  FullParts'
<1>1. /\ FullParts /\ Idle /\ part \in Seq(PartRecord) /\ left \in Nat /\ cursor \in 0 .. ChunkSize
      /\ ChunkSize \in Nat \ {0}
  BY ConstantsAre DEF Inv, BudgetExact, JobTypeOK, Shapes, Written
<1>2. CASE Emit
  <2>1. /\ part' = Append(part, [len |-> cursor, at |-> "queued"]) /\ cursor' = 0
        /\ UNCHANGED <<zip, left>> /\ ChunkReady
    BY <1>2 DEF Emit
  <2>2. \A k \in DOMAIN part : part[k].len = ChunkSize
    BY <1>1, <2>1 DEF FullParts, Emitted, ChunkReady
  <2>3. /\ Len(part') = Len(part) + 1 /\ part'[Len(part) + 1] = [len |-> cursor, at |-> "queued"]
        /\ \A k \in DOMAIN part' : k = Len(part) + 1 \/ (k \in DOMAIN part /\ part'[k] = part[k])
    BY <1>1, <2>1
  <2>4. cursor # ChunkSize => zip = "finish" /\ Emitted'
    BY <1>1, <2>1 DEF ChunkReady, Idle, Emitted, Ending
  <2> QED
    BY <2>1, <2>2, <2>3, <2>4 DEF FullParts
<1>3. ASSUME \A k \in DOMAIN part : part[k].len = ChunkSize, DOMAIN part' = DOMAIN part,
             \A k \in DOMAIN part : part'[k].len = part[k].len
      PROVE  FullParts'
  BY <1>3 DEF FullParts
<1>4. CASE Take \/ Directory \/ AppendBytes \/ EntryWritten \/ DirectoryWritten
  <2>1. \A k \in DOMAIN part : part[k].len = ChunkSize
    BY <1>1, <1>4 DEF FullParts, Emitted, Ending, Take, Directory, NoMoreFiles, AppendBytes, EntryWritten,
       DirectoryWritten, Appended
  <2>2. part' = part
    BY <1>4 DEF Take, Directory, AppendBytes, EntryWritten, DirectoryWritten, partVars
  <2> QED
    BY <1>3, <2>1, <2>2
<1>5. CASE ProducerDone
  BY <1>1, <1>5 DEF ProducerDone, FullParts, Emitted, Ending, partVars
<1>6. CASE ZipRests /\ UNCHANGED part
  BY <1>1, <1>6 DEF FullParts, Emitted, Ending, ZipRests
<1>7. ASSUME NEW k \in DOMAIN part, NEW from, NEW to, PartMoved(k, from, to), ZipRests PROVE FullParts'
  <2>1. /\ DOMAIN part' = DOMAIN part /\ Len(part') = Len(part)
        /\ \A j \in DOMAIN part : part'[j].len = part[j].len
    BY <1>1, <1>7, MovedAt
  <2>2. zip' = zip /\ (Emitted' <=> Emitted)
    BY <1>7 DEF ZipRests, Emitted, Ending
  <2> QED
    BY <1>1, <2>1, <2>2 DEF FullParts
<1>8. ZipRests \/ Take \/ Directory \/ AppendBytes \/ Emit \/ EntryWritten \/ DirectoryWritten \/ ProducerDone
  BY ZipSteps
<1> QED
  BY <1>2, <1>4, <1>5, <1>6, <1>7, <1>8, PartSteps

LEMMA WrittenKept ==
  ASSUME Inv, [JobNext]_jobVars
  PROVE  Written'
  BY IdleKept, OnceKept, BalanceKept, FullKept DEF Written
-----------------------------------------------------------------------------
(* What has ended *)

(* The steps of the download stage, and those that leave it alone.           *)
LEMMA DownloadSteps ==
  ASSUME [JobNext]_jobVars
  PROVE  \/ DownloadStage /\ Running
         \/ \E f \in Files : FetchEnds(f)
         \/ UNCHANGED downloads
<1>1. CASE ZipStage \/ UploadStage \/ Settled
  BY <1>1 DEF ZipStage, Take, Directory, AppendBytes, Emit, EntryWritten, DirectoryWritten, ProducerDone,
     UploadStage, Send, AwaitUploads, UploadsDone, Settled, fileVars
<1>2. CASE JobStep \/ (\E k \in DOMAIN part : PartEnds(k)) \/ UNCHANGED jobVars
  BY <1>2 DEF JobStep, JobStarts, Complete, Abort, PartEnds, jobVars, fileVars
<1> QED
  BY <1>1, <1>2, StepIs DEF Stage

LEMMA HandlerSteps ==
  ASSUME [JobNext]_jobVars
  PROVE  \/ job' = job
         \/ job = "run"
         \/ JobStep
         \/ \E f \in Files : FetchEnds(f) /\ downloads = "loop" /\ job' = "crashed" /\ job # "crashed"
  BY StepIs DEF Running, FetchEnds, PartEnds, jobVars

LEMMA CrashStays ==
  ASSUME [JobNext]_jobVars, job = "crashed"
  PROVE  job' = "crashed"
  BY HandlerSteps DEF JobStep, JobStarts, Complete, Abort

LEMMA EndingStays ==
  ASSUME [JobNext]_jobVars, Ending' /\ ~Ending
  PROVE  Directory /\ Running
<1>1. CASE (Take \/ AppendBytes \/ Emit \/ EntryWritten \/ DirectoryWritten \/ ProducerDone)
  BY <1>1 DEF Take, AppendBytes, Emit, EntryWritten, DirectoryWritten, ProducerDone, Ending, Appended
<1>2. CASE ZipRests
  BY <1>2 DEF ZipRests, Ending
<1> QED
  BY <1>1, <1>2, ZipSteps

LEMMA DrainedKept ==
  ASSUME Inv, [JobNext]_jobVars
  PROVE  Drained'
<1>1. /\ Drained /\ Flow /\ FlowTypes
      /\ downloads \in {"loop", "all", "ok", "failed"} /\ Range(file) = {file[f] : f \in Files}
  BY FlowIs DEF Inv, BudgetExact, JobTypeOK, FlowTypes, Range
<1>2. ASSUME NEW f \in Files, FetchEnds(f)
      PROVE  /\ downloads' \in {"loop", "all", "ok", "failed"}
             /\ file[f] = "fetching" /\ downloads # "ok" /\ UNCHANGED <<next, zip>>
             /\ downloads' = downloads \/ (downloads = "all" /\ downloads' = "failed")
             /\ \E a \in {"queued", "failed"} : FileMoved(f, "fetching", a)
             /\ file'[f] = "failed" => job' = "crashed" \/ downloads' = "failed"
  <2>1. file[f] = "fetching" /\ downloads # "ok" /\ UNCHANGED <<next, zip>>
    BY <1>1, <1>2 DEF FetchEnds, Drained, chunkVars
  <2>2. downloads' = downloads \/ (downloads = "all" /\ downloads' = "failed")
    BY <1>2 DEF FetchEnds
  <2>3. CASE file' = [file EXCEPT ![f] = "queued"]
    BY <1>1, <2>1, <2>2, <2>3 DEF FileMoved, FlowTypes
  <2>4. CASE /\ file' = [file EXCEPT ![f] = "failed"]
             /\ job' = (IF downloads = "loop" THEN "crashed" ELSE job)
             /\ downloads' = (IF downloads = "all" THEN "failed" ELSE downloads)
    <3>1. downloads = "loop" => job' = "crashed"
      BY <2>4
    <3>2. downloads = "all" => downloads' = "failed"
      BY <2>4
    <3>3. downloads = "failed" => downloads' = "failed"
      BY <2>4
    <3> QED
      BY <1>1, <2>1, <2>2, <2>4, <3>1, <3>2, <3>3 DEF FileMoved
  <2> QED
    BY <1>2, <2>3, <2>4 DEF FetchEnds
<1>3. (downloads # "loop" => next = Len(Size) + 1)'
  <2>1. CASE DownloadStage
    BY <1>1, <2>1 DEF DownloadStage, Acquire, AwaitDownloads, DownloadsDone, Drained
  <2>2. ASSUME UNCHANGED downloads, UNCHANGED next PROVE (downloads # "loop" => next = Len(Size) + 1)'
    BY <1>1, <2>2 DEF Drained
  <2>3. DownloadStage \/ next' = next
    BY FileSteps, <1>2 DEF DownloadStage, Take, EntryWritten
  <2>4. ASSUME NEW f \in Files, FetchEnds(f) PROVE (downloads # "loop" => next = Len(Size) + 1)'
    BY <1>1, <1>2, <2>4 DEF Drained
  <2> QED
    BY <2>1, <2>2, <2>3, <2>4, DownloadSteps
<1>4. (downloads = "ok" => \A f \in Files : file[f] # "fetching")'
  <2> SUFFICES ASSUME downloads' = "ok", NEW g \in Files PROVE file'[g] # "fetching"
    OBVIOUS
  <2>1. ASSUME NEW f \in Files, FetchEnds(f) PROVE FALSE
    BY <1>2, <2>1
  <2>2. CASE DownloadsDone
    BY <1>1, <2>2 DEF DownloadsDone
  <2>3. downloads = "ok" \/ DownloadsDone
    BY <2>1, DownloadSteps DEF DownloadStage, Acquire, AwaitDownloads
  <2>4. CASE downloads = "ok"
    <3>1. file[g] # "fetching" /\ ~Acquire
      BY <1>1, <2>4 DEF Drained, Acquire
    <3>2. ASSUME NEW f \in Files, NEW from, NEW to, FileMoved(f, from, to), to # "fetching"
          PROVE  file'[g] # "fetching"
      BY <1>1, <3>1, <3>2, FileMovedAt
    <3> QED
      BY <3>1, <3>2, <2>1, FileSteps
  <2> QED
    BY <2>2, <2>3, <2>4
<1>5. (\A f \in Files : file[f] = "failed" => job = "crashed" \/ downloads = "failed")'
  <2> SUFFICES ASSUME NEW g \in Files, file'[g] = "failed" PROVE job' = "crashed" \/ downloads' = "failed"
    OBVIOUS
  <2>1. CASE file[g] = "failed"
    <3>1. CASE job = "crashed"
      BY <3>1, CrashStays
    <3>2. CASE downloads = "failed"
      BY <1>2, <3>2, DownloadSteps DEF DownloadStage, Acquire, AwaitDownloads, DownloadsDone
    <3> QED
      BY <1>1, <2>1, <3>1, <3>2 DEF Drained
  <2>2. CASE file[g] # "failed"
    <3>1. ASSUME NEW f \in Files, NEW from, NEW to, FileMoved(f, from, to), to # "failed" PROVE FALSE
      BY <1>1, <2>2, <3>1, FileMovedAt
    <3>2. ASSUME NEW f \in Files, FetchEnds(f) PROVE job' = "crashed" \/ downloads' = "failed"
      <4>1. f = g
        BY <1>1, <1>2, <3>2, <2>2, FileMovedAt
      <4> QED
        BY <1>2, <3>2, <4>1
    <3> QED
      BY <2>2, <3>1, <3>2, FileSteps
  <2> QED
    BY <2>1, <2>2
<1>6. (Ending => ChannelClosed)'
  <2>1. ChannelClosed => ChannelClosed'
    BY <1>2, DownloadSteps DEF ChannelClosed, DownloadStage, Acquire, AwaitDownloads, DownloadsDone
  <2>2. Directory => ChannelClosed
    BY DEF Directory, NoMoreFiles
  <2> QED
    BY <1>1, <2>1, <2>2, EndingStays DEF Drained
<1>7. (Ending /\ downloads = "ok" => queue = <<>>)'
  <2> SUFFICES ASSUME Ending', downloads' = "ok" PROVE queue' = <<>>
    OBVIOUS
  <2>1. ASSUME NEW f \in Files, FetchEnds(f) PROVE FALSE
    BY <1>2, <2>1
  <2>2. CASE Directory
    BY <2>2 DEF Directory, NoMoreFiles, fileVars
  <2>3. CASE Ending
    <3>1. downloads = "ok"
      BY <1>1, <2>1, <2>3, DownloadSteps DEF Drained, ChannelClosed, DownloadStage, Acquire, AwaitDownloads, DownloadsDone
    <3>2. ~Take /\ ~EntryWritten /\ ~Acquire
      BY <2>3, <3>1 DEF Ending, Take, EntryWritten, Appended, Acquire
    <3>3. queue' = queue
      BY <2>1, <3>2, FileSteps
    <3> QED
      BY <1>1, <2>3, <3>1, <3>3 DEF Drained
  <2> QED
    BY <2>2, <2>3, EndingStays
<1> QED
  BY <1>3, <1>4, <1>5, <1>6, <1>7 DEF Drained

(* The steps of the upload stage, and those that leave it alone.             *)
LEMMA UploadSteps ==
  ASSUME [JobNext]_jobVars
  PROVE  \/ AwaitUploads /\ Running
         \/ UploadsDone /\ Running
         \/ \E k \in DOMAIN part : PartEnds(k) /\ (uploads' = uploads \/ (uploads = "all" /\ uploads' = "failed"))
         \/ UNCHANGED uploads
<1>1. CASE DownloadStage \/ ZipStage \/ Send \/ Settled
  BY <1>1 DEF DownloadStage, Acquire, AwaitDownloads, DownloadsDone, ZipStage, Take, Directory, AppendBytes,
     Emit, EntryWritten, DirectoryWritten, ProducerDone, Send, Settled, partVars
<1>2. CASE JobStep \/ (\E f \in Files : FetchEnds(f)) \/ UNCHANGED jobVars
  BY <1>2 DEF JobStep, JobStarts, Complete, Abort, FetchEnds, jobVars, partVars
<1>3. ASSUME NEW k \in DOMAIN part, PartEnds(k)
      PROVE  uploads' = uploads \/ (uploads = "all" /\ uploads' = "failed")
  BY <1>3 DEF PartEnds
<1> QED
  BY <1>1, <1>2, <1>3, StepIs DEF Stage, UploadStage

(* The end of the zip stage is final. *)
LEMMA DoneStays ==
  ASSUME Inv, [JobNext]_jobVars, zip = "done"
  PROVE  ZipRests /\ ~Emit
<1>1. cursor = 0 /\ left = 0 /\ ChunkSize \in Nat \ {0}
  BY ConstantsAre DEF Inv, Written, Idle
<1>2. ~Emit
  BY <1>1 DEF Emit, ChunkReady
<1>3. ~(Take \/ Directory \/ AppendBytes \/ EntryWritten \/ DirectoryWritten \/ ProducerDone)
  BY <1>1 DEF Take, Directory, NoMoreFiles, AppendBytes, EntryWritten, DirectoryWritten, ProducerDone, Appended
<1> QED
  BY <1>2, <1>3, ZipSteps

NoneAt(where) == \A k \in DOMAIN part : part[k].at # where

LEMMA NoneIs == \A where : At(where) = {} <=> NoneAt(where)
  BY DEF At, NoneAt

LEMMA NoneIsNext == \A where : At(where)' = {} <=> NoneAt(where)'
  BY DEF At, NoneAt

(* An answer about a part is taken before the last is emitted, or after the  *)
(* upload stage has begun to await them all.                                 *)
LEMMA PartEndsWhen ==
  ASSUME Inv, NEW k \in DOMAIN part, PartEnds(k)
  PROVE  Emitted => uploads \in {"all", "failed"}
<1>1. part[k].at = "sending" /\ Quiet /\ job # "crashed"
  BY DEF PartEnds
<1>2. uploads # "ok"
  BY <1>1 DEF Inv, PartsAwaited, At
<1>3. uploads \in {"recv", "all", "ok", "failed"} /\ part # <<>>
      /\ job \in {"list", "create", "run", "complete", "abort", "ok", "error", "crashed"}
  BY DEF Inv, BudgetExact, JobTypeOK
<1>4. CASE job # "run"
  BY <1>1, <1>2, <1>3, <1>4 DEF Inv, Answered, AllSettled
<1>5. CASE job = "run" /\ Emitted
  <2>1. ZipWaits /\ UploadsWait
    BY <1>1, <1>5 DEF Quiet
  <2>2. zip = "done"
    BY <1>5, <2>1, ConstantsAre DEF ZipWaits, ChunkReady, Emitted, Ending
  <2> QED
    BY <1>2, <2>1, <2>2 DEF UploadsWait
<1> QED
  BY <1>4, <1>5

LEMMA AwaitedKept ==
  ASSUME Inv, [JobNext]_jobVars
  PROVE  PartsAwaited'
<1>1. PartsAwaited /\ Idle /\ part \in Seq(PartRecord) /\ completed \in Seq(Nat) /\ uploads \in {"recv", "all", "ok", "failed"}
  BY DEF Inv, BudgetExact, JobTypeOK, Shapes, Written
<1>e. Emit => /\ DOMAIN part' = DOMAIN part \cup {Len(part) + 1} /\ Len(part') = Len(part) + 1
              /\ part'[Len(part) + 1].at = "queued" /\ \A k \in DOMAIN part : part'[k] = part[k]
              /\ Len(part) \in Nat /\ completed' = completed
  BY <1>1 DEF Emit
<1>2. (uploads \in {"all", "ok"} => zip = "done" /\ NoneAt("queued"))'
  <2> SUFFICES ASSUME uploads' \in {"all", "ok"} PROVE zip' = "done" /\ NoneAt("queued")'
    OBVIOUS
  <2>1. CASE AwaitUploads
    BY <2>1, NoneIs DEF AwaitUploads, NoneAt, chunkVars
  <2>2. CASE uploads \in {"all", "ok"}
    <3>1. zip = "done" /\ NoneAt("queued")
      BY <1>1, <2>2, NoneIs DEF PartsAwaited
    <3>2. zip' = "done" /\ ~Emit
      BY <3>1, DoneStays DEF ZipRests
    <3>3. ASSUME NEW k \in DOMAIN part, NEW from, NEW to, PartMoved(k, from, to), to # "queued"
          PROVE  NoneAt("queued")'
      BY <1>1, <3>1, <3>3, MovedAt DEF NoneAt
    <3>4. ASSUME UNCHANGED part PROVE NoneAt("queued")'
      BY <3>1, <3>4 DEF NoneAt
    <3> QED
      BY <3>2, <3>3, <3>4, PartSteps
  <2>3. uploads \in {"all", "ok"} \/ AwaitUploads
    BY UploadSteps DEF UploadsDone
  <2> QED
    BY <2>1, <2>2, <2>3
<1>3. (uploads = "ok" => NoneAt("sending"))'
  <2> SUFFICES ASSUME uploads' = "ok" PROVE NoneAt("sending")'
    OBVIOUS
  <2>1. CASE UploadsDone
    BY <2>1, NoneIs DEF UploadsDone, NoneAt
  <2>2. CASE uploads = "ok"
    <3>1. zip = "done" /\ NoneAt("sending")
      BY <1>1, <2>2, NoneIs DEF PartsAwaited
    <3>2. ~Emit /\ ~Send
      BY <2>2, <3>1, DoneStays DEF Send
    <3>3. ASSUME NEW k \in DOMAIN part, NEW from, NEW to, PartMoved(k, from, to), to # "sending"
          PROVE  NoneAt("sending")'
      BY <1>1, <3>1, <3>3, MovedAt DEF NoneAt
    <3>4. CASE UNCHANGED part
      BY <3>1, <3>4 DEF NoneAt
    <3> QED
      BY <3>2, <3>3, <3>4, PartSteps
  <2>3. uploads = "ok" \/ UploadsDone
    BY UploadSteps DEF AwaitUploads
  <2> QED
    BY <2>1, <2>2, <2>3
<1>4. (Range(completed) = At("sent"))'
  <2>1. Range(completed) = At("sent")
    BY <1>1 DEF PartsAwaited
  <2>2. CASE Emit
    <3>1. At("sent")' = At("sent")
      BY <1>e, <2>2 DEF At
    <3> QED
      BY <1>e, <2>1, <2>2, <3>1
  <2>3. ASSUME NEW k \in DOMAIN part, NEW from, NEW to, PartMoved(k, from, to), from # "sent", to # "sent",
               completed' = completed
        PROVE  (Range(completed) = At("sent"))'
    <3>1. At("sent")' = At("sent")
      BY <1>1, <2>3, MovedAt DEF At, PartMoved
    <3> QED
      BY <2>1, <2>3, <3>1
  <2>4. ASSUME NEW k \in DOMAIN part, PartMoved(k, "sending", "sent"), completed' = Append(completed, k)
        PROVE  (Range(completed) = At("sent"))'
    <3>1. At("sent")' = At("sent") \cup {k}
      BY <1>1, <2>4, MovedAt DEF At, PartMoved
    <3>2. /\ DOMAIN completed' = DOMAIN completed \cup {Len(completed) + 1} /\ completed'[Len(completed) + 1] = k
          /\ \A i \in DOMAIN completed : completed'[i] = completed[i]
      BY <1>1, <2>4
    <3>3. Range(completed') = Range(completed) \cup {k}
      BY <3>2 DEF Range
    <3> QED
      BY <2>1, <3>1, <3>3
  <2>5. ASSUME NEW k \in DOMAIN part, PartEnds(k) PROVE (Range(completed) = At("sent"))'
    <3>1. CASE part' = [part EXCEPT ![k].at = "sent"] /\ completed' = Append(completed, k)
      BY <2>4, <2>5, <3>1 DEF PartMoved, PartEnds
    <3>2. CASE part' = [part EXCEPT ![k].at = "failed"] /\ UNCHANGED completed
      BY <2>3, <2>5, <3>2 DEF PartMoved, PartEnds
    <3> QED
      BY <2>5, <3>1, <3>2 DEF PartEnds
  <2>6. CASE UNCHANGED <<part, completed>>
    BY <2>1, <2>6 DEF At
  <2>7. CASE Send /\ \E k \in DOMAIN part : PartMoved(k, "queued", "sending")
    BY <2>3, <2>7 DEF Send
  <2> QED
    BY <2>2, <2>5, <2>6, <2>7, PartSteps
<1>5. (Emitted /\ uploads # "failed" => \A k \in DOMAIN part : k = Len(part) => part[k].at # "failed")'
  <2> SUFFICES ASSUME Emitted', uploads' # "failed", NEW j \in DOMAIN part', j = Len(part')
               PROVE  part'[j].at # "failed"
    OBVIOUS
  <2>1. CASE Emit
    BY <1>e, <2>1
  <2>2. CASE ~Emit
    <3>1. Emitted
      <4>1. CASE ZipRests
        BY <4>1 DEF ZipRests, Emitted, Ending
      <4>2. CASE Take \/ EntryWritten \/ Directory
        BY <4>2, ConstantsAre DEF Take, EntryWritten, Directory, Emitted, Ending
      <4>3. CASE AppendBytes
        <5> DEFINE m == Min({left, ChunkSize - cursor})
        <5>1. /\ left > 0 /\ cursor < ChunkSize /\ cursor' = cursor + m /\ cursor' = 0
              /\ left \in Nat /\ cursor \in Nat /\ ChunkSize \in Nat
          BY <4>3, ConstantsAre DEF AppendBytes, Emitted, Inv, BudgetExact, JobTypeOK
        <5>2. left \in Int /\ ChunkSize - cursor \in Int
          BY <5>1
        <5>3. m \in {left, ChunkSize - cursor}
          BY <5>2, LeastOf
        <5> HIDE DEF m
        <5> QED
          BY <5>1, <5>3
      <4>4. CASE DirectoryWritten \/ ProducerDone
        BY <4>4 DEF DirectoryWritten, ProducerDone, Appended, Emitted, Ending
      <4> QED
        BY <2>2, <4>1, <4>2, <4>3, <4>4, ZipSteps
    <3>2. uploads # "failed"
      BY UploadSteps DEF AwaitUploads, UploadsDone
    <3>3. ASSUME NEW k \in DOMAIN part, NEW from, NEW to, PartMoved(k, from, to), to # "failed"
          PROVE  part'[j].at # "failed"
      BY <1>1, <3>1, <3>2, <3>3, MovedAt DEF PartsAwaited
    <3>4. CASE UNCHANGED part
      BY <1>1, <3>1, <3>2, <3>4 DEF PartsAwaited
    <3>5. ASSUME NEW k \in DOMAIN part, PartEnds(k) PROVE part'[j].at # "failed"
      <4>1. CASE part' = [part EXCEPT ![k].at = "sent"]
        BY <3>3, <3>5, <4>1 DEF PartEnds, PartMoved
      <4>2. CASE uploads' = IF uploads = "all" THEN "failed" ELSE uploads
        BY <3>1, <3>2, <3>5, <4>2, PartEndsWhen
      <4> QED
        BY <3>5, <4>1, <4>2 DEF PartEnds
    <3> QED
      BY <2>2, <3>3, <3>4, <3>5, PartSteps
  <2> QED
    BY <2>1, <2>2
<1> QED
  BY <1>2, <1>3, <1>4, <1>5, NoneIsNext DEF PartsAwaited

LEMMA OverStays ==
  ASSUME Inv, [JobNext]_jobVars, AllSettled, job # "run"
  PROVE  AllSettled'
<1>1. ~Running
  BY DEF Running
<1>2. downloads' = downloads \/ downloads' = "failed"
  BY <1>1, DownloadSteps DEF FetchEnds
<1>3. uploads' = uploads \/ uploads' = "failed"
  BY <1>1, UploadSteps
<1>4. zip' = "done"
  BY <1>1, ZipSteps DEF ZipRests, AllSettled
<1> QED
  BY <1>2, <1>3, <1>4 DEF AllSettled

LEMMA NoPartStays ==
  ASSUME Inv, [JobNext]_jobVars, part = <<>>, job # "run"
  PROVE  part' = <<>>
<1>1. ~Running /\ DOMAIN part = {}
  BY DEF Running
<1> QED
  BY <1>1, PartSteps

LEMMA AnsweredKept ==
  ASSUME Inv, [JobNext]_jobVars
  PROVE  Answered'
<1>1. /\ Answered /\ PartsAwaited
      /\ job \in {"list", "create", "run", "complete", "abort", "ok", "error", "crashed"}
      /\ downloads \in {"loop", "all", "ok", "failed"} /\ uploads \in {"recv", "all", "ok", "failed"}
  BY DEF Inv, BudgetExact, JobTypeOK
<1>2. CASE job = "run"
  <2>1. object = <<>>
    BY <1>1, <1>2 DEF Answered
  <2>2. CASE Settled /\ UNCHANGED <<object, s3_failed>>
    BY <2>1, <2>2 DEF Settled, AllSettled, Answered, fileVars, chunkVars, partVars
  <2>3. CASE job' \in {"run", "crashed"} /\ object' = object
    BY <2>1, <2>3 DEF Answered
  <2> QED
    BY <1>2, <2>2, <2>3, StepIs DEF Running, JobStep, JobStarts, Complete, Abort, FetchEnds, PartEnds, jobVars
<1>3. CASE JobStep
  <2>1. UNCHANGED <<downloads, uploads, zip, part, completed>> /\ (AllSettled' <=> AllSettled) /\ Sorted' = Sorted
    <3>1. UNCHANGED <<downloads, uploads, zip, part, completed>>
      BY <1>3 DEF JobStep, JobStarts, Complete, Abort, fileVars, chunkVars, partVars
    <3> QED
      BY <3>1 DEF AllSettled, Sorted, NumbersUpTo
  <2>2. CASE JobStarts
    BY <1>1, <2>1, <2>2 DEF JobStarts, Answered
  <2>3. CASE Complete
    <3>1. job = "complete" /\ job' \in {"ok", "abort"} /\ object' \in {<<>>, Sorted}
      BY <2>3 DEF Complete
    <3> QED
      BY <1>1, <2>1, <3>1 DEF Answered
  <2>4. CASE Abort
    BY <1>1, <2>1, <2>4 DEF Abort, Answered
  <2> QED
    BY <1>3, <2>2, <2>3, <2>4 DEF JobStep
<1>4. CASE job # "run" /\ ~JobStep
  <2>1. object' = object
    BY <1>4, StepIs DEF Running, FetchEnds, PartEnds, jobVars
  <2>2. job' = job \/ (job' = "crashed" /\ downloads = "loop")
    BY <1>4, HandlerSteps
  <2>3. AllSettled => AllSettled'
    BY <1>4, OverStays
  <2>4. part = <<>> => part' = <<>>
    BY <1>4, NoPartStays
  <2>5. downloads = "ok" => downloads' = "ok"
    BY <1>4, DownloadSteps DEF Running, FetchEnds
  <2>6. ASSUME uploads = "ok" PROVE uploads' = "ok" /\ completed' = completed
    <3>1. ASSUME NEW k \in DOMAIN part, PartEnds(k) PROVE FALSE
      BY <1>1, <2>6, <3>1 DEF PartEnds, PartsAwaited, At
    <3>2. ~Running
      BY <1>4 DEF Running
    <3> QED
      BY <2>6, <3>1, <3>2, UploadSteps, PartSteps
  <2>7. CASE object # <<>>
    <3>1. AllSettled /\ downloads = "ok" /\ uploads = "ok" /\ job \in {"ok", "abort", "error"} /\ object = Sorted
      BY <1>1, <2>7 DEF Answered
    <3>2. completed' = completed /\ Sorted' = Sorted
      <4>1. completed' = completed
        BY <2>6, <3>1
      <4> QED
        BY <4>1 DEF Sorted, NumbersUpTo
    <3> QED
      BY <2>1, <2>2, <2>3, <2>5, <2>6, <3>1, <3>2 DEF Answered
  <2>8. CASE object = <<>>
    <3>1. CASE job' = job
      BY <1>1, <2>1, <2>3, <2>4, <2>5, <2>6, <2>8, <3>1 DEF Answered
    <3>2. CASE job' = "crashed"
      BY <2>1, <2>8, <3>2 DEF Answered
    <3> QED
      BY <2>2, <3>1, <3>2
  <2> QED
    BY <2>7, <2>8
<1> QED
  BY <1>2, <1>3, <1>4
-----------------------------------------------------------------------------
(* The list of parts that is sent *)

Count(k) == Cardinality(NumbersUpTo(k))

LEMMA CountIs ==
  ASSUME completed \in Seq(Nat)
  PROVE  /\ \A k \in Int : Count(k) \in Nat /\ Count(k) <= Len(completed)
         /\ \A j, k \in Int : j <= k => Count(j) <= Count(k)
         /\ \A k \in Int : k \in Range(completed) <=> Count(k - 1) # Count(k)
         /\ \A k \in Int : (\A x \in Range(completed) : x <= k) => Count(k) = Len(completed)
         /\ Count(-1) = 0
<1>1. DOMAIN completed = 1 .. Len(completed) /\ Len(completed) \in Nat
  OBVIOUS
<1>2. IsFiniteSet(DOMAIN completed) /\ Cardinality(DOMAIN completed) = Len(completed)
  <2>1. IsFiniteSet(1 .. Len(completed)) /\ Cardinality(1 .. Len(completed)) = Len(completed)
    <3>1. 1 \in Int /\ Len(completed) \in Int /\ (IF 1 > Len(completed) THEN 0 ELSE Len(completed) - 1 + 1) = Len(completed)
      BY <1>1
    <3> QED
      BY <3>1, FS_Interval
  <2> QED
    BY <1>1, <2>1
<1>3. \A k : NumbersUpTo(k) \subseteq DOMAIN completed
  BY DEF NumbersUpTo
<1>4. \A k : IsFiniteSet(NumbersUpTo(k)) /\ Count(k) \in Nat /\ Count(k) <= Len(completed)
  BY <1>2, <1>3, FS_Subset, FS_CardinalityType DEF Count
<1>5. \A i \in DOMAIN completed : completed[i] \in Nat
  OBVIOUS
<1>6. ASSUME NEW j \in Int, NEW k \in Int, j <= k
      PROVE  /\ Count(j) <= Count(k)
             /\ Count(j) = Count(k) => NumbersUpTo(j) = NumbersUpTo(k)
  <2>1. NumbersUpTo(j) \subseteq NumbersUpTo(k)
    BY <1>5, <1>6 DEF NumbersUpTo
  <2> QED
    BY <1>4, <2>1, FS_Subset DEF Count
<1>7. ASSUME NEW k \in Int PROVE k \in Range(completed) <=> Count(k - 1) # Count(k)
  <2>1. k \in Range(completed) => NumbersUpTo(k - 1) # NumbersUpTo(k)
    BY DEF Range, NumbersUpTo
  <2>2. k \notin Range(completed) => NumbersUpTo(k - 1) = NumbersUpTo(k)
    BY <1>5 DEF Range, NumbersUpTo
  <2>3. k - 1 \in Int /\ k - 1 <= k
    OBVIOUS
  <2> QED
    BY <1>6, <2>1, <2>2, <2>3 DEF Count
<1>8. ASSUME NEW k \in Int, \A x \in Range(completed) : x <= k PROVE Count(k) = Len(completed)
  <2>1. NumbersUpTo(k) = DOMAIN completed
    BY <1>8 DEF NumbersUpTo, Range
  <2> QED
    BY <1>2, <2>1 DEF Count
<1>9. Count(-1) = 0
  <2>1. NumbersUpTo(-1) = {}
    BY <1>5 DEF NumbersUpTo
  <2> QED
    BY <2>1, FS_EmptySet DEF Count
<1> QED
  BY <1>4, <1>6, <1>7, <1>8, <1>9

(* The i-th of the numbers in order: there is one, and only one.             *)
IsNth(i, k) == k \in Range(completed) /\ Count(k - 1) < i /\ i <= Count(k)

LEMMA NthExists ==
  ASSUME completed \in Seq(Nat), NEW b \in Nat, \A x \in Range(completed) : x <= b,
         NEW i \in 1 .. Len(completed)
  PROVE  \E k \in Range(completed) : IsNth(i, k)
<1> DEFINE T == {k \in Nat : i <= Count(k)}
<1>1. b \in T /\ T \subseteq Nat
  <2>1. b \in Int /\ i <= Len(completed)
    OBVIOUS
  <2>2. Count(b) = Len(completed)
    BY <2>1, CountIs
  <2> QED
    BY <2>1, <2>2
<1>2. PICK k \in T : \A j \in T : k <= j
  BY <1>1, Least
<1>3. k \in Nat /\ i <= Count(k) /\ \A j \in Nat : j < k => ~(i <= Count(j))
  BY <1>1, <1>2
<1> HIDE DEF T
<1>4. Count(k - 1) < i
  <2>1. CASE k = 0
    <3>1. k - 1 = -1
      BY <2>1
    <3> QED
      BY <3>1, CountIs
  <2>2. CASE k # 0
    <3>1. k - 1 \in Nat /\ k - 1 < k /\ k - 1 \in Int
      BY <1>3, <2>2
    <3>2. Count(k - 1) \in Nat /\ ~(i <= Count(k - 1))
      BY <1>3, <3>1, CountIs
    <3> QED
      BY <3>2
  <2> QED
    BY <2>1, <2>2
<1>5. k \in Range(completed)
  <2>1. k \in Int /\ Count(k - 1) # Count(k)
    <3>1. k \in Int /\ Count(k) \in Nat
      BY <1>3, CountIs
    <3> QED
      BY <1>3, <1>4, <3>1
  <2> QED
    BY <2>1, CountIs
<1> QED
  BY <1>3, <1>4, <1>5 DEF IsNth

LEMMA NthUnique ==
  ASSUME completed \in Seq(Nat), NEW i \in Int, NEW j, NEW k, IsNth(i, j), IsNth(i, k)
  PROVE  j = k
<1>1. \A x, y \in Int : IsNth(i, x) /\ IsNth(i, y) => ~(x < y)
  <2> SUFFICES ASSUME NEW x \in Int, NEW y \in Int, IsNth(i, x), IsNth(i, y), x < y PROVE FALSE
    OBVIOUS
  <2>1. y - 1 \in Int /\ x <= y - 1
    OBVIOUS
  <2>2. Count(x) <= Count(y - 1) /\ Count(x) \in Nat /\ Count(y - 1) \in Nat
    BY <2>1, CountIs
  <2> QED
    BY <2>2 DEF IsNth
<1>2. j \in Int /\ k \in Int
  BY DEF IsNth, Range
<1> QED
  BY <1>1, <1>2

LEMMA SortedIs ==
  ASSUME completed \in Seq(Nat), NEW b \in Nat, \A x \in Range(completed) : x <= b
  PROVE  /\ DOMAIN Sorted = 1 .. Len(completed) /\ Len(Sorted) = Len(completed)
         /\ Range(Sorted) = Range(completed)
         /\ b \in Range(completed) => Sorted[Len(Sorted)] = b
<1>1. DOMAIN completed = 1 .. Len(completed) /\ Len(completed) \in Nat
  OBVIOUS
<1>2. ASSUME NEW i \in 1 .. Len(completed) PROVE Sorted[i] \in Range(completed) /\ IsNth(i, Sorted[i])
  <2>1. Sorted[i] = CHOOSE k \in Range(completed) : Count(k - 1) < i /\ i <= Count(k)
    BY <1>1 DEF Sorted, Count
  <2>2. \E k \in Range(completed) : Count(k - 1) < i /\ i <= Count(k)
    BY NthExists DEF IsNth
  <2> QED
    BY <2>1, <2>2 DEF IsNth
<1>3. DOMAIN Sorted = 1 .. Len(completed)
  BY <1>1 DEF Sorted
<1>4. Len(Sorted) = Len(completed)
  <2>1. Sorted \in Seq(Range(completed))
    <3>1. Sorted = [i \in 1 .. Len(completed) |-> Sorted[i]]
      BY <1>1 DEF Sorted
    <3>2. Sorted \in [1 .. Len(completed) -> Range(completed)]
      BY <1>2, <3>1
    <3> QED
      BY <1>1, <3>2
  <2> QED
    BY <1>1, <1>3, <2>1
<1>5. ASSUME NEW x \in Range(completed) PROVE x \in Int /\ Count(x) \in 1 .. Len(completed) /\ Sorted[Count(x)] = x
  <2>1. x \in Int
    BY DEF Range
  <2>2. Count(x - 1) < Count(x) /\ Count(x) \in Nat /\ Count(x - 1) \in Nat /\ Count(x) <= Len(completed)
    <3>1. x - 1 \in Int /\ x - 1 <= x
      BY <2>1
    <3>2. Count(x - 1) <= Count(x)
      BY <2>1, <3>1, CountIs
    <3>3. Count(x - 1) # Count(x)
      BY <2>1, CountIs
    <3>4. Count(x) \in Nat /\ Count(x - 1) \in Nat /\ Count(x) <= Len(completed)
      BY <2>1, <3>1, CountIs
    <3> QED
      BY <3>2, <3>3, <3>4
  <2>3. Count(x) \in 1 .. Len(completed) /\ IsNth(Count(x), x)
    BY <1>1, <2>2 DEF IsNth
  <2> QED
    BY <1>2, <2>1, <2>3, NthUnique
<1>6. Range(Sorted) = Range(completed)
  BY <1>2, <1>3, <1>5 DEF Range
<1>7. ASSUME b \in Range(completed) PROVE Sorted[Len(Sorted)] = b
  <2>1. Count(b) = Len(completed)
    <3>1. b \in Int
      OBVIOUS
    <3> QED
      BY <3>1, CountIs
  <2> QED
    BY <1>4, <1>5, <1>7, <2>1
<1> QED
  BY <1>3, <1>4, <1>6, <1>7
-----------------------------------------------------------------------------
(* Theorems *)

LEMMA InvInit == JobInit => Inv
<1> SUFFICES ASSUME JobInit PROVE Inv
  OBVIOUS
<1>1. FlowTypes /\ Flow
  <2>1. FlowTypes
    BY FilesAre DEF JobInit, FlowTypes, Places
  <2>2. DOMAIN queue = {} /\ zip = "recv" /\ next = 1 /\ \A f \in Files : file[f] = "listed" /\ f >= 1
    BY FilesAre DEF JobInit
  <2> QED
    BY <2>1, <2>2 DEF Flow
<1>2. JobTypeOK
  <2>1. left \in Nat /\ cursor \in 0 .. ChunkSize
    BY ConstantsAre DEF JobInit
  <2>2. Tallies
    BY <1>1, TalliesIs
  <2>3. job = "list" /\ downloads = "loop" /\ zip = "recv" /\ uploads = "recv" /\ s3_failed \in BOOLEAN
    BY DEF JobInit
  <2> QED
    BY <2>1, <2>2, <2>3, Zenon DEF JobTypeOK, Tallies
<1>3. Shapes
  BY <1>1, ConstantsAre DEF JobInit, Shapes, FlowTypes
<1>4. Held = {} /\ Begun = {} /\ InFlight = {} /\ Cardinality({}) = 0 /\ IsFiniteSet({})
  <2>1. Cardinality({}) = 0 /\ IsFiniteSet({})
    BY FS_EmptySet
  <2>2. \A f \in Files : file[f] = "listed"
    BY DEF JobInit
  <2>3. Held = {} /\ Begun = {}
    BY <2>2 DEF Held, Begun
  <2>4. InFlight = {}
    BY DEF JobInit, InFlight, At
  <2> QED
    BY <2>1, <2>3, <2>4
<1>5. BudgetExact
  <2>1. Taken({}) = 0
    BY <1>4, SumType DEF Taken
  <2> QED
    BY <1>2, <1>4, <2>1, ConstantsAre DEF JobInit, BudgetExact, Taken
<1>6. Written
  <2>1. Entries({}) = 0 /\ Lens(<<>>) = 0
    <3> DEFINE w == [f \in Files |-> EntrySize(f)]
    <3> HIDE DEF w
    <3>1. SumFunctionOnSet(w, {}) = 0
      BY <1>4, SumType
    <3>2. <<>> \in Seq(PartRecord)
      OBVIOUS
    <3> QED
      BY <3>1, <3>2, LensNat DEF Entries, w
  <2>2. Range(<<>>) = {} /\ IsInjective(<<>>) /\ {f \in Files : file[f] = "zipped"} = {}
    BY DEF JobInit, Range, IsInjective
  <2> QED
    BY <1>4, <2>1, <2>2, ConstantsAre DEF JobInit, Written, Idle, Once, Balance, FullParts, Ending
<1>7. Drained
  BY DEF JobInit, Drained, Ending
<1>8. PartsAwaited
  BY DEF JobInit, PartsAwaited, At, Range, Emitted, Ending
<1>9. Answered
  BY DEF JobInit, Answered
<1> QED
  BY <1>3, <1>5, <1>6, <1>7, <1>8, <1>9 DEF Inv

LEMMA InvKept == Inv /\ [JobNext]_jobVars => Inv'
<1> SUFFICES ASSUME Inv, [JobNext]_jobVars PROVE Inv'
  OBVIOUS
<1>1. BudgetExact'
  BY TypesKept, BudgetKept, SlotsKept DEF BudgetExact, Balanced, Taken
<1> QED
  BY <1>1, TypesKept, WrittenKept, DrainedKept, AwaitedKept, AnsweredKept DEF Inv

(* The balance of the stream, the budget and what has ended.                 *)
THEOREM SebstoTsInvariance == JobSpec => []Inv
  BY InvInit, InvKept, PTL DEF JobSpec

(* Whatever objects are listed, ByteSemaphore has handed out what the files  *)
(* that are not written yet took, a file above its capacity included, and    *)
(* ChunkProducer never has more chunks in flight than slots.                 *)
THEOREM SebstoTsBudgetExact == JobSpec => []BudgetExact
<1>1. Inv => BudgetExact
  BY DEF Inv
<1> QED
  BY <1>1, SebstoTsInvariance, PTL

(* When there is an archive everything has ended well but for parts whose    *)
(* failure nobody saw.                                                       *)
LEMMA InvArchiveHoles == Inv => ArchiveHoles
<1> SUFFICES ASSUME Inv, object # <<>>
             PROVE  /\ IsInjective(zipped) /\ Range(zipped) = Files
                    /\ SumFunction([k \in DOMAIN part |-> part[k].len]) = StreamBytes
                    /\ Range(object) = DOMAIN part \ At("failed") /\ Last(object) = Len(part)
                    /\ \A k \in 1 .. Len(part) - 1 : part[k].len = ChunkSize
  BY DEF ArchiveHoles
<1>1. /\ downloads = "ok" /\ uploads = "ok" /\ zip = "done" /\ object = Sorted /\ job \in {"ok", "abort", "error"}
      /\ left = 0 /\ cursor = 0 /\ Ending /\ Emitted
  BY DEF Inv, Answered, AllSettled, Written, Idle, Ending, Emitted
<1>2. Flow /\ FlowTypes /\ part \in Seq(PartRecord) /\ completed \in Seq(Nat) /\ zipped \in Seq(Files)
  BY FlowIs DEF Inv, BudgetExact, Shapes
<1>3. \A f \in Files : file[f] = "zipped"
  <2> TAKE f \in Files
  <2>1. file[f] \in Places
    BY <1>2 DEF FlowTypes
  <2>2. file[f] \notin {"fetching", "failed"}
    BY <1>1 DEF Inv, Drained
  <2>3. queue = <<>>
    BY <1>1 DEF Inv, Drained
  <2>4. file[f] \notin {"queued", "zipping"}
    BY <1>1, <1>2, <2>3 DEF Flow
  <2>5. file[f] # "listed"
    <3>1. next = Len(Size) + 1 /\ f < next
      BY <1>1, FilesAre DEF Inv, Drained
    <3> QED
      BY <1>2, <3>1, FilesAre DEF Flow
  <2> QED
    BY <2>1, <2>2, <2>4, <2>5 DEF Places
<1>4. IsInjective(zipped) /\ Range(zipped) = Files /\ Begun = Files
  BY <1>3 DEF Inv, Written, Once, Begun
<1>5. SumFunction([k \in DOMAIN part |-> part[k].len]) = StreamBytes
  <2>1. Lens(part) + 0 + 0 = Entries(Files) + DirectorySize
    BY <1>1, <1>4 DEF Inv, Written, Balance
  <2>2. Lens(part) \in Nat /\ SumFunction([k \in DOMAIN part |-> part[k].len]) = Lens(part)
    BY <1>2, LensNat DEF Lens, SumFunction
  <2>3. StreamBytes = Entries(Files) + DirectorySize
    BY <1>4 DEF StreamBytes, Entries
  <2> QED
    BY <2>1, <2>2, <2>3
<1>6. \A k \in DOMAIN part : part[k].at \in {"sent", "failed"}
  <2>1. At("queued") = {} /\ At("sending") = {}
    BY <1>1 DEF Inv, PartsAwaited
  <2> QED
    BY <1>2, <2>1, PartAt DEF At
<1>7. Range(completed) = At("sent") /\ Range(completed) = DOMAIN part \ At("failed")
  BY <1>6 DEF Inv, PartsAwaited, At
<1>8. Len(part) \in Nat /\ \A x \in Range(completed) : x <= Len(part)
  BY <1>2, <1>7
<1>9. Range(object) = Range(completed) /\ (Len(part) \in Range(completed) => Last(object) = Len(part))
  BY <1>1, <1>2, <1>8, SortedIs DEF Last
<1>10. Len(part) \in Range(completed)
  <2>1. part # <<>>
    <3>1. object # <<>> => Range(object) # {}
      <4>1. DOMAIN object = 1 .. Len(completed) /\ Len(completed) \in Nat /\ object = Sorted
        BY <1>1, <1>2, <1>8, SortedIs
      <4>2. Len(completed) = 0 => object = <<>>
        BY <1>2, <4>1 DEF Sorted
      <4>3. Len(completed) # 0 => 1 \in DOMAIN object
        BY <4>1
      <4> QED
        BY <4>2, <4>3 DEF Range
    <3> QED
      BY <1>7, <1>9, <3>1
  <2>2. Len(part) \in DOMAIN part
    BY <1>2, <2>1
  <2>3. part[Len(part)].at # "failed"
    BY <1>1, <2>2 DEF Inv, PartsAwaited
  <2> QED
    BY <1>7, <2>2, <2>3 DEF At
<1>11. \A k \in 1 .. Len(part) - 1 : part[k].len = ChunkSize
  BY <1>2 DEF Inv, Written, FullParts
<1> QED
  BY <1>4, <1>5, <1>7, <1>9, <1>10, <1>11

(* Whatever objects are listed and calls fail, an archive that exists was    *)
(* cut from the whole stream, and lacks no part but those that failed before *)
(* the stream ended.                                                         *)
THEOREM SebstoTsArchiveHoles == JobSpec => []ArchiveHoles
  BY InvArchiveHoles, SebstoTsInvariance, PTL
-----------------------------------------------------------------------------
(* The C contender *)

Byte == {"entry", "record", "end"} \X Int \X Int
Fed == {i \in Ids : download[i] = "fed"}
Pipe == sent \o batch
Early == zipper \in {"none", "loop", "wait", "feed", "finish"}
Late == zipper \in {"cleanup", "gone"}

CShapes ==
  /\ entries \in Seq([id : Ids, offset : Nat])
  /\ batch \in Seq(Byte) /\ sent \in Seq(Byte) /\ Len(batch) < BatchSize
  /\ write_failed \in BOOLEAN /\ ok \in BOOLEAN
  /\ zipper = "feed" => idx \in Ended

(* Downloads start in order, and none that is larger than the window.        *)
InOrder ==
  /\ \A i, j \in Ids : i < j /\ download[j] # "none" => download[i] # "none"
  /\ \A i \in Ids : download[i] # "none" => size[i] <= MaxInflight

(* What the upload has taken and what is kept for it hold, together, the     *)
(* entries of what was fed, each where the ZIP writer thinks it is.          *)
Entered ==
  /\ Cardinality(Fed) = Len(entries) /\ {entries[n].id : n \in DOMAIN entries} = Fed
  /\ \A n \in DOMAIN entries :
       /\ entries[n].offset + size[entries[n].id] + 1 <= Len(Pipe)
       /\ \A k \in 1 .. size[entries[n].id] + 1 :
            Pipe[entries[n].offset + k] = <<"entry", entries[n].id, k>>

Writing == Early => ~write_failed /\ ~ok /\ Entered

Found == Cardinality(Archived) <= CountLimit => Holds(sent, Archived)

Concluded ==
  /\ handler \in {"list", "start"} => zipper = "none"
  /\ zipper = "finish" => Fed = Archived
  /\ ok => Late /\ Found
  /\ upload \in {"closed", "ok"} => Late
  /\ upload = "ok" => archive = sent
  /\ handler = "ok" => ok /\ upload = "ok"

CInv == TypeOK /\ CShapes /\ InOrder /\ Writing /\ Concluded
-----------------------------------------------------------------------------
(* The window of downloads *)

LEMMA CConstants ==
  /\ MaxDownloads \in Nat \ {0} /\ MaxInflight \in Nat \ {0} /\ BatchSize \in Nat \ {0}
  /\ CountLimit \in Nat \ {0} /\ Limit \in Nat \ {0}
  BY SebstoAssumption

LEMMA SizeIs ==
  ASSUME size \in Lists
  PROVE  /\ Ids = 1 .. Len(size) /\ Len(size) \in Nat /\ IsFiniteSet(Ids)
         /\ Cardinality(Ids) = Len(size)
         /\ \A i \in Ids : size[i] \in Nat
<1>1. size \in Seq(0 .. Limit - 1) /\ Limit \in Nat
  BY SebstoAssumption
<1>2. Ids = 1 .. Len(size) /\ Len(size) \in Nat /\ \A i \in Ids : size[i] \in Nat
  BY <1>1 DEF Ids
<1> QED
  BY <1>2, FS_Interval

(* What a step does to the downloads. *)
LEMMA WindowMoves ==
  ASSUME TypeOK, CShapes, [Next]_vars
  PROVE  /\ size' = size
         /\ \/ \E i \in MayStart :
                 /\ download' = [download EXCEPT ![i] = "flight"]
                 /\ inflight' = inflight + 1 /\ inflight_bytes' = inflight_bytes + size[i]
            \/ Feed /\ idx \in Ended /\ Release(idx)
            \/ \E i \in Ids :
                 /\ download[i] = "flight"
                 /\ download' \in {[download EXCEPT ![i] = "done"], [download EXCEPT ![i] = "error"]}
                 /\ UNCHANGED <<inflight, inflight_bytes>>
            \/ UNCHANGED <<download, inflight, inflight_bytes>>
<1>1. CASE StartDownload
  BY <1>1 DEF StartDownload, window
<1>2. CASE Feed
  <2>1. idx \in Ended
    BY <1>2 DEF Feed, CShapes
  <2> QED
    BY <1>2, <2>1 DEF Feed
<1>3. ASSUME NEW i \in Ids, DlFinish(i)
      PROVE  /\ size' = size /\ download[i] = "flight" /\ UNCHANGED <<inflight, inflight_bytes>>
             /\ download' \in {[download EXCEPT ![i] = "done"], [download EXCEPT ![i] = "error"]}
  BY <1>3 DEF DlFinish
<1>4. CASE HandlerStep \/ UpFinish \/ UNCHANGED vars
  BY <1>4 DEF HandlerStep, ListObjects, StartUpload, Answer, UpFinish, vars, window
<1>5. CASE Pick \/ Awaited \/ LoopEnds \/ DownloadFailed \/ Finish \/ EndOfFile \/ Cleanup
  BY <1>5 DEF Pick, Awaited, LoopEnds, DownloadFailed, Finish, EndOfFile, Cleanup, window
<1> QED
  BY <1>1, <1>2, <1>3, <1>4, <1>5 DEF Next, ZipperStep

LEMMA StartIs ==
  ASSUME TypeOK, NEW i \in MayStart
  PROVE  /\ i \in Ids /\ download[i] = "none" /\ \A j \in Ids : j < i => download[j] # "none"
         /\ inflight < MaxDownloads /\ inflight_bytes + size[i] <= MaxInflight
<1>1. i \in Ids /\ download[i] = "none" /\ (\A j \in 1 .. i - 1 : download[j] # "none") /\ Room(i)
  BY DEF MayStart, NextToStart
<1>2. \A j \in Ids : j < i => j \in 1 .. i - 1
  BY <1>1, SizeIs DEF TypeOK
<1> QED
  BY <1>1, <1>2 DEF Room

(* What is in the window, and its weight. *)
LEMMA WindowFinite ==
  ASSUME size \in Lists
  PROVE  /\ IsFiniteSet(InWindow) /\ Cardinality(InWindow) \in Nat /\ InWindow \subseteq Ids
         /\ SumFunctionOnSet(size, InWindow) \in Nat
<1>1. IsFiniteSet(InWindow) /\ InWindow \subseteq Ids /\ \A i \in InWindow : size[i] \in Nat
  BY SizeIs, FS_Subset DEF InWindow
<1>2. Cardinality(InWindow) \in Nat
  BY <1>1, FS_CardinalityType
<1>3. SumFunctionOnSet(size, InWindow) \in Nat
  BY <1>1, SumNat
<1> QED
  BY <1>1, <1>2, <1>3

Tallied ==
  /\ inflight = Cardinality(InWindow) /\ inflight <= MaxDownloads
  /\ inflight_bytes = SumFunctionOnSet(size, InWindow) /\ inflight_bytes <= MaxInflight

Places5 == {"none", "flight", "done", "error", "fed"}

LEMMA TalliedKept ==
  ASSUME TypeOK, CShapes, [Next]_vars
  PROVE  Tallied' /\ download' \in [Ids -> Places5] /\ size' = size /\ Ids' = Ids
<1>1. size' = size /\ Ids' = Ids
  BY WindowMoves DEF Ids
<1>t. /\ download \in [Ids -> Places5] /\ size \in Lists
      /\ inflight = Cardinality(InWindow) /\ inflight <= MaxDownloads
      /\ inflight_bytes = SumFunctionOnSet(size, InWindow) /\ inflight_bytes <= MaxInflight
  BY DEF TypeOK, Places5
<1>2. ASSUME NEW i \in MayStart, download' = [download EXCEPT ![i] = "flight"],
             inflight' = inflight + 1, inflight_bytes' = inflight_bytes + size[i]
      PROVE  Tallied' /\ download' \in [Ids -> Places5]
  <2>1. i \in Ids /\ i \notin InWindow /\ inflight < MaxDownloads /\ inflight_bytes + size[i] <= MaxInflight
    BY StartIs DEF InWindow
  <2>2. InWindow' = InWindow \cup {i} /\ download' \in [Ids -> Places5]
    BY <1>1, <1>2, <1>t, <2>1 DEF InWindow, Places5
  <2>3. Cardinality(InWindow \cup {i}) = Cardinality(InWindow) + 1
    BY <1>t, <2>1, WindowFinite, FS_AddElement
  <2>4. SumFunctionOnSet(size, InWindow \cup {i}) = SumFunctionOnSet(size, InWindow) + size[i]
    <3>1. \A x \in InWindow \cup {i} : size[x] \in Int
      BY <1>t, <2>1, SizeIs DEF InWindow
    <3> QED
      BY <1>t, <2>1, <3>1, WindowFinite, SumAdd
  <2>5. Cardinality(InWindow) \in Nat /\ MaxDownloads \in Nat
    BY <1>t, WindowFinite, CConstants
  <2> QED
    BY <1>1, <1>2, <1>t, <2>1, <2>2, <2>3, <2>4, <2>5 DEF Tallied
<1>3. ASSUME idx \in Ended, Release(idx)
      PROVE  Tallied' /\ download' \in [Ids -> Places5]
  <2>1. idx \in Ids /\ idx \in InWindow /\ size[idx] \in Nat
    BY <1>3, <1>t, SizeIs DEF InWindow, Ended
  <2>2. InWindow' = InWindow \ {idx} /\ download' \in [Ids -> Places5]
    BY <1>1, <1>3, <1>t, <2>1 DEF InWindow, Places5, Release
  <2>3. Cardinality(InWindow \ {idx}) = Cardinality(InWindow) - 1
    BY <1>t, <2>1, WindowFinite, FS_RemoveElement
  <2>4. SumFunctionOnSet(size, InWindow) = size[idx] + SumFunctionOnSet(size, InWindow \ {idx})
    <3>1. \A x \in InWindow : size[x] \in Int
      BY <1>t, <2>1, SizeIs DEF InWindow
    <3> QED
      BY <1>t, <2>1, <3>1, WindowFinite, SumRemove
  <2>5. /\ Cardinality(InWindow) \in Nat /\ MaxDownloads \in Nat /\ MaxInflight \in Nat
        /\ SumFunctionOnSet(size, InWindow) \in Nat /\ SumFunctionOnSet(size, InWindow') \in Int
    <3>1. IsFiniteSet(InWindow \ {idx})
      BY <1>t, WindowFinite, FS_RemoveElement
    <3>2. \A x \in InWindow \ {idx} : size[x] \in Int
      BY <1>t, SizeIs DEF InWindow
    <3>3. SumFunctionOnSet(size, InWindow \ {idx}) \in Int
      BY <3>1, <3>2, SumType
    <3> QED
      BY <1>t, <2>2, <3>3, WindowFinite, CConstants
  <2> QED
    BY <1>1, <1>3, <1>t, <2>1, <2>2, <2>3, <2>4, <2>5 DEF Tallied, Release
<1>4. ASSUME NEW i \in Ids, download[i] = "flight", UNCHANGED <<inflight, inflight_bytes>>,
             download' \in {[download EXCEPT ![i] = "done"], [download EXCEPT ![i] = "error"]}
      PROVE  Tallied' /\ download' \in [Ids -> Places5]
  <2>1. InWindow' = InWindow /\ download' \in [Ids -> Places5]
    BY <1>1, <1>4, <1>t DEF InWindow, Places5
  <2> QED
    BY <1>1, <1>4, <1>t, <2>1 DEF Tallied
<1>5. CASE UNCHANGED <<download, inflight, inflight_bytes>>
  <2>1. InWindow' = InWindow
    BY <1>1, <1>5 DEF InWindow
  <2> QED
    BY <1>1, <1>5, <1>t, <2>1 DEF Tallied
<1> QED
  BY <1>1, <1>2, <1>3, <1>4, <1>5, WindowMoves

LEMMA InOrderKept ==
  ASSUME TypeOK, CShapes, InOrder, [Next]_vars
  PROVE  InOrder'
<1>1. size' = size /\ Ids' = Ids
  BY WindowMoves DEF Ids
<1>t. download \in [Ids -> Places5] /\ size \in Lists
  BY DEF TypeOK, Places5
<1>2. ASSUME NEW i \in MayStart, download' = [download EXCEPT ![i] = "flight"]
      PROVE  InOrder'
  <2>1. i \in Ids /\ download[i] = "none" /\ \A j \in Ids : j < i => download[j] # "none"
    BY StartIs
  <2>2. size[i] <= MaxInflight
    <3>1. inflight_bytes \in Nat /\ size[i] \in Nat /\ MaxInflight \in Nat /\ inflight_bytes + size[i] <= MaxInflight
      BY <2>1, StartIs, SizeIs, WindowFinite, CConstants DEF TypeOK
    <3> QED
      BY <3>1
  <2>3. \A j \in Ids : download'[j] = IF j = i THEN "flight" ELSE download[j]
    BY <1>2, <1>t
  <2> QED
    BY <1>1, <2>1, <2>2, <2>3 DEF InOrder
<1>3. ASSUME \A j \in Ids : download'[j] = "none" <=> download[j] = "none" PROVE InOrder'
  BY <1>1, <1>3 DEF InOrder
<1>4. ASSUME idx \in Ended, Release(idx) PROVE \A j \in Ids : download'[j] = "none" <=> download[j] = "none"
  BY <1>4, <1>t DEF Ended, Release
<1>5. ASSUME NEW i \in Ids, download[i] = "flight",
             download' \in {[download EXCEPT ![i] = "done"], [download EXCEPT ![i] = "error"]}
      PROVE  \A j \in Ids : download'[j] = "none" <=> download[j] = "none"
  BY <1>5, <1>t
<1> QED
  BY <1>2, <1>3, <1>4, <1>5, WindowMoves
-----------------------------------------------------------------------------
(* The bytes on their way to the upload *)

LEMMA Remains ==
  ASSUME NEW n \in Nat, NEW b \in Nat \ {0}
  PROVE  (n \div b) * b \in 0 .. n /\ n - (n \div b) * b < b
<1> DEFINE q == n \div b
<1>1. q \in Nat /\ n = b * q + (n % b) /\ (n % b) \in 0 .. b - 1
  OBVIOUS
<1>2. b * q = q * b /\ q * b \in Nat
  BY <1>1
<1> HIDE DEF q
<1>3. q * b \in 0 .. n /\ n - q * b < b
  BY <1>1, <1>2
<1> QED
  BY <1>3 DEF q

LEMMA FullIs ==
  ASSUME NEW bytes \in Seq(Byte)
  PROVE  Full(bytes) \in 0 .. Len(bytes) /\ Len(bytes) - Full(bytes) < BatchSize
<1>1. Len(bytes) \in Nat /\ BatchSize \in Nat \ {0}
  BY CConstants
<1> QED
  BY <1>1, Remains DEF Full

LEMMA CutIs ==
  ASSUME NEW s \in Seq(Byte), NEW n \in 0 .. Len(s)
  PROVE  /\ SubSeq(s, 1, n) \in Seq(Byte) /\ SubSeq(s, n + 1, Len(s)) \in Seq(Byte)
         /\ Len(SubSeq(s, n + 1, Len(s))) = Len(s) - n
         /\ SubSeq(s, 1, n) \o SubSeq(s, n + 1, Len(s)) = s
<1>1. Len(s) \in Nat /\ n \in Int /\ \A i \in 1 .. Len(s) : s[i] \in Byte
  OBVIOUS
<1>2. SubSeq(s, 1, n) \in Seq(Byte)
  BY <1>1, SubSeqProperties
<1>3. /\ SubSeq(s, n + 1, Len(s)) \in Seq(Byte)
      /\ Len(SubSeq(s, n + 1, Len(s))) = IF n + 1 <= Len(s) THEN Len(s) - (n + 1) + 1 ELSE 0
  <2>1. n + 1 \in Int /\ Len(s) \in Int /\ \A i \in n + 1 .. Len(s) : s[i] \in Byte
    BY <1>1
  <2> QED
    BY <2>1, SubSeqProperties
<1>4. SubSeq(s, 1, n) \o SubSeq(s, n + 1, Len(s)) = SubSeq(s, 1, Len(s))
  <2>1. 1 \in 1 .. Len(s) + 1 /\ n \in 1 - 1 .. Len(s) /\ Len(s) \in n .. Len(s)
    BY <1>1
  <2> QED
    BY <2>1, ConcatAdjacentSubSeq
<1>5. SubSeq(s, 1, Len(s)) = s
  BY SubSeqFull
<1>6. Len(SubSeq(s, n + 1, Len(s))) = Len(s) - n
  <2>1. n <= Len(s) /\ n \in Int /\ Len(s) \in Int
    BY <1>1
  <2> QED
    BY <1>3, <2>1
<1> QED
  BY <1>2, <1>3, <1>4, <1>5, <1>6, Zenon

LEMMA Joined == \A s, t, u \in Seq(Byte) : (s \o t) \o u = s \o (t \o u) /\ s \o t \in Seq(Byte)
  BY ConcatAssociative, ConcatProperties

(* write_bytes: the order of the bytes is kept, whatever was batched. *)
LEMMA WriteIs ==
  ASSUME CShapes, ~write_failed, NEW e \in Seq(Byte), Write(batch \o e)
  PROVE  /\ batch' \in Seq(Byte) /\ sent' \in Seq(Byte) /\ Len(batch') < BatchSize
         /\ write_failed' \in BOOLEAN
         /\ ~write_failed' => Pipe' = Pipe \o e
<1> DEFINE b == batch \o e
           n == Full(b)
<1>1. b \in Seq(Byte) /\ n \in 0 .. Len(b) /\ Len(b) - n < BatchSize
  <2>1. b \in Seq(Byte)
    BY Joined, Zenon DEF CShapes
  <2> HIDE DEF b
  <2> QED
    BY <2>1, FullIs
<1>2. CASE Refused(b)
  BY <1>2 DEF Write, CShapes
<1>3. CASE ~Refused(b)
  <2>1. batch' = SubSeq(b, n + 1, Len(b)) /\ sent' = sent \o SubSeq(b, 1, n) /\ write_failed' = write_failed
    BY <1>3 DEF Write, Rest
  <2> HIDE DEF n
  <2> DEFINE head == SubSeq(b, 1, n)
             rest == SubSeq(b, n + 1, Len(b))
  <2>2. head \in Seq(Byte) /\ rest \in Seq(Byte) /\ Len(rest) = Len(b) - n /\ head \o rest = b
    BY <1>1, CutIs
  <2> HIDE DEF head, rest
  <2>3. (sent \o head) \o rest = sent \o (head \o rest)
    BY <2>2, Joined, Zenon DEF CShapes
  <2>4. (sent \o batch) \o e = sent \o (batch \o e)
    BY Joined, Zenon DEF CShapes
  <2>5. batch' = rest /\ sent' = sent \o head
    BY <2>1 DEF head, rest
  <2>6. Pipe' = Pipe \o e
    BY <2>2, <2>3, <2>4, <2>5 DEF Pipe
  <2>7. sent' \in Seq(Byte)
    BY <2>2, <2>5, ConcatProperties DEF CShapes
  <2> QED
    BY <1>1, <2>1, <2>2, <2>5, <2>6, <2>7 DEF CShapes
<1> QED
  BY <1>2, <1>3

LEMMA LastWriteIs ==
  ASSUME CShapes, NEW e \in Seq(Byte), LastWrite(batch \o e)
  PROVE  /\ batch' \in Seq(Byte) /\ sent' \in Seq(Byte) /\ Len(batch') < BatchSize
         /\ write_failed' \in BOOLEAN /\ upload' \in {upload, "closed"}
         /\ ~write_failed' => sent' = Pipe \o e
<1>1. CASE upload = "failed"
  BY <1>1 DEF LastWrite, CShapes
<1>2. CASE upload # "failed"
  <2>1. batch' = <<>> /\ sent' = sent \o (batch \o e) /\ upload' = "closed" /\ write_failed' = write_failed
    BY <1>2 DEF LastWrite
  <2>2. sent \o (batch \o e) = Pipe \o e /\ sent \o (batch \o e) \in Seq(Byte)
    <3>1. (sent \o batch) \o e = sent \o (batch \o e) /\ batch \o e \in Seq(Byte)
      BY ConcatAssociative, ConcatProperties DEF CShapes
    <3> QED
      BY <3>1, ConcatProperties DEF CShapes, Pipe
  <2>3. <<>> \in Seq(Byte) /\ Len(<<>>) = 0 /\ 0 < BatchSize
    BY CConstants
  <2>4. write_failed' \in BOOLEAN
    BY <2>1, Zenon DEF CShapes
  <2> QED
    BY <2>1, <2>2, <2>3, <2>4
<1> QED
  BY <1>1, <1>2

LEMMA EntryBytesAre ==
  ASSUME size \in Lists, NEW i \in Ids
  PROVE  /\ EntryBytes(i) \in Seq(Byte) /\ Len(EntryBytes(i)) = size[i] + 1
         /\ \A k \in 1 .. size[i] + 1 : EntryBytes(i)[k] = <<"entry", i, k>>
<1>1. size[i] + 1 \in Nat /\ i \in Int
  BY SizeIs
<1>2. \A k \in 1 .. size[i] + 1 : <<"entry", i, k>> \in Byte
  BY <1>1 DEF Byte
<1> QED
  BY <1>1, <1>2 DEF EntryBytes

(* What was placed stays where it was when bytes follow it. *)
LEMMA PipeGrows ==
  ASSUME NEW p \in Seq(Byte), NEW e \in Seq(Byte)
  PROVE  /\ p \o e \in Seq(Byte) /\ Len(p \o e) = Len(p) + Len(e) /\ Len(p) \in Nat /\ Len(e) \in Nat
         /\ \A k \in 1 .. Len(p) : (p \o e)[k] = p[k]
         /\ \A k \in 1 .. Len(e) : (p \o e)[Len(p) + k] = e[k]
<1>1. p \o e \in Seq(Byte) /\ Len(p \o e) = Len(p) + Len(e) /\ Len(p) \in Nat /\ Len(e) \in Nat
  BY ConcatProperties
<1>2. \A i \in 1 .. Len(p) + Len(e) : (p \o e)[i] = IF i <= Len(p) THEN p[i] ELSE e[i - Len(p)]
  BY ConcatProperties
<1>3. ASSUME NEW k \in 1 .. Len(e) PROVE (p \o e)[Len(p) + k] = e[k]
  <2>1. Len(p) + k \in 1 .. Len(p) + Len(e) /\ ~(Len(p) + k <= Len(p)) /\ (Len(p) + k) - Len(p) = k
    BY <1>1
  <2> QED
    BY <1>2, <2>1
<1>4. ASSUME NEW k \in 1 .. Len(p) PROVE (p \o e)[k] = p[k]
  BY <1>1, <1>2
<1> QED
  BY <1>1, <1>3, <1>4
-----------------------------------------------------------------------------
(* The archive *)

LEMMA EntryTypes ==
  ASSUME CShapes
  PROVE  /\ Len(entries) \in Nat /\ DOMAIN entries = 1 .. Len(entries)
         /\ \A n \in DOMAIN entries : entries[n].id \in Ids /\ entries[n].offset \in Nat
<1> DEFINE E == [id : Ids, offset : Nat]
<1>1. entries \in Seq(E) /\ \A e \in E : e.id \in Ids /\ e.offset \in Nat
  BY DEF CShapes
<1> HIDE DEF E
<1>2. Len(entries) \in Nat /\ DOMAIN entries = 1 .. Len(entries) /\ \A n \in DOMAIN entries : entries[n] \in E
  BY <1>1
<1> QED
  BY <1>1, <1>2

LEMMA DirectoryIs ==
  ASSUME CShapes, size \in Lists, NEW at \in Nat
  PROVE  /\ DirectoryBytes(at) \in Seq(Byte) /\ Len(DirectoryBytes(at)) = Len(entries) + 1
         /\ Len(entries) \in Nat
         /\ \A n \in 1 .. Len(entries) :
              DirectoryBytes(at)[n] = <<"record", entries[n].id, entries[n].offset>>
         /\ DirectoryBytes(at)[Len(entries) + 1] = EndRecord(Len(entries), at, Len(entries))
         /\ Len(entries) <= CountLimit =>
              EndRecord(Len(entries), at, Len(entries)) = <<"end", Len(entries), at>>
<1> DEFINE m == Len(entries)
           records == [n \in DOMAIN entries |-> <<"record", entries[n].id, entries[n].offset>>]
           end == EndRecord(m, at, m)
           zip64 == \E v \in {m, at, m} : Zip64(v)
           least == Min({m, CountLimit})
<1>1. m \in Nat /\ DOMAIN entries = 1 .. m /\ \A n \in 1 .. m : entries[n].id \in Int /\ entries[n].offset \in Int
  <2>1. \A i \in Ids : i \in Int
    BY SizeIs
  <2> QED
    BY <2>1, EntryTypes
<1>2. records \in Seq(Byte) /\ Len(records) = m /\ \A n \in 1 .. m : records[n] = <<"record", entries[n].id, entries[n].offset>>
  <2>1. \A n \in 1 .. m : <<"record", entries[n].id, entries[n].offset>> \in Byte
    BY <1>1 DEF Byte
  <2> QED
    BY <1>1, <2>1
<1>3. least \in Int /\ (m <= CountLimit => least = m)
  <2>1. m \in Int /\ CountLimit \in Int
    BY <1>1, CConstants
  <2>2. least \in {m, CountLimit} /\ least <= m /\ least <= CountLimit
    BY <2>1, LeastOf
  <2> QED
    BY <2>1, <2>2
<1> HIDE DEF least
<1>4. end = <<"end", IF zip64 THEN m ELSE least, at>>
  BY DEF EndRecord, least
<1>5. end \in Byte /\ (m <= CountLimit => end = <<"end", m, at>>)
  <2> DEFINE count == IF zip64 THEN m ELSE least
  <2>1. count \in Int /\ (m <= CountLimit => count = m)
    <3> HIDE DEF zip64
    <3>1. CASE zip64
      BY <1>1, <3>1
    <3>2. CASE ~zip64
      BY <1>1, <1>3, <3>2
    <3> QED
      BY <3>1, <3>2
  <2>2. end = <<"end", count, at>>
    BY <1>4
  <2> HIDE DEF count, end
  <2>3. <<"end", count, at>> \in Byte
    BY <2>1 DEF Byte
  <2> QED
    BY <2>1, <2>2, <2>3
<1> HIDE DEF records, end
<1>6. DirectoryBytes(at) = Append(records, end)
  BY DEF DirectoryBytes, records, end
<1>7. /\ Append(records, end) \in Seq(Byte) /\ Len(Append(records, end)) = m + 1
      /\ \A n \in 1 .. m : Append(records, end)[n] = records[n]
      /\ Append(records, end)[m + 1] = end
  BY <1>2, <1>5, AppendProperties
<1> QED
  BY <1>1, <1>2, <1>5, <1>6, <1>7 DEF end

LEMMA PipeIs ==
  ASSUME CShapes
  PROVE  Pipe \in Seq(Byte) /\ Len(Pipe) \in Nat /\ Len(Pipe) = Len(sent) + Len(batch)
<1>1. sent \in Seq(Byte) /\ batch \in Seq(Byte)
  BY DEF CShapes
<1> QED
  BY <1>1, ConcatProperties DEF Pipe

(* finish_zip: what an unzip program finds. *)
LEMMA WholeIs ==
  ASSUME size \in Lists, CShapes, Entered, Fed = Archived, Cardinality(Archived) <= CountLimit
  PROVE  Holds(Pipe \o DirectoryBytes(Len(Pipe)), Archived)
<1> DEFINE at == Len(Pipe)
           m == Len(entries)
           tail == DirectoryBytes(at)
           bytes == Pipe \o tail
           records == SubSeq(bytes, at + 1, Len(bytes) - 1)
<1>1. Pipe \in Seq(Byte) /\ at \in Nat
  BY PipeIs
<1>2. m = Cardinality(Archived) /\ m <= CountLimit
  BY DEF Entered
<1>3. /\ tail \in Seq(Byte) /\ Len(tail) = m + 1 /\ m \in Nat
      /\ \A n \in 1 .. m : tail[n] = <<"record", entries[n].id, entries[n].offset>>
      /\ tail[m + 1] = <<"end", m, at>>
  BY <1>1, <1>2, DirectoryIs
<1> HIDE DEF tail, at
<1>4. /\ bytes \in Seq(Byte) /\ Len(bytes) = at + (m + 1)
      /\ \A k \in 1 .. at : bytes[k] = Pipe[k]
      /\ \A k \in 1 .. m + 1 : bytes[at + k] = tail[k]
  <2>1. /\ Pipe \o tail \in Seq(Byte) /\ Len(Pipe \o tail) = Len(Pipe) + Len(tail)
        /\ \A k \in 1 .. Len(Pipe) : (Pipe \o tail)[k] = Pipe[k]
        /\ \A k \in 1 .. Len(tail) : (Pipe \o tail)[Len(Pipe) + k] = tail[k]
    BY <1>1, <1>3, PipeGrows
  <2>2. Len(Pipe) = at /\ Len(tail) = m + 1
    BY <1>3 DEF at
  <2> QED
    BY <2>1, <2>2
<1> HIDE DEF bytes, m
<1>5. bytes[Len(bytes)] = <<"end", m, at>>
  <2>1. m + 1 \in 1 .. m + 1
    BY <1>3
  <2> QED
    BY <1>3, <1>4, <2>1
<1>6. /\ Len(records) = m /\ DOMAIN records = 1 .. m
      /\ \A n \in 1 .. m : records[n] = <<"record", entries[n].id, entries[n].offset>>
  <2> DEFINE l == at + 1
             r == at + m
  <2>1. l \in Int /\ r \in Int /\ Len(bytes) - 1 = r /\ r - l + 1 = m /\ (l <= r <=> m >= 1)
    BY <1>1, <1>3, <1>4
  <2>2. \A i \in l .. r : bytes[i] \in Byte
    <3>1. r <= Len(bytes) /\ l >= 1
      BY <1>1, <1>3, <1>4
    <3> QED
      BY <1>1, <1>3, <1>4, <3>1
  <2>3. \A n \in 1 .. m : l + n - 1 = at + n /\ n \in 1 .. m + 1
    BY <1>1, <1>3
  <2>4. records = SubSeq(bytes, l, r)
    BY <2>1
  <2> HIDE DEF records, l, r
  <2>5. /\ SubSeq(bytes, l, r) \in Seq(Byte)
        /\ Len(SubSeq(bytes, l, r)) = IF l <= r THEN r - l + 1 ELSE 0
        /\ \A i \in 1 .. r - l + 1 : SubSeq(bytes, l, r)[i] = bytes[l + i - 1]
    BY <2>1, <2>2, SubSeqProperties
  <2>6. Len(records) = m /\ DOMAIN records = 1 .. m
    <3>1. Len(records) = m
      BY <1>3, <2>1, <2>4, <2>5
    <3> QED
      BY <2>4, <2>5, <3>1, LenProperties
  <2>7. ASSUME NEW n \in 1 .. m PROVE records[n] = <<"record", entries[n].id, entries[n].offset>>
    <3>1. records[n] = bytes[l + n - 1]
      BY <2>1, <2>4, <2>5
    <3>2. bytes[at + n] = tail[n] /\ tail[n] = <<"record", entries[n].id, entries[n].offset>>
      BY <1>3, <1>4, <2>3
    <3> QED
      BY <2>3, <3>1, <3>2
  <2> QED
    BY <2>6, <2>7
<1> HIDE DEF records
<1>7. {records[n][2] : n \in DOMAIN records} = Archived
  <2>1. {entries[n].id : n \in 1 .. m} = Archived
    <3>1. DOMAIN entries = 1 .. m
      BY EntryTypes DEF m
    <3> QED
      BY <3>1 DEF Entered
  <2> QED
    BY <1>6, <2>1
<1>8. ASSUME NEW n \in 1 .. m
      PROVE  SubSeq(bytes, entries[n].offset + 1, entries[n].offset + size[entries[n].id] + 1)
               = EntryBytes(entries[n].id)
  <2> DEFINE i == entries[n].id
             o == entries[n].offset
             s == size[i]
             e == EntryBytes(i)
             piece == SubSeq(bytes, o + 1, o + s + 1)
  <2>1. i \in Ids /\ o \in Nat /\ n \in DOMAIN entries
    BY EntryTypes DEF m
  <2>2. s \in Nat /\ e \in Seq(Byte) /\ Len(e) = s + 1 /\ \A k \in 1 .. s + 1 : e[k] = <<"entry", i, k>>
    BY <2>1, SizeIs, EntryBytesAre
  <2>3. o + s + 1 <= at /\ \A k \in 1 .. s + 1 : Pipe[o + k] = <<"entry", i, k>>
    BY <2>1 DEF Entered, at
  <2> HIDE DEF i, o, s, e
  <2>4. \A k \in 1 .. s + 1 : o + k \in 1 .. at /\ bytes[o + k] = e[k]
    <3> SUFFICES ASSUME NEW k \in 1 .. s + 1 PROVE o + k \in 1 .. at /\ bytes[o + k] = e[k]
      OBVIOUS
    <3>1. o + k \in 1 .. at
      BY <1>1, <2>1, <2>2, <2>3
    <3> QED
      BY <1>4, <2>2, <2>3, <3>1
  <2>5. \A j \in o + 1 .. o + s + 1 : bytes[j] \in Byte
    <3> SUFFICES ASSUME NEW j \in o + 1 .. o + s + 1 PROVE bytes[j] \in Byte
      OBVIOUS
    <3>1. j - o \in 1 .. s + 1 /\ o + (j - o) = j
      BY <2>1, <2>2
    <3>2. bytes[o + (j - o)] = e[j - o] /\ e[j - o] \in Byte
      BY <2>2, <2>4, <3>1
    <3> QED
      BY <3>1, <3>2
  <2>6. o + 1 \in Int /\ o + s + 1 \in Int /\ (o + s + 1) - (o + 1) + 1 = s + 1 /\ o + 1 <= o + s + 1
    BY <2>1, <2>2
  <2>7. /\ piece \in Seq(Byte) /\ Len(piece) = s + 1
        /\ \A k \in 1 .. s + 1 : piece[k] = bytes[(o + 1) + k - 1]
    <3>1. /\ SubSeq(bytes, o + 1, o + s + 1) \in Seq(Byte)
          /\ Len(SubSeq(bytes, o + 1, o + s + 1)) =
               IF o + 1 <= o + s + 1 THEN (o + s + 1) - (o + 1) + 1 ELSE 0
          /\ \A k \in 1 .. (o + s + 1) - (o + 1) + 1 :
               SubSeq(bytes, o + 1, o + s + 1)[k] = bytes[(o + 1) + k - 1]
      BY <2>5, <2>6, SubSeqProperties
    <3> QED
      BY <2>6, <3>1
  <2> HIDE DEF piece
  <2>8. \A k \in 1 .. s + 1 : piece[k] = e[k]
    <3> SUFFICES ASSUME NEW k \in 1 .. s + 1 PROVE piece[k] = e[k]
      OBVIOUS
    <3>1. (o + 1) + k - 1 = o + k
      BY <2>1, <2>2
    <3> QED
      BY <2>4, <2>7, <3>1
  <2>9. piece = e
    BY <2>2, <2>7, <2>8, SeqEqual
  <2> QED
    BY <2>9 DEF piece, e, o, s, i
<1>9. \A n \in DOMAIN records :
        LET i == records[n][2] IN
          SubSeq(bytes, records[n][3] + 1, records[n][3] + size[i] + 1) = EntryBytes(i)
  BY <1>6, <1>8
<1>10. /\ bytes[Len(bytes)][1] = "end" /\ bytes[Len(bytes)][2] = Cardinality(Archived)
       /\ bytes[Len(bytes)][3] = at /\ Len(records) = Cardinality(Archived)
  BY <1>2, <1>5, <1>6
<1>11. Holds(bytes, Archived)
  BY <1>7, <1>9, <1>10 DEF Holds, records
<1> QED
  BY <1>11 DEF bytes, tail, at, m
-----------------------------------------------------------------------------
(* What a step of the zipper keeps *)

LEMMA FedKept ==
  ASSUME TypeOK, CShapes, [Next]_vars, ~Feed
  PROVE  Fed' = Fed
<1>1. size' = size /\ Ids' = Ids /\ download \in [Ids -> Places5]
  BY WindowMoves DEF Ids, TypeOK, Places5
<1>2. ASSUME NEW i \in MayStart, download' = [download EXCEPT ![i] = "flight"] PROVE Fed' = Fed
  <2>1. i \in Ids /\ download[i] = "none"
    BY StartIs
  <2> QED
    BY <1>1, <1>2, <2>1 DEF Fed
<1>3. ASSUME NEW i \in Ids, download[i] = "flight",
             download' \in {[download EXCEPT ![i] = "done"], [download EXCEPT ![i] = "error"]}
      PROVE  Fed' = Fed
  BY <1>1, <1>3 DEF Fed
<1>4. CASE UNCHANGED download
  BY <1>1, <1>4 DEF Fed
<1> QED
  BY <1>2, <1>3, <1>4, WindowMoves

LEMMA ArchivedKept ==
  ASSUME size' = size
  PROVE  Ids' = Ids /\ Archived' = Archived /\ (sent' = sent => (Found' <=> Found))
<1>1. Ids' = Ids
  BY DEF Ids
<1>2. Archived' = Archived
  BY <1>1 DEF Archived, Larger
<1>3. ASSUME sent' = sent PROVE Found' <=> Found
  BY <1>2, <1>3 DEF Found, Holds, EntryBytes
<1> QED
  BY <1>1, <1>2, <1>3

(* The loop ends with every object fed that comes before one that is larger  *)
(* than the window.                                                          *)
LEMMA LoopEndIs ==
  ASSUME TypeOK, InOrder, LoopEnds
  PROVE  Fed = Archived
<1>1. /\ Ids = 1 .. Len(size) /\ Len(size) \in Nat /\ IsFiniteSet(Ids) /\ Cardinality(Ids) = Len(size)
      /\ \A i \in Ids : size[i] \in Nat
      /\ MaxDownloads \in Nat \ {0} /\ MaxInflight \in Nat \ {0}
  BY SizeIs, CConstants DEF TypeOK
<1>2. ASSUME Fed = Ids PROVE Fed = Archived
  <2>1. \A i \in Ids : size[i] <= MaxInflight
    BY <1>2 DEF InOrder, Fed
  <2>2. Larger = {}
    BY <1>1, <2>1 DEF Larger
  <2> QED
    BY <1>2, <2>2 DEF Archived
<1>3. CASE Completed = Len(size)
  <2>1. Cardinality(Fed) = Cardinality(Ids) /\ Fed \in SUBSET Ids
    BY <1>1, <1>3 DEF Completed, Fed
  <2>2. Fed = Ids
    BY <1>1, <2>1, FS_Subset
  <2> QED
    BY <1>2, <2>2
<1>4. CASE MayStart = {} /\ InWindow = {}
  <2> DEFINE N == {i \in Ids : download[i] = "none"}
  <2>1. \A i \in Ids : download[i] = "none" \/ download[i] = "fed"
    BY <1>4 DEF InWindow, TypeOK
  <2>2. CASE N = {}
    BY <1>2, <2>1, <2>2 DEF Fed
  <2>3. CASE N # {}
    <3>1. N \subseteq Nat
      BY <1>1
    <3>2. PICK m \in N : \A k \in N : m <= k
      BY <2>3, <3>1, Least
    <3>3. m \in Ids /\ download[m] = "none" /\ \A j \in Ids : j < m => download[j] = "fed"
      <4>1. \A j \in Ids : j < m => j \notin N
        BY <1>1, <3>1, <3>2
      <4> QED
        BY <2>1, <4>1
    <3>4. \A j \in Ids : j > m => download[j] = "none"
      BY <2>1, <3>3 DEF InOrder
    <3>5. Fed = 1 .. m - 1
      BY <1>1, <3>3, <3>4 DEF Fed
    <3>6. ~Room(m)
      <4>1. m \in NextToStart
        BY <1>1, <3>3 DEF NextToStart
      <4> QED
        BY <1>4, <4>1 DEF MayStart
    <3>7. size[m] > MaxInflight
      <4>1. inflight = 0 /\ inflight_bytes = 0
        BY <1>4, FS_EmptySet, SumType DEF TypeOK
      <4> QED
        BY <1>1, <3>3, <3>6, <4>1 DEF Room
    <3>8. \A j \in Larger : m <= j
      <4>1. \A j \in Ids : j < m => ~(size[j] > MaxInflight)
        BY <1>1, <3>3 DEF InOrder
      <4> QED
        BY <1>1, <3>3, <4>1 DEF Larger
    <3>9. m \in Larger /\ Larger # {}
      BY <3>3, <3>7 DEF Larger
    <3>10. Min(Larger) = m
      <4>1. Min(Larger) \in Larger /\ \A j \in Larger : Min(Larger) <= j
        BY <3>8, <3>9 DEF Min
      <4>2. Min(Larger) \in Nat /\ m \in Nat
        BY <1>1, <3>3, <4>1 DEF Larger
      <4> QED
        BY <3>8, <3>9, <4>1, <4>2
    <3> QED
      BY <3>5, <3>9, <3>10 DEF Archived
  <2> QED
    BY <2>2, <2>3
<1> QED
  BY <1>3, <1>4 DEF LoopEnds

(* The entries stay where they are, and the one just written follows them.   *)
LEMMA EnteredFeed ==
  ASSUME TypeOK, CShapes, Writing, [Next]_vars, Feed, ~write_failed'
  PROVE  Entered'
<1> DEFINE e == EntryBytes(idx)
           m == Len(entries)
           item == [id |-> idx, offset |-> Len(Pipe)]
<1>1. /\ size' = size /\ Ids' = Ids /\ size \in Lists /\ idx \in Ended /\ idx \in Ids
      /\ download \in [Ids -> Places5] /\ download[idx] # "fed" /\ zipper = "feed"
  <2>1. size' = size /\ Ids' = Ids
    BY WindowMoves DEF Ids
  <2>2. zipper = "feed" /\ idx \in Ended
    BY DEF Feed, CShapes
  <2> QED
    BY <2>1, <2>2 DEF TypeOK, Places5, Ended
<1>2. ~write_failed /\ Entered
  BY <1>1 DEF Writing, Early
<1>3. Pipe \in Seq(Byte) /\ Len(Pipe) \in Nat /\ Len(sent) + Len(batch) = Len(Pipe)
  BY PipeIs
<1>4. entries' = Append(entries, item)
  BY <1>3 DEF Feed
<1>5. e \in Seq(Byte) /\ Len(e) = size[idx] + 1 /\ size[idx] \in Nat /\ \A k \in 1 .. size[idx] + 1 : e[k] = <<"entry", idx, k>>
  BY <1>1, EntryBytesAre, SizeIs
<1>6. Pipe' = Pipe \o e
  <2>1. Write(batch \o e)
    BY DEF Feed
  <2> HIDE DEF e
  <2> QED
    BY <1>2, <1>5, <2>1, WriteIs
<1> HIDE DEF e
<1>7. /\ Len(Pipe') = Len(Pipe) + Len(e)
      /\ \A k \in 1 .. Len(Pipe) : Pipe'[k] = Pipe[k]
      /\ \A k \in 1 .. Len(e) : Pipe'[Len(Pipe) + k] = e[k]
  BY <1>3, <1>5, <1>6, PipeGrows
<1>8. Fed' = Fed \cup {idx} /\ idx \notin Fed
  BY <1>1 DEF Feed, Release, Fed
<1>9. /\ entries \in Seq([id : Ids, offset : Nat]) /\ m \in Nat /\ DOMAIN entries = 1 .. m
      /\ \A n \in DOMAIN entries : entries[n].id \in Ids /\ entries[n].offset \in Nat
  BY EntryTypes DEF CShapes
<1>10. item \in [id : Ids, offset : Nat] /\ item.id = idx /\ item.offset = Len(Pipe)
  BY <1>1, <1>3
<1> HIDE DEF item
<1>11. /\ Len(entries') = m + 1 /\ DOMAIN entries' = 1 .. m + 1
       /\ \A n \in 1 .. m : entries'[n] = entries[n]
       /\ entries'[m + 1] = item
  <2>1. /\ Append(entries, item) \in Seq([id : Ids, offset : Nat])
        /\ Len(Append(entries, item)) = m + 1
        /\ \A n \in 1 .. m : Append(entries, item)[n] = entries[n]
        /\ Append(entries, item)[m + 1] = item
    BY <1>9, <1>10, AppendProperties
  <2> QED
    BY <1>4, <2>1
<1> HIDE DEF m
<1>12. Cardinality(Fed') = Len(entries')
  <2>1. IsFiniteSet(Fed) /\ Fed \subseteq Ids
    BY <1>1, SizeIs, FS_Subset DEF Fed
  <2>2. Cardinality(Fed \cup {idx}) = Cardinality(Fed) + 1
    BY <1>8, <2>1, FS_AddElement
  <2>3. Cardinality(Fed) = m
    BY <1>2 DEF Entered, m
  <2> QED
    BY <1>8, <1>11, <2>2, <2>3
<1>13. {entries'[n].id : n \in DOMAIN entries'} = Fed'
  <2>1. {entries[n].id : n \in 1 .. m} = Fed
    BY <1>2, <1>9 DEF Entered
  <2>2. 1 .. m + 1 = (1 .. m) \cup {m + 1}
    BY <1>9
  <2> QED
    BY <1>8, <1>10, <1>11, <2>1, <2>2
<1>14. ASSUME NEW n \in DOMAIN entries'
       PROVE  /\ entries'[n].offset + size[entries'[n].id] + 1 <= Len(Pipe')
              /\ \A k \in 1 .. size[entries'[n].id] + 1 :
                   Pipe'[entries'[n].offset + k] = <<"entry", entries'[n].id, k>>
  <2>1. CASE n \in 1 .. m
    <3> DEFINE o == entries[n].offset
               s == size[entries[n].id]
    <3>1. entries'[n] = entries[n] /\ o \in Nat /\ s \in Nat /\ n \in DOMAIN entries
      BY <1>1, <1>9, <1>11, <2>1, SizeIs
    <3>2. o + s + 1 <= Len(Pipe) /\ \A k \in 1 .. s + 1 : Pipe[o + k] = <<"entry", entries[n].id, k>>
      BY <1>2, <3>1 DEF Entered
    <3> HIDE DEF o, s
    <3>3. ASSUME NEW k \in 1 .. s + 1 PROVE Pipe'[o + k] = <<"entry", entries[n].id, k>>
      <4>1. o + k \in 1 .. Len(Pipe)
        BY <1>3, <3>1, <3>2
      <4> QED
        BY <1>7, <3>2, <4>1
    <3>4. o + s + 1 <= Len(Pipe')
      BY <1>3, <1>5, <1>7, <3>1, <3>2
    <3> QED
      BY <3>1, <3>3, <3>4 DEF o, s
  <2>2. CASE n = m + 1
    <3>1. entries'[n].id = idx /\ entries'[n].offset = Len(Pipe)
      BY <1>10, <1>11, <2>2
    <3>2. Len(Pipe) + size[idx] + 1 <= Len(Pipe')
      BY <1>3, <1>5, <1>7
    <3>3. \A k \in 1 .. size[idx] + 1 : Pipe'[Len(Pipe) + k] = <<"entry", idx, k>>
      BY <1>5, <1>7
    <3> QED
      BY <3>1, <3>2, <3>3
  <2>3. n \in 1 .. m \/ n = m + 1
    BY <1>9, <1>11
  <2> QED
    BY <2>1, <2>2, <2>3
<1> QED
  BY <1>1, <1>12, <1>13, <1>14 DEF Entered
LEMMA WritingKept ==
  ASSUME CInv, [Next]_vars
  PROVE  Writing'
<1> USE DEF CInv
<1>0. size' = size /\ Ids' = Ids
  BY WindowMoves DEF Ids
<1>1. CASE Feed
  <2>1. ~ok /\ ~write_failed
    BY <1>1 DEF Feed, Writing, Early
  <2>2. CASE write_failed'
    BY <1>1, <2>2 DEF Feed, Writing, Early
  <2>3. CASE ~write_failed'
    <3>1. Entered'
      BY <1>1, <2>3, EnteredFeed
    <3>2. ok' = ok
      BY <1>1, <2>3 DEF Feed
    <3> QED
      BY <2>1, <2>3, <3>1, <3>2 DEF Writing
  <2> QED
    BY <2>2, <2>3
<1>2. CASE Finish \/ EndOfFile
  BY <1>2 DEF Finish, EndOfFile, Zipper, Writing, Early
<1>3. ASSUME ~Feed, UNCHANGED writer, Early' => Early /\ ok' = ok PROVE Writing'
  <2>1. Fed' = Fed
    BY <1>3, FedKept
  <2>2. Pipe' = Pipe /\ entries' = entries /\ write_failed' = write_failed
    BY <1>3 DEF writer, Pipe
  <2>3. Entered => Entered'
    BY <1>0, <2>1, <2>2 DEF Entered
  <2> QED
    BY <1>3, <2>2, <2>3 DEF Writing
<1>4. CASE HandlerStep
  <2>1. CASE StartUpload
    BY <1>3, <2>1 DEF StartUpload, Feed, Concluded, Early, Late
  <2>2. CASE ListObjects \/ Answer
    BY <1>3, <2>2 DEF ListObjects, Answer, Feed, Early
  <2> QED
    BY <1>4, <2>1, <2>2 DEF HandlerStep
<1>5. CASE StartDownload
  BY <1>3, <1>5 DEF StartDownload, InLoop, Feed, Early, Writing
<1>6. CASE Pick \/ Awaited \/ LoopEnds \/ DownloadFailed \/ Cleanup
  BY <1>3, <1>6 DEF Pick, Awaited, LoopEnds, DownloadFailed, Cleanup, InLoop, Zipper, Feed, Early
<1>7. CASE UpFinish \/ (\E i \in Ids : DlFinish(i)) \/ UNCHANGED vars
  <2>1. CASE Feed
    BY <1>1, <2>1
  <2>2. UNCHANGED writer /\ zipper' = zipper /\ ok' = ok
    BY <1>7 DEF UpFinish, DlFinish, vars, writer
  <2> QED
    BY <1>3, <2>1, <2>2 DEF Early
<1> QED
  BY <1>1, <1>2, <1>4, <1>5, <1>6, <1>7 DEF Next, ZipperStep

(* What finish_zip hands over is the whole archive. *)
LEMMA FinishIs ==
  ASSUME CInv, Finish, [Next]_vars
  PROVE  /\ Late' /\ ok' = ~write_failed' /\ (ok' => Found') /\ upload' \in {upload, "closed"}
         /\ handler' = handler /\ archive' = archive /\ zipper = "finish"
         /\ batch' \in Seq(Byte) /\ sent' \in Seq(Byte) /\ Len(batch') < BatchSize
         /\ write_failed' \in BOOLEAN /\ entries' = entries
<1> USE DEF CInv
<1> DEFINE tail == DirectoryBytes(Len(Pipe))
<1>1. zipper = "finish" /\ Late' /\ ok' = ~write_failed' /\ handler' = handler /\ archive' = archive /\ entries' = entries /\ size' = size
  BY DEF Finish, Zipper, Late
<1>2. Fed = Archived /\ Entered /\ size \in Lists
  BY <1>1 DEF Concluded, Writing, Early, TypeOK
<1>3. tail \in Seq(Byte) /\ LastWrite(batch \o tail)
  BY <1>2, PipeIs, DirectoryIs DEF Finish
<1>4. /\ batch' \in Seq(Byte) /\ sent' \in Seq(Byte) /\ Len(batch') < BatchSize
      /\ write_failed' \in BOOLEAN /\ upload' \in {upload, "closed"}
      /\ ~write_failed' => sent' = Pipe \o tail
  <2> HIDE DEF tail
  <2> QED
    BY <1>3, LastWriteIs
<1>5. ASSUME ok' PROVE Found'
  <2>1. sent' = Pipe \o tail
    BY <1>1, <1>4, <1>5
  <2>2. Cardinality(Archived) <= CountLimit => Holds(Pipe \o tail, Archived)
    BY <1>2, WholeIs
  <2>3. Archived' = Archived /\ (Holds(sent, Archived)' <=> Holds(sent', Archived))
    BY <1>1, ArchivedKept DEF Holds, EntryBytes
  <2> QED
    BY <2>1, <2>2, <2>3 DEF Found
<1> QED
  BY <1>1, <1>4, <1>5

LEMMA EndOfFileIs ==
  ASSUME CInv, EndOfFile
  PROVE  /\ Late' /\ ~ok' /\ upload' \in {upload, "closed"} /\ zipper = "end"
         /\ handler' = handler /\ archive' = archive
         /\ batch' \in Seq(Byte) /\ sent' \in Seq(Byte) /\ Len(batch') < BatchSize
         /\ write_failed' \in BOOLEAN /\ entries' = entries /\ ok' = ok
<1> USE DEF CInv
<1>1. zipper = "end" /\ Late' /\ handler' = handler /\ archive' = archive /\ entries' = entries /\ ok' = ok
  BY DEF EndOfFile, Zipper, Late
<1>2. ~ok
  BY <1>1 DEF Concluded, Late
<1>3. CASE write_failed
  BY <1>1, <1>2, <1>3 DEF EndOfFile, CShapes
<1>4. CASE ~write_failed
  <2>1. <<>> \in Seq(Byte) /\ batch \o <<>> = batch
    BY ConcatEmptySeq DEF CShapes
  <2>2. LastWrite(batch \o <<>>)
    BY <1>4, <2>1 DEF EndOfFile
  <2> QED
    BY <1>1, <1>2, <2>1, <2>2, LastWriteIs
<1> QED
  BY <1>3, <1>4

LEMMA ConcludedKept ==
  ASSUME CInv, [Next]_vars
  PROVE  Concluded'
<1> USE DEF CInv
<1>0. size' = size /\ Archived' = Archived /\ (sent' = sent => (Found' <=> Found))
  BY WindowMoves, ArchivedKept
<1>f. ~Feed => Fed' = Fed
  BY FedKept
<1>1. CASE Feed
  <2>1. /\ zipper = "feed" /\ zipper' \in {"end", "loop"} /\ handler' = handler /\ upload' = upload
        /\ (ok' => ok)
    BY <1>1 DEF Feed
  <2>2. ~ok /\ upload \notin {"closed", "ok"} /\ handler \notin {"list", "start", "ok"}
    BY <2>1 DEF Concluded, Late
  <2> QED
    BY <2>1, <2>2 DEF Concluded
<1>2. CASE Finish
  <2>1. /\ Late' /\ (ok' => Found') /\ upload' \in {upload, "closed"} /\ handler' = handler /\ zipper = "finish"
    BY <1>2, FinishIs
  <2>2. upload \notin {"closed", "ok"} /\ handler \notin {"list", "start", "ok"}
    BY <2>1 DEF Concluded, Late
  <2> QED
    BY <2>1, <2>2 DEF Concluded, Late
<1>3. CASE EndOfFile
  <2>1. /\ Late' /\ ~ok' /\ upload' \in {upload, "closed"} /\ handler' = handler /\ zipper = "end"
    BY <1>3, EndOfFileIs
  <2>2. upload \notin {"closed", "ok"} /\ handler \notin {"list", "start", "ok"}
    BY <2>1 DEF Concluded, Late
  <2> QED
    BY <2>1, <2>2 DEF Concluded, Late
<1>4. CASE ListObjects \/ Answer
  <2>1. UNCHANGED <<size, zipper, writer, ok, upload, archive>> /\ ~Feed
    BY <1>4 DEF ListObjects, Answer, Feed, Concluded
  <2>2. /\ handler' \in {"list", "start"} => handler \in {"list", "start"}
        /\ handler' = "ok" => ok /\ upload = "ok"
    BY <1>4 DEF ListObjects, Answer
  <2> QED
    BY <1>0, <1>f, <2>1, <2>2 DEF Concluded, Late, writer
<1>5. CASE StartUpload
  <2>1. /\ zipper = "none" /\ UNCHANGED <<ok, archive, writer>> /\ zipper' \in {"none", "loop"}
        /\ upload' \in {upload, "open"} /\ handler' \in {"join", "error"}
    BY <1>5 DEF StartUpload, Concluded
  <2>2. ~ok /\ upload \notin {"closed", "ok"}
    BY <2>1 DEF Concluded, Late
  <2> QED
    BY <2>1, <2>2 DEF Concluded
<1>6. CASE StartDownload \/ Pick \/ Awaited \/ DownloadFailed
  <2>1. /\ zipper \in {"loop", "wait", "feed"} /\ zipper' \in {"loop", "wait", "feed", "end"}
        /\ (ok' => ok) /\ UNCHANGED <<handler, upload>>
    BY <1>6 DEF StartDownload, Pick, Awaited, DownloadFailed, InLoop, Zipper
  <2>2. ~ok /\ upload \notin {"closed", "ok"} /\ handler \notin {"list", "start", "ok"}
    BY <2>1 DEF Concluded, Late
  <2> QED
    BY <2>1, <2>2 DEF Concluded
<1>7. CASE LoopEnds
  <2>1. /\ zipper = "loop" /\ zipper' = "finish" /\ UNCHANGED <<ok, handler, upload>> /\ ~Feed
    BY <1>7 DEF LoopEnds, Feed
  <2>2. ~ok /\ upload \notin {"closed", "ok"} /\ handler \notin {"list", "start", "ok"}
    BY <2>1 DEF Concluded, Late
  <2>3. Fed = Archived
    BY <1>7, LoopEndIs
  <2> QED
    BY <1>0, <1>f, <2>1, <2>2, <2>3 DEF Concluded
<1>8. CASE Cleanup
  <2>1. /\ zipper = "cleanup" /\ zipper' = "gone" /\ UNCHANGED <<ok, handler, upload, archive, writer>>
    BY <1>8 DEF Cleanup, Zipper
  <2> QED
    BY <1>0, <2>1 DEF Concluded, Late, writer
<1>9. CASE UpFinish
  <2>1. /\ UNCHANGED <<size, handler, zipper, writer, ok>> /\ ~Feed
    BY <1>9 DEF UpFinish, Feed, Concluded
  <2>2. /\ upload' \in {"closed", "ok"} => upload = "closed" /\ archive' = sent
        /\ upload # "ok"
    BY <1>9 DEF UpFinish
  <2> QED
    BY <1>0, <1>f, <2>1, <2>2 DEF Concluded, Late, writer
<1>10. ASSUME UNCHANGED <<handler, zipper, writer, ok, upload, archive>>, ~Feed PROVE Concluded'
  BY <1>0, <1>f, <1>10 DEF Concluded, Late, writer
<1>11. CASE (\E i \in Ids : DlFinish(i)) \/ UNCHANGED vars
  <2>1. UNCHANGED <<handler, zipper, writer, ok, upload, archive>>
    BY <1>11 DEF DlFinish, vars
  <2> QED
    BY <1>1, <1>10, <2>1
<1> QED
  BY <1>1, <1>2, <1>3, <1>4, <1>5, <1>6, <1>7, <1>8, <1>9, <1>11 DEF Next, ZipperStep, HandlerStep
LEMMA LowestIs ==
  ASSUME NEW S \in SUBSET Nat, S # {}
  PROVE  Min(S) \in S
  BY Least DEF Min

LEMMA CShapesKept ==
  ASSUME CInv, [Next]_vars
  PROVE  CShapes'
<1> USE DEF CInv
<1>0. size' = size /\ Ids' = Ids
  BY WindowMoves DEF Ids
<1>1. CASE Feed
  <2>1. /\ zipper = "feed" /\ idx \in Ids /\ zipper' \in {"end", "loop"} /\ ~write_failed
        /\ Write(batch \o EntryBytes(idx))
        /\ entries' = Append(entries, [id |-> idx, offset |-> Len(sent) + Len(batch)])
        /\ ok' = IF write_failed' THEN FALSE ELSE ok
    BY <1>1 DEF Feed, CShapes, Ended, Writing, Early
  <2>2. EntryBytes(idx) \in Seq(Byte)
    BY <2>1, EntryBytesAre DEF TypeOK
  <2>3. batch' \in Seq(Byte) /\ sent' \in Seq(Byte) /\ Len(batch') < BatchSize /\ write_failed' \in BOOLEAN
    BY <2>1, <2>2, WriteIs
  <2>4. entries' \in Seq([id : Ids, offset : Nat])
    <3>1. Len(sent) + Len(batch) \in Nat
      BY PipeIs
    <3>2. [id |-> idx, offset |-> Len(sent) + Len(batch)] \in [id : Ids, offset : Nat]
      BY <2>1, <3>1
    <3> QED
      BY <2>1, <3>2, AppendProperties DEF CShapes
  <2>5. ok' \in BOOLEAN
    <3>1. ok \in BOOLEAN
      BY DEF CShapes
    <3> QED
      BY <2>1, <3>1, Zenon
  <2> QED
    BY <1>0, <2>1, <2>3, <2>4, <2>5, Zenon DEF CShapes
<1>2. CASE Finish \/ EndOfFile
  <2>1. /\ batch' \in Seq(Byte) /\ sent' \in Seq(Byte) /\ Len(batch') < BatchSize
        /\ write_failed' \in BOOLEAN /\ entries' = entries /\ zipper' # "feed"
    BY <1>2, FinishIs, EndOfFileIs DEF Late
  <2>2. ok' = ~write_failed' \/ ok' = ok
    BY <1>2, FinishIs, EndOfFileIs
  <2>3. ok' \in BOOLEAN
    <3>1. ok \in BOOLEAN
      BY DEF CShapes
    <3> QED
      BY <2>1, <2>2, <3>1, Zenon
  <2>4. entries \in Seq([id : Ids, offset : Nat])
    BY DEF CShapes
  <2> QED
    BY <1>0, <2>1, <2>3, <2>4, Zenon DEF CShapes
<1>3. ASSUME UNCHANGED writer, ok' = ok \/ ok' = FALSE, zipper' = "feed" => idx' \in Ended' PROVE CShapes'
  <2>1. UNCHANGED <<entries, batch, sent, write_failed>>
    BY <1>3 DEF writer
  <2>2. ok' \in BOOLEAN
    <3>1. ok \in BOOLEAN
      BY DEF CShapes
    <3> QED
      BY <1>3, <3>1, Zenon
  <2> QED
    BY <1>0, <1>3, <2>1, <2>2, Zenon DEF CShapes
<1>4. CASE Pick
  <2>1. UNCHANGED <<writer, ok>> /\ download' = download /\ (zipper' = "feed" => Ended # {} /\ idx' = Min(Ended))
    BY <1>4 DEF Pick, Zipper, window
  <2>2. Ended' = Ended
    BY <1>0, <2>1 DEF Ended
  <2>3. Ended \in SUBSET Nat
    BY SizeIs DEF TypeOK, Ended
  <2>4. zipper' = "feed" => idx' \in Ended'
    BY <2>1, <2>2, <2>3, LowestIs
  <2> QED
    BY <1>3, <2>1, <2>4
<1>5. CASE Awaited
  <2>1. UNCHANGED <<writer, ok>> /\ download' = download /\ idx' = idx /\ idx \in Ended
    BY <1>5 DEF Awaited, window
  <2>2. Ended' = Ended
    BY <1>0, <2>1 DEF Ended
  <2> QED
    BY <1>3, <2>1, <2>2
<1>6. CASE HandlerStep \/ UpFinish \/ UNCHANGED vars
  <2>1. /\ UNCHANGED <<writer, ok>> /\ download' = download
        /\ zipper' = "feed" => zipper = "feed" /\ idx' = idx
    BY <1>6 DEF HandlerStep, ListObjects, StartUpload, Answer, UpFinish, vars, window, writer
  <2>2. Ended' = Ended
    BY <1>0, <2>1 DEF Ended
  <2>3. zipper' = "feed" => idx' \in Ended'
    BY <2>1, <2>2 DEF CShapes
  <2> QED
    BY <1>3, <2>1, <2>3
<1>7. CASE StartDownload \/ LoopEnds \/ DownloadFailed \/ Cleanup
  BY <1>3, <1>7 DEF StartDownload, LoopEnds, DownloadFailed, Cleanup, Zipper, InLoop
<1>8. CASE \E i \in Ids : DlFinish(i)
  <2>1. UNCHANGED <<writer, ok>> /\ zipper' = zipper /\ idx' = idx
    BY <1>8 DEF DlFinish
  <2>2. PICK i \in Ids : download[i] = "flight" /\ download' \in {[download EXCEPT ![i] = "done"], [download EXCEPT ![i] = "error"]}
    BY <1>8 DEF DlFinish
  <2>3. \A j \in Ended : j \in Ended'
    BY <1>0, <2>2 DEF Ended, TypeOK
  <2>4. zipper = "feed" => idx \in Ended
    BY DEF CShapes
  <2> QED
    BY <1>3, <2>1, <2>3, <2>4
<1> QED
  BY <1>1, <1>2, <1>4, <1>5, <1>6, <1>7, <1>8 DEF Next, ZipperStep

LEMMA CTypesKept ==
  ASSUME CInv, [Next]_vars
  PROVE  TypeOK'
<1> USE DEF CInv
<1>0. size' = size /\ Ids' = Ids /\ Tallied' /\ download' \in [Ids -> Places5] /\ size \in Lists
  BY TalliedKept DEF TypeOK
<1>1. /\ handler' \in {"list", "start", "join", "ok", "error"}
      /\ zipper' \in {"none", "loop", "wait", "feed", "finish", "end", "cleanup", "gone"}
      /\ upload' \in {"none", "open", "closed", "ok", "failed"}
  <2> DEFINE T == /\ handler' \in {"list", "start", "join", "ok", "error"}
                  /\ zipper' \in {"none", "loop", "wait", "feed", "finish", "end", "cleanup", "gone"}
                  /\ upload' \in {"none", "open", "closed", "ok", "failed"}
  <2>1. CASE HandlerStep \/ UpFinish \/ UNCHANGED vars
    BY <2>1 DEF HandlerStep, ListObjects, StartUpload, Answer, UpFinish, vars, TypeOK
  <2>2. CASE StartDownload \/ Pick \/ Awaited \/ LoopEnds \/ DownloadFailed \/ Cleanup
    BY <2>2 DEF StartDownload, Pick, Awaited, LoopEnds, DownloadFailed, Cleanup, Zipper, TypeOK
  <2>3. CASE Feed \/ \E i \in Ids : DlFinish(i)
    BY <2>3 DEF Feed, DlFinish, TypeOK
  <2>4. CASE Finish
    BY <2>4, FinishIs DEF Late, TypeOK
  <2>5. CASE EndOfFile
    BY <2>5, EndOfFileIs DEF Late, TypeOK
  <2> QED
    BY <2>1, <2>2, <2>3, <2>4, <2>5 DEF Next, ZipperStep
<1>2. zipper' \in {"wait", "feed"} => idx' \in InWindow'
  <2>1. CASE Pick
    <3>1. /\ idx' = Min(IF Ended # {} THEN Ended ELSE InWindow) /\ InWindow # {} /\ download' = download
      BY <2>1 DEF Pick, window
    <3>2. Ended \in SUBSET Nat /\ InWindow \in SUBSET Nat /\ Ended \subseteq InWindow /\ InWindow' = InWindow
      BY <1>0, <3>1, SizeIs DEF Ended, InWindow
    <3>3. CASE Ended # {}
      BY <3>1, <3>2, <3>3, LowestIs
    <3>4. CASE Ended = {}
      BY <3>1, <3>2, <3>4, LowestIs
    <3> QED
      BY <3>3, <3>4
  <2>2. ASSUME zipper' \in {"wait", "feed"} => zipper \in {"wait", "feed"} /\ idx' = idx,
               ~Feed
        PROVE  zipper' \in {"wait", "feed"} => idx' \in InWindow'
    <3>1. InWindow \subseteq InWindow'
      <4>1. ASSUME NEW i \in MayStart, download' = [download EXCEPT ![i] = "flight"]
            PROVE  InWindow \subseteq InWindow'
        BY <1>0, <4>1, StartIs DEF InWindow, TypeOK
      <4>2. ASSUME NEW i \in Ids, download[i] = "flight",
                   download' \in {[download EXCEPT ![i] = "done"], [download EXCEPT ![i] = "error"]}
            PROVE  InWindow \subseteq InWindow'
        BY <1>0, <4>2 DEF InWindow, TypeOK
      <4>3. CASE UNCHANGED download
        BY <1>0, <4>3 DEF InWindow
      <4> QED
        BY <2>2, <4>1, <4>2, <4>3, WindowMoves
    <3>2. zipper \in {"wait", "feed"} => idx \in InWindow
      BY DEF TypeOK
    <3> QED
      BY <2>2, <3>1, <3>2
  <2>3. CASE Feed
    BY <2>3 DEF Feed
  <2>4. CASE HandlerStep \/ UpFinish \/ (\E i \in Ids : DlFinish(i)) \/ UNCHANGED vars
    BY <2>2, <2>3, <2>4 DEF HandlerStep, ListObjects, StartUpload, Answer, UpFinish, DlFinish, vars
  <2>5. CASE StartDownload \/ Awaited \/ LoopEnds \/ DownloadFailed \/ Cleanup
    BY <2>2, <2>3, <2>5 DEF StartDownload, Awaited, LoopEnds, DownloadFailed, Cleanup, Zipper, InLoop
  <2>6. CASE Finish \/ EndOfFile
    BY <2>6, FinishIs, EndOfFileIs DEF Late
  <2> QED
    BY <2>1, <2>3, <2>4, <2>5, <2>6 DEF Next, ZipperStep
<1>3. zipper' = "gone" => \A i \in Ids' : download'[i] # "flight"
  <2>1. CASE Cleanup
    BY <1>0, <2>1 DEF Cleanup, window
  <2>2. ASSUME zipper' = "gone" => zipper = "gone" /\ ~StartDownload
        PROVE  zipper' = "gone" => \A i \in Ids' : download'[i] # "flight"
    <3> SUFFICES ASSUME zipper' = "gone", NEW i \in Ids PROVE download'[i] # "flight"
      BY <1>0
    <3>1. zipper = "gone" /\ \A j \in Ids : download[j] # "flight"
      BY <2>2 DEF TypeOK
    <3>2. CASE Feed
      BY <3>1, <3>2 DEF Feed
    <3>3. CASE \E j \in Ids : DlFinish(j)
      BY <3>1, <3>3 DEF DlFinish
    <3>4. CASE HandlerStep \/ UpFinish \/ UNCHANGED vars
      BY <3>1, <3>4 DEF HandlerStep, ListObjects, StartUpload, Answer, UpFinish, vars, window
    <3>5. CASE Pick \/ Awaited \/ LoopEnds \/ DownloadFailed \/ Finish \/ EndOfFile \/ Cleanup
      BY <3>1, <3>5 DEF Pick, Awaited, LoopEnds, DownloadFailed, Finish, EndOfFile, Cleanup, window
    <3> QED
      BY <2>2, <3>2, <3>3, <3>4, <3>5 DEF Next, ZipperStep
  <2>3. ASSUME ~Cleanup PROVE zipper' = "gone" => zipper = "gone" /\ ~StartDownload
    <3>1. CASE HandlerStep \/ UpFinish \/ (\E i \in Ids : DlFinish(i)) \/ UNCHANGED vars
      BY <3>1 DEF HandlerStep, ListObjects, StartUpload, Answer, UpFinish, DlFinish, vars, StartDownload, InLoop
    <3>2. CASE StartDownload \/ Pick \/ Awaited \/ LoopEnds \/ DownloadFailed \/ Feed
      BY <3>2 DEF StartDownload, Pick, Awaited, LoopEnds, DownloadFailed, Feed, Zipper, InLoop
    <3>3. CASE Finish \/ EndOfFile
      BY <3>3 DEF Finish, EndOfFile, Zipper
    <3> QED
      BY <2>3, <3>1, <3>2, <3>3 DEF Next, ZipperStep
  <2> QED
    BY <2>1, <2>2, <2>3
<1>4. Len(batch') < BatchSize
  BY CShapesKept DEF CShapes
<1> QED
  BY <1>0, <1>1, <1>2, <1>3, <1>4 DEF TypeOK, Tallied, Places5

LEMMA CInvInit == Init => CInv
<1> SUFFICES ASSUME Init PROVE CInv
  OBVIOUS
<1>1. size \in Lists /\ InWindow = {} /\ Fed = {} /\ Cardinality({}) = 0 /\ IsFiniteSet({})
  BY FS_EmptySet DEF Init, InWindow, Fed
<1>2. TypeOK
  <2>1. SumFunctionOnSet(size, {}) = 0
    BY <1>1, SumType
  <2>2. 0 <= MaxDownloads /\ 0 <= MaxInflight /\ Len(<<>>) < BatchSize
    BY CConstants
  <2> QED
    BY <1>1, <2>1, <2>2 DEF Init, TypeOK
<1>3. CShapes
  <2>1. Len(<<>>) < BatchSize /\ <<>> \in Seq(Byte) /\ <<>> \in Seq([id : Ids, offset : Nat])
    BY CConstants
  <2> QED
    BY <2>1, Zenon DEF Init, CShapes
<1>4. InOrder
  BY DEF Init, InOrder
<1>5. Writing
  <2>1. Len(<<>>) = 0 /\ DOMAIN <<>> = {}
    OBVIOUS
  <2>2. Entered
    BY <1>1, <2>1 DEF Init, Entered
  <2> QED
    BY <2>2 DEF Init, Writing
<1>6. Concluded
  BY DEF Init, Concluded
<1> QED
  BY <1>2, <1>3, <1>4, <1>5, <1>6 DEF CInv

LEMMA CInvKept == CInv /\ [Next]_vars => CInv'
<1> SUFFICES ASSUME CInv, [Next]_vars PROVE CInv'
  OBVIOUS
<1>1. InOrder'
  BY InOrderKept DEF CInv
<1> QED
  BY <1>1, CTypesKept, CShapesKept, WritingKept, ConcludedKept DEF CInv

(* The counters of the window, the order of the starts and the bytes.        *)
THEOREM SebstoCInvariance == Spec => []CInv
  BY CInvInit, CInvKept, PTL DEF Spec

(* Whatever is listed and however zipper_thread leaves its loop, its counters *)
(* are those of the requests it holds, within both bounds, and no download is *)
(* freed before its callback has run.                                        *)
THEOREM SebstoCTypeOK == Spec => []TypeOK
<1>1. CInv => TypeOK
  BY DEF CInv
<1> QED
  BY <1>1, SebstoCInvariance, PTL

(* An answer of success means that an unzip program finds every object, up   *)
(* to one that is larger than the window: whatever the order of the          *)
(* downloads, the batches and the failures.                                  *)
THEOREM SebstoCOkMeansWhole == Spec => []OkMeansWhole
<1>1. CInv => OkMeansWhole
  BY DEF CInv, Concluded, Found, OkMeansWhole
<1> QED
  BY <1>1, SebstoCInvariance, PTL
=============================================================================
