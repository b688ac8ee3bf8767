--------------------------- MODULE PartJobsProofs ---------------------------
(***************************************************************************)
(* Proofs about the headers, the layout planner and the part-job builder   *)
(* of jrodon-v2 and jrodon-v3, for every list of files, header size and    *)
(* threshold: the sizes predicted are those written, S3 accepts both parts *)
(* of every Duo, every local header is where the directory says it is, and *)
(* the jobs carry each file once and can all be executed.                  *)
(*                                                                         *)
(* The layout's invariant adds to the legal parts that every file is laid  *)
(* out once and how much each half holds. The builder's invariant is a     *)
(* balance: the jobs so far carry the files of the parts taken, the        *)
(* running offset is their size, and the central headers predicted add up  *)
(* to those of the elements in the uploads.                                *)
(***************************************************************************)
EXTENDS PartJobs, Sums, SequenceTheorems

-----------------------------------------------------------------------------
(* Headers *)

(* A value that fits its field is not changed by the cast. *)
LEMMA Fits == ASSUME NEW n \in Nat, n <= Max32 PROVE U32(n) = n
  BY FormatAssumption DEF U32

LEMMA Fits16 == ASSUME NEW n \in Nat, n <= Max16 PROVE U16(n) = n
  BY FormatAssumption DEF U16

(* predict_size of the local header is what its dump writes: an element of a *)
(* part leaves no gap in its buffer and is not cut short.                    *)
THEOREM LocSizeExact ==
  \A bytes, name \in Nat : LocSize(bytes, name) = LocRecord(bytes, name).written
  BY FormatAssumption DEF LocSize, LocRecord

(* predict_size of the central header is what its dump writes, although the  *)
(* two decide on ZIP64 in a different order.                                 *)
THEOREM CdfhSizeExact ==
  \A bytes, name, pos \in Nat : CdfhSize(bytes, name, pos) = CdfhRecord(bytes, name, pos).written
  BY FormatAssumption DEF CdfhSize, CdfhRecord

(* The size of the end records is what their dump writes. *)
THEOREM EndSizeExact ==
  \A count, bytes, pos \in Nat : EndSize(count, bytes, pos) = EndRecord(count, bytes, pos).written
  BY FormatAssumption DEF EndSize, EndRecord

(* A reader of the central header finds the size and the offset of its       *)
(* entry, unless the offset is exactly the mark of a ZIP64 field.            *)
THEOREM CdfhReads ==
  ASSUME NEW bytes \in Nat, NEW name \in Nat, NEW pos \in Nat, pos # Max32
  PROVE  /\ ReadSize(CdfhRecord(bytes, name, pos)) = bytes
         /\ ReadAt(CdfhRecord(bytes, name, pos)) = pos
<1>1. CASE pos > Max32
  BY <1>1, FormatAssumption DEF CdfhRecord, ReadSize, ReadAt
<1>2. CASE ~(pos > Max32) /\ bytes > Max32
  <2>1. U32(pos) = pos
    BY <1>2, Fits, FormatAssumption
  <2> QED
    BY <1>2, <2>1, FormatAssumption DEF CdfhRecord, ReadSize, ReadAt
<1>3. CASE ~(pos > Max32) /\ ~(bytes > Max32)
  <2>1. U32(pos) = pos /\ U32(bytes) = bytes
    BY <1>3, Fits, FormatAssumption
  <2> QED
    BY <1>3, <2>1, FormatAssumption DEF CdfhRecord, ReadSize, ReadAt
<1> QED
  BY <1>1, <1>2, <1>3

(* A reader of the end records finds how many entries there are, and where.  *)
THEOREM EndReads ==
  ASSUME NEW count \in Nat, NEW bytes \in Nat, NEW pos \in Nat
  PROVE  ReadEnd(EndRecord(count, bytes, pos)) = <<count, bytes, pos>>
<1>1. CASE NeedEocd64(count, bytes, pos)
  BY <1>1 DEF EndRecord, ReadEnd
<1>2. CASE ~NeedEocd64(count, bytes, pos)
  <2>1. bytes <= Max32 /\ pos <= Max32 /\ count <= Max16
    BY <1>2, FormatAssumption DEF NeedEocd64
  <2>2. U32(bytes) = bytes /\ U32(pos) = pos /\ U16(count) = count
    BY <2>1, Fits, Fits16
  <2> QED
    BY <1>2, <2>2 DEF EndRecord, ReadEnd
<1> QED
  BY <1>1, <1>2
-----------------------------------------------------------------------------
(* The inductive invariant *)

(* A big file that is held out of the deque, or in a Duo, is big enough to   *)
(* be split.                                                                 *)
BigHeld == big # 0 => phase = "pair" /\ size[big] >= MinPart

BigPlaced ==
  \A i \in DOMAIN parts : parts[i].kind = "duo" =>
    parts[i].big \in 1 .. Len(size) /\ size[parts[i].big] >= MinPart

(* Once a Single exists the first pass is out of files. *)
PairOver ==
  (phase = "pair" /\ \E i \in DOMAIN parts : parts[i].kind = "single") => ~Left /\ big = 0

Inv == TypeOK /\ BigHeld /\ BigPlaced /\ DuoHalvesBigEnough /\ SinglesLast /\ PairOver
-----------------------------------------------------------------------------
(* A list of n sizes is a sequence. *)
LEMMA SizesAreSeq ==
  ASSUME NEW n \in 0 .. MaxFiles, NEW s \in SortedSizes(n)
  PROVE  s \in Seq(FileSizes) /\ Len(s) = n
  BY LayoutAssumption DEF SortedSizes

(* The size of a listed file, of its header and of its entry. *)
LEMMA EntrySizes ==
  ASSUME TypeOK, NEW f \in 1 .. Len(size)
  PROVE  size[f] \in Nat /\ Loc(f) \in Nat \ {0} /\ EntrySize(f) \in Nat
<1>1. size[f] \in FileSizes
  BY DEF TypeOK
<1>2. f \in 1 .. MaxFiles
  BY LayoutAssumption DEF TypeOK
<1>3. size[f] \in Nat
  BY <1>1, LayoutAssumption
<1>4. Loc(f) \in Nat \ {0}
  BY <1>2, <1>3, LayoutAssumption DEF Loc, LocSize
<1> QED
  BY <1>3, <1>4 DEF EntrySize

(* Pushing a file gives a regular part that is bigger by the entry. *)
LEMMA PushedPart ==
  ASSUME TypeOK, NEW r \in RegularPart, NEW f \in 1 .. Len(size)
  PROVE  Push(r, f) \in RegularPart /\ Push(r, f).bytes = r.bytes + EntrySize(f)
<1>1. Append(r.entries, f) \in Seq(Nat)
  BY DEF RegularPart
<1> QED
  BY <1>1, EntrySizes DEF Push, RegularPart

(* The planner starts without parts. *)
LEMMA InitInv == Init => Inv
<1> SUFFICES ASSUME Init PROVE Inv
  OBVIOUS
<1>1. PICK n \in 0 .. MaxFiles : size \in SortedSizes(n)
  BY DEF Init
<1>2. size \in Seq(FileSizes) /\ Len(size) = n
  BY <1>1, SizesAreSeq
<1>3. TypeOK
  BY <1>2, LayoutAssumption DEF Init, TypeOK, Empty, RegularPart, LayoutPart
<1> QED
  BY <1>3 DEF Init, Inv, BigHeld, BigPlaced, DuoHalvesBigEnough, SinglesLast, PairOver

(* Appending a part that is sound keeps the parts sound. *)
LEMMA AppendPart ==
  ASSUME Inv, UNCHANGED size, NEW p \in LayoutPart, parts' = Append(parts, p),
         p.kind = "duo" => /\ p.big \in 1 .. Len(size) /\ size[p.big] >= MinPart
                           /\ UploadHalf(p) >= MinPart /\ CopyHalf(p) >= MinPart,
         p.kind = "duo" => \A i \in DOMAIN parts : parts[i].kind = "duo"
  PROVE  /\ parts' \in Seq(LayoutPart) /\ Len(parts') = Len(parts) + 1
         /\ BigPlaced' /\ DuoHalvesBigEnough' /\ SinglesLast'
<1>1. parts \in Seq(LayoutPart)
  BY DEF Inv, TypeOK
<1>2. /\ parts' \in Seq(LayoutPart) /\ Len(parts') = Len(parts) + 1
      /\ DOMAIN parts' = 1 .. Len(parts) + 1 /\ DOMAIN parts = 1 .. Len(parts)
      /\ \A i \in DOMAIN parts : parts'[i] = parts[i]
      /\ parts'[Len(parts) + 1] = p
  BY <1>1
<1>3. \A i \in DOMAIN parts' : i \in DOMAIN parts \/ parts'[i] = p
  BY <1>1, <1>2
<1>4. BigPlaced'
  BY <1>2, <1>3 DEF Inv, BigPlaced
<1>5. DuoHalvesBigEnough'
  BY <1>2, <1>3 DEF Inv, DuoHalvesBigEnough, UploadHalf, CopyHalf, Loc
<1>6. SinglesLast'
  <2> SUFFICES ASSUME NEW i \in DOMAIN parts', NEW j \in DOMAIN parts',
                      parts'[i].kind = "single", i < j
               PROVE  parts'[j].kind = "single"
    BY DEF SinglesLast
  <2>1. i \in DOMAIN parts
    BY <1>1, <1>2
  <2>2. CASE j \in DOMAIN parts
    BY <1>2, <2>1, <2>2 DEF Inv, SinglesLast
  <2>3. CASE j = Len(parts) + 1
    <3>1. parts[i].kind = "single"
      BY <1>2, <2>1
    <3>2. p.kind # "duo"
      BY <2>1, <3>1
    <3> QED
      BY <1>2, <2>3, <3>2 DEF LayoutPart
  <2> QED
    BY <1>1, <1>2, <2>2, <2>3
<1> QED
  BY <1>2, <1>4, <1>5, <1>6

(* Changing the regular half and the start of the Duo at which a pass is     *)
(* keeps the parts sound if both halves stay big enough.                     *)
LEMMA GrownPart ==
  ASSUME Inv, UNCHANGED size, at \in DOMAIN parts, parts[at].kind = "duo",
         NEW r \in RegularPart, NEW s \in Nat,
         parts' = [parts EXCEPT ![at] = [@ EXCEPT !.regular = r, !.start = s]],
         r.bytes + Loc(parts[at].big) + s >= MinPart,
         size[parts[at].big] - s >= MinPart
  PROVE  /\ parts' \in Seq(LayoutPart) /\ Len(parts') = Len(parts)
         /\ BigPlaced' /\ DuoHalvesBigEnough' /\ SinglesLast'
         /\ \A i \in DOMAIN parts' : parts'[i].kind = parts[i].kind
<1>1. parts \in Seq(LayoutPart)
  BY DEF Inv, TypeOK
<1> DEFINE q == [parts[at] EXCEPT !.regular = r, !.start = s]
<1>2. parts[at] \in LayoutPart
  BY <1>1
<1>3. /\ q \in LayoutPart /\ q.kind = "duo" /\ q.big = parts[at].big
      /\ q.regular = r /\ q.start = s
  BY <1>2 DEF LayoutPart
<1>4. /\ parts' = [parts EXCEPT ![at] = q]
      /\ parts' \in Seq(LayoutPart) /\ Len(parts') = Len(parts) /\ DOMAIN parts' = DOMAIN parts
      /\ parts'[at] = q
      /\ \A i \in DOMAIN parts : i # at => parts'[i] = parts[i]
  BY <1>1, <1>3
<1> HIDE DEF q
<1>5. \A i \in DOMAIN parts' : parts'[i].kind = parts[i].kind /\ parts'[i].big = parts[i].big
  BY <1>3, <1>4
<1>6. BigPlaced'
  BY <1>4, <1>5 DEF Inv, BigPlaced
<1>7. DuoHalvesBigEnough'
  <2> SUFFICES ASSUME NEW i \in DOMAIN parts', parts'[i].kind = "duo"
               PROVE  (UploadHalf(parts[i]) >= MinPart /\ CopyHalf(parts[i]) >= MinPart)'
    BY DEF DuoHalvesBigEnough
  <2>1. CASE i = at
    BY <1>3, <1>4, <2>1 DEF UploadHalf, CopyHalf, Loc
  <2>2. CASE i # at
    BY <1>4, <2>2 DEF Inv, DuoHalvesBigEnough, UploadHalf, CopyHalf, Loc
  <2> QED
    BY <2>1, <2>2
<1>8. SinglesLast'
  BY <1>4, <1>5 DEF Inv, SinglesLast
<1> QED
  BY <1>4, <1>5, <1>6, <1>7, <1>8

(* A part taken by the second or third pass has the type of a part, and its  *)
(* big file is a listed one.                                                 *)
LEMMA DuoAt ==
  ASSUME Inv, at \in DOMAIN parts, parts[at].kind = "duo"
  PROVE  /\ parts[at] \in LayoutPart /\ parts[at].regular \in RegularPart
         /\ parts[at].regular.bytes \in Nat /\ parts[at].start \in Nat
         /\ size[parts[at].big] \in Nat /\ Loc(parts[at].big) \in Nat
         /\ parts[at].regular.bytes + Loc(parts[at].big) + parts[at].start >= MinPart
         /\ size[parts[at].big] - parts[at].start >= MinPart
<1>1. parts[at] \in LayoutPart
  BY DEF Inv, TypeOK
<1>2. parts[at].big \in 1 .. Len(size)
  BY DEF Inv, BigPlaced
<1>3. TypeOK
  BY DEF Inv
<1>4. size[parts[at].big] \in Nat /\ Loc(parts[at].big) \in Nat
  BY <1>2, <1>3, EntrySizes
<1> QED
  BY <1>1, <1>4 DEF Inv, DuoHalvesBigEnough, UploadHalf, CopyHalf, LayoutPart, RegularPart
-----------------------------------------------------------------------------
(* Pass 1: the step to a Duo and the step that gives up on one *)

LEMMA MakeDuoInv == Inv /\ MakeDuo => Inv'
<1> SUFFICES ASSUME Inv, MakeDuo PROVE Inv'
  OBVIOUS
<1> DEFINE b == big
           start == Start(big, regular.bytes)
           p == Duo(regular, big, start)
<1>1. TypeOK
  BY DEF Inv
<1>2. b \in 1 .. Len(size) /\ phase = "pair" /\ size[b] >= MinPart
  BY <1>1 DEF Inv, TypeOK, BigHeld, MakeDuo
<1>3. size[b] \in Nat /\ Loc(b) \in Nat \ {0}
  BY <1>1, <1>2, EntrySizes
<1>4. regular \in RegularPart /\ regular.bytes \in Nat
  BY <1>1 DEF TypeOK, RegularPart
<1>5. regular.bytes >= Missing(b)
  BY DEF MakeDuo
<1>6. /\ start \in Nat
      /\ regular.bytes + Loc(b) + start >= MinPart
      /\ size[b] - start >= MinPart
  <2>1. MinPart \in Nat
    BY LayoutAssumption
  <2>2. /\ start = Minus(Minus(MinPart, regular.bytes), Loc(b))
        /\ regular.bytes >= Minus(Minus(MinPart, Loc(b)), size[b] - MinPart)
    BY <1>5 DEF Start, Missing
  <2> DEFINE n == regular.bytes
             l == Loc(b)
             z == size[b]
  <2>3. n \in Nat /\ l \in Nat /\ z \in Nat /\ z >= MinPart
    BY <1>2, <1>3, <1>4
  <2>4. start = Minus(Minus(MinPart, n), l) /\ n >= Minus(Minus(MinPart, l), z - MinPart)
    BY <2>2
  <2> HIDE DEF n, l, z, start
  <2>5. start \in Nat /\ n + l + start >= MinPart /\ z - start >= MinPart
    BY <2>1, <2>3, <2>4 DEF Minus
  <2> QED
    BY <2>5 DEF n, l, z
<1> HIDE DEF start
<1>7. /\ p \in LayoutPart /\ p.kind = "duo" /\ p.big = b
      /\ p.regular = regular /\ p.start = start
  BY <1>2, <1>4, <1>6 DEF Duo, LayoutPart
<1>8. \A i \in DOMAIN parts : parts[i].kind = "duo"
  <2>1. \A i \in DOMAIN parts : parts[i].kind # "single"
    BY <1>2 DEF Inv, PairOver, MakeDuo
  <2> QED
    <3>1. \A i \in DOMAIN parts : parts[i] \in LayoutPart
      BY <1>1 DEF TypeOK
    <3> QED
      BY <2>1, <3>1 DEF LayoutPart
<1>9. UNCHANGED size /\ parts' = Append(parts, p)
  BY DEF MakeDuo, start
<1> HIDE DEF p
<1>10. /\ parts' \in Seq(LayoutPart) /\ Len(parts') = Len(parts) + 1
       /\ BigPlaced' /\ DuoHalvesBigEnough' /\ SinglesLast'
  BY <1>2, <1>6, <1>7, <1>8, <1>9, AppendPart DEF UploadHalf, CopyHalf
<1>11. TypeOK'
  BY <1>1, <1>10 DEF TypeOK, MakeDuo
<1>12. parts \in Seq(LayoutPart)
  BY <1>1 DEF TypeOK
<1>13. \A i \in DOMAIN parts' : parts'[i].kind # "single"
  BY <1>7, <1>8, <1>9, <1>12
<1> QED
  BY <1>10, <1>11, <1>13 DEF Inv, BigHeld, PairOver, MakeDuo

(* A Single is sound wherever it is appended. *)
LEMMA AppendSingle ==
  ASSUME Inv, UNCHANGED size, NEW r \in RegularPart, parts' = Append(parts, Single(r))
  PROVE  /\ parts' \in Seq(LayoutPart) /\ Len(parts') = Len(parts) + 1
         /\ BigPlaced' /\ DuoHalvesBigEnough' /\ SinglesLast'
<1>1. Single(r) \in LayoutPart /\ Single(r).kind # "duo"
  BY DEF Single, LayoutPart
<1> QED
  BY <1>1, AppendPart

LEMMA FoldIntoSingleInv == Inv /\ FoldIntoSingle => Inv'
<1> SUFFICES ASSUME Inv, FoldIntoSingle PROVE Inv'
  OBVIOUS
<1>1. TypeOK
  BY DEF Inv
<1>2. big \in 1 .. Len(size) /\ regular \in RegularPart
  BY <1>1 DEF TypeOK, FoldIntoSingle
<1>3. Push(regular, big) \in RegularPart
  BY <1>1, <1>2, PushedPart
<1>4. /\ parts' \in Seq(LayoutPart) /\ Len(parts') = Len(parts) + 1
      /\ BigPlaced' /\ DuoHalvesBigEnough' /\ SinglesLast'
  BY <1>3, AppendSingle DEF FoldIntoSingle
<1>5. TypeOK'
  BY <1>1, <1>4 DEF TypeOK, FoldIntoSingle
<1> QED
  BY <1>4, <1>5 DEF Inv, BigHeld, PairOver, FoldIntoSingle, Left

LEMMA PushSingleInv == Inv /\ PushSingle => Inv'
<1> SUFFICES ASSUME Inv, PushSingle PROVE Inv'
  OBVIOUS
<1>1. TypeOK
  BY DEF Inv
<1>2. regular \in RegularPart
  BY <1>1 DEF TypeOK
<1>3. /\ parts' \in Seq(LayoutPart) /\ Len(parts') = Len(parts) + 1
      /\ BigPlaced' /\ DuoHalvesBigEnough' /\ SinglesLast'
  BY <1>2, AppendSingle DEF PushSingle
<1>4. TypeOK'
  BY <1>1, <1>3 DEF TypeOK, PushSingle
<1> QED
  BY <1>3, <1>4 DEF Inv, BigHeld, PairOver, PushSingle
-----------------------------------------------------------------------------
(* Passes 2 and 3: a small file joins a Duo *)

LEMMA PromoteInv == Inv /\ Promote => Inv'
<1> SUFFICES ASSUME Inv, Promote PROVE Inv'
  OBVIOUS
<1> DEFINE r == Push(parts[at].regular, lo)
           s == AbsorbStart(parts[at].start, lo)
<1>1. TypeOK /\ at \in DOMAIN parts /\ parts[at].kind = "duo" /\ parts \in Seq(LayoutPart)
  BY DEF Inv, TypeOK, Promote, InPass, Partial
<1>2. lo \in 1 .. Len(size) /\ lo <= hi
  BY <1>1 DEF TypeOK, Promote, Left
<1>3. EntrySize(lo) \in Nat
  BY <1>1, <1>2, EntrySizes
<1>4. r \in RegularPart /\ r.bytes = parts[at].regular.bytes + EntrySize(lo)
  BY <1>1, <1>2, DuoAt, PushedPart
<1> HIDE DEF r
<1>5. /\ s \in Nat
      /\ r.bytes + Loc(parts[at].big) + s >= MinPart
      /\ size[parts[at].big] - s >= MinPart
  <2> DEFINE n == parts[at].regular.bytes
             l == Loc(parts[at].big)
             z == size[parts[at].big]
             t == parts[at].start
             e == EntrySize(lo)
  <2>1. /\ n \in Nat /\ l \in Nat /\ z \in Nat /\ t \in Nat
        /\ n + l + t >= MinPart /\ z - t >= MinPart
    BY <1>1, DuoAt
  <2>2. e \in Nat /\ MinPart \in Nat
    BY <1>3, LayoutAssumption
  <2>3. r.bytes = n + e /\ s = Minus(t, e)
    BY <1>4 DEF AbsorbStart
  <2> HIDE DEF n, l, z, t, e, s
  <2>4. s \in Nat /\ r.bytes + l + s >= MinPart /\ z - s >= MinPart
    BY <2>1, <2>2, <2>3 DEF Minus
  <2> QED
    BY <2>4 DEF l, z
<1> HIDE DEF s
<1>6. UNCHANGED size /\ parts' = [parts EXCEPT ![at] = [@ EXCEPT !.regular = r, !.start = s]]
  BY <1>1, DuoAt DEF Promote, Absorb, r, s, LayoutPart
<1>7. /\ parts' \in Seq(LayoutPart) /\ Len(parts') = Len(parts)
      /\ BigPlaced' /\ DuoHalvesBigEnough' /\ SinglesLast'
  BY <1>1, <1>4, <1>5, <1>6, GrownPart
<1>8. TypeOK'
  BY <1>1, <1>2, <1>7 DEF TypeOK, Promote, Absorb
<1> QED
  BY <1>7, <1>8 DEF Inv, BigHeld, PairOver, Promote, Absorb, InPass

LEMMA PadInv == Inv /\ Pad => Inv'
<1> SUFFICES ASSUME Inv, Pad PROVE Inv'
  OBVIOUS
<1> DEFINE r == Push(parts[at].regular, lo)
           s == parts[at].start
<1>1. TypeOK /\ at \in DOMAIN parts /\ parts[at].kind = "duo" /\ parts \in Seq(LayoutPart)
  BY DEF Inv, TypeOK, Pad, InPass, Short
<1>2. lo \in 1 .. Len(size) /\ lo <= hi
  BY <1>1 DEF TypeOK, Pad, Left
<1>3. EntrySize(lo) \in Nat
  BY <1>1, <1>2, EntrySizes
<1>4. r \in RegularPart /\ r.bytes = parts[at].regular.bytes + EntrySize(lo)
  BY <1>1, <1>2, DuoAt, PushedPart
<1> HIDE DEF r
<1>5. /\ s \in Nat
      /\ r.bytes + Loc(parts[at].big) + s >= MinPart
      /\ size[parts[at].big] - s >= MinPart
  <2> DEFINE n == parts[at].regular.bytes
             l == Loc(parts[at].big)
             z == size[parts[at].big]
             t == parts[at].start
             e == EntrySize(lo)
  <2>1. /\ n \in Nat /\ l \in Nat /\ z \in Nat /\ t \in Nat
        /\ n + l + t >= MinPart /\ z - t >= MinPart
    BY <1>1, DuoAt
  <2>2. e \in Nat /\ MinPart \in Nat
    BY <1>3, LayoutAssumption
  <2>3. r.bytes = n + e /\ s = t
    BY <1>4 
  <2> HIDE DEF n, l, z, t, e, s
  <2>4. s \in Nat /\ r.bytes + l + s >= MinPart /\ z - s >= MinPart
    BY <2>1, <2>2, <2>3
  <2> QED
    BY <2>4 DEF l, z
<1>6. UNCHANGED size /\ parts' = [parts EXCEPT ![at] = [@ EXCEPT !.regular = r, !.start = s]]
  BY <1>1, DuoAt DEF Pad, r, LayoutPart
<1> HIDE DEF s
<1>7. /\ parts' \in Seq(LayoutPart) /\ Len(parts') = Len(parts)
      /\ BigPlaced' /\ DuoHalvesBigEnough' /\ SinglesLast'
  BY <1>1, <1>4, <1>5, <1>6, GrownPart
<1>8. TypeOK'
  BY <1>1, <1>2, <1>7 DEF TypeOK, Pad
<1> QED
  BY <1>7, <1>8 DEF Inv, BigHeld, PairOver, Pad, InPass
-----------------------------------------------------------------------------
(* The steps that leave the parts alone *)

LEMMA SameParts ==
  ASSUME Inv, UNCHANGED <<size, parts>>
  PROVE  BigPlaced' /\ DuoHalvesBigEnough' /\ SinglesLast'
  BY DEF Inv, BigPlaced, DuoHalvesBigEnough, SinglesLast, UploadHalf, CopyHalf, Loc

LEMMA PopBigInv == Inv /\ PopBig => Inv'
<1> SUFFICES ASSUME Inv, PopBig PROVE Inv'
  OBVIOUS
<1>1. TypeOK /\ hi \in 1 .. Len(size)
  BY DEF Inv, TypeOK, PopBig, Left
<1>2. TypeOK'
  BY <1>1 DEF TypeOK, PopBig, Left, Empty, RegularPart
<1>3. BigPlaced' /\ DuoHalvesBigEnough' /\ SinglesLast'
  BY SameParts DEF PopBig
<1> QED
  BY <1>1, <1>2, <1>3 DEF Inv, BigHeld, PairOver, PopBig

LEMMA GrowRegularInv == Inv /\ GrowRegular => Inv'
<1> SUFFICES ASSUME Inv, GrowRegular PROVE Inv'
  OBVIOUS
<1>1. TypeOK /\ lo \in 1 .. Len(size) /\ regular \in RegularPart
  BY DEF Inv, TypeOK, GrowRegular, Left
<1>2. Push(regular, lo) \in RegularPart
  BY <1>1, PushedPart
<1>3. TypeOK'
  BY <1>1, <1>2 DEF TypeOK, GrowRegular, Left
<1>4. BigPlaced' /\ DuoHalvesBigEnough' /\ SinglesLast'
  BY SameParts DEF GrowRegular
<1> QED
  BY <1>3, <1>4 DEF Inv, BigHeld, PairOver, GrowRegular

LEMMA FillSingleInv == Inv /\ FillSingle => Inv'
<1> SUFFICES ASSUME Inv, FillSingle PROVE Inv'
  OBVIOUS
<1>1. TypeOK /\ lo \in 1 .. Len(size) /\ regular \in RegularPart
  BY DEF Inv, TypeOK, FillSingle, Left
<1>2. Push(regular, lo) \in RegularPart
  BY <1>1, PushedPart
<1>3. TypeOK'
  BY <1>1, <1>2 DEF TypeOK, FillSingle, Left
<1>4. BigPlaced' /\ DuoHalvesBigEnough' /\ SinglesLast'
  BY SameParts DEF FillSingle
<1> QED
  BY <1>3, <1>4 DEF Inv, BigHeld, PairOver, FillSingle

(* The steps that only move the planner on: to the next part, to the next    *)
(* pass, to a new Single, to the end.                                        *)
MoveOn ==
  \/ PairDone \/ NewSingle \/ LayoutDone
  \/ PromoteNext \/ PromoteStop \/ PromoteDone
  \/ PadNext \/ PadStop \/ PadDone

LEMMA MoveOnInv == Inv /\ MoveOn => Inv'
<1> SUFFICES ASSUME Inv, MoveOn PROVE Inv'
  OBVIOUS
<1> USE DEF MoveOn, PairDone, NewSingle, LayoutDone, PromoteNext, PromoteStop, PromoteDone,
            PadNext, PadStop, PadDone, InPass, Skip, GiveUp, PassOver
<1>1. TypeOK
  BY DEF Inv
<1>2. UNCHANGED <<size, lo, hi, big, parts>> /\ phase' # "pair" /\ big = 0
  BY DEF Inv, BigHeld
<1>3. regular' \in RegularPart /\ at' \in 1 .. Len(parts) + 1
  <2>1. Empty \in RegularPart
    BY DEF Empty, RegularPart
  <2>2. regular' \in {regular, Empty}
    OBVIOUS
  <2>3. at' = at \/ at' = 1 \/ (at' = at + 1 /\ at <= Len(parts))
    OBVIOUS
  <2>4. Len(parts) \in Nat
    BY <1>1 DEF TypeOK
  <2> QED
    BY <1>1, <2>1, <2>2, <2>3, <2>4 DEF TypeOK
<1>4. phase' \in {"pair", "promote", "pad", "rest", "fill", "done"}
  BY <1>1 DEF TypeOK
<1>5. TypeOK'
  BY <1>1, <1>2, <1>3, <1>4 DEF TypeOK
<1>6. BigPlaced' /\ DuoHalvesBigEnough' /\ SinglesLast'
  BY <1>2, SameParts
<1> QED
  BY <1>2, <1>5, <1>6 DEF Inv, BigHeld, PairOver
-----------------------------------------------------------------------------
(* Inv is inductive, and every run of the planner keeps it. *)
THEOREM LayoutInvariance == Spec => []Inv
<1>1. Init => Inv
  BY InitInv
<1>2. Inv /\ [Next]_vars => Inv'
  <2> SUFFICES ASSUME Inv, [Next]_vars PROVE Inv'
    OBVIOUS
  <2>1. CASE Pair
    BY <2>1, PopBigInv, MoveOnInv, MakeDuoInv, GrowRegularInv, FoldIntoSingleInv DEF Pair, MoveOn
  <2>2. CASE PromotePass
    BY <2>2, PromoteInv, MoveOnInv DEF PromotePass, MoveOn
  <2>3. CASE PadPass
    BY <2>3, PadInv, MoveOnInv DEF PadPass, MoveOn
  <2>4. CASE Rest
    BY <2>4, MoveOnInv, FillSingleInv, PushSingleInv DEF Rest, MoveOn
  <2>5. CASE UNCHANGED vars
    <3>1. BigPlaced' /\ DuoHalvesBigEnough' /\ SinglesLast'
      BY <2>5, SameParts DEF vars
    <3> QED
      BY <2>5, <3>1 DEF Inv, TypeOK, BigHeld, PairOver, Left, vars
  <2> QED
    BY <2>1, <2>2, <2>3, <2>4, <2>5 DEF Next
<1> QED
  BY <1>1, <1>2, PTL DEF Spec

(* The variables of the planner keep their types; the deque never runs past  *)
(* its ends.                                                                 *)
THEOREM LayoutTypeOK == Spec => []TypeOK
<1>1. Inv => TypeOK
  BY DEF Inv
<1> QED
  BY <1>1, LayoutInvariance, PTL

(* Whatever files are listed, both halves of every Duo can be S3 parts, and  *)
(* no Duo ever follows a Single, so into_part_jobs may merge the Singles     *)
(* into the last upload.                                                     *)
THEOREM LayoutIsLegal == Spec => []LayoutLegal
<1>1. Inv => LayoutLegal
  BY DEF Inv, LayoutLegal
<1> QED
  BY <1>1, LayoutInvariance, PTL
-----------------------------------------------------------------------------
(* Bytes of sequences of jobs and of elements *)

(* A sequence whose members have bytes. *)
Sized(s, n) == n \in Nat /\ DOMAIN s = 1 .. n /\ \A k \in 1 .. n : s[k].bytes \in Nat

LEMMA UpToAgree ==
  ASSUME NEW s, NEW m, Sized(s, m), NEW t, NEW n, Sized(t, n),
         NEW k \in Nat, k <= m, k <= n, \A i \in 1 .. k : s[i].bytes = t[i].bytes
  PROVE  BytesUpTo(s, k) = BytesUpTo(t, k)
<1> DEFINE F == [i \in DOMAIN s |-> s[i].bytes]
           G == [i \in DOMAIN t |-> t[i].bytes]
<1>1. \A i \in 1 .. k : F[i] = G[i]
  BY DEF Sized
<1>2. IsFiniteSet(1 .. k)
  BY FS_Interval, 1 \in Int, k \in Int
<1> HIDE DEF F, G
<1>3. SumFunctionOnSet(F, 1 .. k) = SumFunctionOnSet(G, 1 .. k)
  BY <1>1, <1>2, SumSame
<1> QED
  BY <1>3 DEF F, G, BytesUpTo

LEMMA UpToStep ==
  ASSUME NEW s, NEW n, Sized(s, n)
  PROVE  /\ BytesUpTo(s, 0) = 0
         /\ \A k \in 0 .. n : BytesUpTo(s, k) \in Nat
         /\ \A k \in 1 .. n : BytesUpTo(s, k) = BytesUpTo(s, k - 1) + s[k].bytes
<1> DEFINE F == [i \in DOMAIN s |-> s[i].bytes]
<1>1. n \in Nat /\ \A i \in 1 .. n : F[i] = s[i].bytes /\ F[i] \in Nat
  BY DEF Sized
<1>2. \A k : BytesUpTo(s, k) = SumFunctionOnSet(F, 1 .. k)
  BY DEF BytesUpTo
<1> HIDE DEF F
<1>3. BytesUpTo(s, 0) = 0
  <2>1. 1 .. 0 = {} /\ IsFiniteSet({})
    BY FS_EmptySet
  <2>2. SumFunctionOnSet(F, {}) = 0
    BY <2>1, SumType
  <2> QED
    BY <1>2, <2>1, <2>2, Zenon
<1>4. ASSUME NEW k \in 0 .. n PROVE BytesUpTo(s, k) \in Nat
  <2>1. IsFiniteSet(1 .. k)
    BY <1>1, FS_Interval, 1 \in Int, k \in Int
  <2>2. \A i \in 1 .. k : F[i] \in Nat
    BY <1>1
  <2> QED
    BY <1>2, <2>1, <2>2, SumNat
<1>5. ASSUME NEW k \in 1 .. n PROVE BytesUpTo(s, k) = BytesUpTo(s, k - 1) + s[k].bytes
  <2> DEFINE j == k - 1
  <2>1. j \in Nat /\ (\A i \in 1 .. j : F[i] \in Int /\ F[i] = F[i]) /\ F[j + 1] \in Int /\ j + 1 = k
    BY <1>1
  <2> HIDE DEF j
  <2>2. SumFunctionOnSet(F, 1 .. j + 1) = SumFunctionOnSet(F, 1 .. j) + F[j + 1]
    BY <2>1, SumNext
  <2>3. BytesUpTo(s, k) = BytesUpTo(s, j) + F[k]
    BY <1>2, <2>1, <2>2, Zenon
  <2> QED
    BY <1>1, <2>3 DEF j
<1> QED
  BY <1>3, <1>4, <1>5

(* r is s, of m members, followed by t, of n.                                *)
Follows(r, s, m, t, n) ==
  /\ Sized(s, m) /\ Sized(t, n) /\ Sized(r, m + n)
  /\ \A i \in 1 .. m : r[i].bytes = s[i].bytes /\ r[i].file = s[i].file
  /\ \A i \in 1 .. n : r[m + i].bytes = t[i].bytes /\ r[m + i].file = t[i].file

LEMMA UpToShift ==
  ASSUME NEW s, NEW m, NEW t, NEW n, NEW r, Follows(r, s, m, t, n)
  PROVE  /\ \A k \in 0 .. m : BytesUpTo(r, k) = BytesUpTo(s, k)
         /\ \A k \in 0 .. n : BytesUpTo(r, m + k) = BytesUpTo(s, m) + BytesUpTo(t, k)
<1>0. /\ m \in Nat /\ n \in Nat /\ Sized(s, m) /\ Sized(t, n) /\ Sized(r, m + n)
      /\ \A i \in 1 .. m : r[i].bytes = s[i].bytes
      /\ \A i \in 1 .. n : r[m + i].bytes = t[i].bytes
  BY DEF Follows, Sized
<1>1. ASSUME NEW k \in 0 .. m PROVE BytesUpTo(r, k) = BytesUpTo(s, k)
  BY <1>0, UpToAgree
<1>2. ASSUME NEW k \in 0 .. n PROVE BytesUpTo(r, m + k) = BytesUpTo(s, m) + BytesUpTo(t, k)
  <2> DEFINE F == [i \in DOMAIN r |-> r[i].bytes]
             G == [i \in DOMAIN t |-> t[i].bytes]
  <2>1. (\A i \in 1 .. m + k : F[i] \in Int) /\ \A i \in 1 .. k : G[i] = F[m + i]
    BY <1>0 DEF Sized
  <2>a. \A j : BytesUpTo(r, j) = SumFunctionOnSet(F, 1 .. j) /\ BytesUpTo(t, j) = SumFunctionOnSet(G, 1 .. j)
    BY DEF BytesUpTo
  <2> HIDE DEF F, G
  <2>2. SumFunctionOnSet(F, 1 .. m + k) = SumFunctionOnSet(F, 1 .. m) + SumFunctionOnSet(G, 1 .. k)
    <3>1. k \in Nat /\ m \in Nat
      BY <1>0
    <3>2. \A f, g :
            (\A i \in 1 .. m + k : f[i] \in Int) /\ (\A i \in 1 .. k : g[i] = f[m + i])
            => SumFunctionOnSet(f, 1 .. m + k)
                 = SumFunctionOnSet(f, 1 .. m) + SumFunctionOnSet(g, 1 .. k)
      BY <3>1, SumShift, Zenon
    <3> QED
      BY <2>1, <3>2, Zenon
  <2>3. BytesUpTo(r, m + k) = BytesUpTo(r, m) + BytesUpTo(t, k)
    BY <2>2, <2>a
  <2>4. BytesUpTo(r, m) = BytesUpTo(s, m)
    BY <1>0, <1>1
  <2> QED
    BY <2>3, <2>4
<1> QED
  BY <1>1, <1>2

(* What the members of a sequence carry of a file. *)
LEMMA ShareIs ==
  ASSUME NEW s, NEW n, Sized(s, n), NEW f
  PROVE  /\ Share(f, s) \in Nat
         /\ (\A i \in 1 .. n : s[i].file # f) => Share(f, s) = 0
         /\ \A k \in 1 .. n :
              (s[k].file = f /\ \A i \in 1 .. n : s[i].file = f => i = k) => Share(f, s) = s[k].bytes
<1> DEFINE F == [i \in DOMAIN s |-> IF s[i].file = f THEN s[i].bytes ELSE 0]
<1>1. n \in Nat /\ DOMAIN F = 1 .. n /\ \A i \in 1 .. n : F[i] \in Nat /\ F[i] \in Int
  BY DEF Sized
<1>2. IsFiniteSet(1 .. n)
  BY <1>1, FS_Interval, 1 \in Int, n \in Int
<1>3. (\A i \in 1 .. n : s[i].file # f) => \A i \in 1 .. n : F[i] = 0
  BY DEF Sized
<1>4. \A k \in 1 .. n : (s[k].file = f /\ \A i \in 1 .. n : s[i].file = f => i = k) =>
         F[k] = s[k].bytes /\ \A i \in (1 .. n) \ {k} : F[i] = 0
  BY DEF Sized
<1>5. Share(f, s) = SumFunctionOnSet(F, DOMAIN F)
  BY DEF Share, SumFunction
<1> HIDE DEF F
<1>6. Share(f, s) = SumFunctionOnSet(F, 1 .. n)
  BY <1>1, <1>5, Zenon
<1>7. Share(f, s) \in Nat
  BY <1>1, <1>2, <1>6, SumNat
<1>8. (\A i \in 1 .. n : s[i].file # f) => Share(f, s) = 0
  BY <1>2, <1>3, <1>6, SumZero
<1>9. ASSUME NEW k \in 1 .. n, s[k].file = f, \A i \in 1 .. n : s[i].file = f => i = k
      PROVE  Share(f, s) = s[k].bytes
  <2>1. F[k] = s[k].bytes /\ F[k] \in Int /\ \A i \in (1 .. n) \ {k} : F[i] = 0
    BY <1>1, <1>4, <1>9
  <2>2. SumFunctionOnSet(F, 1 .. n) = F[k]
    BY <1>2, <2>1, SumOne
  <2> QED
    BY <1>6, <2>1, <2>2
<1> QED
  BY <1>7, <1>8, <1>9

LEMMA ShareShift ==
  ASSUME NEW s, NEW m, NEW t, NEW n, NEW r, Follows(r, s, m, t, n), NEW f
  PROVE  Share(f, r) = Share(f, s) + Share(f, t)
<1> DEFINE F(q) == [i \in DOMAIN q |-> IF q[i].file = f THEN q[i].bytes ELSE 0]
<1>0. /\ m \in Nat /\ n \in Nat /\ Sized(s, m) /\ Sized(t, n) /\ Sized(r, m + n)
      /\ \A i \in 1 .. m : r[i].bytes = s[i].bytes /\ r[i].file = s[i].file
      /\ \A i \in 1 .. n : r[m + i].bytes = t[i].bytes /\ r[m + i].file = t[i].file
  BY DEF Follows, Sized
<1>1. DOMAIN F(s) = 1 .. m /\ DOMAIN F(t) = 1 .. n /\ DOMAIN F(r) = 1 .. m + n
  BY <1>0 DEF Sized
<1>2. /\ \A i \in 1 .. m + n : F(r)[i] \in Int
      /\ \A i \in 1 .. m : F(r)[i] = F(s)[i]
  BY <1>0 DEF Sized
<1>3. \A i \in 1 .. n : F(t)[i] = F(r)[m + i]
  <2> SUFFICES ASSUME NEW i \in 1 .. n PROVE F(t)[i] = F(r)[m + i]
    OBVIOUS
  <2>1. m + i \in 1 .. m + n
    BY <1>0
  <2>2. F(t)[i] = IF t[i].file = f THEN t[i].bytes ELSE 0
    BY <1>0 DEF Sized
  <2>3. F(r)[m + i] = IF r[m + i].file = f THEN r[m + i].bytes ELSE 0
    BY <1>0, <2>1 DEF Sized
  <2>4. t[i].file = r[m + i].file /\ t[i].bytes = r[m + i].bytes
    BY <1>0
  <2> QED
    BY <2>2, <2>3, <2>4, Zenon
<1>4. \A q : Share(f, q) = SumFunctionOnSet(F(q), DOMAIN F(q))
  BY DEF Share, SumFunction
<1> HIDE DEF F
<1>5. /\ Share(f, s) = SumFunctionOnSet(F(s), 1 .. m)
      /\ Share(f, t) = SumFunctionOnSet(F(t), 1 .. n)
      /\ Share(f, r) = SumFunctionOnSet(F(r), 1 .. m + n)
  BY <1>1, <1>4, Zenon
<1>6. SumFunctionOnSet(F(r), 1 .. m + n)
        = SumFunctionOnSet(F(r), 1 .. m) + SumFunctionOnSet(F(t), 1 .. n)
  <2>1. \A a, b :
          (\A i \in 1 .. m + n : a[i] \in Int) /\ (\A i \in 1 .. n : b[i] = a[m + i])
          => SumFunctionOnSet(a, 1 .. m + n)
               = SumFunctionOnSet(a, 1 .. m) + SumFunctionOnSet(b, 1 .. n)
    BY <1>0, SumShift, Zenon
  <2> QED
    BY <1>2, <1>3, <2>1, Zenon
<1>7. SumFunctionOnSet(F(r), 1 .. m) = SumFunctionOnSet(F(s), 1 .. m)
  <2>1. IsFiniteSet(1 .. m)
    BY <1>0, FS_Interval, 1 \in Int, m \in Int
  <2> QED
    BY <1>2, <2>1, SumSame
<1> QED
  BY <1>5, <1>6, <1>7
-----------------------------------------------------------------------------
(* Every file is laid out once *)

EntriesOf(r) == {r.entries[j] : j \in DOMAIN r.entries}
FilesOf(p) == EntriesOf(p.regular) \cup (IF p.kind = "duo" THEN {p.big} ELSE {})

(* The entries of a regular part are listed files, each once, and its        *)
(* part_size is what they take.                                              *)
Sound(r) ==
  /\ \A j \in DOMAIN r.entries : r.entries[j] \in Files
  /\ \A i, j \in DOMAIN r.entries : r.entries[i] = r.entries[j] => i = j
  /\ r.bytes = BytesBefore(r.entries, Len(r.entries) + 1)

Regulars == {r \in RegularPart : Sound(r)}

(* The files a pass has taken out of the deque and not put in a part yet.    *)
Growing == big # 0 \/ phase = "fill"
InHand ==
  (IF big # 0 THEN {big} ELSE {}) \cup (IF Growing THEN EntriesOf(regular) ELSE {})

Popped == {f \in Files : f < lo \/ f > hi}
Laid == UNION {FilesOf(parts[i]) : i \in DOMAIN parts}

AllSound ==
  /\ Growing => regular \in Regulars
  /\ big # 0 => big \notin EntriesOf(regular)
  /\ \A i \in DOMAIN parts :
       /\ parts[i].regular \in Regulars
       /\ parts[i].kind = "duo" => parts[i].big \notin EntriesOf(parts[i].regular)

Apart == \A i, j \in DOMAIN parts : i # j => FilesOf(parts[i]) \cap FilesOf(parts[j]) = {}

LaidOnce ==
  /\ InHand \cup Laid = Popped
  /\ InHand \cap Laid = {}

Placement == AllSound /\ Apart /\ LaidOnce
-----------------------------------------------------------------------------
LEMMA SameSizes ==
  ASSUME UNCHANGED size
  PROVE  Files' = Files /\ Regulars' = Regulars
  BY DEF Files, Regulars, Sound, BytesBefore, EntrySize, Loc, RegularPart

LEMMA EmptyIsSound ==
  Empty \in Regulars /\ EntriesOf(Empty) = {}
<1>1. Empty \in RegularPart /\ Empty.entries = <<>> /\ Empty.bytes = 0 /\ Len(<<>>) + 1 - 1 = 0
  BY DEF Empty, RegularPart
<1>2. BytesBefore(<<>>, Len(<<>>) + 1) = 0
  <2>1. 1 .. (Len(<<>>) + 1) - 1 = {} /\ IsFiniteSet({})
    BY FS_EmptySet
  <2>2. \A f : SumFunctionOnSet(f, {}) = 0
    BY <2>1, SumType
  <2> QED
    BY <2>1, <2>2, Zenon DEF BytesBefore
<1>3. Sound(Empty)
  BY <1>1, <1>2 DEF Sound
<1> QED
  BY <1>1, <1>3 DEF Regulars, EntriesOf

LEMMA PushIsSound ==
  ASSUME TypeOK, NEW r \in Regulars, NEW f \in Files, f \notin EntriesOf(r)
  PROVE  /\ Push(r, f) \in Regulars /\ EntriesOf(Push(r, f)) = EntriesOf(r) \cup {f}
         /\ Push(r, f).bytes = r.bytes + EntrySize(f)
<1> DEFINE s == r.entries
           t == Append(s, f)
           n == Len(s)
<1>1. r \in RegularPart /\ Sound(r) /\ s \in Seq(Nat) /\ n \in Nat /\ DOMAIN s = 1 .. n
  BY DEF Regulars, RegularPart
<1>2. /\ Push(r, f) \in RegularPart /\ Push(r, f).entries = t
      /\ Push(r, f).bytes = r.bytes + EntrySize(f)
  BY <1>1, PushedPart DEF Push, RegularPart, Files
<1>3. /\ DOMAIN t = 1 .. n + 1 /\ Len(t) = n + 1 /\ t[n + 1] = f
      /\ \A j \in 1 .. n : t[j] = s[j]
  BY <1>1 DEF Files
<1>4. \A j \in 1 .. n : s[j] \in Files /\ EntrySize(s[j]) \in Nat
  BY <1>1, EntrySizes DEF Sound, Files
<1>5. EntrySize(f) \in Nat
  BY EntrySizes DEF Files
<1> HIDE DEF s, t, n
<1>6. BytesBefore(t, n + 2) = BytesBefore(s, n + 1) + EntrySize(f)
  <2> DEFINE F == [j \in DOMAIN s |-> EntrySize(s[j])]
             G == [j \in DOMAIN t |-> EntrySize(t[j])]
  <2>1. \A j \in 1 .. n : F[j] = EntrySize(s[j]) /\ G[j] = EntrySize(t[j])
    BY <1>1, <1>3
  <2>2. (\A j \in 1 .. n : G[j] \in Int /\ F[j] = G[j]) /\ G[n + 1] \in Int /\ G[n + 1] = EntrySize(f)
    BY <1>1, <1>3, <1>4, <1>5, <2>1
  <2>3. BytesBefore(t, n + 2) = SumFunctionOnSet(G, 1 .. (n + 2) - 1)
    BY DEF BytesBefore
  <2>4. BytesBefore(s, n + 1) = SumFunctionOnSet(F, 1 .. (n + 1) - 1)
    BY DEF BytesBefore
  <2> HIDE DEF F, G
  <2>5. (n + 2) - 1 = n + 1 /\ (n + 1) - 1 = n
    BY <1>1
  <2>6. SumFunctionOnSet(G, 1 .. n + 1) = SumFunctionOnSet(F, 1 .. n) + G[n + 1]
    BY <1>1, <2>2, SumNext
  <2>7. BytesBefore(t, n + 2) = SumFunctionOnSet(G, 1 .. n + 1) /\ BytesBefore(s, n + 1) = SumFunctionOnSet(F, 1 .. n)
    BY <2>3, <2>4, <2>5, Zenon
  <2> QED
    BY <2>2, <2>6, <2>7
<1>7. r.bytes = BytesBefore(s, n + 1)
  BY <1>1 DEF Sound, s, n
<1>8. Push(r, f).bytes = BytesBefore(t, Len(t) + 1)
  <2>1. Len(t) + 1 = n + 2
    BY <1>1, <1>3
  <2> QED
    BY <1>2, <1>6, <1>7, <2>1, Zenon
<1>9. \A j \in 1 .. n : s[j] # f
  BY <1>1 DEF EntriesOf, s
<1>10. \A i, j \in 1 .. n : s[i] = s[j] => i = j
  BY <1>1 DEF Sound, s
<1>11. Sound(Push(r, f))
  <2>1. \A j \in DOMAIN t : t[j] \in Files
    BY <1>1, <1>3, <1>4
  <2>2. \A i, j \in DOMAIN t : t[i] = t[j] => i = j
    BY <1>1, <1>3, <1>9, <1>10
  <2> QED
    BY <1>2, <1>8, <2>1, <2>2 DEF Sound
<1>12. EntriesOf(Push(r, f)) = EntriesOf(r) \cup {f}
  BY <1>1, <1>2, <1>3 DEF EntriesOf, s
<1> QED
  BY <1>2, <1>11, <1>12 DEF Regulars

(* A part appended after the others. *)
LEMMA AppendedPart ==
  ASSUME TypeOK, Placement, UNCHANGED size, NEW p \in LayoutPart, parts' = Append(parts, p),
         p.regular \in Regulars, p.kind = "duo" => p.big \notin EntriesOf(p.regular),
         FilesOf(p) \cap Laid = {}
  PROVE  /\ Apart' /\ Laid' = Laid \cup FilesOf(p)
         /\ \A i \in DOMAIN parts' :
              /\ parts'[i].regular \in Regulars'
              /\ parts'[i].kind = "duo" => parts'[i].big \notin EntriesOf(parts'[i].regular)
<1> DEFINE n == Len(parts)
<1>1. /\ n \in Nat /\ DOMAIN parts = 1 .. n /\ DOMAIN parts' = 1 .. n + 1
      /\ parts'[n + 1] = p /\ \A i \in 1 .. n : parts'[i] = parts[i]
  BY DEF TypeOK
<1>2. Regulars' = Regulars
  BY SameSizes
<1>3. \A i \in 1 .. n : FilesOf(parts[i]) \cap FilesOf(p) = {}
  BY <1>1 DEF Laid
<1>4. Apart'
  BY <1>1, <1>3 DEF Placement, Apart
<1>5. Laid' = Laid \cup FilesOf(p)
  BY <1>1 DEF Laid
<1> QED
  BY <1>1, <1>2, <1>4, <1>5 DEF Placement, AllSound

(* A file that joins the regular half of a Duo. *)
LEMMA JoinedPart ==
  ASSUME TypeOK, Placement, UNCHANGED size, at \in DOMAIN parts, parts[at].kind = "duo",
         NEW f \in Files, f \notin Laid, NEW s,
         parts' = [parts EXCEPT ![at] = [@ EXCEPT !.regular = Push(parts[at].regular, f), !.start = s]]
  PROVE  /\ Apart' /\ Laid' = Laid \cup {f}
         /\ \A i \in DOMAIN parts' :
              /\ parts'[i].regular \in Regulars'
              /\ parts'[i].kind = "duo" => parts'[i].big \notin EntriesOf(parts'[i].regular)
<1> DEFINE r == Push(parts[at].regular, f)
           q == [parts[at] EXCEPT !.regular = r, !.start = s]
<1>1. /\ parts[at] \in LayoutPart /\ parts[at].regular \in Regulars
      /\ parts[at].big \notin EntriesOf(parts[at].regular)
  BY DEF TypeOK, Placement, AllSound
<1>2. f \notin FilesOf(parts[at])
  BY DEF Laid
<1>3. f \notin EntriesOf(parts[at].regular) /\ f # parts[at].big
  BY <1>2 DEF FilesOf
<1>4. r \in Regulars /\ EntriesOf(r) = EntriesOf(parts[at].regular) \cup {f}
  BY <1>1, <1>3, PushIsSound
<1> HIDE DEF r
<1>5. q.regular = r /\ q.kind = "duo" /\ q.big = parts[at].big
  BY <1>1 DEF LayoutPart
<1>6. parts' = [parts EXCEPT ![at] = q]
  BY DEF r
<1>7. DOMAIN parts' = DOMAIN parts /\ \A i \in DOMAIN parts : parts'[i] = IF i = at THEN q ELSE parts[i]
  BY <1>6 DEF TypeOK
<1> HIDE DEF q
<1>8. FilesOf(q) = FilesOf(parts[at]) \cup {f}
  BY <1>4, <1>5 DEF FilesOf
<1>9. \A i \in DOMAIN parts : f \notin FilesOf(parts[i])
  BY DEF Laid
<1>10. Apart'
  <2> SUFFICES ASSUME NEW i \in DOMAIN parts, NEW j \in DOMAIN parts, i # j
               PROVE  FilesOf(parts'[i]) \cap FilesOf(parts'[j]) = {}
    BY <1>7 DEF Apart
  <2>1. FilesOf(parts[i]) \cap FilesOf(parts[j]) = {}
    BY DEF Placement, Apart
  <2>2. CASE i = at
    BY <1>7, <1>8, <1>9, <2>1, <2>2
  <2>3. CASE j = at
    BY <1>7, <1>8, <1>9, <2>1, <2>3
  <2>4. CASE i # at /\ j # at
    BY <1>7, <2>1, <2>4
  <2> QED
    BY <2>2, <2>3, <2>4
<1>11. Laid' = Laid \cup {f}
  <2>1. \A i \in DOMAIN parts : i # at => FilesOf(parts'[i]) = FilesOf(parts[i])
    BY <1>7
  <2>2. FilesOf(parts'[at]) = FilesOf(parts[at]) \cup {f}
    BY <1>7, <1>8
  <2> QED
    BY <1>7, <2>1, <2>2 DEF Laid
<1>12. Regulars' = Regulars
  BY SameSizes
<1>13. \A i \in DOMAIN parts' :
         /\ parts'[i].regular \in Regulars'
         /\ parts'[i].kind = "duo" => parts'[i].big \notin EntriesOf(parts'[i].regular)
  <2> SUFFICES ASSUME NEW i \in DOMAIN parts'
               PROVE  /\ parts'[i].regular \in Regulars'
                      /\ parts'[i].kind = "duo" => parts'[i].big \notin EntriesOf(parts'[i].regular)
    OBVIOUS
  <2>1. CASE i = at
    <3>1. parts[at].big \notin EntriesOf(r)
      BY <1>1, <1>3, <1>4
    <3>2. q.regular \in Regulars /\ q.big \notin EntriesOf(q.regular)
      BY <1>4, <1>5, <3>1, Zenon
    <3> QED
      <4>1. parts'[i] = q
        BY <1>7, <2>1
      <4> QED
        BY <1>12, <3>2, <4>1, Zenon
  <2>2. CASE i # at
    BY <1>7, <1>12, <2>2 DEF Placement, AllSound
  <2> QED
    BY <2>1, <2>2
<1> QED
  BY <1>10, <1>11, <1>13

LEMMA LeaveParts ==
  ASSUME Placement, UNCHANGED <<size, parts>>
  PROVE  /\ Apart' /\ Laid' = Laid
         /\ \A i \in DOMAIN parts' :
              /\ parts'[i].regular \in Regulars'
              /\ parts'[i].kind = "duo" => parts'[i].big \notin EntriesOf(parts'[i].regular)
<1>1. Regulars' = Regulars
  BY SameSizes
<1> QED
  BY <1>1 DEF Placement, AllSound, Apart, Laid

(* The file at one end of the deque is taken. *)
LEMMA PopLow ==
  ASSUME TypeOK, Left, UNCHANGED <<size, hi>>, lo' = lo + 1
  PROVE  lo \in Files /\ lo \notin Popped /\ Popped' = Popped \cup {lo}
  BY DEF TypeOK, Left, Files, Popped

LEMMA PopHigh ==
  ASSUME TypeOK, Left, UNCHANGED <<size, lo>>, hi' = hi - 1
  PROVE  hi \in Files /\ hi # 0 /\ hi \notin Popped /\ Popped' = Popped \cup {hi}
  BY DEF TypeOK, Left, Files, Popped

LEMMA PlacementPair ==
  Inv /\ Placement /\ (PopBig \/ MakeDuo \/ GrowRegular \/ FoldIntoSingle) => Placement'
<1> SUFFICES ASSUME Inv, Placement, PopBig \/ MakeDuo \/ GrowRegular \/ FoldIntoSingle
             PROVE  Placement'
  OBVIOUS
<1>0. TypeOK /\ TypeOK' /\ (big # 0 => phase = "pair" /\ big \in Files)
  BY PopBigInv, MakeDuoInv, GrowRegularInv, FoldIntoSingleInv DEF Inv, BigHeld, TypeOK, Files
<1>1. CASE PopBig
  <2>1. /\ Left /\ hi' = hi - 1 /\ big = 0 /\ big' = hi /\ regular' = Empty /\ phase = "pair"
        /\ UNCHANGED <<size, phase, lo, parts, at>>
    BY <1>1 DEF PopBig
  <2>2. hi \in Files /\ hi # 0 /\ hi \notin Popped /\ Popped' = Popped \cup {hi}
    BY <1>0, <2>1, PopHigh
  <2>3. regular' \in Regulars' /\ EntriesOf(regular') = {}
    BY <2>1, EmptyIsSound, SameSizes
  <2>4. InHand = {} /\ InHand' = {hi}
    BY <2>1, <2>2, <2>3 DEF InHand, Growing
  <2> QED
    BY <2>1, <2>2, <2>3, <2>4, LeaveParts DEF Placement, AllSound, LaidOnce
<1>2. CASE MakeDuo
  <2> DEFINE p == Duo(regular, big, Start(big, regular.bytes))
  <2>1. /\ big # 0 /\ big' = 0 /\ parts' = Append(parts, p)
        /\ UNCHANGED <<size, phase, lo, hi, regular, at>>
    BY <1>2 DEF MakeDuo
  <2>2. regular \in Regulars /\ big \notin EntriesOf(regular) /\ phase = "pair"
    BY <1>0, <2>1 DEF Placement, AllSound, Growing
  <2>3. p \in LayoutPart
    <3>1. parts' \in Seq(LayoutPart) /\ parts'[Len(parts) + 1] = p /\ Len(parts) + 1 \in DOMAIN parts'
      BY <1>0, <2>1 DEF TypeOK
    <3> QED
      BY <3>1
  <2>4. p.regular = regular /\ p.big = big /\ p.kind = "duo"
    BY DEF Duo
  <2> HIDE DEF p
  <2>5. FilesOf(p) = InHand
    BY <2>1, <2>4 DEF FilesOf, InHand, Growing
  <2>6. InHand' = {}
    BY <2>1, <2>2 DEF InHand, Growing
  <2>7. Popped' = Popped
    BY <2>1 DEF Popped, Files
  <2>8. FilesOf(p) \cap Laid = {}
    BY <2>5 DEF Placement, LaidOnce
  <2>9. /\ Apart' /\ Laid' = Laid \cup FilesOf(p)
        /\ \A i \in DOMAIN parts' :
             /\ parts'[i].regular \in Regulars'
             /\ parts'[i].kind = "duo" => parts'[i].big \notin EntriesOf(parts'[i].regular)
    BY <1>0, <2>1, <2>2, <2>3, <2>4, <2>8, AppendedPart
  <2> QED
    BY <2>1, <2>2, <2>5, <2>6, <2>7, <2>9 DEF Placement, AllSound, LaidOnce, Growing
<1>3. CASE GrowRegular
  <2>1. /\ big # 0 /\ Left /\ regular' = Push(regular, lo) /\ lo' = lo + 1
        /\ UNCHANGED <<size, phase, hi, big, parts, at>>
    BY <1>3 DEF GrowRegular
  <2>2. lo \in Files /\ lo \notin Popped /\ Popped' = Popped \cup {lo}
    BY <1>0, <2>1, PopLow
  <2>3. lo \notin InHand /\ lo \notin Laid
    BY <2>2 DEF Placement, LaidOnce
  <2>4. regular \in Regulars /\ big \notin EntriesOf(regular)
    BY <2>1 DEF Placement, AllSound, Growing
  <2>5. lo \notin EntriesOf(regular) /\ lo # big
    BY <2>1, <2>3 DEF InHand, Growing
  <2>6. regular' \in Regulars' /\ EntriesOf(regular') = EntriesOf(regular) \cup {lo}
    BY <1>0, <2>1, <2>2, <2>4, <2>5, PushIsSound, SameSizes
  <2>7. InHand' = InHand \cup {lo}
    BY <2>1, <2>6 DEF InHand, Growing
  <2> QED
    BY <2>1, <2>2, <2>3, <2>4, <2>5, <2>6, <2>7, LeaveParts DEF Placement, AllSound, LaidOnce
<1>4. CASE FoldIntoSingle
  <2> DEFINE r == Push(regular, big)
             p == Single(r)
  <2>1. /\ big # 0 /\ big' = 0 /\ parts' = Append(parts, p)
        /\ UNCHANGED <<size, phase, lo, hi, regular, at>>
    BY <1>4 DEF FoldIntoSingle
  <2>2. regular \in Regulars /\ big \notin EntriesOf(regular) /\ phase = "pair" /\ big \in Files
    BY <1>0, <2>1 DEF Placement, AllSound, Growing
  <2>3. r \in Regulars /\ EntriesOf(r) = EntriesOf(regular) \cup {big}
    BY <1>0, <2>2, PushIsSound
  <2>4. r \in RegularPart
    BY <2>3 DEF Regulars
  <2> HIDE DEF r
  <2>5. p \in LayoutPart /\ p.regular = r /\ p.kind # "duo"
    BY <2>4 DEF Single, LayoutPart
  <2> HIDE DEF p
  <2>6. FilesOf(p) = InHand
    BY <2>1, <2>3, <2>5 DEF FilesOf, InHand, Growing
  <2>7. InHand' = {}
    BY <2>1, <2>2 DEF InHand, Growing
  <2>8. Popped' = Popped
    BY <2>1 DEF Popped, Files
  <2>9. FilesOf(p) \cap Laid = {}
    BY <2>6 DEF Placement, LaidOnce
  <2>10. /\ Apart' /\ Laid' = Laid \cup FilesOf(p)
         /\ \A i \in DOMAIN parts' :
              /\ parts'[i].regular \in Regulars'
              /\ parts'[i].kind = "duo" => parts'[i].big \notin EntriesOf(parts'[i].regular)
    BY <1>0, <2>1, <2>3, <2>5, <2>9, AppendedPart
  <2> QED
    BY <2>1, <2>2, <2>6, <2>7, <2>8, <2>10 DEF Placement, AllSound, LaidOnce, Growing
<1> QED
  BY <1>1, <1>2, <1>3, <1>4

LEMMA PlacementPasses == Inv /\ Placement /\ (Promote \/ Pad) => Placement'
<1> SUFFICES ASSUME Inv, Placement, Promote \/ Pad PROVE Placement'
  OBVIOUS
<1>1. TypeOK
  BY DEF Inv
<1>2. /\ Left /\ lo' = lo + 1 /\ phase \in {"promote", "pad"}
      /\ at \in DOMAIN parts /\ parts[at].kind = "duo"
      /\ UNCHANGED <<size, phase, hi, big, regular, at>>
  BY <1>1 DEF Promote, Pad, Absorb, InPass, Partial, Short, TypeOK
<1>3. \E s : parts' = [parts EXCEPT ![at] =
                         [@ EXCEPT !.regular = Push(parts[at].regular, lo), !.start = s]]
  <2>0. parts[at] \in LayoutPart
    BY <1>1, <1>2 DEF TypeOK
  <2>1. CASE Promote
    BY <2>1 DEF Promote, Absorb
  <2>2. CASE Pad
    <3>1. parts' = [parts EXCEPT ![at] = [@ EXCEPT !.regular = Push(parts[at].regular, lo),
                                                    !.start = parts[at].start]]
      BY <2>0, <2>2 DEF Pad, LayoutPart
    <3> QED
      BY <3>1
  <2> QED
    BY <2>1, <2>2
<1>4. lo \in Files /\ lo \notin Popped /\ Popped' = Popped \cup {lo}
  BY <1>1, <1>2, PopLow
<1>5. lo \notin Laid
  BY <1>4 DEF Placement, LaidOnce
<1>6. /\ Apart' /\ Laid' = Laid \cup {lo}
      /\ \A i \in DOMAIN parts' :
           /\ parts'[i].regular \in Regulars'
           /\ parts'[i].kind = "duo" => parts'[i].big \notin EntriesOf(parts'[i].regular)
  <2>1. PICK s : parts' = [parts EXCEPT ![at] =
                             [@ EXCEPT !.regular = Push(parts[at].regular, lo), !.start = s]]
    BY <1>3
  <2> QED
    BY <1>1, <1>2, <1>4, <1>5, <2>1, JoinedPart
<1>7. big = 0
  BY <1>2 DEF Inv, BigHeld
<1>8. InHand = {} /\ InHand' = {} /\ ~Growing'
  BY <1>2, <1>7 DEF InHand, Growing
<1> QED
  BY <1>2, <1>4, <1>6, <1>7, <1>8 DEF Placement, AllSound, LaidOnce

LEMMA PlacementRest == Inv /\ Placement /\ (FillSingle \/ PushSingle \/ MoveOn) => Placement'
<1> SUFFICES ASSUME Inv, Placement, FillSingle \/ PushSingle \/ MoveOn PROVE Placement'
  OBVIOUS
<1>0. TypeOK /\ (big # 0 => phase = "pair")
  BY DEF Inv, BigHeld
<1>1. CASE FillSingle
  <2>1. /\ phase = "fill" /\ Left /\ regular' = Push(regular, lo) /\ lo' = lo + 1 /\ big = 0
        /\ UNCHANGED <<size, phase, hi, big, parts, at>>
    BY <1>0, <1>1 DEF FillSingle
  <2>2. lo \in Files /\ lo \notin Popped /\ Popped' = Popped \cup {lo}
    BY <1>0, <2>1, PopLow
  <2>3. lo \notin InHand /\ lo \notin Laid
    BY <2>2 DEF Placement, LaidOnce
  <2>4. regular \in Regulars /\ InHand = EntriesOf(regular)
    BY <2>1 DEF Placement, AllSound, Growing, InHand
  <2>5. regular' \in Regulars' /\ EntriesOf(regular') = EntriesOf(regular) \cup {lo}
    BY <1>0, <2>1, <2>2, <2>3, <2>4, PushIsSound, SameSizes
  <2>6. InHand' = InHand \cup {lo}
    BY <2>1, <2>4, <2>5 DEF InHand, Growing
  <2> QED
    BY <2>1, <2>2, <2>3, <2>5, <2>6, LeaveParts DEF Placement, AllSound, LaidOnce
<1>2. CASE PushSingle
  <2> DEFINE p == Single(regular)
  <2>1. /\ phase = "fill" /\ phase' = "rest" /\ parts' = Append(parts, p) /\ big = 0
        /\ UNCHANGED <<size, lo, hi, big, regular, at>>
    BY <1>0, <1>2 DEF PushSingle
  <2>2. regular \in Regulars /\ InHand = EntriesOf(regular) /\ regular \in RegularPart
    BY <2>1 DEF Placement, AllSound, Growing, InHand, Regulars
  <2>3. p \in LayoutPart /\ p.regular = regular /\ p.kind # "duo"
    BY <2>2 DEF Single, LayoutPart
  <2> HIDE DEF p
  <2>4. FilesOf(p) = InHand
    BY <2>2, <2>3 DEF FilesOf
  <2>5. InHand' = {} /\ ~Growing' /\ Popped' = Popped
    BY <2>1 DEF InHand, Growing, Popped, Files
  <2>6. FilesOf(p) \cap Laid = {}
    BY <2>4 DEF Placement, LaidOnce
  <2>7. /\ Apart' /\ Laid' = Laid \cup FilesOf(p)
        /\ \A i \in DOMAIN parts' :
             /\ parts'[i].regular \in Regulars'
             /\ parts'[i].kind = "duo" => parts'[i].big \notin EntriesOf(parts'[i].regular)
    BY <1>0, <2>1, <2>2, <2>3, <2>6, AppendedPart
  <2> QED
    BY <2>1, <2>4, <2>5, <2>7 DEF Placement, AllSound, LaidOnce
<1>3. CASE MoveOn
  <2>1. /\ UNCHANGED <<size, lo, hi, big, parts>> /\ big = 0 /\ phase # "fill"
        /\ (phase' = "fill" => regular' = Empty)
    BY <1>0, <1>3
       DEF MoveOn, PairDone, NewSingle, LayoutDone, PromoteNext, PromoteStop, PromoteDone,
           PadNext, PadStop, PadDone, InPass, Skip, GiveUp, PassOver
  <2>2. Popped' = Popped /\ InHand = {}
    BY <2>1 DEF Popped, Files, InHand, Growing
  <2>3. InHand' = {} /\ (Growing' => regular' \in Regulars')
    BY <2>1, EmptyIsSound, SameSizes DEF InHand, Growing
  <2> QED
    BY <2>1, <2>2, <2>3, LeaveParts DEF Placement, AllSound, LaidOnce
<1> QED
  BY <1>1, <1>2, <1>3

LEMMA PlacementInit == Init => Placement
<1> SUFFICES ASSUME Init PROVE Placement
  OBVIOUS
<1>1. TypeOK
  BY InitInv DEF Inv
<1>2. parts = <<>> /\ big = 0 /\ phase = "pair" /\ lo = 1 /\ hi = Len(size)
  BY DEF Init
<1>3. InHand = {} /\ Laid = {} /\ ~Growing /\ Popped = {}
  BY <1>1, <1>2 DEF InHand, Growing, Laid, Popped, Files, TypeOK
<1> QED
  BY <1>2, <1>3 DEF Placement, AllSound, Apart, LaidOnce

-----------------------------------------------------------------------------
(* The regular half of every Duo fits the budget *)

Sorted == \A f, g \in Files : f <= g => size[f] <= size[g]

(* The file held is the next one after the deque.                            *)
HandFits == big # 0 => hi = big - 1 /\ regular.bytes + Loc(big) <= MaxMemory

(* The second pass only absorbs where a start is left, and leaves none       *)
(* behind while there are files.                                             *)
HalfFits(i) ==
  /\ UploadHalf(parts[i]) <= MaxMemory
  /\ phase \in {"pair", "promote"} /\ parts[i].start > 0 => UploadHalf(parts[i]) = MinPart
  /\ phase = "promote" /\ i < at => parts[i].start = 0
  /\ phase \in {"pad", "rest", "fill"} /\ Left => parts[i].start = 0

HalvesFit == \A i \in DOMAIN parts : parts[i].kind = "duo" => HalfFits(i)

(* After the first pass only files below MinPart are left.                   *)
SmallLeft == phase # "pair" /\ Left => size[hi] < MinPart

Fit == Sorted /\ HandFits /\ HalvesFit /\ SmallLeft
-----------------------------------------------------------------------------
LEMMA LocFits ==
  ASSUME TypeOK, NEW f \in Files
  PROVE  /\ f \in 1 .. MaxFiles /\ size[f] \in Nat /\ Loc(f) \in Nat /\ EntrySize(f) = Loc(f) + size[f]
         /\ 2 * MinPart + Loc(f) <= MaxMemory
         /\ \A b \in Files : Target + MinPart + Loc(f) + Loc(b) <= MaxMemory
<1>1. \A b \in Files : b \in 1 .. MaxFiles /\ size[b] \in Nat /\ Loc(b) \in Nat
  BY EntrySizes, LayoutAssumption DEF Files, TypeOK
<1>2. \A b \in Files : NameLen[b] \in Nat
  BY <1>1, LayoutAssumption
<1>3. \A b \in Files : Loc(b) <= LongestLoc(b) /\ LongestLoc(b) \in Nat
  BY <1>1, <1>2, FormatAssumption DEF Loc, LongestLoc, LocSize
<1>4. MinPart \in Nat /\ Target \in Nat /\ MaxMemory \in Nat
  BY LayoutAssumption, BuilderAssumption
<1>5. /\ 2 * MinPart + LongestLoc(f) <= MaxMemory
      /\ \A b \in Files : Target + MinPart + LongestLoc(f) + LongestLoc(b) <= MaxMemory
  BY <1>1, BuilderAssumption
<1>6. 2 * MinPart + Loc(f) <= MaxMemory
  BY <1>1, <1>3, <1>4, <1>5
<1>7. ASSUME NEW b \in Files PROVE Target + MinPart + Loc(f) + Loc(b) <= MaxMemory
  BY <1>1, <1>3, <1>4, <1>5
<1> QED
  BY <1>1, <1>6, <1>7 DEF EntrySize

LEMMA FitInit == Init => Fit
<1> SUFFICES ASSUME Init PROVE Fit
  OBVIOUS
<1>1. PICK n \in 0 .. MaxFiles : size \in SortedSizes(n)
  BY DEF Init
<1>2. size \in Seq(FileSizes) /\ Len(size) = n
  BY <1>1, SizesAreSeq
<1>3. \A f \in Files : size[f] \in Nat
  <2>1. \A f \in Files : size[f] \in FileSizes
    BY <1>2 DEF Files
  <2> QED
    BY <2>1, LayoutAssumption
<1>4. Sorted
  BY <1>1, <1>2, <1>3 DEF Sorted, Files, SortedSizes
<1> QED
  BY <1>4 DEF Init, Fit, HandFits, HalvesFit, SmallLeft

(* A Duo appended. *)
LEMMA FitMakeDuo == Inv /\ Fit /\ MakeDuo => Fit'
<1> SUFFICES ASSUME Inv, Fit, MakeDuo PROVE Fit'
  OBVIOUS
<1> DEFINE start == Start(big, regular.bytes)
           p == Duo(regular, big, start)
           n == Len(parts)
<1>1. /\ TypeOK /\ big \in Files /\ phase = "pair" /\ big' = 0 /\ parts' = Append(parts, p)
      /\ UNCHANGED <<size, phase, lo, hi, regular, at>>
  BY DEF Inv, TypeOK, BigHeld, MakeDuo, Files
<1>2. /\ regular.bytes \in Nat /\ Loc(big) \in Nat /\ MinPart \in Nat /\ MaxMemory \in Nat
      /\ regular.bytes + Loc(big) <= MaxMemory /\ MinPart <= MaxMemory
  <2>1. 2 * MinPart + Loc(big) <= MaxMemory /\ Loc(big) \in Nat
    BY <1>1, LocFits
  <2>2. MinPart \in Nat /\ MaxMemory \in Nat
    BY LayoutAssumption, BuilderAssumption
  <2>3. regular.bytes \in Nat
    BY <1>1 DEF TypeOK, RegularPart
  <2>4. regular.bytes + Loc(big) <= MaxMemory
    BY <1>1 DEF Fit, HandFits, MakeDuo
  <2> QED
    BY <2>1, <2>2, <2>3, <2>4
<1>3. /\ start \in Nat /\ regular.bytes + Loc(big) + start <= MaxMemory
      /\ start > 0 => regular.bytes + Loc(big) + start = MinPart
  <2> DEFINE r == regular.bytes
             l == Loc(big)
  <2>1. start = Minus(Minus(MinPart, r), l)
    BY DEF Start
  <2>2. r \in Nat /\ l \in Nat /\ r + l <= MaxMemory
    BY <1>2
  <2> HIDE DEF r, l, start
  <2>3. /\ start \in Nat /\ r + l + start <= MaxMemory
        /\ start > 0 => r + l + start = MinPart
    BY <1>2, <2>1, <2>2 DEF Minus
  <2> QED
    BY <2>3 DEF r, l
<1> HIDE DEF start
<1>4. p.kind = "duo" /\ p.regular = regular /\ p.big = big /\ p.start = start
  BY DEF Duo
<1> HIDE DEF p
<1>5. /\ n \in Nat /\ DOMAIN parts = 1 .. n /\ DOMAIN parts' = 1 .. n + 1
      /\ parts'[n + 1] = p /\ \A i \in 1 .. n : parts'[i] = parts[i]
  BY <1>1 DEF TypeOK
<1>6. HalvesFit'
  <2> SUFFICES ASSUME NEW i \in 1 .. n + 1, parts'[i].kind = "duo" PROVE HalfFits(i)'
    BY <1>5 DEF HalvesFit
  <2>1. CASE i = n + 1
    <3>1. UploadHalf(parts[i])' = regular.bytes + Loc(big) + start
      BY <1>1, <1>4, <1>5, <2>1 DEF UploadHalf, Loc
    <3>2. parts'[i].start = start
      BY <1>4, <1>5, <2>1
    <3> QED
      BY <1>1, <1>3, <3>1, <3>2 DEF HalfFits
  <2>2. CASE i \in 1 .. n
    <3>1. parts[i].kind = "duo" /\ parts'[i] = parts[i]
      BY <1>5, <2>2
    <3>2. HalfFits(i)
      BY <1>5, <2>2, <3>1 DEF Fit, HalvesFit
    <3>3. UploadHalf(parts[i])' = UploadHalf(parts[i])
      BY <1>1, <3>1 DEF UploadHalf, Loc
    <3> QED
      BY <1>1, <3>1, <3>2, <3>3 DEF HalfFits
  <2> QED
    BY <1>5, <2>1, <2>2
<1> QED
  BY <1>1, <1>6 DEF Fit, Sorted, HandFits, SmallLeft, Files, Left

(* A Single appended changes no Duo. *)
LEMMA FitAppendSingle ==
  ASSUME TypeOK, Fit, NEW r, parts' = Append(parts, Single(r)), UNCHANGED <<size, lo, hi, at>>,
         \/ phase = "pair" /\ phase' = "pair"
         \/ phase = "fill" /\ phase' = "rest"
  PROVE  HalvesFit'
<1> DEFINE n == Len(parts)
<1>1. /\ n \in Nat /\ DOMAIN parts = 1 .. n /\ DOMAIN parts' = 1 .. n + 1
      /\ parts'[n + 1] = Single(r) /\ \A i \in 1 .. n : parts'[i] = parts[i]
  BY DEF TypeOK
<1>2. parts'[n + 1].kind # "duo"
  BY <1>1 DEF Single
<1> SUFFICES ASSUME NEW i \in 1 .. n, parts[i].kind = "duo" PROVE HalfFits(i)'
  BY <1>1, <1>2 DEF HalvesFit
<1>3. HalfFits(i)
  BY <1>1 DEF Fit, HalvesFit
<1>4. UploadHalf(parts[i])' = UploadHalf(parts[i])
  BY <1>1 DEF UploadHalf, Loc
<1> QED
  BY <1>1, <1>3, <1>4 DEF HalfFits, Left

LEMMA FitSingles == Inv /\ Fit /\ (FoldIntoSingle \/ PushSingle) => Fit'
<1> SUFFICES ASSUME Inv, Fit, FoldIntoSingle \/ PushSingle PROVE Fit'
  OBVIOUS
<1>1. TypeOK /\ (big # 0 => phase = "pair")
  BY DEF Inv, BigHeld
<1>2. /\ UNCHANGED <<size, lo, hi, at>> /\ big' = 0
      /\ \/ phase = "pair" /\ phase' = "pair"
         \/ phase = "fill" /\ phase' = "rest"
      /\ \E r : parts' = Append(parts, Single(r))
  BY <1>1 DEF FoldIntoSingle, PushSingle
<1>3. HalvesFit'
  BY <1>1, <1>2, FitAppendSingle
<1> QED
  BY <1>2, <1>3 DEF Fit, Sorted, HandFits, SmallLeft, Files, Left

(* The steps that leave the Duos alone. *)
LEMMA SameHalves ==
  ASSUME TypeOK, Fit, UNCHANGED <<size, parts>>, Left' => Left,
         \/ phase' = phase /\ at' = at
         \/ phase \in {"pad", "rest", "fill"} /\ phase' \in {"rest", "fill", "done"}
         \/ phase = "pair" /\ phase' = "promote" /\ at' = 1
  PROVE  HalvesFit'
<1> SUFFICES ASSUME NEW i \in DOMAIN parts, parts[i].kind = "duo" PROVE HalfFits(i)'
  BY DEF HalvesFit
<1>1. HalfFits(i)
  BY DEF Fit, HalvesFit
<1>2. UploadHalf(parts[i])' = UploadHalf(parts[i])
  BY DEF UploadHalf, Loc
<1>3. CASE phase' = phase /\ at' = at
  BY <1>1, <1>2, <1>3 DEF HalfFits
<1>4. CASE phase \in {"pad", "rest", "fill"} /\ phase' \in {"rest", "fill", "done"}
  BY <1>1, <1>2, <1>4 DEF HalfFits
<1>5. CASE phase = "pair" /\ phase' = "promote" /\ at' = 1
  <2>1. ~(i < at')
    BY <1>5 DEF TypeOK
  <2> QED
    BY <1>1, <1>2, <1>5, <2>1 DEF HalfFits
<1> QED
  BY <1>3, <1>4, <1>5

LEMMA FitGrow == Inv /\ Fit /\ (PopBig \/ GrowRegular \/ FillSingle) => Fit'
<1> SUFFICES ASSUME Inv, Fit, PopBig \/ GrowRegular \/ FillSingle PROVE Fit'
  OBVIOUS
<1>1. TypeOK /\ (big # 0 => phase = "pair" /\ big \in Files) /\ hi \in Nat /\ lo \in Nat
  BY DEF Inv, BigHeld, TypeOK, Files
<1>2. /\ UNCHANGED <<size, phase, parts, at>> /\ Left
      /\ lo' >= lo /\ hi' <= hi /\ lo' \in Nat /\ hi' \in Nat
  BY <1>1 DEF PopBig, GrowRegular, FillSingle, TypeOK, Left
<1>3. Left' => Left
  BY <1>1, <1>2 DEF Left
<1>4. HalvesFit'
  BY <1>1, <1>2, <1>3, SameHalves
<1>5. Sorted'
  BY <1>2 DEF Fit, Sorted, Files
<1>6. SmallLeft'
  <2>1. CASE PopBig
    BY <2>1 DEF PopBig, SmallLeft
  <2>2. CASE ~PopBig
    BY <1>2, <1>3, <2>2 DEF Fit, SmallLeft, GrowRegular, FillSingle
  <2> QED
    BY <2>1, <2>2
<1>7. HandFits'
  <2>1. CASE PopBig
    <3>1. big' = hi /\ hi' = hi - 1 /\ regular' = Empty /\ hi \in Files /\ size' = size
      BY <1>1, <1>2, <2>1 DEF PopBig, Left, Files, TypeOK
    <3>2. Loc(hi) \in Nat /\ 2 * MinPart + Loc(hi) <= MaxMemory /\ MinPart \in Nat /\ MaxMemory \in Nat
      BY <1>1, <3>1, LocFits, LayoutAssumption, BuilderAssumption
    <3>3. Loc(big)' = Loc(hi) /\ regular'.bytes = 0
      BY <3>1 DEF Loc, Empty
    <3> QED
      BY <1>1, <3>1, <3>2, <3>3 DEF HandFits
  <2>2. CASE GrowRegular
    <3>1. /\ big \in Files /\ lo \in Files /\ lo <= big /\ hi = big - 1 /\ size' = size
          /\ regular' = Push(regular, lo) /\ big' = big /\ hi' = hi
          /\ regular.bytes < Missing(big) /\ regular \in RegularPart
      BY <1>1, <1>2, <2>2 DEF GrowRegular, Fit, HandFits, Left, Files, TypeOK
    <3>2. size[lo] <= size[big] /\ size[lo] \in Nat /\ size[big] \in Nat
      BY <1>1, <3>1, LocFits DEF Fit, Sorted
    <3>3. /\ Loc(lo) \in Nat /\ Loc(big) \in Nat /\ EntrySize(lo) = Loc(lo) + size[lo]
          /\ 2 * MinPart + Loc(lo) <= MaxMemory /\ MinPart \in Nat /\ MaxMemory \in Nat
      BY <1>1, <3>1, LocFits, LayoutAssumption, BuilderAssumption
    <3>4. regular'.bytes = regular.bytes + EntrySize(lo) /\ regular.bytes \in Nat
      BY <1>1, <3>1, PushedPart DEF RegularPart, Files
    <3>5. size[big] >= MinPart
      BY <1>1, <2>2 DEF Inv, BigHeld, GrowRegular
    <3>6. regular.bytes < 2 * MinPart - Loc(big) - size[big]
      <4> DEFINE l == Loc(big)
                 z == size[big]
                 r == regular.bytes
      <4>1. r < Minus(Minus(MinPart, l), z - MinPart) /\ r \in Nat
        BY <3>1, <3>4 DEF Missing
      <4>2. l \in Nat /\ z \in Nat /\ z >= MinPart /\ MinPart \in Nat
        BY <3>2, <3>3, <3>5
      <4> HIDE DEF l, z, r
      <4>3. r < 2 * MinPart - l - z
        BY <4>1, <4>2 DEF Minus
      <4> QED
        BY <4>3 DEF l, z, r
    <3>7. Loc(big)' = Loc(big)
      BY <3>1 DEF Loc
    <3>8. regular'.bytes + Loc(big) <= MaxMemory
      BY <3>2, <3>3, <3>4, <3>6
    <3> QED
      BY <3>1, <3>7, <3>8 DEF HandFits
  <2>3. CASE FillSingle
    BY <1>1, <1>2, <2>3 DEF FillSingle, HandFits
  <2> QED
    BY <1>1, <2>1, <2>2, <2>3 DEF PopBig, GrowRegular, FillSingle
<1> QED
  BY <1>4, <1>5, <1>6, <1>7 DEF Fit

LEMMA FitPasses == Inv /\ Fit /\ (Promote \/ Pad) => Fit'
<1> SUFFICES ASSUME Inv, Fit, Promote \/ Pad PROVE Fit'
  OBVIOUS
<1>1. /\ TypeOK /\ Left /\ lo' = lo + 1 /\ phase \in {"promote", "pad"} /\ big = 0
      /\ at \in DOMAIN parts /\ parts[at].kind = "duo" /\ parts \in Seq(LayoutPart)
      /\ UNCHANGED <<size, phase, hi, big, regular, at>>
  BY DEF Inv, BigHeld, Promote, Pad, Absorb, InPass, Partial, Short, TypeOK
<1>2. lo \in Files /\ hi \in Files /\ lo <= hi /\ (Left' => Left)
  BY <1>1 DEF Left, Files, TypeOK
<1> DEFINE e == EntrySize(lo)
           q == parts'[at]
<1>3. /\ e \in Nat /\ e = Loc(lo) + size[lo] /\ size[lo] < MinPart /\ size[lo] \in Nat
      /\ Loc(lo) \in Nat /\ 2 * MinPart + Loc(lo) <= MaxMemory
  <2>1. size[lo] <= size[hi] /\ size[hi] < MinPart
    BY <1>1, <1>2 DEF Fit, Sorted, SmallLeft
  <2>2. size[lo] \in Nat /\ size[hi] \in Nat /\ MinPart \in Nat
    BY <1>1, <1>2, LocFits, LayoutAssumption
  <2>3. /\ e = Loc(lo) + size[lo] /\ Loc(lo) \in Nat
        /\ 2 * MinPart + Loc(lo) <= MaxMemory
    BY <1>1, <1>2, LocFits
  <2> HIDE DEF e
  <2> QED
    BY <2>1, <2>2, <2>3
<1>4. /\ parts[at].big \in Files /\ Loc(parts[at].big) \in Nat
      /\ Target + MinPart + Loc(lo) + Loc(parts[at].big) <= MaxMemory
      /\ parts[at].regular \in RegularPart /\ parts[at].regular.bytes \in Nat /\ parts[at].start \in Nat
  BY <1>1, <1>2, DuoAt, LocFits DEF Inv, BigPlaced, Files
<1>5. Push(parts[at].regular, lo).bytes = parts[at].regular.bytes + e
  BY <1>1, <1>2, <1>4, PushedPart DEF Files
<1>6. /\ DOMAIN parts' = DOMAIN parts /\ q.big = parts[at].big
      /\ q.regular.bytes = parts[at].regular.bytes + e
      /\ q.start = (IF phase = "promote" THEN AbsorbStart(parts[at].start, lo) ELSE parts[at].start)
      /\ \A i \in DOMAIN parts : i # at => parts'[i] = parts[i]
  <2>1. parts[at] \in LayoutPart
    BY <1>1
  <2>2. CASE Promote
    BY <1>1, <1>5, <2>1, <2>2 DEF Promote, Absorb, InPass, LayoutPart
  <2>3. CASE Pad
    BY <1>1, <1>5, <2>1, <2>3 DEF Pad, InPass, LayoutPart
  <2> QED
    BY <2>2, <2>3
<1> HIDE DEF q, e
<1>7. HalfFits(at)
  BY <1>1 DEF Fit, HalvesFit
<1>8. UploadHalf(parts[at])' = q.regular.bytes + Loc(parts[at].big) + q.start
  BY <1>1, <1>6 DEF UploadHalf, Loc, q
<1>9. HalfFits(at)'
  <2> DEFINE n == parts[at].regular.bytes
             l == Loc(parts[at].big)
             t == parts[at].start
             u == UploadHalf(parts[at])
  <2>1. /\ n \in Nat /\ l \in Nat /\ t \in Nat /\ u = n + l + t
        /\ MinPart \in Nat /\ Target \in Nat /\ MaxMemory \in Nat
    BY <1>4, LayoutAssumption, BuilderAssumption DEF UploadHalf
  <2>2. Target + MinPart + Loc(lo) + l <= MaxMemory
    BY <1>4
  <2>3. CASE Promote
    <3>1. phase = "promote" /\ t > 0 /\ q.start = Minus(t, e) /\ u = MinPart
      BY <1>1, <1>6, <1>7, <2>3 DEF Promote, InPass, Partial, HalfFits, AbsorbStart, e
    <3>2. UploadHalf(parts[at])' = n + e + l + q.start
      BY <1>6, <1>8
    <3> HIDE DEF n, l, t, u
    <3>3. q.start \in Nat /\ (q.start > 0 => n + e + l + q.start = MinPart) /\ n + e + l + q.start <= MaxMemory
      <4>1. CASE t >= e
        BY <1>3, <2>1, <3>1, <4>1 DEF Minus
      <4>2. CASE ~(t >= e)
        BY <1>3, <2>1, <3>1, <4>2 DEF Minus
      <4> QED
        BY <4>1, <4>2
    <3>4. phase' = "promote" /\ at' = at /\ parts'[at'].start = q.start /\ UploadHalf(parts[at])' <= MaxMemory
          /\ (q.start > 0 => UploadHalf(parts[at])' = MinPart)
      BY <1>1, <3>1, <3>2, <3>3 DEF q
    <3>5. ~(at' < at')
      BY <1>1
    <3> QED
      BY <3>4, <3>5 DEF HalfFits
  <2>4. CASE Pad
    <3>1. phase = "pad" /\ t = 0 /\ q.start = 0 /\ n < Target
      BY <1>1, <1>6, <1>7, <2>4 DEF Pad, InPass, Short, HalfFits
    <3>2. UploadHalf(parts[at])' = n + e + l
      BY <1>3, <1>6, <1>8, <2>1, <3>1
    <3> HIDE DEF n, l, t, u
    <3>3. n + e + l <= MaxMemory
      BY <1>3, <2>1, <2>2, <3>1
    <3>4. phase' = "pad" /\ at' = at /\ parts'[at'].start = 0 /\ UploadHalf(parts[at])' <= MaxMemory
      BY <1>1, <3>1, <3>2, <3>3 DEF q
    <3> QED
      BY <3>4 DEF HalfFits
  <2> QED
    BY <2>3, <2>4
<1>10. HalvesFit'
  <2> SUFFICES ASSUME NEW i \in DOMAIN parts, parts'[i].kind = "duo" PROVE HalfFits(i)'
    BY <1>6 DEF HalvesFit
  <2>1. CASE i = at
    BY <1>1, <1>9, <2>1
  <2>2. CASE i # at
    <3>1. parts'[i] = parts[i]
      BY <1>6, <2>2
    <3>2. HalfFits(i)
      BY <3>1 DEF Fit, HalvesFit
    <3>3. UploadHalf(parts[i])' = UploadHalf(parts[i])
      BY <1>1, <3>1 DEF UploadHalf, Loc
    <3> QED
      BY <1>1, <1>2, <3>1, <3>2, <3>3 DEF HalfFits
  <2> QED
    BY <2>1, <2>2
<1> QED
  BY <1>1, <1>2, <1>10 DEF Fit, Sorted, HandFits, SmallLeft, Files

LEMMA FitMoveOn == Inv /\ Fit /\ MoveOn => Fit'
<1> SUFFICES ASSUME Inv, Fit, MoveOn PROVE Fit'
  OBVIOUS
<1>1. /\ TypeOK /\ big = 0 /\ UNCHANGED <<size, lo, hi, big, parts>>
  BY DEF Inv, BigHeld, MoveOn, PairDone, NewSingle, LayoutDone, PromoteNext, PromoteStop, PromoteDone,
         PadNext, PadStop, PadDone, InPass, Skip, GiveUp, PassOver
<1>2. Sorted' /\ HandFits' /\ (Left' <=> Left) /\ MinPart \in Nat
  BY <1>1, LayoutAssumption DEF Fit, Sorted, HandFits, Files, Left
<1>3. CASE PairDone
  <2>1. phase = "pair" /\ phase' = "promote" /\ at' = 1 /\ ~(Left /\ size[hi] >= MinPart)
    BY <1>3 DEF PairDone
  <2>2. Left => size[hi] \in Nat
    BY <1>1, LocFits DEF Left, Files, TypeOK
  <2>3. HalvesFit'
    BY <1>1, <1>2, <2>1, SameHalves
  <2> QED
    BY <1>1, <1>2, <2>1, <2>2, <2>3 DEF Fit, SmallLeft
<1>4. CASE NewSingle \/ LayoutDone \/ PadStop \/ PadDone
  <2>1. phase \in {"pad", "rest", "fill"} /\ phase' \in {"rest", "fill", "done"}
    BY <1>4 DEF NewSingle, LayoutDone, PadStop, PadDone, InPass, PassOver, GiveUp
  <2>2. HalvesFit'
    BY <1>1, <1>2, <2>1, SameHalves
  <2> QED
    BY <1>1, <1>2, <2>1, <2>2 DEF Fit, SmallLeft
<1>5. CASE PromoteNext \/ PromoteStop \/ PromoteDone \/ PadNext
  <2>1. /\ phase \in {"promote", "pad"} /\ phase' \in {"promote", "pad"}
        /\ phase = "pad" => phase' = "pad"
        /\ phase = "promote" /\ phase' = "promote" =>
             at' = at + 1 /\ (parts[at].kind = "duo" => ~(parts[at].start > 0))
        /\ phase = "promote" /\ phase' = "pad" => ~Left \/ at > Len(parts)
    BY <1>5 DEF PromoteNext, PromoteStop, PromoteDone, PadNext, InPass, PassOver, GiveUp, Skip, Partial
  <2>2. HalvesFit'
    <3> SUFFICES ASSUME NEW i \in DOMAIN parts, parts[i].kind = "duo" PROVE HalfFits(i)'
      BY <1>1 DEF HalvesFit
    <3>1. HalfFits(i)
      BY DEF Fit, HalvesFit
    <3>2. UploadHalf(parts[i])' = UploadHalf(parts[i])
      BY <1>1 DEF UploadHalf, Loc
    <3>3. i \in 1 .. Len(parts) /\ at \in Nat /\ parts[i].start \in Nat /\ parts'[i] = parts[i]
      <4>1. parts[i] \in LayoutPart
        BY <1>1 DEF TypeOK
      <4> QED
        BY <1>1, <4>1 DEF TypeOK, LayoutPart
    <3>4. CASE phase = "promote" /\ phase' = "promote"
      <4>1. i < at' => i < at \/ i = at
        BY <2>1, <3>3, <3>4
      <4>2. i < at' => parts'[i].start = 0
        BY <2>1, <3>1, <3>3, <3>4, <4>1 DEF HalfFits
      <4> QED
        BY <3>1, <3>2, <3>3, <3>4, <4>2 DEF HalfFits
    <3>5. CASE phase = "promote" /\ phase' = "pad"
      <4>1. Left' => i < at
        BY <1>2, <2>1, <3>3, <3>5
      <4> QED
        BY <3>1, <3>2, <3>3, <3>5, <4>1 DEF HalfFits
    <3>6. CASE phase = "pad" /\ phase' = "pad"
      BY <1>2, <3>1, <3>2, <3>3, <3>6 DEF HalfFits
    <3> QED
      BY <2>1, <3>4, <3>5, <3>6
  <2> QED
    BY <1>1, <1>2, <2>1, <2>2 DEF Fit, SmallLeft
<1> QED
  BY <1>3, <1>4, <1>5 DEF MoveOn
-----------------------------------------------------------------------------
(* Every run of the planner lays out the files soundly, and so that the      *)
(* Duos fit the budget.                                                      *)
LayoutInv == Inv /\ Placement /\ Fit

LEMMA LayoutInvInit == Init => LayoutInv
  BY InitInv, PlacementInit, FitInit DEF LayoutInv

LEMMA LayoutInvStep == LayoutInv /\ Next => LayoutInv'
<1> SUFFICES ASSUME LayoutInv, Next PROVE LayoutInv'
  OBVIOUS
<1> USE DEF LayoutInv
<1>1. CASE PopBig \/ MakeDuo \/ GrowRegular \/ FoldIntoSingle
  BY <1>1, PopBigInv, MakeDuoInv, GrowRegularInv, FoldIntoSingleInv, PlacementPair,
     FitMakeDuo, FitSingles, FitGrow
<1>2. CASE Promote \/ Pad
  BY <1>2, PromoteInv, PadInv, PlacementPasses, FitPasses
<1>3. CASE FillSingle \/ PushSingle
  BY <1>3, FillSingleInv, PushSingleInv, PlacementRest, FitGrow, FitSingles
<1>4. CASE MoveOn
  BY <1>4, MoveOnInv, PlacementRest, FitMoveOn
<1> QED
  BY <1>1, <1>2, <1>3, <1>4 DEF Next, Pair, PromotePass, PadPass, Rest, MoveOn

-----------------------------------------------------------------------------
(* Sequences of jobs *)

Element == [file : Nat, locOffset : Nat, bytes : Nat]
UploadJob == [type : {"upload"}, elems : Seq(Element), bytes : Nat]
CopyJob == [type : {"copy"}, file : Nat, from : Nat, bytes : Nat]
Job == UploadJob \cup CopyJob

(* What PartJobs says of its jobs, of any sequence of jobs.                  *)
Total(s) == BytesUpTo(s, Len(s))
ExactIn(J) == \A k \in DOMAIN J : J[k].type = "upload" => J[k].bytes = Total(J[k].elems)
PlacedIn(J) ==
  \A k \in DOMAIN J : J[k].type = "upload" =>
    \A j \in DOMAIN J[k].elems :
      J[k].elems[j].locOffset = BytesUpTo(J, k - 1) + BytesUpTo(J[k].elems, j - 1)
SoundJobs(J) == J \in Seq(Job) /\ ExactIn(J) /\ PlacedIn(J)

EndsUpload(J) == J # <<>> /\ J[Len(J)].type = "upload"
Elems(s) == {s[j] : j \in DOMAIN s}
ElemsIn(J) == UNION {Elems(J[k].elems) : k \in {k \in DOMAIN J : J[k].type = "upload"}}
Load(f, job) == IF job.type = "upload" THEN Share(f, job.elems) ELSE Share(f, <<job>>)
CarriedIn(f, J) == SumFunction([k \in DOMAIN J |-> Load(f, J[k])])
-----------------------------------------------------------------------------
LEMMA JobKinds ==
  ASSUME NEW j \in Job
  PROVE  /\ j.bytes \in Nat /\ j.type \in {"upload", "copy"}
         /\ j.type = "upload" => j \in UploadJob /\ j.elems \in Seq(Element)
         /\ j.type # "upload" => j \in CopyJob /\ j.file \in Nat
  BY DEF Job, UploadJob, CopyJob

LEMMA JobsSized ==
  ASSUME NEW J \in Seq(Job)
  PROVE  Sized(J, Len(J)) /\ Len(J) \in Nat /\ \A k \in 1 .. Len(J) : J[k] \in Job
<1>1. \A k \in 1 .. Len(J) : J[k] \in Job
  OBVIOUS
<1>2. \A k \in 1 .. Len(J) : J[k].bytes \in Nat
  BY <1>1, JobKinds
<1> QED
  BY <1>1, <1>2 DEF Sized

LEMMA ElemsSized ==
  ASSUME NEW s \in Seq(Element)
  PROVE  Sized(s, Len(s)) /\ Len(s) \in Nat /\ \A k \in 1 .. Len(s) : s[k] \in Element
<1>1. \A k \in 1 .. Len(s) : s[k] \in Element
  OBVIOUS
<1> QED
  BY <1>1 DEF Sized, Element

LEMMA LoadIsNat == ASSUME NEW j \in Job, NEW f PROVE Load(f, j) \in Nat
<1>1. CASE j.type = "upload"
  <2>1. Sized(j.elems, Len(j.elems))
    BY <1>1, JobKinds, ElemsSized
  <2> QED
    BY <1>1, <2>1, ShareIs DEF Load
<1>2. CASE j.type # "upload"
  <2>1. j.bytes \in Nat
    BY JobKinds
  <2>2. Sized(<<j>>, 1)
    BY <2>1 DEF Sized
  <2> QED
    BY <1>2, <2>2, ShareIs DEF Load
<1> QED
  BY <1>1, <1>2

LEMMA NoElems == Total(<<>>) = 0 /\ Elems(<<>>) = {} /\ \A f : Share(f, <<>>) = 0
<1>1. Sized(<<>>, 0) /\ Len(<<>>) = 0
  BY DEF Sized
<1>2. Total(<<>>) = 0
  BY <1>1, UpToStep DEF Total
<1>3. ASSUME NEW f PROVE Share(f, <<>>) = 0
  BY <1>1, ShareIs
<1> QED
  BY <1>2, <1>3 DEF Elems

(* What the jobs before the last carry. *)
CarriedBefore(f, J, n) == SumFunctionOnSet([k \in DOMAIN J |-> Load(f, J[k])], 1 .. n)

LEMMA CarriedStep ==
  ASSUME NEW J \in Seq(Job), NEW f
  PROVE  /\ CarriedIn(f, J) = CarriedBefore(f, J, Len(J)) /\ CarriedIn(f, J) \in Nat
         /\ Len(J) > 0 => /\ CarriedIn(f, J) = CarriedBefore(f, J, Len(J) - 1) + Load(f, J[Len(J)])
                          /\ CarriedBefore(f, J, Len(J) - 1) \in Nat
<1> DEFINE F == [k \in DOMAIN J |-> Load(f, J[k])]
           n == Len(J)
<1>1. n \in Nat /\ \A k \in 1 .. n : J[k] \in Job
  BY JobsSized
<1>2. DOMAIN F = 1 .. n /\ (\A k \in 1 .. n : F[k] = Load(f, J[k]) /\ F[k] \in Nat)
  BY <1>1, LoadIsNat
<1>3. CarriedIn(f, J) = SumFunctionOnSet(F, DOMAIN F) /\ \A m : CarriedBefore(f, J, m) = SumFunctionOnSet(F, 1 .. m)
  BY DEF CarriedIn, SumFunction, CarriedBefore
<1> HIDE DEF F, n
<1>4. CarriedIn(f, J) = CarriedBefore(f, J, n)
  BY <1>2, <1>3, Zenon
<1>5. \A m \in 0 .. n : CarriedBefore(f, J, m) \in Nat
  <2> SUFFICES ASSUME NEW m \in 0 .. n PROVE CarriedBefore(f, J, m) \in Nat
    OBVIOUS
  <2>1. m \in Int /\ \A k \in 1 .. m : F[k] \in Nat
    BY <1>1, <1>2
  <2>2. IsFiniteSet(1 .. m)
    BY <2>1, FS_Interval, 1 \in Int
  <2> QED
    BY <1>3, <2>1, <2>2, SumNat
<1>6. ASSUME n > 0 PROVE CarriedIn(f, J) = CarriedBefore(f, J, n - 1) + Load(f, J[n])
  <2> DEFINE m == n - 1
  <2>1. m \in Nat /\ m + 1 = n /\ (\A k \in 1 .. m : F[k] \in Int /\ F[k] = F[k]) /\ F[m + 1] \in Int /\ F[n] = Load(f, J[n])
    BY <1>1, <1>2, <1>6
  <2> HIDE DEF m
  <2>2. SumFunctionOnSet(F, 1 .. m + 1) = SumFunctionOnSet(F, 1 .. m) + F[m + 1]
    BY <2>1, SumNext
  <2>3. CarriedBefore(f, J, n) = CarriedBefore(f, J, m) + Load(f, J[n])
    BY <1>3, <2>1, <2>2, Zenon
  <2> QED
    BY <1>4, <2>3 DEF m
<1> QED
  BY <1>1, <1>4, <1>5, <1>6 DEF n

LEMMA CarriedAgree ==
  ASSUME NEW J \in Seq(Job), NEW K \in Seq(Job), NEW f, NEW n \in Nat, n <= Len(J), n <= Len(K),
         \A k \in 1 .. n : J[k] = K[k]
  PROVE  CarriedBefore(f, J, n) = CarriedBefore(f, K, n)
<1> DEFINE F == [k \in DOMAIN J |-> Load(f, J[k])]
           G == [k \in DOMAIN K |-> Load(f, K[k])]
<1>1. IsFiniteSet(1 .. n)
  BY FS_Interval, 1 \in Int, n \in Int
<1>2. \A k \in 1 .. n : F[k] = G[k]
  OBVIOUS
<1> HIDE DEF F, G
<1>3. SumFunctionOnSet(F, 1 .. n) = SumFunctionOnSet(G, 1 .. n)
  BY <1>1, <1>2, SumSame
<1> QED
  BY <1>3 DEF F, G, CarriedBefore
-----------------------------------------------------------------------------
(* A copy job, or an empty upload, appended. *)
LEMMA JobAppended ==
  ASSUME NEW J, SoundJobs(J), NEW c \in Job, c.type = "upload" => c.elems = <<>> /\ c.bytes = 0
  PROVE  /\ SoundJobs(Append(J, c)) /\ Total(Append(J, c)) = Total(J) + c.bytes
         /\ ElemsIn(Append(J, c)) = ElemsIn(J)
         /\ \A f : CarriedIn(f, Append(J, c)) = CarriedIn(f, J) + Load(f, c)
<1> DEFINE K == Append(J, c)
           n == Len(J)
<1>1. J \in Seq(Job) /\ n \in Nat /\ \A k \in 1 .. n : J[k] \in Job
  BY JobsSized DEF SoundJobs
<1>2. /\ K \in Seq(Job) /\ Len(K) = n + 1 /\ K[n + 1] = c /\ \A k \in 1 .. n : K[k] = J[k]
      /\ DOMAIN J = 1 .. n /\ DOMAIN K = 1 .. n + 1
  BY <1>1
<1> HIDE DEF K, n
<1>3. Sized(J, n) /\ Sized(K, n + 1) /\ c.bytes \in Nat
  BY <1>1, <1>2, JobsSized, JobKinds DEF n
<1>4. \A k \in 0 .. n : BytesUpTo(K, k) = BytesUpTo(J, k)
  BY <1>1, <1>2, <1>3, UpToAgree
<1>5. Total(K) = Total(J) + c.bytes
  <2>1. BytesUpTo(K, n + 1) = BytesUpTo(K, (n + 1) - 1) + K[n + 1].bytes
    BY <1>1, <1>3, UpToStep
  <2>2. (n + 1) - 1 = n /\ BytesUpTo(K, n) = BytesUpTo(J, n)
    BY <1>1, <1>4
  <2>3. BytesUpTo(K, n + 1) = BytesUpTo(J, n) + c.bytes
    BY <1>2, <2>1, <2>2, Zenon
  <2> QED
    BY <1>2, <2>3 DEF Total, n
<1>6. ExactIn(K)
  <2> SUFFICES ASSUME NEW k \in 1 .. n + 1, K[k].type = "upload" PROVE K[k].bytes = Total(K[k].elems)
    BY <1>2 DEF ExactIn
  <2>1. CASE k = n + 1
    BY <1>2, <2>1, NoElems
  <2>2. CASE k \in 1 .. n
    BY <1>2, <2>2 DEF SoundJobs, ExactIn
  <2> QED
    BY <1>1, <2>1, <2>2
<1>7. PlacedIn(K)
  <2> SUFFICES ASSUME NEW k \in 1 .. n + 1, K[k].type = "upload", NEW j \in DOMAIN K[k].elems
               PROVE  K[k].elems[j].locOffset = BytesUpTo(K, k - 1) + BytesUpTo(K[k].elems, j - 1)
    BY <1>2 DEF PlacedIn
  <2>1. CASE k = n + 1
    BY <1>2, <2>1
  <2>2. CASE k \in 1 .. n
    <3>1. k - 1 \in 0 .. n /\ k \in DOMAIN J /\ K[k] = J[k]
      BY <1>1, <1>2, <2>2
    <3>2. J[k].elems[j].locOffset = BytesUpTo(J, k - 1) + BytesUpTo(J[k].elems, j - 1)
      BY <3>1 DEF SoundJobs, PlacedIn
    <3>3. BytesUpTo(K, k - 1) = BytesUpTo(J, k - 1)
      BY <1>4, <3>1
    <3> QED
      BY <3>1, <3>2, <3>3, Zenon
  <2> QED
    BY <1>1, <2>1, <2>2
<1>8. ElemsIn(K) = ElemsIn(J)
  <2>1. ASSUME NEW k \in DOMAIN J PROVE K[k] = J[k] /\ k \in DOMAIN K
    BY <1>1, <1>2
  <2>2. ASSUME NEW k \in DOMAIN K, k \notin DOMAIN J, K[k].type = "upload" PROVE Elems(K[k].elems) = {}
    <3>1. k = n + 1
      BY <1>1, <1>2, <2>2
    <3> QED
      BY <1>2, <2>2, <3>1, NoElems
  <2> QED
    BY <2>1, <2>2, Zenon DEF ElemsIn
<1>9. ASSUME NEW f PROVE CarriedIn(f, K) = CarriedIn(f, J) + Load(f, c)
  <2>1. CarriedIn(f, K) = CarriedBefore(f, K, Len(K) - 1) + Load(f, K[Len(K)])
    BY <1>1, <1>2, CarriedStep
  <2>2. Len(K) - 1 = n /\ K[Len(K)] = c
    BY <1>1, <1>2
  <2>3. CarriedBefore(f, K, n) = CarriedBefore(f, J, n)
    BY <1>1, <1>2, CarriedAgree DEF n
  <2>4. CarriedIn(f, J) = CarriedBefore(f, J, n)
    BY <1>1, CarriedStep DEF n
  <2> QED
    BY <2>1, <2>2, <2>3, <2>4, Zenon
<1> QED
  BY <1>2, <1>5, <1>6, <1>7, <1>8, <1>9 DEF SoundJobs, K

(* Two sequences of elements, one after the other. *)
LEMMA ElemsJoined ==
  ASSUME NEW s \in Seq(Element), NEW E \in Seq(Element)
  PROVE  /\ s \o E \in Seq(Element) /\ Total(s \o E) = Total(s) + Total(E)
         /\ Elems(s \o E) = Elems(s) \cup Elems(E)
         /\ \A f : Share(f, s \o E) = Share(f, s) + Share(f, E)
         /\ DOMAIN (s \o E) = 1 .. Len(s) + Len(E)
         /\ \A j \in 1 .. Len(s) : (s \o E)[j] = s[j] /\ BytesUpTo(s \o E, j - 1) = BytesUpTo(s, j - 1)
         /\ \A j \in 1 .. Len(E) : /\ (s \o E)[Len(s) + j] = E[j]
                                    /\ BytesUpTo(s \o E, Len(s) + j - 1) = Total(s) + BytesUpTo(E, j - 1)
<1> DEFINE t == s \o E
           a == Len(s)
           b == Len(E)
<1>1. Sized(s, a) /\ Sized(E, b) /\ a \in Nat /\ b \in Nat
  BY ElemsSized
<1>2. /\ t \in Seq(Element) /\ Len(t) = a + b /\ DOMAIN t = 1 .. a + b
      /\ DOMAIN s = 1 .. a /\ DOMAIN E = 1 .. b
      /\ \A i \in 1 .. a : t[i] = s[i]
      /\ \A i \in 1 .. b : t[a + i] = E[i]
  BY <1>1
<1>3. Total(s) = BytesUpTo(s, a) /\ Total(E) = BytesUpTo(E, b) /\ Total(t) = BytesUpTo(t, Len(t))
  BY DEF Total
<1> HIDE DEF t, a, b
<1>4. Sized(t, a + b)
  BY <1>2, ElemsSized
<1>5. Follows(t, s, a, E, b)
  BY <1>1, <1>2, <1>4 DEF Follows
<1>6. /\ \A k \in 0 .. a : BytesUpTo(t, k) = BytesUpTo(s, k)
      /\ \A k \in 0 .. b : BytesUpTo(t, a + k) = BytesUpTo(s, a) + BytesUpTo(E, k)
  BY <1>5, UpToShift
<1>7. \A f : Share(f, t) = Share(f, s) + Share(f, E)
  BY <1>5, ShareShift
<1>8. Total(t) = Total(s) + Total(E)
  BY <1>1, <1>2, <1>3, <1>6
<1>9. Elems(t) = Elems(s) \cup Elems(E)
  <2>1. \A i \in 1 .. a + b : i \in 1 .. a \/ (i - a \in 1 .. b /\ i = a + (i - a))
    BY <1>1
  <2>2. \A i \in 1 .. a + b : t[i] \in Elems(s) \cup Elems(E)
    BY <1>2, <2>1 DEF Elems
  <2>3. \A i \in 1 .. a : s[i] = t[i] /\ i \in 1 .. a + b
    BY <1>1, <1>2
  <2>4. \A i \in 1 .. b : E[i] = t[a + i] /\ a + i \in 1 .. a + b
    BY <1>1, <1>2
  <2>5. Elems(s) \subseteq Elems(t)
    BY <1>2, <2>3 DEF Elems
  <2>6. Elems(E) \subseteq Elems(t)
    BY <1>2, <2>4 DEF Elems
  <2>7. Elems(t) \subseteq Elems(s) \cup Elems(E)
    BY <1>2, <2>2 DEF Elems
  <2> QED
    BY <2>5, <2>6, <2>7
<1>10. \A j \in 1 .. a : BytesUpTo(t, j - 1) = BytesUpTo(s, j - 1)
  <2>1. \A j \in 1 .. a : j - 1 \in 0 .. a
    BY <1>1
  <2> QED
    BY <1>6, <2>1
<1>11. ASSUME NEW j \in 1 .. b PROVE BytesUpTo(t, a + j - 1) = Total(s) + BytesUpTo(E, j - 1)
  <2>1. j - 1 \in 0 .. b /\ a + j - 1 = a + (j - 1)
    BY <1>1
  <2>2. BytesUpTo(t, a + (j - 1)) = BytesUpTo(s, a) + BytesUpTo(E, j - 1)
    BY <1>6, <2>1
  <2> QED
    BY <1>3, <2>1, <2>2, Zenon
<1> QED
  BY <1>2, <1>7, <1>8, <1>9, <1>10, <1>11 DEF t, a, b

(* The last job, an upload, extended by elements whose headers start at x. *)
StartAt(E, x) == \A j \in DOMAIN E : E[j].locOffset = x + BytesUpTo(E, j - 1)
Extends(K, J, E) == K = [J EXCEPT ![Len(J)] = Extended(J[Len(J)], E, Total(E))]

LEMMA UploadExtended ==
  ASSUME NEW J, SoundJobs(J), EndsUpload(J), NEW E \in Seq(Element), StartAt(E, Total(J)),
         NEW K, Extends(K, J, E)
  PROVE  /\ SoundJobs(K) /\ Total(K) = Total(J) + Total(E)
         /\ ElemsIn(K) = ElemsIn(J) \cup Elems(E)
         /\ \A f : CarriedIn(f, K) = CarriedIn(f, J) + Share(f, E)
         /\ Len(K) = Len(J) /\ EndsUpload(K)
         /\ K[Len(J)].elems = J[Len(J)].elems \o E
         /\ K[Len(J)].bytes = J[Len(J)].bytes + Total(E)
         /\ \A k \in 1 .. Len(J) - 1 : K[k] = J[k]
<1> DEFINE n == Len(J)
           s == J[n].elems
           t == s \o E
           w == Total(E)
           q == [J[n] EXCEPT !.elems = t, !.bytes = J[n].bytes + w]
<1>1. /\ J \in Seq(Job) /\ n \in Nat /\ n > 0 /\ DOMAIN J = 1 .. n /\ \A k \in 1 .. n : J[k] \in Job
      /\ J[n].type = "upload" /\ J[n] \in UploadJob /\ s \in Seq(Element)
  <2>1. J \in Seq(Job) /\ n \in Nat /\ n > 0 /\ DOMAIN J = 1 .. n /\ \A k \in 1 .. n : J[k] \in Job
    BY JobsSized DEF SoundJobs, EndsUpload
  <2>2. J[n].type = "upload" /\ J[n] \in Job
    BY <2>1 DEF EndsUpload
  <2> QED
    BY <2>1, <2>2, JobKinds
<1>2. n = Len(J) /\ J[n].elems = s
  OBVIOUS
<1>3. K = [J EXCEPT ![n] = q] /\ q = [J[n] EXCEPT !.elems = t, !.bytes = J[n].bytes + w]
  BY DEF Extends, Extended
<1>4. w \in Nat /\ J[n].bytes = Total(s) /\ J[n].bytes \in Nat
  <2>1. w \in Nat
    BY ElemsSized, UpToStep DEF Total
  <2>2. J[n].bytes = Total(J[n].elems)
    BY <1>1 DEF SoundJobs, ExactIn
  <2> QED
    BY <1>1, <2>1, <2>2 DEF UploadJob
<1> HIDE DEF n, s, w, q
<1>5. /\ t \in Seq(Element) /\ Total(t) = Total(s) + w /\ Elems(t) = Elems(s) \cup Elems(E)
      /\ \A f : Share(f, t) = Share(f, s) + Share(f, E)
  BY <1>1, ElemsJoined DEF w
<1> HIDE DEF t
<1>6. /\ q \in UploadJob /\ q \in Job /\ q.type = "upload" /\ q.elems = t
      /\ q.bytes = J[n].bytes + w /\ q.bytes = Total(t)
  <2> DEFINE c == J[n]
  <2>1. c \in [type : {"upload"}, elems : Seq(Element), bytes : Nat] /\ c.bytes \in Nat
    BY <1>1, <1>4 DEF UploadJob
  <2>2. q = [c EXCEPT !.elems = t, !.bytes = c.bytes + w]
    BY <1>3
  <2>3. c.bytes + w \in Nat /\ c.bytes = Total(s)
    BY <1>4
  <2> HIDE DEF c
  <2>4. q \in [type : {"upload"}, elems : Seq(Element), bytes : Nat]
    BY <1>5, <2>1, <2>2, <2>3
  <2>5. q.type = "upload" /\ q.elems = t /\ q.bytes = c.bytes + w
    BY <2>1, <2>2
  <2> QED
    BY <1>5, <2>3, <2>4, <2>5 DEF c, Job, UploadJob
<1>7. K \in Seq(Job) /\ Len(K) = n
  <2>1. J \in Seq(Job) /\ n \in 1 .. Len(J) /\ q \in Job
    BY <1>1, <1>2, <1>6
  <2> QED
    BY <1>2, <1>3, <2>1, ExceptSeq
<1>8. K[n] = q /\ K[n].type = "upload" /\ K[n].elems = t /\ K[n].bytes = J[n].bytes + w /\ K[n].bytes = Total(t)
  <2>1. n \in DOMAIN J
    BY <1>1
  <2>2. K[n] = q
    BY <1>3, <2>1
  <2> QED
    BY <1>6, <2>2
<1>9. DOMAIN K = 1 .. n /\ \A k \in 1 .. n : k # n => K[k] = J[k]
  BY <1>1, <1>3
<1>10. Sized(J, n) /\ Sized(K, n)
  BY <1>1, <1>2, <1>7, JobsSized
<1>11. \A k \in 0 .. n - 1 : BytesUpTo(K, k) = BytesUpTo(J, k)
  <2> SUFFICES ASSUME NEW k \in 0 .. n - 1 PROVE BytesUpTo(K, k) = BytesUpTo(J, k)
    OBVIOUS
  <2>1. k \in Nat /\ k <= n /\ \A i \in 1 .. k : J[i].bytes = K[i].bytes
    BY <1>1, <1>9
  <2> QED
    BY <1>10, <2>1, UpToAgree
<1>12. Total(K) = Total(J) + Total(E)
  <2>1. /\ BytesUpTo(K, n) = BytesUpTo(K, n - 1) + K[n].bytes
        /\ BytesUpTo(J, n) = BytesUpTo(J, n - 1) + J[n].bytes
        /\ BytesUpTo(J, n - 1) \in Nat /\ n - 1 \in 0 .. n - 1 /\ J[n].bytes \in Nat
    <3>1. n \in Nat /\ n > 0 /\ n \in 1 .. n /\ n - 1 \in 0 .. n /\ n - 1 \in 0 .. n - 1
      BY <1>1
    <3> QED
      BY <1>4, <1>10, <3>1, UpToStep
  <2>2. BytesUpTo(K, n - 1) = BytesUpTo(J, n - 1)
    BY <1>11, <2>1
  <2>3. BytesUpTo(K, n) = BytesUpTo(J, n) + w
    BY <1>4, <1>8, <2>1, <2>2
  <2> QED
    BY <1>2, <1>7, <2>3 DEF Total, w
<1>13. ExactIn(K)
  <2> SUFFICES ASSUME NEW k \in 1 .. n, K[k].type = "upload" PROVE K[k].bytes = Total(K[k].elems)
    BY <1>9 DEF ExactIn
  <2>1. CASE k = n
    BY <1>8, <2>1
  <2>2. CASE k # n
    BY <1>1, <1>9, <2>2 DEF SoundJobs, ExactIn
  <2> QED
    BY <2>1, <2>2
<1>14. \A j \in DOMAIN t : t[j].locOffset = BytesUpTo(J, n - 1) + BytesUpTo(t, j - 1)
  <2> DEFINE a == Len(s)
             b == Len(E)
             x == BytesUpTo(J, n - 1)
  <2>1. /\ DOMAIN t = 1 .. a + b /\ DOMAIN s = 1 .. a /\ DOMAIN E = 1 .. b /\ a \in Nat /\ b \in Nat
        /\ \A j \in 1 .. a : t[j] = s[j] /\ BytesUpTo(t, j - 1) = BytesUpTo(s, j - 1)
        /\ \A j \in 1 .. b : t[a + j] = E[j] /\ BytesUpTo(t, a + j - 1) = Total(s) + BytesUpTo(E, j - 1)
    BY <1>1, ElemsJoined DEF t
  <2>2. Total(J) = x + Total(s) /\ x \in Nat /\ Total(s) \in Nat
    <3>1. /\ BytesUpTo(J, n) = BytesUpTo(J, n - 1) + J[n].bytes
          /\ BytesUpTo(J, n - 1) \in Nat
      BY <1>1, <1>10, UpToStep
    <3> QED
      BY <1>2, <1>4, <3>1 DEF Total
  <2>3. \A j \in 1 .. a : s[j].locOffset = x + BytesUpTo(s, j - 1)
    <3>1. \A j \in DOMAIN J[n].elems : J[n].elems[j].locOffset = BytesUpTo(J, n - 1) + BytesUpTo(J[n].elems, j - 1)
      BY <1>1 DEF SoundJobs, PlacedIn
    <3> QED
      BY <1>2, <2>1, <3>1, Zenon
  <2> HIDE DEF a, b, x
  <2>4. ASSUME NEW j \in 1 .. b PROVE E[j].locOffset = x + (Total(s) + BytesUpTo(E, j - 1))
    <3>1. Sized(E, b) /\ j - 1 \in 0 .. b
      BY <2>1, ElemsSized DEF b
    <3>2. BytesUpTo(E, j - 1) \in Nat
      BY <3>1, UpToStep
    <3>3. E[j].locOffset = Total(J) + BytesUpTo(E, j - 1)
      BY <2>1 DEF StartAt
    <3> QED
      BY <2>2, <3>2, <3>3
  <2>5. ASSUME NEW j \in 1 .. b PROVE t[a + j].locOffset = x + BytesUpTo(t, a + j - 1)
    BY <2>1, <2>4, Zenon
  <2>6. ASSUME NEW j \in 1 .. a PROVE t[j].locOffset = x + BytesUpTo(t, j - 1)
    BY <2>1, <2>3, Zenon
  <2>7. ASSUME NEW j \in 1 .. a + b PROVE t[j].locOffset = x + BytesUpTo(t, j - 1)
    <3>1. CASE j \in 1 .. a
      BY <2>6, <3>1
    <3>2. CASE j \notin 1 .. a
      <4> DEFINE i == j - a
      <4>1. i \in 1 .. b /\ j = a + i /\ j - 1 = a + i - 1
        BY <2>1, <3>2
      <4> HIDE DEF i
      <4>2. t[a + i].locOffset = x + BytesUpTo(t, a + i - 1)
        BY <2>5, <4>1
      <4>3. t[j] = t[a + i] /\ BytesUpTo(t, j - 1) = BytesUpTo(t, a + i - 1)
        BY <4>1, Zenon
      <4> QED
        BY <4>2, <4>3, Zenon
    <3> QED
      BY <3>1, <3>2
  <2> QED
    BY <2>1, <2>7 DEF x
<1>15. PlacedIn(K)
  <2> SUFFICES ASSUME NEW k \in 1 .. n, K[k].type = "upload", NEW j \in DOMAIN K[k].elems
               PROVE  K[k].elems[j].locOffset = BytesUpTo(K, k - 1) + BytesUpTo(K[k].elems, j - 1)
    BY <1>9 DEF PlacedIn
  <2>1. k - 1 \in 0 .. n - 1 /\ BytesUpTo(K, k - 1) = BytesUpTo(J, k - 1)
    BY <1>1, <1>11
  <2>2. CASE k = n
    <3>1. K[k].elems = t /\ j \in DOMAIN t
      BY <1>8, <2>2
    <3>2. t[j].locOffset = BytesUpTo(J, n - 1) + BytesUpTo(t, j - 1)
      BY <1>14, <3>1
    <3> QED
      BY <2>1, <2>2, <3>1, <3>2, Zenon
  <2>3. CASE k # n
    <3>1. K[k] = J[k] /\ k \in DOMAIN J
      BY <1>1, <1>9, <2>3
    <3>2. J[k].elems[j].locOffset = BytesUpTo(J, k - 1) + BytesUpTo(J[k].elems, j - 1)
      BY <3>1 DEF SoundJobs, PlacedIn
    <3> QED
      BY <2>1, <3>1, <3>2, Zenon
  <2> QED
    BY <2>2, <2>3
<1>16. ElemsIn(K) = ElemsIn(J) \cup Elems(E)
  <2>2. /\ n \in DOMAIN J /\ n \in DOMAIN K /\ DOMAIN J = DOMAIN K
        /\ J[n].type = "upload" /\ K[n].type = "upload" /\ J[n].elems = s /\ K[n].elems = t
        /\ \A k \in DOMAIN J : k # n => K[k] = J[k]
    <3>1. n \in DOMAIN J /\ DOMAIN J = DOMAIN K /\ \A k \in DOMAIN J : k # n => K[k] = J[k]
      BY <1>1, <1>9
    <3> QED
      BY <1>1, <1>2, <1>8, <3>1
  <2>3. \A k \in DOMAIN J : k # n => J[k].type = K[k].type /\ J[k].elems = K[k].elems
    BY <2>2
  <2>4. \A x : x \in ElemsIn(K) <=> \E k \in DOMAIN J : K[k].type = "upload" /\ x \in Elems(K[k].elems)
    BY <2>2 DEF ElemsIn
  <2>5. \A x : x \in ElemsIn(J) <=> \E k \in DOMAIN J : J[k].type = "upload" /\ x \in Elems(J[k].elems)
    BY DEF ElemsIn
  <2>6. \A x : x \in ElemsIn(K) <=> x \in ElemsIn(J) \/ x \in Elems(E)
    BY <1>5, <2>2, <2>3, <2>4, <2>5
  <2> QED
    BY <2>6
<1>17. ASSUME NEW f PROVE CarriedIn(f, K) = CarriedIn(f, J) + Share(f, E)
  <2>1. n - 1 \in Nat /\ n - 1 <= Len(J) /\ n - 1 <= Len(K) /\ \A k \in 1 .. n - 1 : K[k] = J[k]
    <3>1. n \in Nat /\ n > 0 /\ Len(J) = n /\ Len(K) = n
      BY <1>1, <1>2, <1>7
    <3>2. \A k \in 1 .. n - 1 : K[k] = J[k]
      BY <1>1, <1>9
    <3> QED
      BY <3>1, <3>2
  <2>2. CarriedBefore(f, K, n - 1) = CarriedBefore(f, J, n - 1)
    BY <1>1, <1>7, <2>1, CarriedAgree
  <2>3. /\ CarriedIn(f, K) = CarriedBefore(f, K, n - 1) + Load(f, K[n])
        /\ CarriedIn(f, J) = CarriedBefore(f, J, n - 1) + Load(f, J[n])
        /\ CarriedBefore(f, J, n - 1) \in Nat
    BY <1>1, <1>2, <1>7, CarriedStep
  <2>4. Load(f, K[n]) = Share(f, t) /\ Load(f, J[n]) = Share(f, s)
    BY <1>1, <1>2, <1>8 DEF Load
  <2>5. Share(f, t) = Share(f, s) + Share(f, E)
    BY <1>5
  <2>6. Share(f, s) \in Nat /\ Share(f, E) \in Nat
    BY <1>1, ElemsSized, ShareIs
  <2> QED
    BY <2>2, <2>3, <2>4, <2>5, <2>6
<1>18. K # <<>> /\ \A k \in 1 .. n - 1 : K[k] = J[k]
  BY <1>1, <1>7, <1>9
<1> QED
  BY <1>2, <1>7, <1>8, <1>9, <1>12, <1>13, <1>15, <1>16, <1>17, <1>18 DEF SoundJobs, EndsUpload, n, s, t, w

(* Elements joined to the jobs: to the last upload, or as a new one.         *)
Grows(K, J, E) ==
  K = IF EndsUpload(J) THEN [J EXCEPT ![Len(J)] = Extended(J[Len(J)], E, Total(E))]
      ELSE Append(J, Upload(E, Total(E)))

(* What S3 and the executor ask of the jobs before the last.                 *)
ShapeIn(J) ==
  \A k \in 1 .. Len(J) :
    /\ k < Len(J) \/ J[k].type # "upload" => J[k].bytes >= MinPart
    /\ k < Len(J) /\ J[k].type = "upload" => J[k].bytes <= MaxMemory

LEMMA JobsGrown ==
  ASSUME NEW J, SoundJobs(J), NEW E \in Seq(Element), StartAt(E, Total(J)), NEW K, Grows(K, J, E)
  PROVE  /\ SoundJobs(K) /\ Total(K) = Total(J) + Total(E)
         /\ ElemsIn(K) = ElemsIn(J) \cup Elems(E)
         /\ \A f : CarriedIn(f, K) = CarriedIn(f, J) + Share(f, E)
         /\ EndsUpload(K) /\ \E p \in Seq(Element) : K[Len(K)].elems = p \o E
         /\ K[Len(K)].bytes = (IF EndsUpload(J) THEN J[Len(J)].bytes ELSE 0) + Total(E)
         /\ ShapeIn(J) => ShapeIn(K)
<1>1. J \in Seq(Job) /\ Len(J) \in Nat
  BY JobsSized DEF SoundJobs
<1>2. CASE EndsUpload(J)
  <2>1. Extends(K, J, E)
    BY <1>2 DEF Grows, Extends
  <2>2. /\ SoundJobs(K) /\ Total(K) = Total(J) + Total(E)
        /\ ElemsIn(K) = ElemsIn(J) \cup Elems(E)
        /\ \A f : CarriedIn(f, K) = CarriedIn(f, J) + Share(f, E)
        /\ Len(K) = Len(J) /\ EndsUpload(K)
        /\ K[Len(J)].elems = J[Len(J)].elems \o E
        /\ K[Len(J)].bytes = J[Len(J)].bytes + Total(E)
        /\ \A k \in 1 .. Len(J) - 1 : K[k] = J[k]
    BY <1>2, <2>1, UploadExtended
  <2>3. \E p \in Seq(Element) : K[Len(K)].elems = p \o E
    <3>1. Len(J) \in 1 .. Len(J)
      BY <1>1, <1>2 DEF EndsUpload
    <3>2. J[Len(J)] \in Job /\ J[Len(J)].type = "upload"
      BY <1>1, <1>2, <3>1, JobsSized DEF EndsUpload
    <3>3. J[Len(J)].elems \in Seq(Element)
      BY <3>2, JobKinds
    <3> QED
      BY <2>2, <3>3
  <2>4. ShapeIn(J) => ShapeIn(K)
    BY <1>1, <2>2 DEF ShapeIn, EndsUpload
  <2> QED
    BY <1>2, <2>2, <2>3, <2>4
<1>3. CASE ~EndsUpload(J)
  <2> DEFINE c == Upload(<<>>, 0)
             L == Append(J, c)
             n == Len(J)
  <2>1. c \in Job /\ c.type = "upload" /\ c.elems = <<>> /\ c.bytes = 0
    BY DEF Upload, Job, UploadJob
  <2>2. \A f : Load(f, c) = 0
    BY <2>1, NoElems DEF Load
  <2>3. /\ SoundJobs(L) /\ Total(L) = Total(J) + c.bytes /\ Total(J) \in Nat
        /\ ElemsIn(L) = ElemsIn(J)
        /\ \A f : CarriedIn(f, L) = CarriedIn(f, J) + Load(f, c)
    BY <1>1, <2>1, JobAppended, JobsSized, UpToStep DEF Total
  <2>4. Total(L) = Total(J) /\ \A f : CarriedIn(f, L) = CarriedIn(f, J)
    <3>1. \A f : CarriedIn(f, J) \in Nat
      BY <1>1, CarriedStep
    <3> HIDE DEF L, c
    <3>2. \A f : CarriedIn(f, L) = CarriedIn(f, J)
      BY <2>2, <2>3, <3>1
    <3> QED
      BY <2>1, <2>3, <3>2
  <2>5. /\ Len(L) = n + 1 /\ L[n + 1] = c /\ (\A k \in 1 .. n : L[k] = J[k]) /\ L # <<>>
        /\ DOMAIN L = 1 .. n + 1
    BY <1>1
  <2>6. EndsUpload(L)
    <3> HIDE DEF L, c
    <3> QED
      BY <2>1, <2>5 DEF EndsUpload
  <2>7. Extended(c, E, Total(E)) = Upload(E, Total(E))
    <3> DEFINE w == Total(E)
    <3>1. c.elems \o E = E
      BY <2>1
    <3>2. w \in Nat
      BY ElemsSized, UpToStep DEF Total
    <3>3. c.bytes + w = w
      BY <2>1, <3>2
    <3> DEFINE d == [c EXCEPT !.elems = E, !.bytes = w]
    <3>4. c \in [type : {"upload"}, elems : Seq(Element), bytes : Nat]
      BY DEF Upload
    <3> HIDE DEF w, c
    <3>5. d \in [type : {"upload"}, elems : Seq(Element), bytes : Nat] /\ d.elems = E /\ d.bytes = w
      BY <3>2, <3>4
    <3>6. Extended(c, E, w) = d
      BY <3>1, <3>3, Zenon DEF Extended
    <3> HIDE DEF d
    <3> DEFINE u == Upload(E, w)
    <3>7. u \in [type : {"upload"}, elems : Seq(Element), bytes : Nat] /\ u.elems = E /\ u.bytes = w
      BY <3>2 DEF Upload
    <3> HIDE DEF u
    <3>8. d = u
      BY <3>5, <3>7
    <3>9. Extended(c, E, w) = Upload(E, w)
      BY <3>6, <3>8 DEF u
    <3> QED
      BY <3>9 DEF w
  <2>8. K = [L EXCEPT ![n + 1] = Upload(E, Total(E))]
    <3> DEFINE u == Upload(E, Total(E))
    <3>1. K = Append(J, u)
      BY <1>3 DEF Grows
    <3>2. u \in Job
      <4>1. Total(E) \in Nat
        BY ElemsSized, UpToStep DEF Total
      <4> QED
        BY <4>1 DEF Upload, Job, UploadJob
    <3> HIDE DEF u, c, L
    <3>3. K \in Seq(Job) /\ Len(K) = n + 1 /\ K[n + 1] = u /\ \A k \in 1 .. n : K[k] = J[k]
      BY <1>1, <3>1, <3>2
    <3>4. L \in Seq(Job) /\ n + 1 \in 1 .. Len(L)
      BY <1>1, <2>3, <2>5 DEF SoundJobs
    <3> DEFINE M == [L EXCEPT ![n + 1] = u]
    <3>5. M \in Seq(Job) /\ Len(M) = Len(L) /\ \A j \in 1 .. Len(L) : M[j] = IF j = n + 1 THEN u ELSE L[j]
      BY <3>2, <3>4, ExceptSeq
    <3> HIDE DEF M
    <3>6. Len(M) = n + 1 /\ \A i \in 1 .. n + 1 : K[i] = M[i]
      BY <1>1, <2>5, <3>3, <3>5
    <3>7. K = M
      BY <3>3, <3>5, <3>6, SeqEqual
    <3> QED
      BY <3>7 DEF M, u
  <2> HIDE DEF L, c, n
  <2>9. Extends(K, L, E)
    BY <2>5, <2>7, <2>8 DEF Extends
  <2>10. StartAt(E, Total(L))
    BY <2>4, Zenon
  <2>11. /\ SoundJobs(K) /\ Total(K) = Total(L) + Total(E)
         /\ ElemsIn(K) = ElemsIn(L) \cup Elems(E)
         /\ \A f : CarriedIn(f, K) = CarriedIn(f, L) + Share(f, E)
         /\ Len(K) = Len(L) /\ EndsUpload(K)
         /\ K[Len(L)].elems = L[Len(L)].elems \o E
         /\ K[Len(L)].bytes = L[Len(L)].bytes + Total(E)
         /\ \A k \in 1 .. Len(L) - 1 : K[k] = L[k]
    BY <2>3, <2>6, <2>9, <2>10, UploadExtended
  <2>12. ShapeIn(J) => ShapeIn(K)
    <3>1. n \in Nat /\ n = Len(J) /\ Len(K) = n + 1 /\ Len(L) - 1 = n
      BY <1>1, <2>5, <2>11 DEF n
    <3>2. (\A k \in 1 .. n : K[k] = J[k]) /\ K[n + 1].type = "upload"
      BY <2>5, <2>11, <3>1 DEF EndsUpload
    <3>3. n > 0 => J[n].type # "upload"
      BY <1>1, <1>3, <3>1 DEF EndsUpload
    <3> QED
      BY <3>1, <3>2, <3>3 DEF ShapeIn
  <2>13. K[Len(K)].elems = <<>> \o E /\ <<>> \in Seq(Element)
    BY <2>1, <2>5, <2>11
  <2>14. K[Len(K)].bytes = 0 + Total(E)
    BY <2>1, <2>5, <2>11
  <2> QED
    BY <1>3, <2>3, <2>4, <2>11, <2>12, <2>13, <2>14
<1> QED
  BY <1>2, <1>3

-----------------------------------------------------------------------------
LEMMA ElemIs ==
  ASSUME NEW f \in Nat, NEW l \in Nat, NEW b \in Nat
  PROVE  /\ Elem(f, l, b) \in Element /\ Elem(f, l, b).file = f
         /\ Elem(f, l, b).locOffset = l /\ Elem(f, l, b).bytes = b
  BY DEF Elem, Element

(* The elements of a regular part, as add_files places them. *)
LEMMA EntriesPlaced ==
  ASSUME TypeOK, NEW r \in Regulars, offset \in Nat, NEW E, E = EntryElems(r.entries)
  PROVE  /\ E \in Seq(Element) /\ StartAt(E, offset) /\ Total(E) = r.bytes
         /\ \A j \in DOMAIN E : E[j].file \in Files
         /\ \A i, j \in DOMAIN E : E[i].file = E[j].file => i = j
         /\ {E[j].file : j \in DOMAIN E} = EntriesOf(r)
         /\ \A f : Share(f, E) = IF f \in EntriesOf(r) THEN EntrySize(f) ELSE 0
<1> DEFINE s == r.entries
           n == Len(s)
           W == [i \in DOMAIN s |-> EntrySize(s[i])]
<1>1. /\ s \in Seq(Nat) /\ n \in Nat /\ DOMAIN s = 1 .. n
      /\ \A j \in 1 .. n : s[j] \in Files
      /\ \A i, j \in 1 .. n : s[i] = s[j] => i = j
      /\ r.bytes = BytesBefore(s, n + 1) /\ EntriesOf(r) = {s[j] : j \in 1 .. n}
  <2>1. r \in RegularPart /\ Sound(r)
    BY DEF Regulars
  <2>2. s \in Seq(Nat) /\ n \in Nat /\ DOMAIN s = 1 .. n
    BY <2>1 DEF RegularPart
  <2> QED
    BY <2>1, <2>2 DEF Sound, EntriesOf
<1>2. E = EntryElems(s)
  OBVIOUS
<1> HIDE DEF s, n
<1>3. \A j \in 1 .. n : W[j] = EntrySize(s[j]) /\ W[j] \in Nat /\ s[j] \in Nat
  BY <1>1, EntrySizes DEF Files
<1>4. \A j \in 1 .. n + 1 : BytesBefore(s, j) = SumFunctionOnSet(W, 1 .. j - 1)
  BY DEF BytesBefore
<1> HIDE DEF W
<1>5. \A j \in 1 .. n + 1 : BytesBefore(s, j) \in Nat
  <2> SUFFICES ASSUME NEW j \in 1 .. n + 1 PROVE BytesBefore(s, j) \in Nat
    OBVIOUS
  <2>1. 1 \in Int /\ j - 1 \in Int /\ \A k \in 1 .. j - 1 : k \in 1 .. n
    BY <1>1
  <2>2. IsFiniteSet(1 .. j - 1)
    BY <2>1, FS_Interval
  <2>3. \A k \in 1 .. j - 1 : W[k] \in Nat
    BY <1>3, <2>1
  <2> QED
    BY <1>4, <2>2, <2>3, SumNat
<1>6. DOMAIN E = 1 .. n /\ \A j \in 1 .. n : E[j] = Elem(s[j], offset + BytesBefore(s, j), EntrySize(s[j]))
  BY <1>1, <1>2 DEF EntryElems
<1>7. \A j \in 1 .. n : /\ E[j].file = s[j] /\ E[j].bytes = W[j]
                        /\ E[j].locOffset = offset + BytesBefore(s, j)
                        /\ E[j] \in Element
  <2> SUFFICES ASSUME NEW j \in 1 .. n
               PROVE  /\ E[j].file = s[j] /\ E[j].bytes = W[j]
                      /\ E[j].locOffset = offset + BytesBefore(s, j)
                      /\ E[j] \in Element
    OBVIOUS
  <2>1. j \in 1 .. n + 1
    BY <1>1
  <2>2. offset + BytesBefore(s, j) \in Nat
    BY <1>5, <2>1
  <2>3. E[j] = Elem(s[j], offset + BytesBefore(s, j), W[j]) /\ s[j] \in Nat /\ W[j] \in Nat
    BY <1>3, <1>6
  <2> QED
    BY <2>2, <2>3, ElemIs
<1>8. E \in Seq(Element) /\ Len(E) = n
  <2>1. E = [j \in 1 .. n |-> E[j]]
    BY <1>1, <1>2 DEF EntryElems
  <2>2. E \in [1 .. n -> Element]
    BY <1>7, <2>1
  <2> QED
    BY <1>1, <2>2
<1>9. \A k \in 0 .. n : BytesUpTo(E, k) = BytesBefore(s, k + 1)
  <2> DEFINE V == [i \in DOMAIN E |-> E[i].bytes]
  <2> SUFFICES ASSUME NEW k \in 0 .. n PROVE BytesUpTo(E, k) = BytesBefore(s, k + 1)
    OBVIOUS
  <2>1. \A i \in 1 .. n : V[i] = W[i]
    BY <1>6, <1>7
  <2>2. BytesUpTo(E, k) = SumFunctionOnSet(V, 1 .. k)
    BY DEF BytesUpTo
  <2> HIDE DEF V
  <2>3. k \in Int /\ k + 1 \in 1 .. n + 1 /\ (k + 1) - 1 = k /\ \A i \in 1 .. k : i \in 1 .. n
    BY <1>1
  <2>4. IsFiniteSet(1 .. k)
    BY <2>3, FS_Interval, 1 \in Int
  <2>5. SumFunctionOnSet(V, 1 .. k) = SumFunctionOnSet(W, 1 .. k)
    BY <2>1, <2>3, <2>4, SumSame
  <2>6. BytesBefore(s, k + 1) = SumFunctionOnSet(W, 1 .. (k + 1) - 1)
    BY <1>4, <2>3
  <2> QED
    BY <2>2, <2>3, <2>5, <2>6, Zenon
<1>10. StartAt(E, offset)
  <2> SUFFICES ASSUME NEW j \in 1 .. n PROVE E[j].locOffset = offset + BytesUpTo(E, j - 1)
    BY <1>6 DEF StartAt
  <2>1. j - 1 \in 0 .. n /\ (j - 1) + 1 = j
    BY <1>1
  <2>2. BytesUpTo(E, j - 1) = BytesBefore(s, (j - 1) + 1)
    BY <1>9, <2>1
  <2>3. BytesUpTo(E, j - 1) = BytesBefore(s, j)
    BY <2>1, <2>2, Zenon
  <2> QED
    BY <1>7, <2>3, Zenon
<1>11. Total(E) = r.bytes
  <2>1. BytesUpTo(E, n) = BytesBefore(s, n + 1)
    BY <1>1, <1>9
  <2> QED
    BY <1>1, <1>8, <2>1 DEF Total
<1>12. \A f : Share(f, E) = IF f \in EntriesOf(r) THEN EntrySize(f) ELSE 0
  <2> SUFFICES ASSUME NEW f PROVE Share(f, E) = IF f \in EntriesOf(r) THEN EntrySize(f) ELSE 0
    OBVIOUS
  <2>1. Sized(E, n)
    BY <1>8, ElemsSized
  <2>2. CASE f \in EntriesOf(r)
    <3>1. PICK k \in 1 .. n : s[k] = f
      BY <1>1, <2>2
    <3>2. E[k].file = f /\ E[k].bytes = EntrySize(f) /\ \A i \in 1 .. n : E[i].file = f => i = k
      BY <1>1, <1>3, <1>7, <3>1
    <3>3. Share(f, E) = E[k].bytes
      BY <2>1, <3>2, ShareIs
    <3> QED
      BY <2>2, <3>2, <3>3
  <2>3. CASE f \notin EntriesOf(r)
    <3>1. \A i \in 1 .. n : E[i].file # f
      BY <1>1, <1>7, <2>3
    <3>2. Share(f, E) = 0
      BY <2>1, <3>1, ShareIs
    <3> QED
      BY <2>3, <3>2
  <2> QED
    BY <2>2, <2>3
<1>13. {E[j].file : j \in DOMAIN E} = EntriesOf(r)
  BY <1>1, <1>6, <1>7
<1> QED
  BY <1>1, <1>6, <1>7, <1>8, <1>10, <1>11, <1>12, <1>13

(* The directory: H the elements with a local header, C the sizes predicted  *)
(* for their central headers, T the files taken.                             *)
CentralOf(sz, e) == CdfhRecord(sz[e.file], NameLen[e.file], e.locOffset).written
DirectoryOf(sz, H) == SumFunction([e \in H |-> CentralOf(sz, e)])

Registered(sz, H, C, T) ==
  /\ H \subseteq Element /\ IsFiniteSet(H) /\ C \in Seq(Nat)
  /\ \A e \in H : e.file \in T
  /\ \A f \in T : \E e \in H : e.file = f
  /\ \A d, e \in H : d.file = e.file => d = e
  /\ SumFunction(C) = DirectoryOf(sz, H)
  /\ IsFiniteSet(T) /\ Len(C) = Cardinality(T)

LEMMA CentralSize ==
  ASSUME TypeOK, NEW e \in Element, e.file \in Files
  PROVE  CentralOf(size, e) \in Nat /\ CentralOf(size, e) = Predicted(e.file, e.locOffset)
<1>1. e.file \in 1 .. MaxFiles /\ size[e.file] \in Nat /\ e.locOffset \in Nat
  BY LocFits DEF Element
<1>2. NameLen[e.file] \in Nat
  BY <1>1, LayoutAssumption
<1>3. CentralOf(size, e) = Predicted(e.file, e.locOffset)
  BY <1>1, <1>2, CdfhSizeExact DEF CentralOf, Predicted
<1>4. Predicted(e.file, e.locOffset) \in Nat
  BY <1>1, <1>2, FormatAssumption DEF Predicted, CdfhSize
<1> QED
  BY <1>3, <1>4

(* Sums over two sequences, and over a set and a sequence of new values.     *)
LEMMA SumJoined ==
  ASSUME NEW C \in Seq(Nat), NEW P \in Seq(Nat)
  PROVE  /\ C \o P \in Seq(Nat) /\ Len(C \o P) = Len(C) + Len(P)
         /\ SumFunction(C \o P) = SumFunction(C) + SumFunction(P)
<1> DEFINE n == Len(P)
           m == Len(C)
           D == C \o P
<1>1. /\ m \in Nat /\ n \in Nat /\ DOMAIN C = 1 .. m /\ DOMAIN P = 1 .. n
      /\ D \in Seq(Nat) /\ Len(D) = m + n /\ DOMAIN D = 1 .. m + n
      /\ \A j \in 1 .. m : D[j] = C[j]
      /\ \A j \in 1 .. n : P[j] = D[m + j]
  OBVIOUS
<1> HIDE DEF n, m, D
<1>2. \A k \in 1 .. m + n : D[k] \in Int
  BY <1>1
<1>3. \A f, g :
        (\A k \in 1 .. m + n : f[k] \in Int) /\ (\A k \in 1 .. n : g[k] = f[m + k])
        => SumFunctionOnSet(f, 1 .. m + n) = SumFunctionOnSet(f, 1 .. m) + SumFunctionOnSet(g, 1 .. n)
  BY <1>1, SumShift, Zenon
<1>4. SumFunctionOnSet(D, 1 .. m + n) = SumFunctionOnSet(D, 1 .. m) + SumFunctionOnSet(P, 1 .. n)
  BY <1>1, <1>2, <1>3, Zenon
<1>5. IsFiniteSet(1 .. m) /\ \A j \in 1 .. m : D[j] = C[j]
  BY <1>1, FS_Interval, 1 \in Int, m \in Int
<1>6. SumFunctionOnSet(D, 1 .. m) = SumFunctionOnSet(C, 1 .. m)
  BY <1>5, SumSame
<1>7. /\ SumFunction(D) = SumFunctionOnSet(D, 1 .. m + n) /\ SumFunction(C) = SumFunctionOnSet(C, 1 .. m)
      /\ SumFunction(P) = SumFunctionOnSet(P, 1 .. n)
  BY <1>1, Zenon DEF SumFunction
<1>8. SumFunction(D) = SumFunction(C) + SumFunction(P)
  BY <1>4, <1>6, <1>7, Zenon
<1> QED
  BY <1>1, <1>8 DEF n, m, D

(* The members of a sequence, all different.                                 *)
Distinct(s, n) == n \in Nat /\ \A i, j \in 1 .. n : s[i] = s[j] => i = j
Values(s, n) == {s[k] : k \in 1 .. n}

LEMMA ValuesCount ==
  ASSUME NEW s, NEW n, Distinct(s, n)
  PROVE  /\ IsFiniteSet(Values(s, n)) /\ Cardinality(Values(s, n)) = n
         /\ \A f, g : (\A k \in 1 .. n : f[s[k]] \in Int /\ g[k] = f[s[k]])
                      => SumFunctionOnSet(f, Values(s, n)) = SumFunctionOnSet(g, 1 .. n)
<1>1. n \in Nat /\ \A i, j \in 1 .. n : s[i] = s[j] => i = j
  BY DEF Distinct
<1>2. ASSUME NEW f, NEW g, \A k \in 1 .. n : f[s[k]] \in Int /\ g[k] = f[s[k]]
      PROVE  /\ IsFiniteSet(Values(s, n)) /\ Cardinality(Values(s, n)) = n
             /\ SumFunctionOnSet(f, Values(s, n)) = SumFunctionOnSet(g, 1 .. n)
  <2>1. \A r, h, k :
          (\A i \in 1 .. n : h[r[i]] \in Int /\ k[i] = h[r[i]]) /\ (\A i, j \in 1 .. n : r[i] = r[j] => i = j)
          => /\ IsFiniteSet({r[i] : i \in 1 .. n}) /\ Cardinality({r[i] : i \in 1 .. n}) = n
             /\ SumFunctionOnSet(h, {r[i] : i \in 1 .. n}) = SumFunctionOnSet(k, 1 .. n)
    BY <1>1, SumImage, Zenon
  <2>2. (\A i \in 1 .. n : f[s[i]] \in Int /\ g[i] = f[s[i]]) /\ (\A i, j \in 1 .. n : s[i] = s[j] => i = j)
    BY <1>1, <1>2, Zenon
  <2>3. \A h, k :
          (\A i \in 1 .. n : h[s[i]] \in Int /\ k[i] = h[s[i]]) /\ (\A i, j \in 1 .. n : s[i] = s[j] => i = j)
          => /\ IsFiniteSet({s[i] : i \in 1 .. n}) /\ Cardinality({s[i] : i \in 1 .. n}) = n
             /\ SumFunctionOnSet(h, {s[i] : i \in 1 .. n}) = SumFunctionOnSet(k, 1 .. n)
    BY <2>1, Zenon
  <2>4. (\A i \in 1 .. n : f[s[i]] \in Int /\ g[i] = f[s[i]]) /\ (\A i, j \in 1 .. n : s[i] = s[j] => i = j)
          => /\ IsFiniteSet({s[i] : i \in 1 .. n}) /\ Cardinality({s[i] : i \in 1 .. n}) = n
             /\ SumFunctionOnSet(f, {s[i] : i \in 1 .. n}) = SumFunctionOnSet(g, 1 .. n)
    BY <2>3, Zenon
  <2>5. /\ IsFiniteSet({s[i] : i \in 1 .. n}) /\ Cardinality({s[i] : i \in 1 .. n}) = n
        /\ SumFunctionOnSet(f, {s[i] : i \in 1 .. n}) = SumFunctionOnSet(g, 1 .. n)
    BY <2>2, <2>4, Zenon
  <2> QED
    BY <2>5, Zenon DEF Values
<1>3. IsFiniteSet(Values(s, n)) /\ Cardinality(Values(s, n)) = n
  <2> DEFINE f == [x \in Values(s, n) |-> 0]
             g == [k \in 1 .. n |-> 0]
  <2>1. \A k \in 1 .. n : f[s[k]] \in Int /\ g[k] = f[s[k]]
    BY DEF Values
  <2> HIDE DEF f, g
  <2> QED
    BY <1>2, <2>1
<1> QED
  BY <1>2, <1>3

Joins(v, u, H, p, s, n) ==
  /\ IsFiniteSet(H) /\ Distinct(s, n) /\ H \cap Values(s, n) = {}
  /\ DOMAIN v = H \cup Values(s, n) /\ DOMAIN u = H /\ DOMAIN p = 1 .. n
  /\ \A e \in H : v[e] = u[e] /\ v[e] \in Int
  /\ \A k \in 1 .. n : v[s[k]] \in Int /\ p[k] = v[s[k]]

LEMMA SumSetAndSeq ==
  ASSUME NEW v, NEW u, NEW H, NEW p, NEW s, NEW n, Joins(v, u, H, p, s, n)
  PROVE  SumFunction(v) = SumFunction(u) + SumFunction(p)
<1> DEFINE N == Values(s, n)
<1>0. /\ IsFiniteSet(H) /\ Distinct(s, n) /\ H \cap Values(s, n) = {}
      /\ DOMAIN v = H \cup Values(s, n) /\ DOMAIN u = H /\ DOMAIN p = 1 .. n
      /\ \A e \in H : v[e] = u[e] /\ v[e] \in Int
      /\ \A k \in 1 .. n : v[s[k]] \in Int /\ p[k] = v[s[k]]
  BY DEF Joins
<1>1. IsFiniteSet(N) /\ SumFunctionOnSet(v, N) = SumFunctionOnSet(p, 1 .. n)
  <2>1. /\ IsFiniteSet(N)
        /\ \A f, g : (\A k \in 1 .. n : f[s[k]] \in Int /\ g[k] = f[s[k]])
                     => SumFunctionOnSet(f, N) = SumFunctionOnSet(g, 1 .. n)
    BY <1>0, ValuesCount
  <2> QED
    BY <1>0, <2>1, Zenon
<1>2. \A e \in H \cup N : v[e] \in Int
  BY <1>0 DEF Values
<1> HIDE DEF N
<1>3. H \cap N = {}
  BY <1>0 DEF N
<1>4. SumFunctionOnSet(v, H \cup N) = SumFunctionOnSet(v, H) + SumFunctionOnSet(v, N)
  BY <1>0, <1>1, <1>2, <1>3, SumParts
<1>5. SumFunctionOnSet(v, H) = SumFunctionOnSet(u, H)
  BY <1>0, SumSame
<1>6. /\ SumFunction(v) = SumFunctionOnSet(v, H \cup N) /\ SumFunction(u) = SumFunctionOnSet(u, H)
      /\ SumFunction(p) = SumFunctionOnSet(p, 1 .. n)
  BY <1>0, Zenon DEF SumFunction, N
<1> QED
  BY <1>1, <1>4, <1>5, <1>6, Zenon

(* Elements of files not taken before. *)
NewFiles(E, T) ==
  /\ \A j \in DOMAIN E : E[j].file \in Files \ T
  /\ \A i, j \in DOMAIN E : E[i].file = E[j].file => i = j
Predictions(E) == [j \in DOMAIN E |-> Predicted(E[j].file, E[j].locOffset)]
FilesIn(E) == {E[j].file : j \in DOMAIN E}

LEMMA RegisterMore ==
  ASSUME TypeOK, NEW H, NEW C, NEW T, T \subseteq Files, Registered(size, H, C, T),
         NEW E \in Seq(Element), NewFiles(E, T)
  PROVE  Registered(size, H \cup Elems(E), C \o Predictions(E), T \cup FilesIn(E))
<1> DEFINE n == Len(E)
           P == Predictions(E)
           U == [e \in H |-> CentralOf(size, e)]
           V == [e \in H \cup Elems(E) |-> CentralOf(size, e)]
           N == Values(E, n)
           F == [k \in 1 .. n |-> E[k].file]
           M == Values(F, n)
<1>1. n \in Nat /\ DOMAIN E = 1 .. n /\ \A j \in 1 .. n : E[j] \in Element
  OBVIOUS
<1>2. /\ \A j \in 1 .. n : E[j].file \in Files /\ E[j].file \notin T
      /\ \A i, j \in 1 .. n : E[i].file = E[j].file => i = j
  BY <1>1 DEF NewFiles
<1>3. /\ H \subseteq Element /\ IsFiniteSet(H) /\ C \in Seq(Nat) /\ IsFiniteSet(T)
      /\ Len(C) = Cardinality(T) /\ SumFunction(C) = DirectoryOf(size, H)
      /\ \A e \in H : e.file \in T
      /\ \A f \in T : \E e \in H : e.file = f
      /\ \A d, e \in H : d.file = e.file => d = e
  BY DEF Registered
<1>4. \A e \in H : CentralOf(size, e) \in Nat
  BY <1>3, CentralSize
<1>5. \A j \in 1 .. n : P[j] = CentralOf(size, E[j]) /\ P[j] \in Nat
  BY <1>1, <1>2, CentralSize DEF Predictions
<1>6. P \in Seq(Nat) /\ Len(P) = n /\ DOMAIN P = 1 .. n
  <2>1. P = [j \in 1 .. n |-> P[j]]
    BY <1>1 DEF Predictions
  <2>2. P \in [1 .. n -> Nat]
    BY <1>5, <2>1
  <2> QED
    BY <1>1, <2>2
<1>7. Elems(E) = N /\ FilesIn(E) = M
  BY <1>1 DEF Elems, FilesIn, Values
<1>8. Distinct(E, n) /\ Distinct(F, n)
  BY <1>1, <1>2 DEF Distinct
<1>9. M \subseteq Files \ T /\ \A e \in N : e \in Element /\ e.file \in M
  BY <1>1, <1>2 DEF Values
<1>10. (\A f \in M : \E e \in N : e.file = f) /\ \A d, e \in N : d.file = e.file => d = e
  <2>1. \A e \in N : \E j \in 1 .. n : e = E[j]
    BY DEF Values
  <2>2. \A d, e \in N : d.file = e.file => d = e
    BY <1>2, <2>1
  <2>3. \A f \in M : \E e \in N : e.file = f
    BY DEF Values
  <2> QED
    BY <2>2, <2>3
<1>11. /\ \A e \in H : V[e] = U[e] /\ V[e] \in Int
       /\ DOMAIN V = H \cup N /\ DOMAIN U = H
  BY <1>4, <1>7
<1>12. \A k \in 1 .. n : V[E[k]] \in Int /\ P[k] = V[E[k]]
  <2> SUFFICES ASSUME NEW k \in 1 .. n PROVE V[E[k]] \in Int /\ P[k] = V[E[k]]
    OBVIOUS
  <2>1. E[k] \in H \cup Elems(E)
    BY <1>1 DEF Elems
  <2>2. V[E[k]] = CentralOf(size, E[k])
    BY <2>1
  <2> QED
    BY <1>5, <2>2
<1>13. SumFunction(V) = DirectoryOf(size, H \cup Elems(E)) /\ SumFunction(U) = DirectoryOf(size, H)
  BY DEF DirectoryOf
<1> HIDE DEF n, P, U, V, F, M, N
<1>14. IsFiniteSet(N) /\ IsFiniteSet(M) /\ Cardinality(M) = n
  BY <1>8, ValuesCount DEF M, N
<1>15. H \cap N = {}
  BY <1>3, <1>9
<1>16. SumFunction(V) = SumFunction(U) + SumFunction(P)
  <2>1. Joins(V, U, H, P, E, n)
    BY <1>3, <1>6, <1>8, <1>11, <1>12, <1>15, Zenon DEF Joins, N
  <2> QED
    BY <2>1, SumSetAndSeq
<1>17. /\ C \o P \in Seq(Nat) /\ Len(C \o P) = Len(C) + n
       /\ SumFunction(C \o P) = SumFunction(C) + SumFunction(P)
  BY <1>3, <1>6, SumJoined
<1>18. SumFunction(C \o P) = DirectoryOf(size, H \cup N)
  BY <1>3, <1>7, <1>13, <1>16, <1>17, Zenon
<1>19. IsFiniteSet(T \cup M) /\ Cardinality(T \cup M) = Cardinality(T) + n
  <2>1. T \cap M = {}
    BY <1>9
  <2>2. IsFiniteSet(T \cup M) /\ Cardinality(T \cup M) = Cardinality(T) + Cardinality(M) - Cardinality(T \cap M)
    BY <1>3, <1>14, FS_Union
  <2>3. Cardinality(T \cap M) = 0
    BY <2>1, FS_EmptySet
  <2>4. Cardinality(T) \in Nat /\ n \in Nat
    BY <1>1, <1>3, FS_CardinalityType
  <2> QED
    BY <1>14, <2>2, <2>3, <2>4
<1>20. H \cup N \subseteq Element /\ IsFiniteSet(H \cup N)
  BY <1>3, <1>9, <1>14, FS_Union
<1>21. /\ \A e \in H \cup N : e.file \in T \cup M
       /\ \A f \in T \cup M : \E e \in H \cup N : e.file = f
  BY <1>3, <1>9, <1>10
<1>22. \A d, e \in H \cup N : d.file = e.file => d = e
  BY <1>3, <1>9, <1>10
<1>23. Len(C \o P) = Cardinality(T \cup M)
  BY <1>3, <1>17, <1>19
<1>24. Registered(size, H \cup N, C \o P, T \cup M)
  BY <1>17, <1>18, <1>19, <1>20, <1>21, <1>22, <1>23 DEF Registered
<1> QED
  BY <1>7, <1>24 DEF P

-----------------------------------------------------------------------------
(* The inductive invariant of the builder *)

(* The files of the first n parts, and those registered so far.              *)
FilesUpTo(n) == UNION {FilesOf(parts[i]) : i \in 1 .. n}
Taken == FilesUpTo(taken) \cup (IF half = "copy" THEN EntriesOf(Part.regular) ELSE {})

HeadersIn(J) == {e \in ElemsIn(J) : e.file # 0}

Counters ==
  /\ taken \in 0 .. Len(parts) /\ half \in {"files", "copy"}
  /\ offset \in Nat /\ built \in BOOLEAN
  /\ half = "copy" => ~built /\ taken < Len(parts) /\ Part.kind = "duo"

(* An upload is left open by the Singles only, and between the two halves of *)
(* a Duo: then it holds what add_files has put there.                        *)
OpenUpload ==
  /\ ~built => offset = Total(jobs)
  /\ ~built /\ half = "files" /\ EndsUpload(jobs) => taken > 0 /\ parts[taken].kind = "single"
  /\ half = "copy" => EndsUpload(jobs) /\ jobs[Len(jobs)].bytes = Part.regular.bytes

Books ==
  /\ Registered(size, HeadersIn(jobs), cdfh_sizes, Taken)
  /\ \A f \in Files : CarriedIn(f, jobs) = IF f \in Taken THEN EntrySize(f) ELSE 0

DirectoryBytes == Eocd64.bytes + EndSize(Eocd64.count, Eocd64.bytes, Eocd64.at)

Closed ==
  built => /\ taken = Len(parts) /\ eocd64 = Eocd64 /\ EndsUpload(jobs)
           /\ \E p \in Seq(Element) :
                jobs[Len(jobs)].elems = p \o <<Elem(0, offset, DirectoryBytes)>>

JobsInv == SoundJobs(jobs) /\ ShapeIn(jobs)
BuildInv == Counters /\ JobsInv /\ OpenUpload /\ Books /\ Closed

(* The builder runs after the planner.                                       *)
PlanInv ==
  /\ phase # "done" => BuilderInit
  /\ phase = "done" => ~Left /\ big = 0

PlanBuildInv == LayoutInv /\ PlanInv /\ BuildInv
-----------------------------------------------------------------------------
(* The part that is next, and the files of those before it.                  *)
LEMMA PartIs ==
  ASSUME LayoutInv, NEW i \in 1 .. Len(parts)
  PROVE  /\ parts[i] \in LayoutPart /\ parts[i].regular \in Regulars
         /\ parts[i].kind # "duo" => parts[i].kind = "single" /\ FilesOf(parts[i]) = EntriesOf(parts[i].regular)
         /\ parts[i].kind = "duo" =>
              /\ parts[i].big \in Files /\ parts[i].big \notin EntriesOf(parts[i].regular)
              /\ FilesOf(parts[i]) = EntriesOf(parts[i].regular) \cup {parts[i].big}
              /\ UploadHalf(parts[i]) >= MinPart /\ UploadHalf(parts[i]) <= MaxMemory
              /\ CopyHalf(parts[i]) >= MinPart
         /\ FilesOf(parts[i]) \subseteq Files
<1>1. TypeOK /\ parts[i] \in LayoutPart /\ i \in DOMAIN parts
  BY DEF LayoutInv, Inv, TypeOK
<1>2. /\ parts[i].regular \in Regulars
      /\ parts[i].kind = "duo" => parts[i].big \notin EntriesOf(parts[i].regular)
  BY <1>1 DEF LayoutInv, Placement, AllSound
<1>3. parts[i].kind \in {"single", "duo"}
  BY <1>1 DEF LayoutPart
<1>4. EntriesOf(parts[i].regular) \subseteq Files
  BY <1>2 DEF Regulars, Sound, EntriesOf
<1>5. ASSUME parts[i].kind = "duo"
      PROVE  /\ parts[i].big \in Files /\ UploadHalf(parts[i]) >= MinPart
             /\ CopyHalf(parts[i]) >= MinPart /\ UploadHalf(parts[i]) <= MaxMemory
  <2>1. parts[i].big \in Files
    BY <1>1, <1>5 DEF LayoutInv, Inv, BigPlaced, Files
  <2>2. UploadHalf(parts[i]) >= MinPart /\ CopyHalf(parts[i]) >= MinPart
    BY <1>1, <1>5 DEF LayoutInv, Inv, DuoHalvesBigEnough
  <2>3. UploadHalf(parts[i]) <= MaxMemory
    BY <1>1, <1>5 DEF LayoutInv, Fit, HalvesFit, HalfFits
  <2> QED
    BY <2>1, <2>2, <2>3
<1>6. FilesOf(parts[i]) = EntriesOf(parts[i].regular) \cup (IF parts[i].kind = "duo" THEN {parts[i].big} ELSE {})
  BY DEF FilesOf
<1> QED
  BY <1>1, <1>2, <1>3, <1>4, <1>5, <1>6, Zenon

LEMMA FilesUpToNext ==
  ASSUME LayoutInv, NEW n \in Nat, n < Len(parts)
  PROVE  /\ FilesUpTo(n + 1) = FilesUpTo(n) \cup FilesOf(parts[n + 1])
         /\ FilesUpTo(n) \cap FilesOf(parts[n + 1]) = {}
         /\ FilesUpTo(n) \subseteq Files
<1>1. Len(parts) \in Nat /\ n + 1 \in DOMAIN parts /\ DOMAIN parts = 1 .. Len(parts)
  BY DEF LayoutInv, Inv, TypeOK
<1>2. \A i \in 1 .. n + 1 : i \in 1 .. n \/ i = n + 1
  OBVIOUS
<1>3. \A i \in 1 .. n : i \in 1 .. n + 1 /\ i \in 1 .. Len(parts) /\ i \in DOMAIN parts /\ i # n + 1
  BY <1>1
<1>4. n + 1 \in 1 .. n + 1
  OBVIOUS
<1>5. FilesUpTo(n + 1) = FilesUpTo(n) \cup FilesOf(parts[n + 1])
  BY <1>2, <1>3, <1>4, Zenon DEF FilesUpTo
<1>6. \A i \in 1 .. n : FilesOf(parts[i]) \cap FilesOf(parts[n + 1]) = {}
  BY <1>1, <1>3, Zenon DEF LayoutInv, Placement, Apart
<1>7. FilesUpTo(n) \cap FilesOf(parts[n + 1]) = {}
  BY <1>6 DEF FilesUpTo
<1>8. \A i \in 1 .. n : FilesOf(parts[i]) \subseteq Files
  BY <1>3, PartIs
<1>9. FilesUpTo(n) \subseteq Files
  BY <1>8 DEF FilesUpTo
<1> QED
  BY <1>5, <1>7, <1>9

(* Members added to the jobs are registered with their headers.              *)
LEMMA RegisterJoined ==
  ASSUME TypeOK, NEW J, NEW K, NEW E \in Seq(Element), ElemsIn(K) = ElemsIn(J) \cup Elems(E),
         NEW C, NEW T, T \subseteq Files, Registered(size, HeadersIn(J), C, T), NewFiles(E, T)
  PROVE  Registered(size, HeadersIn(K), C \o Predictions(E), T \cup FilesIn(E))
<1>1. \A e \in Elems(E) : e.file # 0
  BY DEF Elems, NewFiles, Files
<1>2. HeadersIn(K) = HeadersIn(J) \cup Elems(E)
  BY <1>1, Zenon DEF HeadersIn
<1>3. Registered(size, HeadersIn(J) \cup Elems(E), C \o Predictions(E), T \cup FilesIn(E))
  BY RegisterMore
<1> QED
  BY <1>2, <1>3, Zenon

(* One element, or one job. *)
LEMMA ShareOne ==
  ASSUME NEW x, x.bytes \in Nat, NEW f
  PROVE  Share(f, <<x>>) = IF x.file = f THEN x.bytes ELSE 0
<1> DEFINE s == <<x>>
<1>1. Sized(s, 1) /\ s[1] = x /\ \A i \in 1 .. 1 : i = 1
  BY DEF Sized
<1> HIDE DEF s
<1>2. CASE x.file = f
  <2>1. s[1].file = f /\ 1 \in 1 .. 1 /\ \A i \in 1 .. 1 : s[i].file = f => i = 1
    BY <1>1, <1>2
  <2>2. Share(f, s) = s[1].bytes
    BY <1>1, <2>1, ShareIs
  <2> QED
    BY <1>1, <1>2, <2>2 DEF s
<1>3. CASE x.file # f
  <2>1. \A i \in 1 .. 1 : s[i].file # f
    BY <1>1, <1>3
  <2>2. Share(f, s) = 0
    BY <1>1, <2>1, ShareIs
  <2> QED
    BY <1>3, <2>2 DEF s
<1> QED
  BY <1>2, <1>3

LEMMA OneElem ==
  ASSUME NEW e \in Element
  PROVE  /\ <<e>> \in Seq(Element) /\ Total(<<e>>) = e.bytes
         /\ Elems(<<e>>) = {e} /\ FilesIn(<<e>>) = {e.file}
         /\ Predictions(<<e>>) = <<Predicted(e.file, e.locOffset)>>
         /\ \A x : e.locOffset = x /\ x \in Nat => StartAt(<<e>>, x)
<1> DEFINE s == <<e>>
<1>1. s \in Seq(Element) /\ Len(s) = 1 /\ s[1] = e /\ DOMAIN s = {1} /\ e.bytes \in Nat
  BY DEF Element
<1>2. Sized(s, 1)
  BY <1>1 DEF Sized
<1>3. Elems(s) = {e} /\ FilesIn(s) = {e.file}
  BY <1>1 DEF Elems, FilesIn
<1>4. Predictions(s) = <<Predicted(e.file, e.locOffset)>>
  BY DEF Predictions
<1> HIDE DEF s
<1>5. BytesUpTo(s, 0) = 0 /\ BytesUpTo(s, 1) = BytesUpTo(s, 0) + s[1].bytes
  <2>1. 1 \in 1 .. 1 /\ 1 - 1 = 0
    OBVIOUS
  <2> QED
    BY <1>2, <2>1, UpToStep, Zenon
<1>6. Total(s) = e.bytes
  BY <1>1, <1>5 DEF Total
<1>7. ASSUME NEW x, e.locOffset = x, x \in Nat PROVE StartAt(s, x)
  <2>1. BytesUpTo(s, 1 - 1) = 0
    BY <1>5
  <2> QED
    BY <1>1, <1>7, <2>1 DEF StartAt
<1> QED
  BY <1>1, <1>3, <1>4, <1>6, <1>7 DEF s

-----------------------------------------------------------------------------
(* The steps of the builder *)

LEMMA BuildContext ==
  ASSUME PlanBuildInv, phase = "done", ~built
  PROVE  /\ TypeOK /\ SoundJobs(jobs) /\ ShapeIn(jobs) /\ jobs \in Seq(Job)
         /\ offset \in Nat /\ offset = Total(jobs) /\ Taken \subseteq Files
         /\ taken \in Nat /\ taken <= Len(parts) /\ Len(parts) \in Nat
         /\ Registered(size, HeadersIn(jobs), cdfh_sizes, Taken)
         /\ \A f \in Files : CarriedIn(f, jobs) = IF f \in Taken THEN EntrySize(f) ELSE 0
         /\ LastIsUpload = EndsUpload(jobs)
<1>1. TypeOK /\ Len(parts) \in Nat
  BY DEF PlanBuildInv, LayoutInv, Inv, TypeOK
<1>2. SoundJobs(jobs) /\ ShapeIn(jobs) /\ jobs \in Seq(Job)
  BY DEF PlanBuildInv, BuildInv, JobsInv, SoundJobs
<1>3. offset \in Nat /\ offset = Total(jobs) /\ taken \in Nat /\ taken <= Len(parts)
  BY <1>1 DEF PlanBuildInv, BuildInv, Counters, OpenUpload
<1>4. Registered(size, HeadersIn(jobs), cdfh_sizes, Taken)
      /\ \A f \in Files : CarriedIn(f, jobs) = IF f \in Taken THEN EntrySize(f) ELSE 0
  BY DEF PlanBuildInv, BuildInv, Books
<1>5. LayoutInv
  BY DEF PlanBuildInv
<1>6. \A i \in 1 .. taken : i \in 1 .. Len(parts)
  BY <1>1, <1>3
<1>7. FilesUpTo(taken) \subseteq Files
  <2>1. \A i \in 1 .. taken : FilesOf(parts[i]) \subseteq Files
    BY <1>5, <1>6, PartIs
  <2> QED
    BY <2>1 DEF FilesUpTo
<1>8. half = "copy" => EntriesOf(Part.regular) \subseteq Files
  <2> SUFFICES ASSUME half = "copy" PROVE EntriesOf(Part.regular) \subseteq Files
    OBVIOUS
  <2>1. taken + 1 \in 1 .. Len(parts)
    BY <1>1, <1>3 DEF PlanBuildInv, BuildInv, Counters
  <2>2. parts[taken + 1].regular \in Regulars
    BY <1>5, <2>1, PartIs
  <2> QED
    BY <2>2 DEF Part, Regulars, Sound, EntriesOf
<1>9. Taken \subseteq Files
  BY <1>7, <1>8 DEF Taken
<1>10. LastIsUpload = EndsUpload(jobs)
  BY DEF LastIsUpload, EndsUpload, Last
<1> QED
  BY <1>1, <1>2, <1>3, <1>4, <1>9, <1>10

LEMMA AddFilesInv == PlanBuildInv /\ AddFiles => BuildInv'
<1> SUFFICES ASSUME PlanBuildInv, AddFiles PROVE BuildInv'
  OBVIOUS
<1> DEFINE r == Part.regular
           E == EntryElems(r.entries)
<1>1. /\ phase = "done" /\ ~built /\ taken < Len(parts) /\ half = "files" /\ LayoutInv
      /\ UNCHANGED <<vars, eocd64, built>>
      /\ IF Part.kind = "duo" THEN half' = "copy" /\ taken' = taken ELSE PartTaken
      /\ jobs' = IF LastIsUpload THEN [jobs EXCEPT ![Len(jobs)] = Recounted(@, E)]
                 ELSE NewUpload(E, Counted(E))
      /\ offset' = offset + Counted(E)
      /\ cdfh_sizes' = cdfh_sizes \o Predictions(E)
  BY DEF AddFiles, More, PlanBuildInv, Predictions
<1>2. /\ TypeOK /\ SoundJobs(jobs) /\ ShapeIn(jobs) /\ jobs \in Seq(Job)
      /\ offset \in Nat /\ offset = Total(jobs) /\ Taken \subseteq Files
      /\ taken \in Nat /\ Len(parts) \in Nat
      /\ Registered(size, HeadersIn(jobs), cdfh_sizes, Taken)
      /\ \A f \in Files : CarriedIn(f, jobs) = IF f \in Taken THEN EntrySize(f) ELSE 0
      /\ LastIsUpload = EndsUpload(jobs)
  BY <1>1, BuildContext
<1>3. taken + 1 \in 1 .. Len(parts) /\ taken + 1 \in Nat
  BY <1>1, <1>2
<1>4. /\ Part \in LayoutPart /\ r \in Regulars /\ r.bytes \in Nat
      /\ Part.kind # "duo" => Part.kind = "single" /\ FilesOf(Part) = EntriesOf(r)
      /\ Part.kind = "duo" => FilesOf(Part) = EntriesOf(r) \cup {Part.big}
  BY <1>1, <1>3, PartIs DEF Part, Regulars, RegularPart
<1>5. /\ FilesUpTo(taken + 1) = FilesUpTo(taken) \cup FilesOf(Part)
      /\ FilesUpTo(taken) \cap FilesOf(Part) = {}
      /\ Taken = FilesUpTo(taken)
  BY <1>1, <1>2, FilesUpToNext DEF Part, Taken
<1>6. /\ E \in Seq(Element) /\ StartAt(E, offset) /\ Total(E) = r.bytes
      /\ \A j \in DOMAIN E : E[j].file \in Files
      /\ \A i, j \in DOMAIN E : E[i].file = E[j].file => i = j
      /\ {E[j].file : j \in DOMAIN E} = EntriesOf(r)
      /\ \A f : Share(f, E) = IF f \in EntriesOf(r) THEN EntrySize(f) ELSE 0
  BY <1>2, <1>4, EntriesPlaced
<1>7. EntriesOf(r) \cap Taken = {}
  BY <1>4, <1>5
<1> HIDE DEF E, r
<1>a. Counted(E) = r.bytes /\ offset' = offset + r.bytes
  BY <1>1, <1>6 DEF Counted, Total
(* Counting the elements again adds those that are new. *)
<1>b. ASSUME EndsUpload(jobs)
      PROVE  Recounted(jobs[Len(jobs)], E) = Extended(jobs[Len(jobs)], E, r.bytes)
  <2> DEFINE job == jobs[Len(jobs)]
             s == job.elems
  <2>1. Len(jobs) \in DOMAIN jobs /\ job \in Job /\ job.type = "upload"
    <3>1. Len(jobs) \in 1 .. Len(jobs) /\ DOMAIN jobs = 1 .. Len(jobs)
      BY <1>2, <1>b, JobsSized DEF EndsUpload
    <3> QED
      BY <1>2, <1>b, <3>1, JobsSized DEF EndsUpload
  <2>2. s \in Seq(Element) /\ job.bytes = Total(s)
    BY <1>2, <2>1, JobKinds DEF SoundJobs, ExactIn
  <2>3. Total(s \o E) = Total(s) + Total(E)
    BY <1>6, <2>2, ElemsJoined
  <2>4. Counted(s \o E) = job.bytes + r.bytes
    BY <1>6, <2>2, <2>3 DEF Counted, Total
  <2> HIDE DEF job
  <2>5. Recounted(job, E) = Extended(job, E, r.bytes)
    BY <2>4 DEF Recounted, Extended
  <2> QED
    BY <2>5 DEF job
<1>8. FilesIn(E) = EntriesOf(r) /\ NewFiles(E, Taken)
  BY <1>6, <1>7 DEF FilesIn, NewFiles
<1>9. Grows(jobs', jobs, E)
  BY <1>1, <1>2, <1>6, <1>a, <1>b DEF Grows, NewUpload
<1>10. StartAt(E, Total(jobs))
  BY <1>2, <1>6
<1>11. /\ SoundJobs(jobs') /\ Total(jobs') = Total(jobs) + Total(E)
       /\ ElemsIn(jobs') = ElemsIn(jobs) \cup Elems(E)
       /\ \A f : CarriedIn(f, jobs') = CarriedIn(f, jobs) + Share(f, E)
       /\ EndsUpload(jobs')
       /\ jobs'[Len(jobs')].bytes = (IF EndsUpload(jobs) THEN jobs[Len(jobs)].bytes ELSE 0) + Total(E)
       /\ ShapeIn(jobs')
  BY <1>2, <1>6, <1>9, <1>10, JobsGrown
<1>12. UNCHANGED <<size, parts, phase>> /\ Files' = Files /\ \A n : FilesUpTo(n)' = FilesUpTo(n)
  BY <1>1 DEF vars, Files, FilesUpTo, FilesOf, EntriesOf
<1>13. \/ Part.kind = "duo" /\ half' = "copy" /\ taken' = taken
       \/ Part.kind = "single" /\ half' = "files" /\ taken' = taken + 1
  BY <1>1, <1>4 DEF PartTaken
<1>14. Taken' = Taken \cup EntriesOf(r)
  <2>1. CASE half' = "copy"
    <3>1. Part' = Part /\ taken' = taken /\ Part.kind = "duo"
      BY <1>12, <1>13, <2>1 DEF Part
    <3>2. Taken' = FilesUpTo(taken)' \cup EntriesOf(Part.regular)'
      BY <2>1 DEF Taken
    <3>3. EntriesOf(Part.regular)' = EntriesOf(r)
      BY <3>1 DEF EntriesOf, r
    <3>4. FilesUpTo(taken)' = FilesUpTo(taken)
      BY <1>12, <3>1 DEF FilesUpTo, FilesOf, EntriesOf
    <3> QED
      BY <1>5, <3>2, <3>3, <3>4, Zenon
  <2>2. CASE half' # "copy"
    <3>1. Part.kind = "single" /\ taken' = taken + 1
      BY <1>13, <2>2
    <3>2. Taken' = FilesUpTo(taken)'
      BY <2>2 DEF Taken
    <3>3. FilesUpTo(taken)' = FilesUpTo(taken + 1)
      BY <1>12, <3>1 DEF FilesUpTo, FilesOf, EntriesOf
    <3>4. FilesOf(Part) = EntriesOf(r)
      BY <1>4, <3>1
    <3> QED
      BY <1>5, <3>2, <3>3, <3>4, Zenon
  <2> QED
    BY <2>1, <2>2
<1>15. Registered(size, HeadersIn(jobs'), cdfh_sizes', Taken')
  <2>1. Registered(size, HeadersIn(jobs'), cdfh_sizes \o Predictions(E), Taken \cup FilesIn(E))
    BY <1>2, <1>6, <1>8, <1>11, RegisterJoined
  <2> QED
    BY <1>1, <1>8, <1>14, <2>1, Zenon DEF E, r
<1>16. ASSUME NEW f \in Files PROVE CarriedIn(f, jobs') = IF f \in Taken' THEN EntrySize(f) ELSE 0
  <2>1. EntrySize(f) \in Nat /\ CarriedIn(f, jobs') = CarriedIn(f, jobs) + Share(f, E)
    BY <1>2, <1>11, EntrySizes DEF Files
  <2>2. CarriedIn(f, jobs) = IF f \in Taken THEN EntrySize(f) ELSE 0
    BY <1>2
  <2>3. Share(f, E) = IF f \in EntriesOf(r) THEN EntrySize(f) ELSE 0
    BY <1>6
  <2> QED
    BY <1>7, <1>14, <2>1, <2>2, <2>3
<1>17. Books'
  <2>1. \A f \in Files' : EntrySize(f)' = EntrySize(f)
    BY <1>12 DEF EntrySize, Loc
  <2>2. HeadersIn(jobs)' = HeadersIn(jobs')
    BY DEF HeadersIn, ElemsIn, Elems
  <2>3. Registered(size, HeadersIn(jobs), cdfh_sizes, Taken)'
    BY <1>12, <1>15, <2>2 DEF Registered, DirectoryOf, CentralOf
  <2> QED
    BY <1>12, <1>16, <2>1, <2>3 DEF Books
<1>18. Counters' /\ built' = built
  <2>1. taken' \in 0 .. Len(parts) /\ half' \in {"files", "copy"} /\ offset' \in Nat
    BY <1>1, <1>2, <1>3, <1>4, <1>13, <1>a
  <2>2. built' = built /\ ~built /\ built \in BOOLEAN
    BY <1>1 DEF PlanBuildInv, BuildInv, Counters
  <2>3. half' = "copy" => taken' < Len(parts) /\ Part' = Part /\ Part.kind = "duo"
    BY <1>1, <1>12, <1>13 DEF Part
  <2> QED
    BY <1>12, <2>1, <2>2, <2>3 DEF Counters
<1>19. half = "files" /\ EndsUpload(jobs) => taken > 0 /\ parts[taken].kind = "single"
  BY <1>1 DEF PlanBuildInv, BuildInv, OpenUpload
<1>20. half' = "copy" => ~EndsUpload(jobs)
  <2> SUFFICES ASSUME half' = "copy", EndsUpload(jobs) PROVE FALSE
    OBVIOUS
  <2>1. taken > 0 /\ parts[taken].kind = "single" /\ parts[taken + 1].kind = "duo"
    BY <1>1, <1>13, <1>19 DEF Part
  <2>2. taken \in DOMAIN parts /\ taken + 1 \in DOMAIN parts /\ taken < taken + 1
    BY <1>2, <1>3, <2>1 DEF TypeOK
  <2> QED
    BY <1>1, <2>1, <2>2 DEF LayoutInv, Inv, SinglesLast
<1>21. OpenUpload'
  <2>1. offset' = Total(jobs')
    BY <1>1, <1>2, <1>6, <1>11, <1>a
  <2>2. half' = "files" => taken' > 0 /\ parts'[taken'].kind = "single"
    BY <1>2, <1>12, <1>13 DEF Part
  <2>3. ASSUME half' = "copy" PROVE jobs'[Len(jobs')].bytes = Part'.regular.bytes
    <3>1. Part' = Part /\ ~EndsUpload(jobs)
      BY <1>12, <1>13, <1>20, <2>3 DEF Part
    <3>2. r.bytes \in Nat
      BY <1>4
    <3> QED
      BY <1>6, <1>11, <3>1, <3>2 DEF r
  <2> QED
    BY <1>11, <2>1, <2>2, <2>3 DEF OpenUpload, Total, EndsUpload, BytesUpTo
<1>22. Closed'
  BY <1>1, <1>18 DEF Closed
<1>23. JobsInv'
  BY <1>11 DEF JobsInv
<1> QED
  BY <1>17, <1>18, <1>21, <1>22, <1>23 DEF BuildInv

LEMMA CopyFileInv == PlanBuildInv /\ CopyFile => BuildInv'
<1> SUFFICES ASSUME PlanBuildInv, CopyFile PROVE BuildInv'
  OBVIOUS
<1> DEFINE b == Part.big
           start == Part.start
           head == Loc(b) + start
           elem == Elem(b, offset, head)
           E == <<elem>>
           c == Copy(b, start)
           K == ToLast(E, elem.bytes)
<1>1. /\ phase = "done" /\ ~built /\ taken < Len(parts) /\ half = "copy" /\ LayoutInv /\ LastIsUpload
      /\ UNCHANGED <<vars, eocd64, built>>
      /\ taken' = taken + 1 /\ half' = "files"
      /\ jobs' = Append(K, c)
      /\ offset' = AfterCopy(b, start)
      /\ cdfh_sizes' = Append(cdfh_sizes, Predicted(b, offset))
  BY DEF CopyFile, More, PlanBuildInv, PartTaken
<1>2. /\ TypeOK /\ SoundJobs(jobs) /\ ShapeIn(jobs) /\ jobs \in Seq(Job)
      /\ offset \in Nat /\ offset = Total(jobs) /\ Taken \subseteq Files
      /\ taken \in Nat /\ Len(parts) \in Nat
      /\ Registered(size, HeadersIn(jobs), cdfh_sizes, Taken)
      /\ \A f \in Files : CarriedIn(f, jobs) = IF f \in Taken THEN EntrySize(f) ELSE 0
      /\ LastIsUpload = EndsUpload(jobs)
  BY <1>1, BuildContext
<1>3. taken + 1 \in 1 .. Len(parts) /\ taken + 1 \in Nat
  BY <1>1, <1>2
<1>4. /\ Part.kind = "duo" /\ EndsUpload(jobs) /\ jobs[Len(jobs)].bytes = Part.regular.bytes
  BY <1>1 DEF PlanBuildInv, BuildInv, Counters, OpenUpload
<1>5. /\ Part \in LayoutPart /\ Part.regular \in Regulars
      /\ b \in Files /\ b \notin EntriesOf(Part.regular)
      /\ FilesOf(Part) = EntriesOf(Part.regular) \cup {b}
      /\ UploadHalf(Part) >= MinPart /\ UploadHalf(Part) <= MaxMemory /\ CopyHalf(Part) >= MinPart
  BY <1>1, <1>3, <1>4, PartIs DEF Part
<1>6. /\ start \in Nat /\ size[b] \in Nat /\ Loc(b) \in Nat /\ EntrySize(b) = Loc(b) + size[b]
      /\ EntrySize(b) \in Nat /\ Part.regular.bytes \in Nat /\ MinPart \in Nat /\ MaxMemory \in Nat
  <2>1. size[b] \in Nat /\ Loc(b) \in Nat /\ EntrySize(b) \in Nat
    BY <1>2, <1>5, EntrySizes DEF Files
  <2>2. Part.regular.bytes \in Nat
    BY <1>5 DEF Regulars, RegularPart
  <2>3. start \in Nat
    BY <1>5 DEF LayoutPart
  <2> QED
    BY <2>1, <2>2, <2>3, LayoutAssumption, BuilderAssumption DEF EntrySize
<1>7. /\ UploadHalf(Part) = Part.regular.bytes + head /\ CopyHalf(Part) = size[b] - start
      /\ start <= size[b] /\ head \in Nat /\ size[b] - start \in Nat
  BY <1>5, <1>6 DEF UploadHalf, CopyHalf
<1>8. /\ FilesUpTo(taken + 1) = FilesUpTo(taken) \cup FilesOf(Part)
      /\ FilesUpTo(taken) \cap FilesOf(Part) = {}
      /\ Taken = FilesUpTo(taken) \cup EntriesOf(Part.regular)
  BY <1>1, <1>2, FilesUpToNext DEF Part, Taken
<1>9. b \notin Taken /\ b \in Nat
  BY <1>5, <1>8 DEF Files
<1> HIDE DEF head
<1>10. elem \in Element /\ elem.file = b /\ elem.locOffset = offset /\ elem.bytes = head
  <2>1. b \in Nat /\ offset \in Nat /\ head \in Nat
    BY <1>2, <1>7, <1>9
  <2> HIDE DEF b
  <2> QED
    BY <2>1, ElemIs
<1>11. /\ c \in Job /\ c.type = "copy" /\ c.file = b /\ c.bytes = size[b] - start
  BY <1>6, <1>7, <1>9 DEF Copy, Job, CopyJob
<1> HIDE DEF elem, c
<1>12. /\ E \in Seq(Element) /\ Total(E) = head /\ Elems(E) = {elem} /\ FilesIn(E) = {b}
       /\ Predictions(E) = <<Predicted(b, offset)>> /\ StartAt(E, Total(jobs))
       /\ \A f : Share(f, E) = IF b = f THEN head ELSE 0
  <2>1. /\ E \in Seq(Element) /\ Total(E) = elem.bytes /\ Elems(E) = {elem} /\ FilesIn(E) = {elem.file}
        /\ Predictions(E) = <<Predicted(elem.file, elem.locOffset)>> /\ StartAt(E, Total(jobs))
    BY <1>2, <1>10, OneElem
  <2>2. ASSUME NEW f PROVE Share(f, E) = IF b = f THEN head ELSE 0
    BY <1>7, <1>10, ShareOne
  <2> QED
    BY <1>10, <2>1, <2>2
<1>13. NewFiles(E, Taken)
  BY <1>5, <1>9, <1>10 DEF NewFiles
<1>14. \A f : Load(f, c) = IF b = f THEN size[b] - start ELSE 0
  BY <1>7, <1>11, ShareOne DEF Load
<1>15. K = ToLast(E, elem.bytes)
  OBVIOUS
<1> HIDE DEF E, K
<1>16. Grows(K, jobs, E)
  BY <1>4, <1>10, <1>12, <1>15 DEF Grows, ToLast
<1>17. /\ SoundJobs(K) /\ Total(K) = offset + head
       /\ ElemsIn(K) = ElemsIn(jobs) \cup Elems(E)
       /\ \A f : CarriedIn(f, K) = CarriedIn(f, jobs) + Share(f, E)
       /\ EndsUpload(K)
       /\ K[Len(K)].bytes = Part.regular.bytes + head
       /\ ShapeIn(K)
  BY <1>2, <1>4, <1>12, <1>16, JobsGrown
<1>18. /\ SoundJobs(jobs') /\ Total(jobs') = offset + head + (size[b] - start)
       /\ ElemsIn(jobs') = ElemsIn(K)
       /\ \A f : CarriedIn(f, jobs') = CarriedIn(f, K) + Load(f, c)
  BY <1>1, <1>11, <1>17, JobAppended
<1>19. K \in Seq(Job) /\ Len(K) \in Nat /\ (\A k \in 1 .. Len(K) : K[k] \in Job /\ K[k].bytes \in Nat)
  BY <1>17, JobsSized, JobKinds DEF SoundJobs
<1>20. /\ Len(jobs') = Len(K) + 1 /\ jobs'[Len(K) + 1] = c /\ \A k \in 1 .. Len(K) : jobs'[k] = K[k]
  BY <1>1, <1>11, <1>19
<1>21. ShapeIn(jobs')
  <2> SUFFICES ASSUME NEW k \in 1 .. Len(K) + 1
               PROVE  /\ k < Len(K) + 1 \/ jobs'[k].type # "upload" => jobs'[k].bytes >= MinPart
                      /\ k < Len(K) + 1 /\ jobs'[k].type = "upload" => jobs'[k].bytes <= MaxMemory
    BY <1>20 DEF ShapeIn
  <2>1. CASE k = Len(K) + 1
    BY <1>5, <1>7, <1>11, <1>19, <1>20, <2>1
  <2>2. CASE k = Len(K)
    <3>1. jobs'[k] = K[Len(K)] /\ K[Len(K)].bytes = UploadHalf(Part)
      BY <1>7, <1>17, <1>19, <1>20, <2>2
    <3> QED
      BY <1>5, <3>1
  <2>3. CASE k \in 1 .. Len(K) /\ k < Len(K)
    <3>1. jobs'[k] = K[k]
      BY <1>20, <2>3
    <3> QED
      BY <1>17, <2>3, <3>1 DEF ShapeIn
  <2> QED
    BY <1>19, <2>1, <2>2, <2>3
<1>22. UNCHANGED <<size, parts, phase>> /\ Files' = Files
  BY <1>1 DEF vars, Files
<1>23. Taken' = Taken \cup {b}
  <2>1. Taken' = FilesUpTo(taken)'
    BY <1>1 DEF Taken
  <2>2. FilesUpTo(taken)' = FilesUpTo(taken + 1)
    BY <1>1, <1>22 DEF FilesUpTo, FilesOf, EntriesOf
  <2> QED
    BY <1>5, <1>8, <2>1, <2>2
<1>24. Registered(size, HeadersIn(jobs'), cdfh_sizes', Taken')
  <2>1. ElemsIn(jobs') = ElemsIn(jobs) \cup Elems(E)
    BY <1>17, <1>18
  <2>2. Registered(size, HeadersIn(jobs'), cdfh_sizes \o Predictions(E), Taken \cup FilesIn(E))
    BY <1>2, <1>12, <1>13, <2>1, RegisterJoined
  <2>3. cdfh_sizes \in Seq(Nat)
    BY <1>2 DEF Registered
  <2>4. cdfh_sizes' = cdfh_sizes \o Predictions(E)
    BY <1>1, <1>12, <2>3
  <2> QED
    BY <1>12, <1>23, <2>2, <2>4, Zenon
<1>25. ASSUME NEW f \in Files PROVE CarriedIn(f, jobs') = IF f \in Taken' THEN EntrySize(f) ELSE 0
  <2>1. CarriedIn(f, jobs') = CarriedIn(f, jobs) + Share(f, E) + Load(f, c)
    BY <1>17, <1>18
  <2>2. CarriedIn(f, jobs) = IF f \in Taken THEN EntrySize(f) ELSE 0
    BY <1>2
  <2>3. CASE f = b
    <3>1. CarriedIn(f, jobs') = 0 + head + (size[b] - start)
      BY <1>9, <1>12, <1>14, <2>1, <2>2, <2>3
    <3>2. head + (size[b] - start) = EntrySize(b)
      BY <1>6 DEF head
    <3> QED
      BY <1>6, <1>7, <1>23, <2>3, <3>1, <3>2
  <2>4. CASE f # b
    <3>1. Share(f, E) = 0 /\ Load(f, c) = 0 /\ (f \in Taken' <=> f \in Taken)
      BY <1>12, <1>14, <1>23, <2>4
    <3>2. EntrySize(f) \in Nat
      BY <1>2, EntrySizes DEF Files
    <3> QED
      BY <2>1, <2>2, <3>1, <3>2
  <2> QED
    BY <2>3, <2>4
<1>26. Books'
  <2>1. \A f \in Files' : EntrySize(f)' = EntrySize(f)
    BY <1>22 DEF EntrySize, Loc
  <2>2. HeadersIn(jobs)' = HeadersIn(jobs')
    BY DEF HeadersIn, ElemsIn, Elems
  <2>3. Registered(size, HeadersIn(jobs), cdfh_sizes, Taken)'
    BY <1>22, <1>24, <2>2 DEF Registered, DirectoryOf, CentralOf
  <2> QED
    BY <1>22, <1>25, <2>1, <2>3 DEF Books
<1>27. offset' = Total(jobs') /\ offset' \in Nat
  <2>1. offset' = offset + Loc(b) + start + (size[b] - start)
    BY <1>1 DEF AfterCopy
  <2>2. head = Loc(b) + start
    BY DEF head
  <2>3. offset \in Nat /\ Loc(b) \in Nat /\ start \in Nat /\ size[b] \in Nat
    BY <1>2, <1>6
  <2>4. Total(jobs') = offset + head + (size[b] - start)
    BY <1>18
  <2> HIDE DEF b, start
  <2> QED
    BY <2>1, <2>2, <2>3, <2>4
<1>28. Counters'
  <2>1. built' = built /\ built \in BOOLEAN
    BY <1>1 DEF PlanBuildInv, BuildInv, Counters
  <2> QED
    BY <1>1, <1>2, <1>3, <1>22, <1>27, <2>1 DEF Counters
<1>29. OpenUpload'
  <2>1. ~EndsUpload(jobs')
    BY <1>11, <1>20 DEF EndsUpload
  <2>2. EndsUpload(jobs)' = EndsUpload(jobs')
    BY DEF EndsUpload
  <2> QED
    BY <1>1, <1>27, <2>1, <2>2 DEF OpenUpload, Total, BytesUpTo
<1>30. Closed'
  BY <1>1 DEF Closed
<1>31. JobsInv'
  BY <1>18, <1>21 DEF JobsInv
<1> QED
  BY <1>26, <1>28, <1>29, <1>30, <1>31 DEF BuildInv

LEMMA FinalizeInv == PlanBuildInv /\ Finalize => BuildInv'
<1> SUFFICES ASSUME PlanBuildInv, Finalize PROVE BuildInv'
  OBVIOUS
<1> DEFINE w == DirectoryBytes
           elem == Elem(0, offset, w)
           E == <<elem>>
<1>1. /\ phase = "done" /\ ~built /\ taken = Len(parts) /\ LayoutInv
      /\ UNCHANGED <<vars, taken, half, offset, cdfh_sizes>>
      /\ jobs' = (IF LastIsUpload THEN ToLast(E, w) ELSE NewUpload(E, w))
      /\ eocd64' = Eocd64 /\ built'
  BY DEF Finalize, PlanBuildInv, DirectoryBytes
<1>2. /\ TypeOK /\ SoundJobs(jobs) /\ ShapeIn(jobs) /\ jobs \in Seq(Job)
      /\ offset \in Nat /\ offset = Total(jobs) /\ Taken \subseteq Files
      /\ taken \in Nat /\ Len(parts) \in Nat
      /\ Registered(size, HeadersIn(jobs), cdfh_sizes, Taken)
      /\ \A f \in Files : CarriedIn(f, jobs) = IF f \in Taken THEN EntrySize(f) ELSE 0
      /\ LastIsUpload = EndsUpload(jobs)
  BY <1>1, BuildContext
<1>3. half = "files" /\ half' = "files"
  BY <1>1, <1>2 DEF PlanBuildInv, BuildInv, Counters
<1>4. w \in Nat
  <2>1. cdfh_sizes \in Seq(Nat)
    BY <1>2 DEF Registered
  <2>2. SumFunction(cdfh_sizes) \in Nat
    <3>1. IsFiniteSet(DOMAIN cdfh_sizes) /\ \A k \in DOMAIN cdfh_sizes : cdfh_sizes[k] \in Nat
      BY <2>1, FS_Interval, 1 \in Int, Len(cdfh_sizes) \in Int
    <3> QED
      BY <3>1, SumNat DEF SumFunction
  <2> QED
    BY <2>2 DEF DirectoryBytes, EndSize, Eocd64
<1> HIDE DEF w
<1>5. elem \in Element /\ elem.file = 0 /\ elem.locOffset = offset /\ elem.bytes = w
  BY <1>2, <1>4, ElemIs
<1> HIDE DEF elem
<1>6. /\ E \in Seq(Element) /\ Total(E) = w /\ Elems(E) = {elem} /\ StartAt(E, Total(jobs))
      /\ \A f \in Files : Share(f, E) = 0
  <2>1. E \in Seq(Element) /\ Total(E) = elem.bytes /\ Elems(E) = {elem} /\ StartAt(E, Total(jobs))
    BY <1>2, <1>5, OneElem
  <2>2. ASSUME NEW f \in Files PROVE Share(f, E) = 0
    BY <1>4, <1>5, ShareOne DEF Files
  <2> QED
    BY <1>5, <2>1, <2>2
<1>7. E = <<elem>>
  OBVIOUS
<1> HIDE DEF E
<1>8. Grows(jobs', jobs, E)
  BY <1>1, <1>2, <1>6 DEF Grows, ToLast, NewUpload
<1>9. /\ SoundJobs(jobs')
      /\ ElemsIn(jobs') = ElemsIn(jobs) \cup Elems(E)
      /\ \A f : CarriedIn(f, jobs') = CarriedIn(f, jobs) + Share(f, E)
      /\ EndsUpload(jobs') /\ \E p \in Seq(Element) : jobs'[Len(jobs')].elems = p \o E
      /\ ShapeIn(jobs')
  <2>1. E \in Seq(Element) /\ StartAt(E, Total(jobs)) /\ Grows(jobs', jobs, E) /\ SoundJobs(jobs)
    BY <1>2, <1>6, <1>8
  <2>2. /\ SoundJobs(jobs') /\ EndsUpload(jobs') /\ (ShapeIn(jobs) => ShapeIn(jobs'))
        /\ ElemsIn(jobs') = ElemsIn(jobs) \cup Elems(E)
        /\ \A f : CarriedIn(f, jobs') = CarriedIn(f, jobs) + Share(f, E)
    BY <2>1, JobsGrown
  <2>3. \E p \in Seq(Element) : jobs'[Len(jobs')].elems = p \o E
    BY <2>1, JobsGrown
  <2> QED
    BY <1>2, <2>2, <2>3
<1>10. UNCHANGED <<size, parts, phase>> /\ Files' = Files
  BY <1>1 DEF vars, Files
<1>11. Taken' = Taken
  BY <1>1, <1>3, <1>10 DEF Taken, FilesUpTo, FilesOf, EntriesOf
<1>12. HeadersIn(jobs') = HeadersIn(jobs)
  BY <1>5, <1>6, <1>9 DEF HeadersIn
<1>13. Books'
  <2>1. \A f \in Files' : EntrySize(f)' = EntrySize(f)
    BY <1>10 DEF EntrySize, Loc
  <2>2. HeadersIn(jobs)' = HeadersIn(jobs)
    BY <1>12 DEF HeadersIn, ElemsIn, Elems
  <2>3. Registered(size, HeadersIn(jobs), cdfh_sizes, Taken)'
    BY <1>1, <1>2, <1>10, <1>11, <2>2 DEF Registered, DirectoryOf, CentralOf
  <2>4. ASSUME NEW f \in Files PROVE CarriedIn(f, jobs') = IF f \in Taken THEN EntrySize(f) ELSE 0
    <3>1. EntrySize(f) \in Nat
      BY <1>2, EntrySizes DEF Files
    <3> QED
      BY <1>2, <1>6, <1>9, <3>1
  <2> QED
    BY <1>10, <1>11, <2>1, <2>3, <2>4 DEF Books
<1>14. Counters'
  BY <1>1, <1>2, <1>3, <1>10 DEF Counters
<1>15. OpenUpload'
  BY <1>1, <1>3 DEF OpenUpload
<1>16. Closed'
  <2>1. Eocd64' = Eocd64
    BY <1>1 DEF Eocd64
  <2>2. DirectoryBytes' = w /\ offset' = offset /\ taken' = Len(parts)'
    BY <1>1, <1>10, <2>1 DEF DirectoryBytes, w
  <2>3. EndsUpload(jobs)'
    BY <1>9 DEF EndsUpload
  <2>4. \E p \in Seq(Element) : jobs'[Len(jobs')].elems = p \o <<Elem(0, offset', DirectoryBytes')>>
    BY <1>7, <1>9, <2>2 DEF elem
  <2> QED
    BY <1>1, <2>1, <2>2, <2>3, <2>4 DEF Closed, Elem
<1>17. JobsInv'
  BY <1>9 DEF JobsInv
<1> QED
  BY <1>13, <1>14, <1>15, <1>16, <1>17 DEF BuildInv

-----------------------------------------------------------------------------
(* Every run of the planner and the builder *)

LEMMA NoSum == ASSUME NEW f, DOMAIN f = {} PROVE SumFunction(f) = 0
<1>1. IsFiniteSet({}) /\ \A x \in {} : f[x] = 0
  BY FS_EmptySet
<1> QED
  BY <1>1, SumZero DEF SumFunction

(* Nothing is built yet, whatever the layout.                                *)
LEMMA NotBuilt == LayoutInv /\ BuilderInit => BuildInv
<1> SUFFICES ASSUME LayoutInv, BuilderInit PROVE BuildInv
  OBVIOUS
<1>1. taken = 0 /\ half = "files" /\ jobs = <<>> /\ offset = 0 /\ built = FALSE /\ cdfh_sizes = <<>>
  BY DEF BuilderInit
<1>2. Len(parts) \in Nat /\ TypeOK
  BY DEF LayoutInv, Inv, TypeOK
<1>3. Counters
  <2>1. built \in BOOLEAN
    BY <1>1, Zenon
  <2>2. taken \in 0 .. Len(parts) /\ offset \in Nat /\ half \in {"files", "copy"} /\ half # "copy"
    BY <1>1, <1>2
  <2> QED
    BY <2>1, <2>2 DEF Counters
<1>4. SoundJobs(jobs) /\ ShapeIn(jobs) /\ ~EndsUpload(jobs) /\ ElemsIn(jobs) = {}
  <2>1. DOMAIN jobs = {} /\ Len(jobs) = 0 /\ jobs \in Seq(Job)
    BY <1>1
  <2>2. SoundJobs(jobs)
    BY <2>1 DEF SoundJobs, ExactIn, PlacedIn
  <2>3. ShapeIn(jobs) /\ ~EndsUpload(jobs)
    BY <1>1, <2>1 DEF ShapeIn, EndsUpload
  <2>4. ElemsIn(jobs) = {}
    BY <2>1 DEF ElemsIn
  <2> QED
    BY <2>2, <2>3, <2>4
<1>5. OpenUpload
  BY <1>1, <1>4, NoElems DEF OpenUpload
<1>6. Taken = {} /\ HeadersIn(jobs) = {}
  BY <1>1, <1>4 DEF Taken, FilesUpTo, HeadersIn
<1>7. SumFunction(cdfh_sizes) = 0
  <2>1. DOMAIN cdfh_sizes = {}
    BY <1>1
  <2> QED
    BY <2>1, NoSum
<1>8. DirectoryOf(size, {}) = 0
  BY NoSum DEF DirectoryOf
<1>9. Registered(size, HeadersIn(jobs), cdfh_sizes, Taken)
  <2>1. IsFiniteSet({}) /\ Cardinality({}) = 0
    BY FS_EmptySet
  <2>2. cdfh_sizes \in Seq(Nat) /\ Len(cdfh_sizes) = 0
    BY <1>1
  <2> QED
    BY <1>6, <1>7, <1>8, <2>1, <2>2 DEF Registered
<1>10. \A f : CarriedIn(f, jobs) = 0
  <2>1. DOMAIN jobs = {}
    BY <1>1
  <2> QED
    BY <2>1, NoSum DEF CarriedIn
<1> QED
  BY <1>1, <1>3, <1>4, <1>5, <1>6, <1>9, <1>10 DEF BuildInv, JobsInv, Books, Closed

(* The planner works before the builder.                                     *)
LEMMA PlannerFirst ==
  ASSUME LayoutInv, Next
  PROVE  /\ phase # "done"
         /\ phase' = "done" => ~Left' /\ big' = 0
<1>1. TypeOK /\ (big # 0 => phase = "pair")
  BY DEF LayoutInv, Inv, BigHeld
<1>2. CASE Pair
  BY <1>1, <1>2 DEF Pair, PopBig, PairDone, MakeDuo, GrowRegular, FoldIntoSingle
<1>3. CASE PromotePass
  BY <1>3 DEF PromotePass, Promote, PromoteNext, PromoteStop, PromoteDone, InPass, Skip, GiveUp, PassOver, Absorb
<1>4. CASE PadPass
  BY <1>4 DEF PadPass, Pad, PadNext, PadStop, PadDone, InPass, Skip, GiveUp, PassOver
<1>5. CASE Rest
  <2>1. phase \in {"rest", "fill"} /\ big = 0
    BY <1>1, <1>5 DEF Rest, NewSingle, FillSingle, PushSingle, LayoutDone
  <2>2. phase' = "done" => LayoutDone
    BY <1>5, <2>1 DEF Rest, NewSingle, FillSingle, PushSingle
  <2> QED
    BY <2>1, <2>2 DEF LayoutDone, Left
<1> QED
  BY <1>2, <1>3, <1>4, <1>5 DEF Next

LEMMA PlanBuildInit == PlanInit => PlanBuildInv
<1>1. PlanInit => LayoutInv /\ BuilderInit /\ phase # "done"
  BY LayoutInvInit DEF PlanInit, Init
<1> QED
  BY <1>1, NotBuilt DEF PlanBuildInv, PlanInv

LEMMA PlanStep == PlanBuildInv /\ Plan => PlanBuildInv'
<1>1. PlanBuildInv /\ Plan => LayoutInv /\ Next /\ UNCHANGED builderVars
  BY DEF PlanBuildInv, Plan
<1>2. LayoutInv /\ Next => LayoutInv'
  BY LayoutInvStep
<1>3. LayoutInv /\ Next => phase # "done" /\ (phase' = "done" => ~Left' /\ big' = 0)
  BY PlannerFirst
<1>4. PlanBuildInv /\ phase # "done" => BuilderInit
  BY DEF PlanBuildInv, PlanInv
<1>5. BuilderInit /\ UNCHANGED builderVars => BuilderInit'
  BY DEF BuilderInit, builderVars
<1>6. LayoutInv' /\ BuilderInit' => BuildInv'
  BY NotBuilt, PTL
<1> QED
  BY <1>1, <1>2, <1>3, <1>4, <1>5, <1>6 DEF PlanBuildInv, PlanInv

(* A step of the builder leaves the layout alone.                            *)
LEMMA LayoutKept == LayoutInv /\ UNCHANGED vars => LayoutInv'
<1> SUFFICES ASSUME LayoutInv, UNCHANGED vars PROVE LayoutInv'
  OBVIOUS
<1> USE DEF vars
<1>1. Inv'
  BY DEF LayoutInv, Inv, TypeOK, BigHeld, BigPlaced, DuoHalvesBigEnough, SinglesLast, PairOver,
         UploadHalf, CopyHalf, Loc, Left
<1>2. Placement'
  <2>1. Regulars' = Regulars /\ \A r : EntriesOf(r)' = EntriesOf(r)
    BY SameSizes DEF EntriesOf
  <2>2. AllSound'
    BY <2>1 DEF LayoutInv, Placement, AllSound, Growing
  <2>3. Apart' /\ Laid' = Laid /\ UNCHANGED size
    BY LeaveParts DEF LayoutInv
  <2>4. InHand' = InHand /\ Popped' = Popped
    BY <2>1, <2>3, SameSizes DEF InHand, Popped, Growing
  <2>5. LaidOnce'
    BY <2>3, <2>4 DEF LayoutInv, Placement, LaidOnce
  <2> QED
    BY <2>2, <2>3, <2>5 DEF Placement
<1>3. Fit'
  BY DEF LayoutInv, Fit, Sorted, HandFits, HalvesFit, HalfFits, SmallLeft, Left, Loc, UploadHalf, Files
<1> QED
  BY <1>1, <1>2, <1>3 DEF LayoutInv

LEMMA BuildStep == PlanBuildInv /\ Build => PlanBuildInv'
<1> SUFFICES ASSUME PlanBuildInv, Build PROVE PlanBuildInv'
  OBVIOUS
<1>1. UNCHANGED vars /\ phase = "done"
  BY DEF Build, AddFiles, CopyFile, Finalize, More
<1>2. LayoutInv' /\ PlanInv'
  BY <1>1, LayoutKept DEF PlanBuildInv, PlanInv, vars, Left
<1>3. BuildInv'
  BY AddFilesInv, CopyFileInv, FinalizeInv DEF Build
<1> QED
  BY <1>2, <1>3 DEF PlanBuildInv

LEMMA Stutter == PlanBuildInv /\ UNCHANGED allVars => PlanBuildInv'
<1> SUFFICES ASSUME PlanBuildInv, UNCHANGED vars, UNCHANGED builderVars PROVE PlanBuildInv'
  BY DEF allVars
<1>1. LayoutInv'
  BY LayoutKept DEF PlanBuildInv
<1>2. PlanInv'
  BY DEF PlanBuildInv, PlanInv, BuilderInit, vars, builderVars, Left
<1>3. Counters' /\ OpenUpload'
  BY DEF PlanBuildInv, BuildInv, Counters, OpenUpload, Part, vars, builderVars, EndsUpload, Total, BytesUpTo
<1>4. JobsInv'
  BY DEF PlanBuildInv, BuildInv, JobsInv, builderVars
<1>5. Closed'
  BY DEF PlanBuildInv, BuildInv, Closed, Eocd64, DirectoryBytes, vars, builderVars, EndsUpload
<1>6. Books'
  <2>1. Files' = Files /\ Taken' = Taken /\ size' = size /\ jobs' = jobs /\ cdfh_sizes' = cdfh_sizes
    BY DEF Files, Taken, FilesUpTo, FilesOf, EntriesOf, Part, vars, builderVars
  <2>2. \A f : EntrySize(f)' = EntrySize(f)
    BY <2>1 DEF EntrySize, Loc
  <2> QED
    BY <2>1, <2>2 DEF PlanBuildInv, BuildInv, Books
<1> QED
  BY <1>1, <1>2, <1>3, <1>4, <1>5, <1>6 DEF PlanBuildInv, BuildInv

-----------------------------------------------------------------------------
(* What the invariant says of the finished archive *)

LEMMA IntervalSize == \A n \in Nat : IsFiniteSet(1 .. n) /\ Cardinality(1 .. n) = n
<1> TAKE n \in Nat
<1>1. 1 \in Int /\ n \in Int /\ (IF 1 > n THEN 0 ELSE n - 1 + 1) = n
  OBVIOUS
<1> QED
  BY <1>1, FS_Interval

(* An offset that is the mark of ZIP64 does not hide the size.               *)
LEMMA CdfhReadsSize ==
  ASSUME NEW bytes \in Nat, NEW name \in Nat, NEW pos \in Nat
  PROVE  ReadSize(CdfhRecord(bytes, name, pos)) = bytes
<1>1. CASE pos # Max32
  BY <1>1, CdfhReads
<1>2. CASE pos = Max32
  <2>1. ~(pos > Max32)
    BY <1>2, FormatAssumption
  <2>2. CASE bytes > Max32
    BY <2>1, <2>2 DEF ReadSize, CdfhRecord
  <2>3. CASE ~(bytes > Max32)
    <3>1. U32(bytes) = bytes
      BY <2>3, Fits, FormatAssumption
    <3> QED
      BY <2>1, <2>3, <3>1 DEF ReadSize, CdfhRecord
  <2> QED
    BY <2>2, <2>3
<1> QED
  BY <1>1, <1>2

(* At the end every file is registered. *)
LEMMA AllTaken ==
  ASSUME PlanBuildInv, built
  PROVE  Taken = Files
<1>1. phase = "done" /\ ~Left /\ big = 0
  <2>1. BuilderInit => built = FALSE
    BY DEF BuilderInit
  <2> QED
    BY <2>1 DEF PlanBuildInv, PlanInv
<1>2. half # "copy" /\ taken = Len(parts)
  BY DEF PlanBuildInv, BuildInv, Counters, Closed
<1>3. TypeOK /\ LaidOnce
  BY DEF PlanBuildInv, LayoutInv, Inv, Placement
<1>4. Taken = Laid
  <2>1. DOMAIN parts = 1 .. taken
    BY <1>2, <1>3 DEF TypeOK
  <2> QED
    BY <1>2, <2>1 DEF Taken, FilesUpTo, Laid
<1>5. InHand = {}
  BY <1>1 DEF InHand, Growing
<1>6. Popped = Files
  <2>1. \A f \in Files : f < lo \/ f > hi
    BY <1>1, <1>3 DEF Files, TypeOK, Left
  <2> QED
    BY <2>1 DEF Popped
<1> QED
  BY <1>3, <1>4, <1>5, <1>6 DEF LaidOnce

(* What is registered when the directory is written. *)
LEMMA Finished ==
  ASSUME PlanBuildInv, built
  PROVE  /\ TypeOK /\ Headers \subseteq Element
         /\ \A e \in Headers : e.file \in Files
         /\ \A f \in Files : \E e \in Headers : e.file = f
         /\ \A d, e \in Headers : d.file = e.file => d = e
         /\ eocd64 = Eocd64 /\ Eocd64.count = Len(size) /\ Eocd64.bytes = Directory /\ Eocd64.at = offset
         /\ Directory \in Nat /\ offset \in Nat /\ Len(size) \in Nat
<1>1. TypeOK /\ offset \in Nat /\ eocd64 = Eocd64 /\ Len(size) \in Nat
  BY DEF PlanBuildInv, LayoutInv, Inv, TypeOK, BuildInv, Counters, Closed
<1>2. Headers = HeadersIn(jobs)
  BY DEF Headers, HeaderElems, HeadersIn, ElemsIn, Elems
<1>3. Registered(size, Headers, cdfh_sizes, Files)
  BY <1>2, AllTaken DEF PlanBuildInv, BuildInv, Books
<1>4. /\ Headers \subseteq Element /\ (\A e \in Headers : e.file \in Files)
      /\ (\A f \in Files : \E e \in Headers : e.file = f)
      /\ (\A d, e \in Headers : d.file = e.file => d = e)
      /\ SumFunction(cdfh_sizes) = DirectoryOf(size, Headers)
      /\ Len(cdfh_sizes) = Cardinality(Files) /\ cdfh_sizes \in Seq(Nat)
  BY <1>3 DEF Registered
<1>5. Cardinality(Files) = Len(size)
  BY <1>1, IntervalSize DEF Files
<1>6. DirectoryOf(size, Headers) = Directory
  BY DEF DirectoryOf, CentralOf, Directory, Central
<1>7. SumFunction(cdfh_sizes) \in Nat
  <2>1. DOMAIN cdfh_sizes = 1 .. Len(cdfh_sizes) /\ Len(cdfh_sizes) \in Nat
    BY <1>4
  <2>2. IsFiniteSet(DOMAIN cdfh_sizes) /\ \A k \in DOMAIN cdfh_sizes : cdfh_sizes[k] \in Nat
    BY <1>4, <2>1, IntervalSize
  <2> QED
    BY <2>2, SumNat DEF SumFunction
<1> QED
  BY <1>1, <1>4, <1>5, <1>6, <1>7 DEF Eocd64

LEMMA InvOffsetsMatch == PlanBuildInv => OffsetsMatch
<1> SUFFICES ASSUME PlanBuildInv PROVE OffsetsMatch
  OBVIOUS
<1>1. HeadersMatch
  BY DEF PlanBuildInv, BuildInv, JobsInv, SoundJobs, PlacedIn, HeadersMatch
<1>2. ASSUME built PROVE DirectoryReads
  <2>1. /\ TypeOK /\ Headers \subseteq Element
        /\ \A e \in Headers : e.file \in Files
        /\ \A f \in Files : \E e \in Headers : e.file = f
        /\ \A d, e \in Headers : d.file = e.file => d = e
        /\ eocd64 = Eocd64 /\ Eocd64.count = Len(size) /\ Eocd64.bytes = Directory /\ Eocd64.at = offset
        /\ Directory \in Nat /\ offset \in Nat /\ Len(size) \in Nat
    BY <1>2, Finished
  <2>2. ASSUME NEW f \in Files PROVE Cardinality({e \in Headers : e.file = f}) = 1
    <3>1. PICK d \in Headers : d.file = f
      BY <2>1
    <3>2. {e \in Headers : e.file = f} = {d}
      BY <2>1, <3>1
    <3> QED
      BY <3>2, FS_Singleton
  <2>3. ASSUME NEW e \in Headers
        PROVE  /\ ReadSize(Central(e)) = size[e.file]
               /\ e.locOffset # Max32 => ReadAt(Central(e)) = e.locOffset
    <3>1. e.file \in 1 .. Len(size) /\ e.locOffset \in Nat
      BY <2>1 DEF Element, Files
    <3>2. size[e.file] \in Nat
      BY <2>1, <3>1, EntrySizes
    <3>3. e.file \in 1 .. MaxFiles
      BY <2>1, <3>1, LayoutAssumption DEF TypeOK
    <3>4. NameLen[e.file] \in Nat
      BY <3>3, LayoutAssumption
    <3> QED
      BY <3>1, <3>2, <3>4, CdfhReads, CdfhReadsSize DEF Central
  <2>4. ReadEnd(End) = <<Len(size), Directory, offset>>
    <3>1. End = EndRecord(Len(size), Directory, offset)
      BY <2>1, Zenon DEF End
    <3> QED
      BY <2>1, <3>1, EndReads
  <2> QED
    BY <2>2, <2>3, <2>4 DEF DirectoryReads
<1>3. DirectoryReads
  BY <1>2 DEF DirectoryReads
<1> QED
  BY <1>1, <1>3 DEF OffsetsMatch

LEMMA InvJobsLegal == PlanBuildInv => JobsLegal
<1> SUFFICES ASSUME PlanBuildInv PROVE JobsLegal
  OBVIOUS
<1>1. SoundJobs(jobs) /\ ShapeIn(jobs) /\ jobs \in Seq(Job) /\ TypeOK
  BY DEF PlanBuildInv, BuildInv, JobsInv, SoundJobs, LayoutInv, Inv
<1>2. \A k \in DOMAIN jobs : jobs[k].type = "upload" =>
        jobs[k].bytes = BytesUpTo(jobs[k].elems, Len(jobs[k].elems))
  BY <1>1 DEF SoundJobs, ExactIn, Total
<1>3. ASSUME NEW f \in Files PROVE Loc(f) = LocRecord(size[f], NameLen[f]).written
  <2>1. f \in 1 .. MaxFiles /\ size[f] \in Nat
    BY <1>1, EntrySizes, LayoutAssumption DEF TypeOK, Files
  <2>2. NameLen[f] \in Nat
    BY <2>1, LayoutAssumption
  <2> QED
    BY <2>1, <2>2, LocSizeExact DEF Loc
<1>4. ASSUME built PROVE Last(Last(jobs).elems).bytes = Directory + End.written
  <2>1. PICK p \in Seq(Element) : jobs[Len(jobs)].elems = p \o <<Elem(0, offset, DirectoryBytes)>>
    BY <1>4 DEF PlanBuildInv, BuildInv, Closed
  <2>2. Last(Last(jobs).elems) = Elem(0, offset, DirectoryBytes)
    <3> DEFINE x == Elem(0, offset, DirectoryBytes)
               s == p \o <<x>>
    <3> HIDE DEF x
    <3>1. Len(s) = Len(p) + 1 /\ s[Len(p) + 1] = x
      OBVIOUS
    <3> QED
      BY <2>1, <3>1 DEF Last, x
  <2>3. /\ eocd64 = Eocd64 /\ Eocd64.count = Len(size) /\ Eocd64.bytes = Directory /\ Eocd64.at = offset
        /\ Directory \in Nat /\ offset \in Nat /\ Len(size) \in Nat
    BY <1>4, Finished
  <2>4. DirectoryBytes = Directory + End.written
    BY <2>3, EndSizeExact DEF DirectoryBytes, End
  <2> QED
    BY <2>2, <2>4 DEF Elem
<1>5. BufferFits
  BY <1>2, <1>3, <1>4 DEF BufferFits
<1>6. CopyFollowsUpload
  BY DEF PlanBuildInv, BuildInv, OpenUpload, CopyFollowsUpload, EndsUpload, LastIsUpload, Last
<1>7. \A k \in 1 .. Len(jobs) - 1 : k \in 1 .. Len(jobs) /\ k < Len(jobs)
  BY <1>1
<1>8. PartsBigEnough /\ OnlyLastOverBudget
  BY <1>1, <1>7 DEF ShapeIn, PartsBigEnough, OnlyLastOverBudget
<1> QED
  BY <1>5, <1>6, <1>8 DEF JobsLegal

LEMMA InvFilesCarried == PlanBuildInv => FilesCarried
<1> SUFFICES ASSUME PlanBuildInv, built, NEW f \in Files PROVE Carried(f) = EntrySize(f)
  BY DEF FilesCarried
<1>1. CarriedIn(f, jobs) = EntrySize(f)
  BY AllTaken DEF PlanBuildInv, BuildInv, Books
<1>2. Carried(f) = CarriedIn(f, jobs)
  BY DEF Carried, CarriedIn, Load
<1> QED
  BY <1>1, <1>2
-----------------------------------------------------------------------------
LEMMA PlanBuildInvKept == PlanBuildInv /\ [Plan \/ Build]_allVars => PlanBuildInv'
<1>1. PlanBuildInv /\ (Plan \/ Build) => PlanBuildInv'
  BY PlanStep, BuildStep
<1> QED
  BY <1>1, Stutter

(* Whatever files are listed, the layout that into_part_jobs receives is one *)
(* the planner makes: the builder takes parts and changes none.              *)
LEMMA BuilderKeepsLayout == PlanSpec => Spec
<1>1. PlanInit => Init
  BY DEF PlanInit
<1>2. [Plan \/ Build]_allVars => [Next]_vars
  BY DEF Plan, Build, AddFiles, CopyFile, Finalize, allVars
<1> QED
  BY <1>1, <1>2, PTL DEF PlanSpec, Spec

(* The layout and the jobs built from it keep the relations of the           *)
(* invariant: offsets, sizes and directory of the jobs agree with the files  *)
(* registered.                                                               *)
THEOREM BuilderInvariance == PlanSpec => []PlanBuildInv
  BY PlanBuildInit, PlanBuildInvKept, PTL DEF PlanSpec

(* Whatever files are listed, the offset that PartJobsBuilder writes into a  *)
(* local header is where the header ends up once S3 has put the parts        *)
(* together, and the directory that finalize writes leads a reader to every  *)
(* file, with its size, and to itself.                                       *)
THEOREM OffsetsAlwaysMatch == PlanSpec => []OffsetsMatch
  BY BuilderInvariance, InvOffsetsMatch, PTL

(* Whatever files are listed, every job can be executed: an upload's buffer  *)
(* is what its elements write, internal_copy_file never panics, S3 accepts   *)
(* every part, and no job but the last asks for more memory than there is.   *)
THEOREM JobsAlwaysLegal == PlanSpec => []JobsLegal
  BY BuilderInvariance, InvJobsLegal, PTL

(* Whatever files are listed, the uploads and server-side copies together    *)
(* carry the local header and the bytes of each file exactly once.           *)
THEOREM FilesAlwaysCarried == PlanSpec => []FilesCarried
  BY BuilderInvariance, InvFilesCarried, PTL
=============================================================================
