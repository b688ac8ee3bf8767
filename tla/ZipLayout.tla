----------------------------- MODULE ZipLayout -----------------------------
(***************************************************************************)
(* The layout planner of jrodon-v2 and jrodon-v3 (zip_layout.rs): it turns *)
(* the listed files, smallest first, into layout parts. A Duo is a regular *)
(* upload (small entries, then the local header of a big file and perhaps  *)
(* its first bytes) followed by a server-side copy of the rest of the big  *)
(* file; a Single is one upload. S3 accepts a part below MinPart bytes     *)
(* only as the last one of the archive.                                    *)
(*                                                                         *)
(* One action is one turn of a loop of from_files_info. A definition that  *)
(* stands before another one of the same shape and that no specification   *)
(* uses (MinusUnchecked, StartNoHeader) is a plausible bug in it.          *)
(***************************************************************************)
EXTENDS Integers, Sequences, FiniteSets, ZipFormat

CONSTANTS
  MaxFiles,   (* bound: files listed                                       *)
  FileSizes,  (* the sizes a file may have                                 *)
  NameLen,    (* file, in the order of sizes -> length of its name         *)
  MinPart,    (* MIN_PART_SIZE                                             *)
  Target      (* TARGET_PART_SIZE                                          *)

ASSUME LayoutAssumption ==
  /\ MaxFiles \in Nat /\ FileSizes \subseteq Nat
  /\ NameLen \in [1 .. MaxFiles -> Nat]
  /\ MinPart \in Nat \ {0} /\ Target \in Nat

VARIABLES
  size,     (* the files listed, sorted: file -> size                      *)
  phase,    (* the pass, or "done"                                         *)
  lo, hi,   (* the deque of files left holds lo .. hi                      *)
  big,      (* the file popped from the back in this turn, or 0            *)
  regular,  (* the regular part being grown: [entries, bytes]              *)
  parts,    (* the layout parts                                            *)
  at        (* the part the second or third pass is at                     *)

vars == <<size, phase, lo, hi, big, regular, parts, at>>

Files == 1 .. Len(size)
Loc(f) == LocSize(size[f], NameLen[f])
EntrySize(f) == Loc(f) + size[f]

(* saturating_sub *)
MinusUnchecked(a, b) == a - b
Minus(a, b) == IF a >= b THEN a - b ELSE 0

(* A regular part: its entries and part_size, the sum of their sizes. *)
Empty == [entries |-> <<>>, bytes |-> 0]
Push(r, f) == [entries |-> Append(r.entries, f), bytes |-> r.bytes + EntrySize(f)]

Single(r) == [kind |-> "single", regular |-> r, big |-> 0, start |-> 0]
(* copy_start_byte 0 stands for FullCopy, another one for PartialCopy. *)
Duo(r, b, start) == [kind |-> "duo", regular |-> r, big |-> b, start |-> start]

Left == lo <= hi
SortedSizes(n) == {s \in [1 .. n -> FileSizes] : \A i, j \in 1 .. n : i < j => s[i] <= s[j]}

Init ==
  /\ \E n \in 0 .. MaxFiles : size \in SortedSizes(n)
  /\ phase = "pair" /\ lo = 1 /\ hi = Len(size)
  /\ big = 0 /\ regular = Empty /\ parts = <<>> /\ at = 1
-----------------------------------------------------------------------------
(* Pass 1: pair big files with small ones *)

PopBig ==
  /\ phase = "pair" /\ big = 0
  /\ Left /\ size[hi] >= MinPart
  /\ big' = hi /\ hi' = hi - 1 /\ regular' = Empty
  /\ UNCHANGED <<size, phase, lo, parts, at>>

PairDone ==
  /\ phase = "pair" /\ big = 0
  /\ ~(Left /\ size[hi] >= MinPart)
  /\ phase' = "promote" /\ at' = 1
  /\ UNCHANGED <<size, lo, hi, big, regular, parts>>

(* What the regular part must hold so that the copy keeps MinPart bytes.     *)
Missing(b) == Minus(Minus(MinPart, Loc(b)), size[b] - MinPart)
StartNoHeader(b, bytes) == Minus(MinPart, bytes)
Start(b, bytes) == Minus(Minus(MinPart, bytes), Loc(b))

MakeDuo ==
  /\ big # 0 /\ regular.bytes >= Missing(big)
  /\ parts' = Append(parts, Duo(regular, big, Start(big, regular.bytes)))
  /\ big' = 0
  /\ UNCHANGED <<size, phase, lo, hi, regular, at>>

GrowRegular ==
  /\ big # 0 /\ regular.bytes < Missing(big) /\ Left
  /\ regular' = Push(regular, lo) /\ lo' = lo + 1
  /\ UNCHANGED <<size, phase, hi, big, parts, at>>

(* Out of small files: the big one joins them in a Single. *)
FoldIntoSingle ==
  /\ big # 0 /\ regular.bytes < Missing(big) /\ ~Left
  /\ parts' = Append(parts, Single(Push(regular, big)))
  /\ big' = 0
  /\ UNCHANGED <<size, phase, lo, hi, regular, at>>
-----------------------------------------------------------------------------
(* Passes 2 and 3 visit the Duos in order; out of files, they stop.          *)

InPass(pass) == phase = pass /\ at <= Len(parts)
PassOver(pass, next) ==
  /\ phase = pass /\ at > Len(parts)
  /\ phase' = next /\ at' = 1
  /\ UNCHANGED <<size, lo, hi, big, regular, parts>>

(* Absorb: the next small file joins the regular half of the current Duo.    *)
AbsorbStart(start, f) == Minus(start, EntrySize(f))

Absorb ==
  /\ parts' = [parts EXCEPT ![at].regular = Push(@, lo),
                            ![at].start = AbsorbStart(@, lo)]
  /\ lo' = lo + 1
  /\ UNCHANGED <<size, phase, hi, big, regular, at>>

Skip == at' = at + 1 /\ UNCHANGED <<size, phase, lo, hi, big, regular, parts>>
GiveUp(next) == phase' = next /\ at' = 1 /\ UNCHANGED <<size, lo, hi, big, regular, parts>>

(* Pass 2: a PartialCopy absorbs small files until it is a FullCopy. *)
Partial == parts[at].kind = "duo" /\ parts[at].start > 0

Promote == InPass("promote") /\ Partial /\ Left /\ Absorb
PromoteNext == InPass("promote") /\ ~Partial /\ Skip
PromoteStop == InPass("promote") /\ Partial /\ ~Left /\ GiveUp("pad")
PromoteDone == PassOver("promote", "pad")

(* Pass 3: the regular halves are padded up to Target. *)
Short == parts[at].kind = "duo" /\ parts[at].regular.bytes < Target

Pad ==
  /\ InPass("pad") /\ Short /\ Left
  /\ parts' = [parts EXCEPT ![at].regular = Push(@, lo)]
  /\ lo' = lo + 1
  /\ UNCHANGED <<size, phase, hi, big, regular, at>>
PadNext == InPass("pad") /\ ~Short /\ Skip
PadStop == InPass("pad") /\ Short /\ ~Left /\ GiveUp("rest")
PadDone == PassOver("pad", "rest")
-----------------------------------------------------------------------------
(* Pass 4: what is left goes into Singles of about Target bytes. *)

NewSingle ==
  /\ phase = "rest" /\ Left
  /\ regular' = Empty /\ phase' = "fill"
  /\ UNCHANGED <<size, lo, hi, big, parts, at>>

FillSingle ==
  /\ phase = "fill" /\ regular.bytes < Target /\ Left
  /\ regular' = Push(regular, lo) /\ lo' = lo + 1
  /\ UNCHANGED <<size, phase, hi, big, parts, at>>

PushSingle ==
  /\ phase = "fill" /\ (regular.bytes >= Target \/ ~Left)
  /\ parts' = Append(parts, Single(regular))
  /\ phase' = "rest"
  /\ UNCHANGED <<size, lo, hi, big, regular, at>>

LayoutDone ==
  /\ phase = "rest" /\ ~Left
  /\ phase' = "done"
  /\ UNCHANGED <<size, lo, hi, big, regular, parts, at>>
-----------------------------------------------------------------------------
Pair == PopBig \/ PairDone \/ MakeDuo \/ GrowRegular \/ FoldIntoSingle
PromotePass == Promote \/ PromoteNext \/ PromoteStop \/ PromoteDone
PadPass == Pad \/ PadNext \/ PadStop \/ PadDone
Rest == NewSingle \/ FillSingle \/ PushSingle \/ LayoutDone

Next == Pair \/ PromotePass \/ PadPass \/ Rest

Spec == Init /\ [][Next]_vars
-----------------------------------------------------------------------------
(* Properties *)

RegularPart == [entries : Seq(Nat), bytes : Nat]
LayoutPart == [kind : {"single", "duo"}, regular : RegularPart, big : Nat, start : Nat]

TypeOK ==
  /\ size \in Seq(FileSizes) /\ Len(size) <= MaxFiles
  /\ phase \in {"pair", "promote", "pad", "rest", "fill", "done"}
  /\ lo \in 1 .. Len(size) + 1 /\ hi \in 0 .. Len(size) /\ lo <= hi + 1
  /\ big \in 0 .. Len(size)
  /\ regular \in RegularPart
  /\ parts \in Seq(LayoutPart)
  /\ at \in 1 .. Len(parts) + 1

(* Both S3 parts a Duo becomes are at least MinPart bytes, whatever the      *)
(* later passes absorb: S3 rejects the whole upload otherwise.               *)
UploadHalf(p) == p.regular.bytes + Loc(p.big) + p.start
CopyHalf(p) == size[p.big] - p.start

DuoHalvesBigEnough ==
  \A i \in DOMAIN parts : parts[i].kind = "duo" =>
    UploadHalf(parts[i]) >= MinPart /\ CopyHalf(parts[i]) >= MinPart

(* Singles come after every Duo: only then may they be merged with each      *)
(* other and with the central directory into the last part.                  *)
SinglesLast ==
  \A i, j \in DOMAIN parts : parts[i].kind = "single" /\ i < j => parts[j].kind = "single"

(* What S3 and the part-job builder take for granted of a layout.            *)
LayoutLegal == DuoHalvesBigEnough /\ SinglesLast
=============================================================================
