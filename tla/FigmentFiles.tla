---------------------------- MODULE FigmentFiles ----------------------------
(***************************************************************************)
(* What figment-engine and figment-engine-chain, which depends on it, have *)
(* in common: the vocabulary of their plans (engine/plan.rs), the          *)
(* directory at the end, and what an archive promises.                     *)
(*                                                                         *)
(* An object is the sequence of its bytes. A byte is numbered within the   *)
(* header or the body it belongs to.                                       *)
(***************************************************************************)
EXTENDS Integers, FiniteSets, FiniteSetsExt, FigmentZip

CONSTANTS
  Lists,       (* lists of source files: sequences of [size, header]        *)
  Floor        (* PART_FLOOR, the least size of a part that is not the last *)

(* A header is shorter than the floor: both are fixed by the formats. *)
ASSUME FilesAssumption ==
  Floor \in Nat \ {0} /\ Lists \subseteq Seq([size : Nat, header : 1 .. Floor - 1])

VARIABLES
  files,     (* the list, ids are positions                                 *)
  plan,      (* of the archive: [order, offsets, directory, ...]            *)
  handler,   (* what the handler waits for, or its answer                   *)
  archive,   (* what the archive key holds                                  *)
  faulty     (* a call has failed for good                                  *)

Ids == DOMAIN files

(* A slice of the header or the body of a file. *)
Header(id) == [of |-> "header", id |-> id, from |-> 0, to |-> files[id].header]
BodySlice(id, from, to) == [of |-> "body", id |-> id, from |-> from, to |-> to]
Body(id) == BodySlice(id, 0, files[id].size)
SliceLen(s) == s.to - s.from
Bytes(s) == [i \in 1 .. SliceLen(s) |-> <<s.of, s.id, s.from + i>>]

Entry(id) == Bytes(Header(id)) \o Bytes(Body(id))
EntryLen(id) == files[id].header + files[id].size

(* Sorting: the n-th element is the one with n - 1 elements before it. *)
InOrder(S, before) ==
  [n \in 1 .. Cardinality(S) |->
     CHOOSE x \in S : Cardinality({y \in S : <<y, x>> \in before}) = n - 1]
Ascending(numbers) == InOrder(numbers, {p \in numbers \X numbers : p[1] < p[2]})

LargestFirst ==
  {p \in Ids \X Ids : \/ files[p[1]].size > files[p[2]].size
                      \/ files[p[1]].size = files[p[2]].size /\ p[1] < p[2]}
Bigs == InOrder({i \in Ids : files[i].size >= Floor}, LargestFirst)

BytesBefore(order, n) ==
  SumFunctionOnSet([m \in DOMAIN order |-> EntryLen(order[m])], 1 .. n - 1)
Offsets(order) == [n \in DOMAIN order |-> BytesBefore(order, n)]
DirectoryOffset(order) == BytesBefore(order, Len(order) + 1)

Sizes(order) == [n \in DOMAIN order |-> files[order[n]].size]

Directory == CentralDirectory(plan.order, Sizes(plan.order), plan.offsets, plan.directory)
-----------------------------------------------------------------------------
(* Any archive that exists, even one whose completion was reported as failed, *)
(* is one an unzip program can read (build_central_directory, zip_format,     *)
(* compute_offsets): a record for every file, with the offset of its header   *)
(* and the size of the body that follows it. Two exceptions: nothing is       *)
(* promised of a file as long as the limit or longer, whose record has the    *)
(* mark or a truncated size, and an offset equal to the limit is there but    *)
(* looks like the mark of an extra field that is not.                         *)
Readable(bytes) ==
  LET entries == EntriesOf(bytes)
      Start(e) == IF e.offset = NoOffset THEN Limit ELSE e.offset
  IN
  /\ CountOf(bytes) = Len(files) /\ Cardinality(entries) = Len(files)
  /\ {e.id : e \in entries} = Ids
  /\ \A e \in entries : files[e.id].size < Limit =>
       SubSeq(bytes, Start(e) + 1, Start(e) + files[e.id].header + e.size) = Entry(e.id)
ArchiveReadable == archive # <<>> => Readable(archive)
=============================================================================
