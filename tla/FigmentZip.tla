----------------------------- MODULE FigmentZip -----------------------------
(***************************************************************************)
(* The ZIP records that figment-engine writes (engine/zip_format.rs) and   *)
(* how an unzip program finds its way through them. A record is one byte,  *)
(* with a second one for its ZIP64 extra field; only the fields that place *)
(* things are kept. Positions count bytes from 0.                          *)
(*                                                                         *)
(* A definition that stands next to one of the same shape and that no      *)
(* specification uses (RecordWraps) is a plausible bug in it.              *)
(***************************************************************************)
EXTENDS Integers, Sequences, SequencesExt

CONSTANTS
  Limit,       (* U32_MAX, the largest value of a 32-bit field: its mark    *)
  CountLimit   (* U16_MAX, the mark of the count in the last record         *)

ASSUME LimitAssumption == Limit \in Nat \ {0} /\ CountLimit \in Nat \ {0}

(* `as u32`: what is above the limit is cut off (a debug_assert, no check). *)
AsU32(v) == v % (Limit + 1)

(* The record of an entry. Its size has no extra field; its offset has one,  *)
(* but not when it is the mark itself.                                       *)
RecordWraps(id, size, offset) == <<<<"record", id, AsU32(size), AsU32(offset)>>>>
Record(id, size, offset) ==
  IF offset > Limit
  THEN <<<<"record", id, AsU32(size), Limit>>, <<"extra", id, offset>>>>
  ELSE <<<<"record", id, AsU32(size), offset>>>>

(* The ZIP64 end record and its locator are always written. The last record  *)
(* repeats each value whose field is wide enough, and has the mark for others. *)
OrMark(v, mark) == IF v >= mark THEN mark ELSE v
EndRecords(count, cd_offset, cd_size) ==
  <<<<"end64", count, cd_size, cd_offset>>,
    <<"locator", cd_offset + cd_size>>,
    <<"end", OrMark(count, CountLimit), OrMark(cd_size, Limit), OrMark(cd_offset, Limit)>>>>

CentralDirectory(order, sizes, offsets, cd_offset) ==
  LET records == FlattenSeq([n \in DOMAIN order |-> Record(order[n], sizes[n], offsets[n])])
  IN  records \o EndRecords(Len(order), cd_offset, Len(records))
-----------------------------------------------------------------------------
(* The reader: it starts at the last record and takes a marked value, and no *)
(* other, from the record that the locator leads to.                         *)
EndValue(bytes, field, mark) ==
  LET last == bytes[Len(bytes)]
      end64 == bytes[bytes[Len(bytes) - 1][2] + 1]
  IN  IF last[field] = mark THEN end64[field] ELSE last[field]
CountOf(bytes) == EndValue(bytes, 2, CountLimit)
DirectoryOf(bytes) ==
  LET offset == EndValue(bytes, 4, Limit)
  IN  SubSeq(bytes, offset + 1, offset + EndValue(bytes, 3, Limit))

(* The entries as the reader sees them. A marked offset is in the extra field; *)
(* where there is none, the reader has no offset.                            *)
NoOffset == -1
EntriesOf(bytes) ==
  LET dir == DirectoryOf(bytes)
      records == {n \in DOMAIN dir : dir[n][1] = "record"}
      Extra(n) == n < Len(dir) /\ dir[n + 1][1] = "extra"
      Offset(n) == IF dir[n][4] # Limit THEN dir[n][4]
                   ELSE IF Extra(n) THEN dir[n + 1][3] ELSE NoOffset
  IN  {[id |-> dir[n][2], size |-> dir[n][3], offset |-> Offset(n)] : n \in records}
=============================================================================
