----------------------------- MODULE ZipFormat -----------------------------
(***************************************************************************)
(* The headers of jrodon-v2 and jrodon-v3 (zip_format.rs, the same in      *)
(* both). Their sizes are predicted while the archive is laid out, before  *)
(* a byte of it exists; the buffers of the parts have exactly the size     *)
(* predicted, and a dump that needs more is cut short without an error.    *)
(*                                                                         *)
(* A record keeps the fields whose value depends on the entry, and the     *)
(* number of bytes that dump writes, field by field. Max32 and Max16 stand *)
(* for u32::MAX and u16::MAX: the widths of the fields that ZIP64 extends. *)
(* CdfhSizeNoOffset, which nothing uses, is a plausible bug in CdfhSize.   *)
(***************************************************************************)
EXTENDS Integers, Sequences

CONSTANTS Max32, Max16

ASSUME FormatAssumption == Max32 \in Nat /\ Max16 \in Nat

U32(n) == n % (Max32 + 1)
U16(n) == n % (Max16 + 1)
-----------------------------------------------------------------------------
(* What the planner predicts *)

LocSize(bytes, name) == 30 + name + (IF bytes > Max32 THEN 20 ELSE 0)

CdfhSizeNoOffset(bytes, name, at) == 46 + name + (IF bytes > Max32 THEN 20 ELSE 0)
CdfhSize(bytes, name, at) ==
  46 + name + (IF at > Max32 THEN 28 ELSE IF bytes > Max32 THEN 20 ELSE 0)

NeedEocd64(count, bytes, at) == bytes > Max32 \/ at > Max32 \/ count > Max16
EndSize(count, bytes, at) == 22 + (IF NeedEocd64(count, bytes, at) THEN 56 + 20 ELSE 0)
-----------------------------------------------------------------------------
(* What dump writes: the signature, the fixed fields, the name, the ZIP64    *)
(* field.                                                                    *)

LocRecord(bytes, name) ==
  LET zip64 == bytes > Max32 IN
  [size    |-> IF zip64 THEN Max32 ELSE U32(bytes),
   extra   |-> IF zip64 THEN <<bytes>> ELSE <<>>,
   written |-> 4 + 5 * 2 + 4 + 2 * 4 + 2 * 2 + name + (IF zip64 THEN 2 * 2 + 2 * 8 ELSE 0)]

(* The ZIP64 field holds the sizes also when only the offset needs it. *)
CdfhRecord(bytes, name, at) ==
  LET at64 == at > Max32
      size64 == at64 \/ bytes > Max32 IN
  [size    |-> IF size64 THEN Max32 ELSE U32(bytes),
   at      |-> IF at64 THEN Max32 ELSE U32(at),
   extra   |-> IF at64 THEN <<bytes, at>> ELSE IF size64 THEN <<bytes>> ELSE <<>>,
   written |-> 4 + 6 * 2 + 4 + 2 * 4 + 5 * 2 + 2 * 4 + name
               + (IF size64 THEN 2 * 2 + 2 * 8 ELSE 0) + (IF at64 THEN 8 ELSE 0)]

EndRecord(count, bytes, at) ==
  LET zip64 == NeedEocd64(count, bytes, at) IN
  [count   |-> IF zip64 THEN Max16 ELSE U16(count),
   bytes   |-> IF zip64 THEN Max32 ELSE U32(bytes),
   at      |-> IF zip64 THEN Max32 ELSE U32(at),
   eocd64  |-> IF zip64 THEN <<count, bytes, at>> ELSE <<>>,
   written |-> (IF zip64 THEN (4 + 8 + 2 * 2 + 2 * 4 + 4 * 8) + (4 + 4 + 8 + 4) ELSE 0)
               + 4 + 4 * 2 + 2 * 4 + 2]
-----------------------------------------------------------------------------
(* What a reader finds. The values of the ZIP64 field stand for the fields   *)
(* that hold Max32, in order; without such a field a value of Max32 is taken *)
(* as it is. No reader finds Broken.                                         *)
Broken == -1

ReadSize(r) == IF r.size = Max32 /\ r.extra # <<>> THEN r.extra[1] ELSE r.size
ReadAt(r) ==
  IF r.at = Max32 /\ r.extra # <<>>
  THEN IF Len(r.extra) = 2 THEN r.extra[2] ELSE Broken
  ELSE r.at
ReadEnd(r) == IF r.eocd64 # <<>> THEN r.eocd64 ELSE <<r.count, r.bytes, r.at>>
=============================================================================
