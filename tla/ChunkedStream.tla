--------------------------- MODULE ChunkedStream ---------------------------
(***************************************************************************)
(* What a streaming archiver needs from the buffer between the thread that *)
(* writes ZIP bytes and the task that uploads them as multipart parts: the *)
(* bytes written, numbered 1, 2, 3, ... in the order they were written,    *)
(* are cut into consecutive chunks, every chunk but the last one holds     *)
(* exactly ChunkSize bytes, and part k of the upload is chunk k.           *)
(*                                                                         *)
(* This is the abstract specification; SlabRing implements it.             *)
(***************************************************************************)
EXTENDS Integers, Sequences

CONSTANT ChunkSize     (* bytes in every chunk but the last *)

VARIABLES
  written,   (* how many bytes have been written                          *)
  chunks,    (* the chunks cut so far: [from, len] covers from+1..from+len *)
  parts,     (* part number -> the bytes handed to the uploader           *)
  ended      (* the producer has declared the end of the stream           *)

streamVars == <<written, chunks, parts, ended>>

(* The number of bytes that belong to a chunk already. *)
Covered == IF chunks = <<>> THEN 0
           ELSE chunks[Len(chunks)].from + chunks[Len(chunks)].len

(* The bytes of chunk c, in stream order. *)
Content(c) == [j \in 1..c.len |-> c.from + j]

Init ==
  /\ written = 0
  /\ chunks = <<>>
  /\ parts = [k \in {} |-> <<>>]
  /\ ended = FALSE

(* Bytes are written until the chunk being filled is full. *)
Write ==
  /\ ~ended
  /\ \E n \in 1..(ChunkSize - (written - Covered)) : written' = written + n
  /\ UNCHANGED <<chunks, parts, ended>>

End ==
  /\ ended' = TRUE
  /\ UNCHANGED <<written, chunks, parts>>

(* A chunk is cut when it is full, or, at the end, with what is left. *)
Cut ==
  /\ written > Covered
  /\ ended \/ written - Covered = ChunkSize
  /\ chunks' = Append(chunks, [from |-> Covered, len |-> written - Covered])
  /\ UNCHANGED <<written, parts, ended>>

(* Any chunk may be read, once, whatever the order. *)
Deliver ==
  /\ \E k \in 1..Len(chunks) :
       /\ k \notin DOMAIN parts
       /\ parts' = [q \in DOMAIN parts \cup {k} |->
                      IF q = k THEN Content(chunks[k]) ELSE parts[q]]
  /\ UNCHANGED <<written, chunks, ended>>

Next == Write \/ End \/ Cut \/ Deliver

Spec == Init /\ [][Next]_streamVars
=============================================================================
