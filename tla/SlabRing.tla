------------------------------ MODULE SlabRing ------------------------------
(***************************************************************************)
(* The single-producer ring buffer of byte slabs of the jrodon contender   *)
(* (contenders/rust/jrodon/src/slabs_ring.rs).                             *)
(*                                                                         *)
(* A writer thread (std::io::Write on a blocking thread) fills one slab,   *)
(* seals it (an atomic swap of the slab's state cell, then a send of a     *)
(* SlabLease on an unbounded channel) and claims the next free one (an     *)
(* atomic load, then an atomic swap, slab after slab). The consumer        *)
(* receives leases in order and gives each to a task of its own, which     *)
(* copies the bytes out (into_vec) and then drops the lease (an atomic     *)
(* swap back to Free). Every atomic operation is an action.                *)
(*                                                                         *)
(* A byte is modelled by its number in the stream of bytes written, so     *)
(* that a lost, duplicated or overwritten byte is visible in the parts.    *)
(* MaxBytes bounds the length of the stream.                               *)
(*                                                                         *)
(* A definition that stands just before another one of the same shape and  *)
(* whose name extends it (ClaimableAny, FlushAgain, ...) is that one with  *)
(* a plausible bug; no specification uses it.                              *)
(***************************************************************************)
EXTENDS Integers, Sequences, FiniteSets

CONSTANTS
  SlabCount,   (* number of slabs; BUFFER_CHUNKS_COUNT = 2 in main.rs *)
  SlabSize,    (* bytes in a slab; CHUNK_SIZE_BYTES in main.rs        *)
  MaxBytes     (* bound: bytes written in a behaviour                 *)

(* With one slab seal_and_advance would spin forever: the scan never        *)
(* considers the current slab. The program uses two.                        *)
ASSUME SlabAssumption ==
  /\ SlabCount \in Nat \ {0, 1}
  /\ SlabSize \in Nat \ {0}
  /\ MaxBytes \in Nat

VARIABLES
  state,     (* slab -> its atomic SlabState                              *)
  buf,       (* slab -> the bytes it holds (0: the initial vec![0])       *)
  pc,        (* where the writer thread is                                *)
  slab_idx,  (* Writer.slab_idx                                           *)
  offset,    (* Writer.offset                                             *)
  next_idx,  (* the scan position of find_and_claim_free_slab             *)
  todo,      (* bytes of the caller's buffer that write has yet to copy   *)
  flushed,   (* flush was called: the last call of the program on it      *)
  leases,    (* all the leases ever sent, in channel order                *)
  recvd,     (* how many of them the reader has received                  *)
  held,      (* received leases that are not dropped yet, by part number  *)
  out,       (* part number -> the bytes into_vec copied                  *)
  reader,    (* "open", or "closed" once recv has returned None           *)
  panicked,  (* an unreachable! of the code was reached                   *)
  written    (* history: bytes written so far                             *)

writerVars == <<pc, slab_idx, offset, next_idx, todo, flushed, written>>
readerVars == <<recvd, held, out, reader>>
vars == <<state, buf, writerVars, leases, readerVars, panicked>>

Slabs == 0 .. SlabCount - 1
SlabState == {"Free", "Filling", "Ready"}

(* Leases that exist: in the channel, or held by a task. *)
LiveParts == held \cup (recvd + 1 .. Len(leases))

Leased(i) == \E p \in LiveParts : leases[p].slab = i

(* The next candidate of the scan, and whether the writer may claim it. *)
NextSlab(i) == (i + 1) % SlabCount

ClaimableAny(i) == i # slab_idx
Claimable(i) == i # slab_idx /\ state[i] = "Free"
-----------------------------------------------------------------------------
(* SlabRing::create: the first slab is Filling, the writer starts in it. *)
Init ==
  /\ state = [i \in Slabs |-> IF i = 0 THEN "Filling" ELSE "Free"]
  /\ buf = [i \in Slabs |-> [o \in 0 .. SlabSize - 1 |-> 0]]
  /\ pc = "idle" /\ slab_idx = 0 /\ offset = 0 /\ next_idx = 0 /\ todo = 0
  /\ flushed = FALSE /\ written = 0
  /\ leases = <<>>
  /\ recvd = 0 /\ held = {} /\ out = [p \in {} |-> <<>>] /\ reader = "open"
  /\ panicked = FALSE

-----------------------------------------------------------------------------
(* The writer *)

(* The zip writer calls write with n bytes. It never does after flush. *)
Write(n) ==
  /\ pc = "idle" /\ ~flushed /\ written + n <= MaxBytes
  /\ todo' = n
  /\ pc' = "write"
  /\ UNCHANGED <<state, buf, slab_idx, offset, next_idx, flushed, written,
                 leases, readerVars, panicked>>

(* One turn of write's loop: copy what the current slab has room for. *)
CopySizeUncapped == todo
CopySize == IF todo <= SlabSize - offset THEN todo ELSE SlabSize - offset

CopyIn ==
  /\ pc = "write" /\ offset < SlabSize
  /\ LET n == CopySize IN
       /\ buf' = [buf EXCEPT ![slab_idx] =
                    [o \in 0 .. SlabSize - 1 |->
                       IF o \in offset .. offset + n - 1
                       THEN written + 1 + (o - offset) ELSE @[o]]]
       /\ offset' = offset + n
       /\ written' = written + n
       /\ todo' = todo - n
       /\ pc' = IF todo = n THEN "idle" ELSE "write"
  /\ UNCHANGED <<state, slab_idx, next_idx, flushed, leases, readerVars,
                 panicked>>

(* seal's swap: only the swap that finds Filling goes on to send a lease.   *)
(* after says where the writer goes when there is no lease to send.         *)
SwapReady(after) ==
  /\ state' = [state EXCEPT ![slab_idx] = "Ready"]
  /\ pc' = IF state[slab_idx] = "Filling" THEN "send" ELSE after

(* No room and bytes left: seal_and_advance. *)
SealFull ==
  /\ pc = "write" /\ offset = SlabSize
  /\ SwapReady("scan")
  /\ next_idx' = slab_idx
  /\ UNCHANGED <<buf, slab_idx, offset, todo, flushed, written, leases,
                 readerVars, panicked>>

(* flush seals the current slab, which may be partial; it does not advance. *)
FlushAgain ==
  /\ pc = "idle"
  /\ flushed' = TRUE
  /\ IF offset = 0 THEN UNCHANGED <<state, pc>> ELSE SwapReady("idle")
  /\ UNCHANGED <<buf, slab_idx, offset, next_idx, todo, written, leases,
                 readerVars, panicked>>

Flush ==
  /\ pc = "idle" /\ ~flushed
  /\ flushed' = TRUE
  /\ IF offset = 0 THEN UNCHANGED <<state, pc>> ELSE SwapReady("idle")
  /\ UNCHANGED <<buf, slab_idx, offset, next_idx, todo, written, leases,
                 readerVars, panicked>>

(* The lease goes to the unbounded channel. "from" is history: the stream   *)
(* position at which the slab's bytes begin.                                *)
SendLease ==
  /\ pc = "send"
  /\ leases' = Append(leases, [slab |-> slab_idx, len |-> offset,
                               from |-> written - offset])
  /\ pc' = IF flushed THEN "idle" ELSE "scan"
  /\ UNCHANGED <<state, buf, slab_idx, offset, next_idx, todo, flushed,
                 written, readerVars, panicked>>

(* One candidate of the scan: a load. Back at the current slab, the thread  *)
(* sleeps 10 ms and starts over.                                            *)
Scan ==
  /\ pc = "scan"
  /\ next_idx' = NextSlab(next_idx)
  /\ pc' = IF Claimable(NextSlab(next_idx)) THEN "claim" ELSE "scan"
  /\ UNCHANGED <<state, buf, slab_idx, offset, todo, flushed, written, leases,
                 readerVars, panicked>>

(* The swap that claims the slab the load saw free. *)
Claim ==
  /\ pc = "claim"
  /\ state' = [state EXCEPT ![next_idx] = "Filling"]
  /\ panicked' = (panicked \/ state[next_idx] # "Free")
  /\ slab_idx' = next_idx
  /\ offset' = 0
  /\ pc' = "write"
  /\ UNCHANGED <<buf, next_idx, todo, flushed, written, leases, readerVars>>

(* The writer is dropped: after flush, or before it when the zip job gave up. *)
DropWriter ==
  /\ pc = "idle"
  /\ pc' = "dropped"
  /\ UNCHANGED <<state, buf, slab_idx, offset, next_idx, todo, flushed,
                 written, leases, readerVars, panicked>>

-----------------------------------------------------------------------------
(* The consumer *)

(* recv yields the next lease; the upload loop numbers it recvd + 1. *)
Recv ==
  /\ reader = "open" /\ recvd < Len(leases)
  /\ recvd' = recvd + 1
  /\ held' = held \cup {recvd + 1}
  /\ UNCHANGED <<state, buf, writerVars, leases, out, reader, panicked>>

(* recv yields None: the channel is empty and nobody holds the ring, that is *)
(* the writer and every lease are dropped (each holds an Arc of the ring,    *)
(* which owns the sender).                                                   *)
RecvNone ==
  /\ reader = "open" /\ recvd = Len(leases)
  /\ pc = "dropped" /\ held = {}
  /\ reader' = "closed"
  /\ UNCHANGED <<state, buf, writerVars, leases, recvd, held, out, panicked>>

(* into_vec copies the lease's bytes ... *)
IntoVec(p) ==
  /\ p \in held /\ p \notin DOMAIN out
  /\ out' = [q \in DOMAIN out \cup {p} |->
               IF q = p
               THEN [j \in 1 .. leases[p].len |-> buf[leases[p].slab][j - 1]]
               ELSE out[q]]
  /\ UNCHANGED <<state, buf, writerVars, leases, recvd, held, reader, panicked>>

(* ... and drops the lease when it returns. *)
MayDrop(p) == p \in held /\ p \in DOMAIN out

FreedNot(p) == state
Freed(p) == [state EXCEPT ![leases[p].slab] = "Free"]

DropLease(p) ==
  /\ MayDrop(p)
  /\ state' = Freed(p)
  /\ panicked' = (panicked \/ state[leases[p].slab] # "Ready")
  /\ held' = held \ {p}
  /\ UNCHANGED <<buf, writerVars, leases, recvd, out, reader>>
-----------------------------------------------------------------------------
WriterStep == CopyIn \/ SealFull \/ SendLease \/ Scan \/ Claim
Caller == Flush \/ DropWriter \/ \E n \in 1 .. MaxBytes : Write(n)
Reader == Recv \/ RecvNone
Task(p) == IntoVec(p) \/ DropLease(p)

Next == WriterStep \/ Caller \/ Reader \/ \E p \in held : Task(p)

(* The writer's thread, the upload loop and each upload task keep running;   *)
(* the caller need not call again.                                           *)
Fairness ==
  /\ WF_vars(WriterStep)
  /\ WF_vars(Reader)
  /\ \A p \in 1 .. MaxBytes : WF_vars(Task(p))

Spec == Init /\ [][Next]_vars
FairSpec == Spec /\ Fairness
-----------------------------------------------------------------------------
(* Properties *)

Lease == [slab : Slabs, len : 1 .. SlabSize, from : 0 .. MaxBytes]

(* Every variable keeps its type; in particular slab_idx and offset, which   *)
(* index the raw copy of write (slabs_ring.rs:248-255), stay in range.       *)
TypeOK ==
  /\ state \in [Slabs -> SlabState]
  /\ buf \in [Slabs -> [0 .. SlabSize - 1 -> Nat]]
  /\ pc \in {"idle", "write", "send", "scan", "claim", "dropped"}
  /\ slab_idx \in Slabs /\ next_idx \in Slabs
  /\ offset \in 0 .. SlabSize
  /\ written \in 0 .. MaxBytes /\ todo \in 0 .. MaxBytes
  /\ flushed \in BOOLEAN /\ panicked \in BOOLEAN
  /\ leases \in Seq(Lease)
  /\ recvd \in 0 .. Len(leases)
  /\ held \subseteq 1 .. recvd
  /\ DOMAIN out \subseteq 1 .. recvd
  /\ reader \in {"open", "closed"}

(* The SAFETY comment of write (slabs_ring.rs:247): when the writer copies   *)
(* bytes, the slab is Filling and no consumer can be reading it.             *)
NoDataRace ==
  (pc = "write" /\ offset < SlabSize) =>
    state[slab_idx] = "Filling" /\ ~Leased(slab_idx)

(* No slab has two owners: a Ready slab has exactly one lease (or the writer *)
(* is about to send it), a Filling slab is the writer's.                     *)
OneOwner ==
  /\ \A i \in Slabs :
       /\ state[i] = "Ready" <=> (Leased(i) \/ (pc = "send" /\ i = slab_idx))
       /\ state[i] = "Filling" => i = slab_idx
  /\ \A p, q \in LiveParts : leases[p].slab = leases[q].slab => p = q
  /\ pc = "send" => ~Leased(slab_idx)

(* Neither unreachable! is reached: the swap that claims a slab finds it     *)
(* Free (slabs_ring.rs:365-371), although the check and the swap are two     *)
(* operations, and the swap of a lease's Drop finds it Ready (169-171).      *)
NoPanic == ~panicked

(* Slabs change hands one owner at a time: none leaks (a slab Ready without  *)
(* a lease would never become Free again), and no swap is surprised.         *)
SlabsOwned == OneOwner /\ NoPanic

(* The ring implements the chunked stream: consecutive chunks of exactly     *)
(* SlabSize bytes except the last, none lost, duplicated or reordered, and   *)
(* into_vec returns exactly the bytes of its chunk however late it runs.     *)
ChunksOf(ls) == [k \in 1 .. Len(ls) |-> [from |-> ls[k].from, len |-> ls[k].len]]

Stream == INSTANCE ChunkedStream
            WITH ChunkSize <- SlabSize, parts <- out, ended <- flushed,
                 chunks <- ChunksOf(leases)

ImplementsStream == Stream!Spec

(* The writer that waits for a free slab gets one: write always returns.     *)
WriteReturns == pc = "write" ~> pc = "idle"

(* After flush the consumer gets every byte written, the trailing partial    *)
(* slab included.                                                            *)
AllDelivered ==
  flushed ~> /\ DOMAIN out = 1 .. Len(leases)
             /\ Stream!Covered = written

(* Once the writer is gone recv returns None, so the upload loop ends.       *)
ReaderCloses == pc = "dropped" ~> reader = "closed"

(* Nobody waits for ever on the ring, and nothing stays in it.               *)
Delivery == WriteReturns /\ AllDelivered /\ ReaderCloses
=============================================================================
