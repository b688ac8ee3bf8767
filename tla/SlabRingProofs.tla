--------------------------- MODULE SlabRingProofs ---------------------------
(***************************************************************************)
(* Proofs about the slab ring, for every number of slabs, slab size and    *)
(* stream length: the writer never touches bytes a consumer may read,      *)
(* neither unreachable! of the code is reached, and the ring implements    *)
(* the chunked stream.                                                     *)
(***************************************************************************)
EXTENDS SlabRing, SequenceTheorems, TLAPS

-----------------------------------------------------------------------------
(* The inductive invariant *)

(* The slab the writer is in is its own: not sealed yet, or sealed and its   *)
(* lease not sent yet.                                                       *)
Unsealed == pc \in {"idle", "write", "dropped"} /\ ~flushed

(* Where the writer is decides the state of its slab, and a slab that was    *)
(* seen Free stays Free until the writer's swap: only the writer claims.     *)
Control ==
  /\ flushed => pc \in {"idle", "send", "dropped"}
  /\ Unsealed => state[slab_idx] = "Filling"
  /\ pc = "send" => offset > 0
  /\ pc \in {"send", "scan", "claim"} => state[slab_idx] # "Filling"
  /\ pc = "claim" => state[next_idx] = "Free"
  /\ pc \in {"send", "scan", "claim"} /\ ~flushed => offset = SlabSize
  /\ written + todo <= MaxBytes
  /\ ~panicked

(* The bytes of the slab being filled, of every lease alive and of every     *)
(* part copied out are the bytes of the stream at their place.               *)
Contents ==
  /\ Unsealed \/ pc = "send" =>
       \A o \in 0 .. offset - 1 : buf[slab_idx][o] = (written - offset) + 1 + o
  /\ \A p \in LiveParts : \A o \in 0 .. leases[p].len - 1 :
       buf[leases[p].slab][o] = leases[p].from + 1 + o
  /\ \A p \in DOMAIN out :
       out[p] = [j \in 1 .. leases[p].len |-> leases[p].from + j]

(* The bytes in leases and the bytes in the slab being filled are all the    *)
(* bytes written.                                                            *)
LeasedBytes ==
  IF leases = <<>> THEN 0
  ELSE leases[Len(leases)].from + leases[Len(leases)].len

Coverage ==
  /\ offset <= written
  /\ LeasedBytes = IF Unsealed \/ pc = "send" THEN written - offset ELSE written

Inv == TypeOK /\ Control /\ OneOwner /\ Contents /\ Coverage
-----------------------------------------------------------------------------
(* A lease that is alive was sent and refers to a slab of the ring. *)
LEMMA LiveLease ==
  ASSUME TypeOK, NEW p \in LiveParts
  PROVE  /\ p \in 1 .. Len(leases)
         /\ leases[p] \in Lease
         /\ leases[p].slab \in Slabs
         /\ leases[p].len \in 1 .. SlabSize
         /\ leases[p].from \in 0 .. MaxBytes
<1>1. p \in 1 .. Len(leases)
  BY DEF TypeOK, LiveParts
<1>2. leases[p] \in Lease
  BY <1>1 DEF TypeOK
<1> QED
  BY <1>1, <1>2 DEF Lease

(* create hands out a ring that satisfies the invariant. *)
LEMMA InitInv == Init => Inv
<1> SUFFICES ASSUME Init PROVE Inv
  OBVIOUS
<1> USE SlabAssumption DEF Init, Slabs
<1>1. TypeOK
  <2>1. leases \in Seq(Lease) /\ Len(leases) = 0
    OBVIOUS
  <2>2. state \in [Slabs -> SlabState] /\ buf \in [Slabs -> [0 .. SlabSize - 1 -> Nat]]
    BY DEF SlabState
  <2>3. DOMAIN out = {}
    OBVIOUS
  <2>4. recvd \in 0 .. Len(leases) /\ held \subseteq 1 .. recvd /\ DOMAIN out \subseteq 1 .. recvd
    BY <2>1, <2>3
  <2>5. slab_idx \in Slabs /\ next_idx \in Slabs /\ offset \in 0 .. SlabSize
    OBVIOUS
  <2>6. written \in 0 .. MaxBytes /\ todo \in 0 .. MaxBytes
    OBVIOUS
  <2> HIDE DEF Slabs
  <2> QED
    BY <2>1, <2>2, <2>4, <2>5, <2>6 DEF TypeOK
<1>2. LiveParts = {}
  BY DEF LiveParts
<1>3. Control /\ OneOwner /\ Contents /\ Coverage
  BY <1>2 DEF Control, OneOwner, Contents, Coverage, Unsealed, Leased, LeasedBytes
<1> QED
  BY <1>1, <1>3 DEF Inv

(* The writer's steps that neither seal nor claim a slab. *)
LEMMA WriteInv == ASSUME NEW n \in 1 .. MaxBytes, Inv, Write(n) PROVE Inv'
<1> USE SlabAssumption DEF Inv, Write, readerVars
<1>1. TypeOK'
  BY DEF TypeOK
<1>2. LiveParts' = LiveParts /\ LeasedBytes' = LeasedBytes
  BY DEF LiveParts, LeasedBytes
<1>3. Control' /\ OneOwner' /\ Contents' /\ Coverage'
  BY <1>2 DEF Control, OneOwner, Contents, Coverage, Unsealed, Leased
<1> QED
  BY <1>1, <1>3

(* A copy of write extends the unsealed slab by the next bytes of the stream. *)
LEMMA CopyInInv == ASSUME Inv, CopyIn PROVE Inv'
<1> USE SlabAssumption DEF Inv
<1> DEFINE n == CopySize
           b(o) == IF o \in offset .. offset + n - 1
                   THEN written + 1 + (o - offset) ELSE buf[slab_idx][o]
<1>1. n \in Nat /\ n <= todo /\ offset + n <= SlabSize
  BY DEF TypeOK, CopySize
<1>2. /\ offset' = offset + n /\ written' = written + n /\ todo' = todo - n
      /\ buf' = [buf EXCEPT ![slab_idx] = [o \in 0 .. SlabSize - 1 |-> b(o)]]
      /\ pc = "write" /\ pc' \in {"idle", "write"}
      /\ UNCHANGED <<state, slab_idx, next_idx, flushed, leases, recvd, held,
                     out, reader, panicked>>
  BY DEF CopyIn, readerVars
<1>3. [o \in 0 .. SlabSize - 1 |-> b(o)] \in [0 .. SlabSize - 1 -> Nat]
  <2> SUFFICES ASSUME NEW o \in 0 .. SlabSize - 1 PROVE b(o) \in Nat
    OBVIOUS
  <2> QED
    BY <1>1 DEF TypeOK
<1> HIDE DEF n
<1>4. TypeOK'
  <2>1. buf' \in [Slabs -> [0 .. SlabSize - 1 -> Nat]]
    BY <1>2, <1>3 DEF TypeOK
  <2> QED
    BY <1>1, <1>2, <2>1 DEF TypeOK, Control
<1>5. LiveParts' = LiveParts /\ LeasedBytes' = LeasedBytes
  BY <1>2 DEF LiveParts, LeasedBytes
<1>6. Control' /\ OneOwner' /\ Coverage'
  BY <1>1, <1>2, <1>5 DEF TypeOK, Control, OneOwner, Coverage, Unsealed, Leased
<1>7. Contents'
  <2>1. Unsealed /\ ~Leased(slab_idx)
    BY <1>2 DEF TypeOK, Control, OneOwner, Unsealed
  <2>2. ASSUME NEW o \in 0 .. offset + n - 1
        PROVE  buf'[slab_idx][o] = (written - offset) + 1 + o
    <3>1. o \in 0 .. SlabSize - 1 /\ buf'[slab_idx][o] = b(o)
      BY <1>1, <1>2 DEF TypeOK
    <3>2. o \in 0 .. offset - 1 => buf[slab_idx][o] = (written - offset) + 1 + o
      BY <2>1 DEF Contents
    <3>3. offset \in Nat /\ written \in Nat
      BY DEF TypeOK
    <3>4. CASE o \in offset .. offset + n - 1
      <4>1. b(o) = written + 1 + (o - offset)
        BY <3>4
      <4> HIDE DEF b
      <4> QED
        BY <3>1, <3>3, <4>1
    <3>5. CASE o \notin offset .. offset + n - 1
      <4>1. b(o) = buf[slab_idx][o]
        BY <3>5
      <4>2. o \in 0 .. offset - 1
        BY <1>1, <3>3, <3>5
      <4> HIDE DEF b
      <4> QED
        BY <3>1, <3>2, <4>1, <4>2
    <3> QED
      BY <3>4, <3>5
  <2>3. ASSUME NEW p \in LiveParts PROVE buf'[leases[p].slab] = buf[leases[p].slab]
    BY <1>2, <2>1, LiveLease DEF TypeOK, Leased
  <2>4. written' - offset' = written - offset
    BY <1>1, <1>2 DEF TypeOK
  <2>5. \A o \in 0 .. offset' - 1 : buf'[slab_idx'][o] = (written' - offset') + 1 + o
    <3> TAKE o \in 0 .. offset' - 1
    <3>1. o \in 0 .. offset + n - 1 /\ slab_idx' = slab_idx
      BY <1>1, <1>2 DEF TypeOK
    <3> QED
      BY <2>2, <2>4, <3>1
  <2>6. \A p \in LiveParts' : \A o \in 0 .. leases'[p].len - 1 :
          buf'[leases'[p].slab][o] = leases'[p].from + 1 + o
    BY <1>2, <1>5, <2>3 DEF Contents
  <2>7. \A p \in DOMAIN out' :
          out'[p] = [j \in 1 .. leases'[p].len |-> leases'[p].from + j]
    BY <1>2 DEF Contents
  <2> QED
    BY <2>5, <2>6, <2>7 DEF Contents
<1> QED
  BY <1>4, <1>6, <1>7

(* The scan of find_and_claim_free_slab only moves its position. *)
LEMMA ScanInv == ASSUME Inv, Scan PROVE Inv'
<1> USE SlabAssumption DEF Inv, Scan, readerVars
<1>1. TypeOK'
  <2>1. next_idx' \in Slabs
    BY DEF TypeOK, NextSlab, Slabs
  <2> QED
    BY <2>1 DEF TypeOK
<1>2. LiveParts' = LiveParts /\ LeasedBytes' = LeasedBytes
  BY DEF LiveParts, LeasedBytes
<1>3. Control' /\ OneOwner' /\ Contents' /\ Coverage'
  BY <1>2 DEF Control, OneOwner, Contents, Coverage, Unsealed, Leased, Claimable
<1> QED
  BY <1>1, <1>3

(* Dropping the writer after flush or without it leaves the slabs as they are. *)
LEMMA DropWriterInv == ASSUME Inv, DropWriter PROVE Inv'
<1> USE SlabAssumption DEF Inv, DropWriter, readerVars
<1>1. TypeOK'
  BY DEF TypeOK
<1>2. LiveParts' = LiveParts /\ LeasedBytes' = LeasedBytes
  BY DEF LiveParts, LeasedBytes
<1>3. Control' /\ OneOwner' /\ Contents' /\ Coverage'
  BY <1>2 DEF Control, OneOwner, Contents, Coverage, Unsealed, Leased
<1> QED
  BY <1>1, <1>3

(* Sealing: the slab becomes Ready while its lease is not in the channel yet. *)
LEMMA SealFullInv == ASSUME Inv, SealFull PROVE Inv'
<1> USE SlabAssumption DEF Inv
<1>1. /\ pc = "write" /\ offset = SlabSize
      /\ ~flushed /\ state[slab_idx] = "Filling"
      /\ state' = [state EXCEPT ![slab_idx] = "Ready"]
      /\ pc' = "send" /\ next_idx' = slab_idx
      /\ UNCHANGED <<buf, slab_idx, offset, todo, flushed, written, leases,
                     recvd, held, out, reader, panicked>>
  BY DEF SealFull, SwapReady, readerVars, Control, Unsealed
<1>2. TypeOK'
  BY <1>1 DEF TypeOK, SlabState
<1>3. LiveParts' = LiveParts /\ LeasedBytes' = LeasedBytes
  BY <1>1 DEF LiveParts, LeasedBytes
<1>4. Control' /\ OneOwner'
  BY <1>1, <1>3 DEF TypeOK, Control, OneOwner, Unsealed, Leased
<1>5. Contents' /\ Coverage'
  BY <1>1, <1>3 DEF Contents, Coverage, Unsealed
<1> QED
  BY <1>2, <1>4, <1>5

(* flush seals a partial slab, or does nothing when nothing is in it. *)
LEMMA FlushInv == ASSUME Inv, Flush PROVE Inv'
<1> USE SlabAssumption DEF Inv
<1>1. /\ pc = "idle" /\ ~flushed /\ state[slab_idx] = "Filling" /\ flushed'
      /\ UNCHANGED <<buf, slab_idx, offset, next_idx, todo, written, leases,
                     recvd, held, out, reader, panicked>>
  BY DEF Flush, readerVars, Control, Unsealed
<1>2. LiveParts' = LiveParts /\ LeasedBytes' = LeasedBytes
  BY <1>1 DEF LiveParts, LeasedBytes
<1>3. CASE offset = 0
  <2>1. UNCHANGED <<state, pc>>
    BY <1>3 DEF Flush
  <2>2. TypeOK'
    BY <1>1, <2>1 DEF TypeOK
  <2>3. Control' /\ OneOwner'
    BY <1>1, <1>2, <2>1 DEF TypeOK, Control, OneOwner, Unsealed, Leased
  <2>4. Contents' /\ Coverage'
    BY <1>1, <1>2, <1>3, <2>1 DEF TypeOK, Contents, Coverage, Unsealed
  <2> QED
    BY <2>2, <2>3, <2>4
<1>4. CASE offset # 0
  <2>1. state' = [state EXCEPT ![slab_idx] = "Ready"] /\ pc' = "send"
    BY <1>1, <1>4 DEF Flush, SwapReady
  <2>2. TypeOK'
    BY <1>1, <2>1 DEF TypeOK, SlabState
  <2>3. Control' /\ OneOwner'
    BY <1>1, <1>2, <1>4, <2>1 DEF TypeOK, Control, OneOwner, Unsealed, Leased
  <2>4. Contents' /\ Coverage'
    BY <1>1, <1>2, <2>1 DEF Contents, Coverage, Unsealed
  <2> QED
    BY <2>2, <2>3, <2>4
<1> QED
  BY <1>3, <1>4

(* The swap of a claim finds the slab Free: between the load and the swap    *)
(* only the writer could have changed it.                                    *)
LEMMA ClaimInv == ASSUME Inv, Claim PROVE Inv'
<1> USE SlabAssumption DEF Inv
<1>1. /\ pc = "claim" /\ ~flushed /\ state[next_idx] = "Free"
      /\ state' = [state EXCEPT ![next_idx] = "Filling"]
      /\ ~panicked' /\ slab_idx' = next_idx /\ offset' = 0 /\ pc' = "write"
      /\ UNCHANGED <<buf, next_idx, todo, flushed, written, leases,
                     recvd, held, out, reader>>
  BY DEF Claim, readerVars, Control
<1>2. TypeOK'
  <2>1. panicked' \in BOOLEAN
    BY DEF Claim
  <2> QED
    BY <1>1, <2>1 DEF TypeOK, SlabState
<1>3. LiveParts' = LiveParts /\ LeasedBytes' = LeasedBytes
  BY <1>1 DEF LiveParts, LeasedBytes
<1>4. Control'
  <2>1. state'[slab_idx'] = "Filling"
    BY <1>1 DEF TypeOK
  <2>2. written' + todo' <= MaxBytes
    BY <1>1 DEF Control
  <2> QED
    BY <1>1, <2>1, <2>2 DEF Control, Unsealed
<1>5. OneOwner'
  <2>1. slab_idx \in Slabs /\ next_idx \in Slabs /\ state[slab_idx] # "Filling"
    BY <1>1 DEF TypeOK, Control
  <2>2. \A i \in Slabs : Leased(i)' = Leased(i)
    BY <1>1, <1>3 DEF Leased
  <2>3. \A i \in Slabs : state[i] = "Ready" <=> Leased(i)
    BY <1>1 DEF OneOwner
  <2>4. \A i \in Slabs : state'[i] = IF i = next_idx THEN "Filling" ELSE state[i]
    BY <1>1 DEF TypeOK
  <2>5. \A i \in Slabs : state[i] # "Filling"
    BY <2>1 DEF OneOwner
  <2> QED
    BY <1>1, <1>3, <2>1, <2>2, <2>3, <2>4, <2>5 DEF OneOwner
<1>6. Contents' /\ Coverage'
  BY <1>1, <1>3 DEF TypeOK, Contents, Coverage, Unsealed
<1> QED
  BY <1>2, <1>4, <1>5, <1>6

(* Appending a lease keeps the earlier ones at their places. *)
LEMMA AppendLease ==
  ASSUME NEW ls \in Seq(Lease), NEW l \in Lease
  PROVE  /\ Append(ls, l) \in Seq(Lease)
         /\ Len(Append(ls, l)) = Len(ls) + 1
         /\ \A p \in 1 .. Len(ls) : Append(ls, l)[p] = ls[p]
         /\ Append(ls, l)[Len(ls) + 1] = l
  OBVIOUS

(* seal sends the lease of the slab it has made Ready: its only one. *)
LEMMA SendLeaseInv == ASSUME Inv, SendLease PROVE Inv'
<1> USE SlabAssumption DEF Inv
<1> DEFINE l == [slab |-> slab_idx, len |-> offset, from |-> written - offset]
           k == Len(leases) + 1
<1>1. /\ pc = "send" /\ leases' = Append(leases, l)
      /\ pc' = IF flushed THEN "idle" ELSE "scan"
      /\ UNCHANGED <<state, buf, slab_idx, offset, next_idx, todo, flushed,
                     written, recvd, held, out, reader, panicked>>
  BY DEF SendLease, readerVars
<1>2. l \in Lease /\ leases \in Seq(Lease) /\ Len(leases) \in Nat
  BY <1>1 DEF TypeOK, Control, Coverage, Lease
<1>3. /\ leases' \in Seq(Lease) /\ Len(leases') = k
      /\ \A p \in 1 .. Len(leases) : leases'[p] = leases[p]
      /\ leases'[k] = l
  BY <1>1, <1>2, AppendLease
<1>4. l.slab = slab_idx /\ l.len = offset /\ l.from = written - offset
  OBVIOUS
<1> HIDE DEF l
<1>5. TypeOK'
  <2>1. recvd' \in 0 .. Len(leases')
    BY <1>1, <1>2, <1>3 DEF TypeOK
  <2> QED
    BY <1>1, <1>3, <2>1 DEF TypeOK
<1>6. LiveParts' = LiveParts \cup {k} /\ k \notin LiveParts
  BY <1>1, <1>2, <1>3 DEF TypeOK, LiveParts
<1>7. \A p \in LiveParts : leases'[p] = leases[p]
  BY <1>3, LiveLease
<1>8. Control'
  BY <1>1 DEF TypeOK, Control, Unsealed
<1>9. OneOwner'
  <2>1. \A i \in Slabs : Leased(i)' <=> (Leased(i) \/ i = slab_idx)
    BY <1>3, <1>4, <1>6, <1>7 DEF Leased
  <2>2. ~Leased(slab_idx) /\ slab_idx \in Slabs
    BY <1>1 DEF TypeOK, OneOwner
  <2>3. \A i \in Slabs : /\ state'[i] = "Ready" <=> Leased(i)'
                         /\ state'[i] = "Filling" => i = slab_idx'
    BY <1>1, <2>1 DEF OneOwner
  <2>4. \A p, q \in LiveParts' : leases'[p].slab = leases'[q].slab => p = q
    BY <1>3, <1>4, <1>6, <1>7, <2>2 DEF OneOwner, Leased
  <2> QED
    BY <1>1, <2>3, <2>4 DEF OneOwner
<1>10. Contents'
  <2>1. ~(Unsealed \/ pc = "send")'
    BY <1>1 DEF Unsealed
  <2>2. \A p \in LiveParts' : \A o \in 0 .. leases'[p].len - 1 :
          buf'[leases'[p].slab][o] = leases'[p].from + 1 + o
    <3> TAKE p \in LiveParts'
    <3>1. CASE p = k
      BY <1>1, <1>3, <1>4, <3>1 DEF Contents
    <3>2. CASE p \in LiveParts
      <4>1. leases'[p] = leases[p] /\ buf' = buf
        BY <1>1, <1>7, <3>2
      <4> QED
        BY <3>2, <4>1 DEF Contents
    <3> QED
      BY <1>6, <3>1, <3>2
  <2>3. \A p \in DOMAIN out' :
          out'[p] = [j \in 1 .. leases'[p].len |-> leases'[p].from + j]
    <3> TAKE p \in DOMAIN out'
    <3>1. leases'[p] = leases[p] /\ out' = out
      BY <1>1, <1>2, <1>3 DEF TypeOK
    <3> QED
      BY <3>1 DEF Contents
  <2> QED
    BY <2>1, <2>2, <2>3 DEF Contents
<1>11. Coverage'
  <2>1. ~(Unsealed \/ pc = "send")'
    BY <1>1 DEF Unsealed
  <2>2. LeasedBytes' = (written - offset) + offset
    BY <1>2, <1>3, <1>4 DEF LeasedBytes
  <2> QED
    BY <1>1, <2>1, <2>2 DEF TypeOK, Coverage
<1> QED
  BY <1>5, <1>8, <1>9, <1>10, <1>11

-----------------------------------------------------------------------------
(* The consumer's steps *)

(* recv takes the lease at the head of the channel; it stays alive. *)
LEMMA RecvInv == ASSUME Inv, Recv PROVE Inv'
<1> USE SlabAssumption DEF Inv
<1>1. /\ recvd < Len(leases) /\ recvd' = recvd + 1 /\ held' = held \cup {recvd + 1}
      /\ UNCHANGED <<state, buf, pc, slab_idx, offset, next_idx, todo, flushed,
                     written, leases, out, reader, panicked>>
  BY DEF Recv, writerVars
<1>2. TypeOK'
  <2>1. recvd' \in 0 .. Len(leases') /\ held' \subseteq 1 .. recvd' /\ DOMAIN out' \subseteq 1 .. recvd'
    BY <1>1 DEF TypeOK
  <2> QED
    BY <1>1, <2>1 DEF TypeOK
<1>3. LiveParts' = LiveParts /\ LeasedBytes' = LeasedBytes
  BY <1>1 DEF TypeOK, LiveParts, LeasedBytes
<1>4. Control' /\ OneOwner' /\ Contents' /\ Coverage'
  BY <1>1, <1>3 DEF Control, OneOwner, Contents, Coverage, Unsealed, Leased
<1> QED
  BY <1>2, <1>4

(* recv returns None and touches no slab. *)
LEMMA RecvNoneInv == ASSUME Inv, RecvNone PROVE Inv'
<1> USE SlabAssumption DEF Inv
<1>1. /\ reader' = "closed"
      /\ UNCHANGED <<state, buf, pc, slab_idx, offset, next_idx, todo, flushed,
                     written, leases, recvd, held, out, panicked>>
  BY DEF RecvNone, writerVars
<1>2. TypeOK'
  BY <1>1 DEF TypeOK
<1>3. LiveParts' = LiveParts /\ LeasedBytes' = LeasedBytes
  BY <1>1 DEF LiveParts, LeasedBytes
<1>4. Control' /\ OneOwner' /\ Contents' /\ Coverage'
  BY <1>1, <1>3 DEF Control, OneOwner, Contents, Coverage, Unsealed, Leased
<1> QED
  BY <1>2, <1>4

(* What into_vec copies is what the stream holds at the lease's place. *)
LEMMA CopiedBytes ==
  ASSUME Inv, NEW p \in LiveParts
  PROVE  [j \in 1 .. leases[p].len |-> buf[leases[p].slab][j - 1]]
           = [j \in 1 .. leases[p].len |-> leases[p].from + j]
<1> SUFFICES ASSUME NEW j \in 1 .. leases[p].len
             PROVE  buf[leases[p].slab][j - 1] = leases[p].from + j
  OBVIOUS
<1>1. leases[p].from \in Int /\ leases[p].len \in Int
  BY LiveLease, SlabAssumption DEF Inv
<1>2. buf[leases[p].slab][j - 1] = leases[p].from + 1 + (j - 1)
  BY <1>1 DEF Inv, Contents
<1> QED
  BY <1>1, <1>2

(* into_vec copies bytes that are still the ones that were sealed. *)
LEMMA IntoVecInv == ASSUME Inv, NEW p \in held, IntoVec(p) PROVE Inv'
<1> USE SlabAssumption DEF Inv
<1>1. /\ p \in LiveParts /\ p \in 1 .. recvd
      /\ UNCHANGED <<state, buf, pc, slab_idx, offset, next_idx, todo, flushed,
                     written, leases, recvd, held, reader, panicked>>
  BY DEF IntoVec, writerVars, LiveParts, TypeOK
<1>2. out' = [q \in DOMAIN out \cup {p} |->
                IF q = p
                THEN [j \in 1 .. leases[p].len |-> buf[leases[p].slab][j - 1]]
                ELSE out[q]]
  BY DEF IntoVec
<1>3. TypeOK'
  <2>1. DOMAIN out' = DOMAIN out \cup {p}
    BY <1>2
  <2> QED
    BY <1>1, <2>1 DEF TypeOK
<1>4. LiveParts' = LiveParts /\ LeasedBytes' = LeasedBytes
  BY <1>1 DEF LiveParts, LeasedBytes
<1>5. Control' /\ OneOwner' /\ Coverage'
  BY <1>1, <1>4 DEF Control, OneOwner, Coverage, Unsealed, Leased
<1>6. \A q \in DOMAIN out' :
        out'[q] = [j \in 1 .. leases[q].len |-> leases[q].from + j]
  <2> TAKE q \in DOMAIN out'
  <2>1. CASE q = p
    BY <1>1, <1>2, <2>1, CopiedBytes
  <2>2. CASE q # p
    BY <1>2, <2>2 DEF Contents
  <2> QED
    BY <2>1, <2>2
<1>7. Contents'
  BY <1>1, <1>4, <1>6 DEF Contents, Unsealed
<1> QED
  BY <1>3, <1>5, <1>7

(* Dropping a lease frees a Ready slab that nobody else owns. *)
LEMMA DropLeaseInv == ASSUME Inv, NEW p \in held, DropLease(p) PROVE Inv'
<1> USE SlabAssumption DEF Inv
<1>1. /\ p \in LiveParts /\ p \in 1 .. recvd
      /\ state' = [state EXCEPT ![leases[p].slab] = "Free"]
      /\ held' = held \ {p}
      /\ UNCHANGED <<buf, pc, slab_idx, offset, next_idx, todo, flushed,
                     written, leases, recvd, out, reader>>
  BY DEF DropLease, MayDrop, Freed, writerVars, LiveParts, TypeOK
<1>2. leases[p].slab \in Slabs /\ state[leases[p].slab] = "Ready" /\ Leased(leases[p].slab)
  BY <1>1, LiveLease DEF OneOwner, Leased
<1>3. panicked' = FALSE
  BY <1>2 DEF DropLease, TypeOK, Control
<1>4. TypeOK'
  BY <1>1, <1>2, <1>3 DEF TypeOK, SlabState
<1>5. LiveParts' = LiveParts \ {p} /\ LeasedBytes' = LeasedBytes
  BY <1>1 DEF TypeOK, LiveParts, LeasedBytes
<1>6. \A i \in Slabs : Leased(i)' <=> Leased(i) /\ i # leases[p].slab
  BY <1>1, <1>5 DEF OneOwner, Leased
<1>7. \A i \in Slabs : state'[i] = IF i = leases[p].slab THEN "Free" ELSE state[i]
  BY <1>1 DEF TypeOK
<1>8. pc = "send" => leases[p].slab # slab_idx
  BY <1>2 DEF OneOwner
<1>9. Control'
  BY <1>1, <1>2, <1>3, <1>7, <1>8 DEF TypeOK, Control, Unsealed
<1>10. OneOwner'
  <2>1. \A i \in Slabs :
          /\ state'[i] = "Ready" <=> (Leased(i)' \/ (pc' = "send" /\ i = slab_idx'))
          /\ state'[i] = "Filling" => i = slab_idx'
    BY <1>1, <1>6, <1>7, <1>8 DEF OneOwner
  <2>2. pc' = "send" => ~Leased(slab_idx)'
    BY <1>1, <1>6 DEF TypeOK, OneOwner
  <2> QED
    BY <1>1, <1>5, <2>1, <2>2 DEF OneOwner, Leased
<1>11. Contents'
  BY <1>1, <1>5 DEF Contents, Unsealed
<1>12. Coverage'
  BY <1>1, <1>5 DEF Coverage, Unsealed
<1> QED
  BY <1>4, <1>9, <1>10, <1>11, <1>12

-----------------------------------------------------------------------------
(* Every reachable state satisfies the invariant. *)
THEOREM Invariance == Spec => []Inv
<1>1. Inv /\ [Next]_vars => Inv'
  <2> SUFFICES ASSUME Inv, [Next]_vars PROVE Inv'
    OBVIOUS
  <2>1. CASE UNCHANGED vars
    <3>1. UNCHANGED <<state, buf, pc, slab_idx, offset, next_idx, todo, flushed,
                      written, leases, recvd, held, out, reader, panicked>>
      BY <2>1 DEF vars, writerVars, readerVars
    <3> QED
      BY <3>1 DEF Inv, TypeOK, Control, OneOwner, Contents, Coverage,
                  Unsealed, Leased, LiveParts, LeasedBytes
  <2>2. CASE WriterStep
    BY <2>2, CopyInInv, SealFullInv, SendLeaseInv, ScanInv, ClaimInv DEF WriterStep
  <2>3. CASE Caller
    BY <2>3, FlushInv, DropWriterInv, WriteInv DEF Caller
  <2>4. CASE Reader
    BY <2>4, RecvInv, RecvNoneInv DEF Reader
  <2>5. CASE \E p \in held : Task(p)
    BY <2>5, IntoVecInv, DropLeaseInv DEF Task
  <2> QED
    BY <2>1, <2>2, <2>3, <2>4, <2>5 DEF Next
<1> QED
  BY <1>1, InitInv, PTL DEF Spec

(* The bytes the writer copies into are its own in every reachable state     *)
(* (the SAFETY comment of write).                                            *)
THEOREM RingNoDataRace == Spec => []NoDataRace
<1>1. Inv => NoDataRace
  BY DEF Inv, TypeOK, Control, OneOwner, Unsealed, NoDataRace
<1> QED
  BY <1>1, Invariance, PTL

(* The variables keep their types: the indices of the raw copy of write stay *)
(* within the slab.                                                          *)
THEOREM RingTypeOK == Spec => []TypeOK
<1>1. Inv => TypeOK
  BY DEF Inv
<1> QED
  BY <1>1, Invariance, PTL

(* Each slab that is not Free has exactly one owner, the writer or a lease,  *)
(* and no unreachable! of advance or of the drop of a lease is reached.      *)
THEOREM RingSlabsOwned == Spec => []SlabsOwned
<1>1. Inv => SlabsOwned
  BY DEF Inv, Control, NoPanic, SlabsOwned
<1> QED
  BY <1>1, Invariance, PTL

-----------------------------------------------------------------------------
(* The ring implements the chunked stream *)

Chunk == [from : Nat, len : Nat]

(* A function on 1 .. n is a sequence of length n. *)
LEMMA FunctionIsSeq ==
  ASSUME NEW S, NEW n \in Nat, NEW f \in [1 .. n -> S]
  PROVE  f \in Seq(S) /\ Len(f) = n
<1>1. f \in Seq(S)
  BY SeqDef
<1>2. Len(f) \in Nat /\ DOMAIN f = 1 .. Len(f)
  BY <1>1, LenProperties
<1>3. 1 .. n = 1 .. Len(f)
  BY <1>2
<1> QED
  BY <1>1, <1>2, <1>3

(* The leases sent, seen as chunks of the abstract stream, are a sequence. *)
LEMMA ChunksSeq ==
  ASSUME NEW ls \in Seq(Lease)
  PROVE  /\ ChunksOf(ls) \in Seq(Chunk) /\ Len(ChunksOf(ls)) = Len(ls)
         /\ Len(ls) \in Nat
         /\ \A k \in 1 .. Len(ls) :
              ChunksOf(ls)[k] = [from |-> ls[k].from, len |-> ls[k].len]
<1>1. Len(ls) \in Nat
  OBVIOUS
<1>2. ASSUME NEW k \in 1 .. Len(ls)
      PROVE  [from |-> ls[k].from, len |-> ls[k].len] \in Chunk
  <2>1. ls[k] \in Lease
    OBVIOUS
  <2> QED
    BY <2>1, SlabAssumption DEF Lease, Chunk
<1>3. ChunksOf(ls) \in [1 .. Len(ls) -> Chunk]
  BY <1>2 DEF ChunksOf
<1>4. ChunksOf(ls) \in Seq(Chunk) /\ Len(ChunksOf(ls)) = Len(ls)
  BY <1>1, <1>3, FunctionIsSeq
<1> QED
  BY <1>1, <1>4 DEF ChunksOf

(* The bytes in chunks are the bytes in leases. *)
LEMMA CoveredBytes == ASSUME Inv PROVE Stream!Covered = LeasedBytes
<1>1. ChunksOf(leases) \in Seq(Chunk) /\ Len(ChunksOf(leases)) = Len(leases) /\ Len(leases) \in Nat
  BY ChunksSeq DEF Inv, TypeOK
<1>2. CASE Len(leases) = 0
  <2>1. leases = <<>> /\ ChunksOf(leases) = <<>>
    BY <1>1, <1>2, EmptySeq DEF Inv, TypeOK
  <2> QED
    BY <2>1 DEF Stream!Covered, LeasedBytes
<1>3. CASE Len(leases) # 0
  <2>1. leases # <<>> /\ ChunksOf(leases) # <<>>
    BY <1>1, <1>3, EmptySeq
  <2>2. ChunksOf(leases)[Len(leases)] = [from |-> leases[Len(leases)].from,
                               len |-> leases[Len(leases)].len]
    BY <1>1, <1>3, ChunksSeq DEF Inv, TypeOK
  <2> QED
    BY <1>1, <2>1, <2>2 DEF Stream!Covered, LeasedBytes
<1> QED
  BY <1>2, <1>3

(* A copy of write is a Write of the abstract stream. *)
LEMMA CopyInRefines ==
  ASSUME Inv, CopyIn
  PROVE  Stream!Write \/ UNCHANGED Stream!streamVars
<1> USE SlabAssumption
<1>1. /\ CopySize \in Nat /\ CopySize <= SlabSize - offset
      /\ written' = written + CopySize /\ ~flushed
      /\ UNCHANGED <<leases, out, flushed>>
  BY DEF Inv, TypeOK, Control, CopyIn, CopySize, readerVars
<1>2. ChunksOf(leases') = ChunksOf(leases)
  BY <1>1 DEF ChunksOf
<1>3. Stream!Covered = written - offset
  BY CoveredBytes DEF Inv, Control, Coverage, Unsealed, CopyIn
<1>4. written \in Int /\ offset \in Int
  BY DEF Inv, TypeOK
<1>5. CASE CopySize = 0
  <2>1. written' = written
    BY <1>1, <1>4, <1>5
  <2> QED
    BY <1>1, <1>2, <2>1 DEF Stream!streamVars
<1>6. CASE CopySize # 0
  <2>1. CopySize \in 1 .. (SlabSize - (written - Stream!Covered))
    BY <1>1, <1>3, <1>4, <1>6
  <2> QED
    BY <1>1, <1>2, <2>1 DEF Stream!Write
<1> QED
  BY <1>5, <1>6

(* Sending a lease is a Cut of the abstract stream. *)
LEMMA SendLeaseRefines == ASSUME Inv, SendLease PROVE Stream!Cut
<1> USE SlabAssumption
<1> DEFINE l == [slab |-> slab_idx, len |-> offset, from |-> written - offset]
           c == [from |-> written - offset, len |-> offset]
<1>1. /\ pc = "send" /\ leases' = Append(leases, l)
      /\ UNCHANGED <<written, out, flushed>>
  BY DEF SendLease, readerVars
<1>2. /\ written \in Nat /\ offset \in 1 .. SlabSize /\ offset <= written
      /\ l \in Lease /\ leases \in Seq(Lease)
  BY <1>1 DEF Inv, TypeOK, Control, Coverage, Lease
<1>3. /\ Len(leases') = Len(leases) + 1
      /\ \A p \in 1 .. Len(leases) : leases'[p] = leases[p]
      /\ leases'[Len(leases) + 1] = l
  BY <1>1, <1>2, AppendLease
<1>4. Stream!Covered = written - offset
  BY <1>1, CoveredBytes DEF Inv, Coverage
<1>5. ChunksOf(leases') = Append(ChunksOf(leases), c)
  <2>1. leases \in Seq(Lease) /\ leases' \in Seq(Lease)
    BY SendLeaseInv DEF Inv, TypeOK
  <2>2. /\ ChunksOf(leases) \in Seq(Chunk) /\ Len(ChunksOf(leases)) = Len(leases) /\ Len(leases) \in Nat
        /\ ChunksOf(leases') \in Seq(Chunk) /\ Len(ChunksOf(leases')) = Len(leases) + 1
    BY <1>3, <2>1, ChunksSeq
  <2>3. c \in Chunk
    BY <1>2 DEF Chunk
  <2>4. Append(ChunksOf(leases), c) \in Seq(Chunk) /\ Len(Append(ChunksOf(leases), c)) = Len(leases) + 1
    BY <2>2, <2>3
  <2>5. ASSUME NEW k \in 1 .. Len(leases) + 1
        PROVE  ChunksOf(leases')[k] = Append(ChunksOf(leases), c)[k]
    <3>1. ChunksOf(leases')[k] = [from |-> leases'[k].from, len |-> leases'[k].len]
      BY <1>3, <2>1, ChunksSeq
    <3>2. CASE k = Len(leases) + 1
      <4>1. Append(ChunksOf(leases), c)[k] = c
        BY <2>2, <3>2
      <4>2. leases'[k] = l
        BY <1>3, <3>2
      <4>3. l.from = written - offset /\ l.len = offset
        OBVIOUS
      <4> HIDE DEF l
      <4> QED
        BY <3>1, <4>1, <4>2, <4>3
    <3>3. CASE k \in 1 .. Len(leases)
      <4>1. Append(ChunksOf(leases), c)[k] = ChunksOf(leases)[k]
        BY <2>2, <3>3
      <4> QED
        BY <1>3, <2>1, <3>1, <3>3, <4>1, ChunksSeq
    <3> QED
      BY <2>2, <3>2, <3>3
  <2> QED
    BY <2>2, <2>4, <2>5, SeqEqual
<1>6. flushed \/ offset = SlabSize
  BY <1>1 DEF Inv, Control
<1>7. /\ written > Stream!Covered /\ written - Stream!Covered = offset
  BY <1>2, <1>4
<1>8. ChunksOf(leases') = Append(ChunksOf(leases), [from |-> Stream!Covered,
                                len |-> written - Stream!Covered])
  BY <1>4, <1>5, <1>7
<1> QED
  BY <1>1, <1>6, <1>7, <1>8 DEF Stream!Cut

(* into_vec is a Deliver of the abstract stream, or a stutter. *)
LEMMA IntoVecRefines == ASSUME Inv, NEW p \in held, IntoVec(p) PROVE Stream!Deliver
<1>1. /\ p \notin DOMAIN out /\ p \in LiveParts
      /\ UNCHANGED <<written, leases, flushed>>
      /\ out' = [q \in DOMAIN out \cup {p} |->
                   IF q = p
                   THEN [j \in 1 .. leases[p].len |-> buf[leases[p].slab][j - 1]]
                   ELSE out[q]]
  BY DEF IntoVec, writerVars, LiveParts
<1>2. p \in 1 .. Len(leases) /\ Len(ChunksOf(leases)) = Len(leases)
  BY <1>1, LiveLease, ChunksSeq DEF Inv, TypeOK
<1>3. ChunksOf(leases)[p] = [from |-> leases[p].from, len |-> leases[p].len] /\ ChunksOf(leases') = ChunksOf(leases)
  BY <1>1, <1>2, ChunksSeq DEF Inv, TypeOK, ChunksOf
<1>4. Stream!Content(ChunksOf(leases)[p]) = [j \in 1 .. leases[p].len |-> buf[leases[p].slab][j - 1]]
  BY <1>1, <1>3, CopiedBytes DEF Stream!Content
<1> QED
  BY <1>1, <1>2, <1>3, <1>4 DEF Stream!Deliver

(* Every behaviour of the ring is a behaviour of the chunked stream. *)
THEOREM RingImplementsStream == Spec => ImplementsStream
<1>1. Init => Stream!Init
  <2> SUFFICES ASSUME Init PROVE Stream!Init
    OBVIOUS
  <2>1. ChunksOf(leases) = <<>>
    BY InitInv, ChunksSeq, EmptySeq DEF Init, Inv, TypeOK
  <2> QED
    BY <2>1 DEF Init, Stream!Init
<1>2. Inv /\ [Next]_vars => [Stream!Next]_(Stream!streamVars)
  <2> SUFFICES ASSUME Inv, [Next]_vars
               PROVE  Stream!Next \/ UNCHANGED Stream!streamVars
    OBVIOUS
  <2>1. ASSUME UNCHANGED <<written, leases, out, flushed>>
        PROVE  UNCHANGED Stream!streamVars
    BY <2>1 DEF Stream!streamVars, ChunksOf
  <2>2. CASE UNCHANGED vars
    BY <2>1, <2>2 DEF vars, writerVars, readerVars
  <2>3. CASE WriterStep
    <3>1. CASE CopyIn
      BY <3>1, CopyInRefines DEF Stream!Next
    <3>2. CASE SendLease
      BY <3>2, SendLeaseRefines DEF Stream!Next
    <3>3. CASE SealFull \/ Scan \/ Claim
      BY <2>1, <3>3 DEF SealFull, Scan, Claim, readerVars
    <3> QED
      BY <2>3, <3>1, <3>2, <3>3 DEF WriterStep
  <2>4. CASE Flush
    <3>1. flushed' = TRUE /\ UNCHANGED <<written, leases, out>>
      BY <2>4 DEF Flush, readerVars
    <3>2. ChunksOf(leases') = ChunksOf(leases)
      BY <3>1 DEF ChunksOf
    <3> QED
      BY <3>1, <3>2 DEF Stream!Next, Stream!End
  <2>5. CASE DropWriter \/ \E n \in 1 .. MaxBytes : Write(n)
    BY <2>1, <2>5 DEF DropWriter, Write, readerVars
  <2>6. CASE Reader
    BY <2>1, <2>6 DEF Reader, Recv, RecvNone, writerVars
  <2>7. ASSUME NEW p \in held, Task(p)
        PROVE  Stream!Next \/ UNCHANGED Stream!streamVars
    <3>1. CASE IntoVec(p)
      BY <3>1, IntoVecRefines DEF Stream!Next
    <3>2. CASE DropLease(p)
      BY <2>1, <3>2 DEF DropLease, writerVars
    <3> QED
      BY <2>7, <3>1, <3>2 DEF Task
  <2> QED
    BY <2>2, <2>3, <2>4, <2>5, <2>6, <2>7 DEF Next, Caller
<1> QED
  BY <1>1, <1>2, Invariance, PTL DEF Spec, ImplementsStream, Stream!Spec
=============================================================================
