---------------------------- MODULE ControlProofs ----------------------------
(***************************************************************************)
(* Proofs about three components that stand on their own: what the         *)
(* benchmark reports, for any contenders and any number of runs; the       *)
(* reader its control Lambda goes through, for every size of object and of *)
(* windows; and the rate governor of figment-engine-chain.                 *)
(*                                                                         *)
(* The reader: the windows in flight form a queue (windows, then the one   *)
(* being fetched, then the requests) to which Ask appends and from which   *)
(* Receive takes. That it never holds three is not inductive: one must     *)
(* know that two are in flight only while the caller is blocked, for a     *)
(* window behind one that misses the position (OldestMisses), and that a   *)
(* caller with a current window has already asked for the next             *)
(* (NextAsked). The set is probed through two neighbours only; with one    *)
(* range in it they are it.                                                *)
(*                                                                         *)
(* The rate governor, for every number of callers and every choice of its  *)
(* rates, windows and burst. The count of waiting High callers is exact    *)
(* only because a High caller never awaits the notification that Low       *)
(* callers await. The bound on calls needs the credit the governor could   *)
(* still spend now: its tokens and what it would refill, under the cap on  *)
(* the bucket. The glide of the rate needs that the steps taken were a     *)
(* window apart, the last one as long ago as its age says.                 *)
(***************************************************************************)
EXTENDS WindowReader, Benchmark, RateLimit, FiniteSetTheorems, SequenceTheorems, TLAPS
-----------------------------------------------------------------------------
(* The reader *)

OldestMisses == Len(InFlight) = 2 /\ pc = "blocked" => ~Holds(InFlight[1], position)

NextAsked ==
  Len(InFlight) = 1 /\ pc \in {"idle", "loop"} /\ current # NoWindow =>
    Covers(current, NextRange) \/ Covers(InFlight[1], NextRange)

Counted ==
  /\ incoming = ToSet(InFlight)
  /\ Len(InFlight) = 2 => InFlight[1] # InFlight[2]

Inv ==
  /\ TypeOK
  /\ Len(InFlight) \in 0 .. 2
  /\ Len(InFlight) = 2 => pc \in {"blocked", "panicked"}
  /\ fetching # Dead => Counted /\ OldestMisses /\ NextAsked
-----------------------------------------------------------------------------
(* Arithmetic of ranges *)

LEMMA MinMax ==
  \A a, b \in Int : /\ Min({a, b}) = IF a <= b THEN a ELSE b
                    /\ Max({a, b}) = IF a >= b THEN a ELSE b
<1> SUFFICES ASSUME NEW a \in Int, NEW b \in Int
             PROVE  /\ Min({a, b}) = IF a <= b THEN a ELSE b
                    /\ Max({a, b}) = IF a >= b THEN a ELSE b
  OBVIOUS
<1>1. \E x \in {a, b} : \A y \in {a, b} : x <= y
  OBVIOUS
<1>2. \E x \in {a, b} : \A y \in {a, b} : x >= y
  OBVIOUS
<1>3. Min({a, b}) \in {a, b} /\ \A y \in {a, b} : Min({a, b}) <= y
  BY <1>1 DEF Min
<1>4. Max({a, b}) \in {a, b} /\ \A y \in {a, b} : Max({a, b}) >= y
  BY <1>2 DEF Max
<1> QED
  BY <1>3, <1>4

LEMMA Bounds ==
  /\ Size \in Int /\ MinWindow \in Int /\ MaxWindow \in Int
  /\ Max({Size, MinWindow}) = IF Size >= MinWindow THEN Size ELSE MinWindow
<1>1. Size \in Int /\ MinWindow \in Int /\ MaxWindow \in Int
  BY ReaderAssumption
<1> QED
  BY ONLY <1>1, MinMax, Zenon

LEMMA MonusIs == \A a, b \in Int : Monus(a, b) = IF a >= b THEN a - b ELSE 0
<1> SUFFICES ASSUME NEW a \in Int, NEW b \in Int
             PROVE  Monus(a, b) = IF a >= b THEN a - b ELSE 0
  OBVIOUS
<1>1. a - b \in Int /\ 0 \in Int
  OBVIOUS
<1>2. Max({a - b, 0}) = IF a - b >= 0 THEN a - b ELSE 0
  BY ONLY <1>1, MinMax, Zenon
<1> QED
  BY <1>2 DEF Monus

(* What Clamped returns is a range, wherever it starts. *)
LEMMA ClampedRange ==
  ASSUME NEW o \in Nat, NEW s \in Nat \ {0}
  PROVE  Clamped(o, s) \in Ranges
<1>1. /\ Monus(Size, o) = IF Size >= o THEN Size - o ELSE 0
      /\ Monus(Size, MinWindow) = IF Size >= MinWindow THEN Size - MinWindow ELSE 0
  BY MonusIs, ReaderAssumption
<1> QED
  BY <1>1, Bounds, ReaderAssumption DEF Clamped, Ranges

LEMMA PositionRangeIsRange == ASSUME position \in 0 .. Size PROVE PositionRange \in Ranges
  BY ClampedRange, ReaderAssumption DEF PositionRange

LEMMA NextRangeIsRange == ASSUME current \in Ranges PROVE NextRange \in Ranges
<1> DEFINE double == 2 * (current[2] - current[1])
<1>1. current[2] \in Nat /\ double \in Nat \ {0}
  BY Bounds, ReaderAssumption DEF Ranges
<1>2. MaxWindow \in Nat \ {0}
  BY ReaderAssumption
<1>3. Min({MaxWindow, double}) \in Nat \ {0}
  <2>1. MaxWindow \in Int /\ double \in Int
    BY <1>1, <1>2
  <2>2. Min({MaxWindow, double}) = IF MaxWindow <= double THEN MaxWindow ELSE double
    BY ONLY <2>1, MinMax, Zenon
  <2> QED
    BY <2>2, <1>1, <1>2
<1> QED
  BY <1>1, <1>3, ClampedRange DEF NextRange

LEMMA RangeFacts ==
  ASSUME NEW r \in Ranges
  PROVE  Covers(r, r) /\ r # NoWindow /\ r # Dead
BY Bounds DEF Ranges, Covers, NoWindow, Dead

(* The bytes that a hit returns stay within the object. *)
LEMMA HitStays ==
  ASSUME current \in Ranges, position \in 0 .. Size, Holds(current, position),
         NEW n \in Min({1, current[1] + Held(current) - position})
                     .. current[1] + Held(current) - position
  PROVE  position + n \in 0 .. Size
<1> DEFINE there == current[1] + Held(current) - position
<1>1. current[1] \in Int /\ current[2] \in Int /\ position < current[2] /\ position \in Int
  BY Bounds DEF Ranges, Holds
<1>2. Min({current[2], Size}) = IF current[2] <= Size THEN current[2] ELSE Size
  BY ONLY <1>1, Bounds, MinMax, Zenon
<1>3. there \in Nat /\ position + there <= Size
  BY <1>1, <1>2, Bounds DEF Held
<1>4. Min({1, there}) = IF 1 <= there THEN 1 ELSE there
  <2>1. 1 \in Int /\ there \in Int
    BY <1>3
  <2> QED
    BY ONLY <2>1, MinMax, Zenon
<1> HIDE DEF there
<1>5. n \in Min({1, there}) .. there
  BY DEF there
<1> QED
  BY <1>3, <1>4, <1>5, Bounds

(* With at most one range in the set, the neighbours are it. *)
LEMMA OneNeighbour ==
  ASSUME NEW x \in Ranges, NEW r
  PROVE  Neighbours({}, r) = {} /\ Neighbours({x}, r) = {x}
<1>1. ~Below(x, x)
  BY Bounds DEF Below, Ranges
<1> QED
  BY <1>1 DEF Neighbours
-----------------------------------------------------------------------------
(* The queue of the windows in flight *)

(* Its lengths. *)
LEMMA Small ==
  /\ \A n : n \in 0 .. 1 => n < 2 /\ n \in 0 .. 2 /\ n # 2
  /\ \A n : n \in 0 .. 2 => n <= 2 /\ (\A m \in Nat : m = n - 1 => m \in 0 .. 2 /\ m # 2)
  OBVIOUS

LEMMA QueueTypes ==
  ASSUME TypeOK
  PROVE  /\ windows \in Seq(Ranges) /\ Fetching \in Seq(Ranges) /\ requests \in Seq(Ranges)
         /\ InFlight \in Seq(Ranges)
         /\ Len(InFlight) = Len(windows) + Len(Fetching) + Len(requests)
<1>1. windows \in Seq(Ranges) /\ Fetching \in Seq(Ranges) /\ requests \in Seq(Ranges)
  BY DEF TypeOK, Fetching
<1>2. windows \o Fetching \in Seq(Ranges) /\ Len(windows \o Fetching) = Len(windows) + Len(Fetching)
  BY <1>1, ConcatProperties
<1> QED
  BY <1>1, <1>2, ConcatProperties DEF InFlight

LEMMA AppendConcat ==
  ASSUME NEW S, NEW s \in Seq(S), NEW t \in Seq(S), NEW x \in S
  PROVE  s \o Append(t, x) = Append(s \o t, x)
<1>1. Append(t, x) = t \o <<x>> /\ <<x>> \in Seq(S)
  BY AppendIsConcat
<1>2. s \o t \in Seq(S)
  BY ConcatProperties
<1>3. Append(s \o t, x) = (s \o t) \o <<x>>
  BY <1>2, AppendIsConcat
<1>4. (s \o t) \o <<x>> = s \o (t \o <<x>>)
  BY <1>1, ConcatAssociative
<1> QED
  BY <1>1, <1>3, <1>4

LEMMA HeadTailConcat ==
  ASSUME NEW S, NEW s \in Seq(S), NEW t \in Seq(S), s # <<>>
  PROVE  /\ s \o t # <<>> /\ Tail(s \o t) = Tail(s) \o t /\ (s \o t)[1] = Head(s)
<1>1. s \o t \in Seq(S) /\ Len(s \o t) = Len(s) + Len(t) /\ Len(s) >= 1 /\ s \o t # <<>>
  BY ConcatProperties
<1>2. Tail(s) \in Seq(S) /\ Len(Tail(s)) = Len(s) - 1 /\ \A i \in 1 .. Len(s) - 1 : Tail(s)[i] = s[i + 1]
  BY HeadTailProperties
<1>3. /\ Tail(s \o t) \in Seq(S) /\ Len(Tail(s \o t)) = Len(s) + Len(t) - 1
      /\ \A i \in 1 .. Len(s) + Len(t) - 1 : Tail(s \o t)[i] = (s \o t)[i + 1]
  BY <1>1, HeadTailProperties
<1>4. /\ Tail(s) \o t \in Seq(S) /\ Len(Tail(s) \o t) = Len(s) - 1 + Len(t)
      /\ \A i \in 1 .. Len(s) - 1 + Len(t) :
           (Tail(s) \o t)[i] = IF i <= Len(s) - 1 THEN Tail(s)[i] ELSE t[i - (Len(s) - 1)]
  BY <1>2, ConcatProperties
<1>5. \A i \in 1 .. Len(s) + Len(t) : (s \o t)[i] = IF i <= Len(s) THEN s[i] ELSE t[i - Len(s)]
  BY ConcatProperties
<1>6. \A i \in 1 .. Len(s) + Len(t) - 1 : Tail(s \o t)[i] = (Tail(s) \o t)[i]
  BY <1>1, <1>2, <1>3, <1>4, <1>5
<1>7. Tail(s \o t) = Tail(s) \o t
  BY <1>3, <1>4, <1>6, SeqEqual
<1> QED
  BY <1>1, <1>5, <1>7

(* Ask appends to the queue. *)
LEMMA AskAppends ==
  ASSUME TypeOK, NEW r \in Ranges, requests' = Append(requests, r), UNCHANGED <<windows, fetching>>
  PROVE  InFlight' = Append(InFlight, r)
<1>1. windows \o Fetching \in Seq(Ranges) /\ requests \in Seq(Ranges)
  BY QueueTypes, ConcatProperties
<1>2. (windows \o Fetching) \o Append(requests, r) = Append((windows \o Fetching) \o requests, r)
  BY <1>1, AppendConcat
<1> QED
  BY <1>2 DEF InFlight, Fetching

(* Receive takes the oldest. *)
LEMMA ReceiveTakes ==
  ASSUME TypeOK, windows # <<>>, windows' = Tail(windows), UNCHANGED <<requests, fetching>>
  PROVE  InFlight # <<>> /\ InFlight' = Tail(InFlight) /\ Head(windows) = InFlight[1]
<1>1. /\ windows \o Fetching \in Seq(Ranges) /\ windows \o Fetching # <<>>
      /\ Tail(windows \o Fetching) = Tail(windows) \o Fetching
      /\ (windows \o Fetching)[1] = Head(windows)
  BY QueueTypes, ConcatProperties, HeadTailConcat
<1>2. /\ InFlight # <<>> /\ Tail(InFlight) = Tail(windows \o Fetching) \o requests
      /\ InFlight[1] = Head(windows \o Fetching)
  BY <1>1, QueueTypes, HeadTailConcat DEF InFlight
<1>3. Head(windows \o Fetching) = Head(windows)
  BY <1>1
<1> QED
  BY <1>1, <1>2, <1>3 DEF InFlight, Fetching

(* The fetcher moves a range along the queue, or drops the one it fetches. *)
LEMMA FetchMoves == ASSUME TypeOK, Fetch PROVE InFlight' = InFlight
<1>1. /\ requests # <<>> /\ Fetching = <<>> /\ Fetching' = <<Head(requests)>>
      /\ windows' = windows /\ requests' = Tail(requests)
  BY QueueTypes, RangeFacts DEF Fetch, Fetching
<1>2. <<Head(requests)>> \o Tail(requests) = requests
  BY <1>1, QueueTypes
<1>3. /\ windows \in Seq(Ranges)
      /\ <<Head(requests)>> \in Seq(Ranges) /\ Tail(requests) \in Seq(Ranges)
  BY <1>1, QueueTypes, HeadTailProperties
<1>4. (windows \o <<Head(requests)>>) \o Tail(requests) = windows \o requests
  <2>1. (windows \o <<Head(requests)>>) \o Tail(requests)
          = windows \o (<<Head(requests)>> \o Tail(requests))
    BY <1>3, ConcatAssociative
  <2> QED
    BY <2>1, <1>2
<1>5. windows \o <<>> = windows
  BY QueueTypes, ConcatEmptySeq
<1> QED
  BY <1>1, <1>4, <1>5 DEF InFlight

LEMMA FetchedMoves ==
  ASSUME TypeOK, Fetched
  PROVE  \/ InFlight' = InFlight /\ fetching' = NoWindow
         \/ Len(InFlight') = Len(InFlight) - 1 /\ Len(InFlight') \in Nat /\ fetching' = Dead
<1>1. /\ Fetching = <<fetching>> /\ Fetching' = <<>> /\ requests' = requests /\ fetching \in Ranges
  BY DEF Fetched, Fetching, TypeOK
<1>2. CASE windows' = Append(windows, fetching) /\ fetching' = NoWindow
  <2>1. Append(windows, fetching) = windows \o <<fetching>> /\ Append(windows, fetching) \in Seq(Ranges)
    BY <1>1, QueueTypes
  <2>2. windows' \o <<>> = windows'
    BY <1>2, <2>1, ConcatEmptySeq
  <2> QED
    BY <1>1, <1>2, <2>1, <2>2 DEF InFlight
<1>3. CASE windows' = windows /\ fetching' = Dead
  <2>1. windows \o <<>> = windows
    BY QueueTypes, ConcatEmptySeq
  <2>2. InFlight' = windows \o requests
    BY <1>1, <1>3, <2>1 DEF InFlight
  <2>3. Len(InFlight') = Len(windows) + Len(requests) /\ Len(InFlight') \in Nat
    BY <2>2, QueueTypes, ConcatProperties
  <2> QED
    BY <1>1, <1>3, <2>3, QueueTypes
<1> QED
  BY <1>2, <1>3 DEF Fetched
-----------------------------------------------------------------------------
(* The steps of the reader *)

LEMMA InitInv == Init => Inv
<1> SUFFICES ASSUME Init PROVE Inv
  OBVIOUS
<1>1. InFlight = <<>>
  BY DEF Init, InFlight, Fetching
<1>2. TypeOK
  BY ReaderAssumption DEF Init, TypeOK
<1> QED
  BY <1>1, <1>2 DEF Init, Inv, Counted, OldestMisses, NextAsked, ToSet

(* With at most one window in flight, a range that is not covered by a probe *)
(* of the set is not in it, nor is the position in the one in flight.        *)
LEMMA Uncovered ==
  ASSUME Inv, fetching # Dead, Len(InFlight) \in 0 .. 1, NEW r \in Ranges
  PROVE  /\ Len(InFlight) = 1 => InFlight[1] \in Ranges /\ incoming = {InFlight[1]}
         /\ Len(InFlight) = 0 => incoming = {}
         /\ ~RangeCovered(r) => r \notin incoming
         /\ ~RangeCovered(r) /\ Len(InFlight) = 1 => ~Covers(InFlight[1], r)
         /\ ~PositionCovered(position) /\ Len(InFlight) = 1 => ~Holds(InFlight[1], position)
<1>0. InFlight \in Seq(Ranges)
  BY QueueTypes DEF Inv
<1>1. DOMAIN InFlight = 1 .. Len(InFlight) /\ incoming = {InFlight[i] : i \in DOMAIN InFlight}
  BY <1>0, LenProperties DEF Inv, Counted, ToSet
<1>2. CASE Len(InFlight) = 0
  BY <1>1, <1>2
<1>3. CASE Len(InFlight) = 1
  <2>0. InFlight[1] \in Ranges
    BY <1>0, <1>3, ElementOfSeq
  <2>1. InFlight[1] \in Ranges /\ incoming = {InFlight[1]}
    BY <1>1, <1>3, <2>0
  <2>2. \A p : Neighbours(incoming, p) = {InFlight[1]}
    BY <2>1, OneNeighbour
  <2> QED
    BY <1>3, <2>1, <2>2, RangeFacts DEF RangeCovered, PositionCovered
<1> QED
  BY <1>2, <1>3

(* A step that leaves the queue and the window alone. *)
LEMMA QueueKept ==
  ASSUME Inv, TypeOK', InFlight' = InFlight, fetching' # Dead => fetching # Dead,
         incoming' = incoming, Len(InFlight) = 2 => pc' \in {"blocked", "panicked"},
         pc' = "blocked" => Len(InFlight) < 2 \/ (pc = "blocked" /\ position' = position),
         pc' \in {"idle", "loop"} => pc \in {"idle", "loop"} /\ current' = current
  PROVE  Inv'
<1>1. Len(InFlight') \in 0 .. 2 /\ (Len(InFlight') = 2 => pc' \in {"blocked", "panicked"})
  BY DEF Inv
<1>2. fetching' # Dead => Counted'
  BY DEF Inv, Counted
<1>3. fetching' # Dead => OldestMisses'
  BY DEF Inv, OldestMisses
<1>4. fetching' # Dead => NextAsked'
  BY DEF Inv, NextAsked, NextRange
<1> QED
  BY <1>1, <1>2, <1>3, <1>4 DEF Inv

(* A request for a range that no probe of the set covers. *)
LEMMA AskInv ==
  ASSUME Inv, Len(InFlight) \in 0 .. 1, NEW r \in Ranges, ~RangeCovered(r),
         requests' = Append(requests, r), incoming' = incoming \cup {r},
         UNCHANGED <<current, windows, fetching>>, TypeOK',
         Len(InFlight) = 1 => pc' \in {"blocked", "panicked"},
         fetching # Dead /\ pc' = "blocked" =>
           position' = position /\ ~PositionCovered(position),
         pc' \in {"idle", "loop"} => r = NextRange
  PROVE  Inv'
<1>1. InFlight \in Seq(Ranges) /\ InFlight' = Append(InFlight, r)
  BY QueueTypes, AskAppends DEF Inv
<1>2. /\ Len(InFlight') = Len(InFlight) + 1 /\ InFlight' \in Seq(Ranges)
      /\ Len(InFlight) = 1 => InFlight'[1] = InFlight[1] /\ InFlight'[2] = r
      /\ Len(InFlight) = 0 => InFlight'[1] = r
  BY <1>1, AppendProperties
<1>3. ASSUME fetching # Dead PROVE Counted' /\ OldestMisses' /\ NextAsked'
  <2>1. Counted'
    <3>1. ToSet(InFlight') = {InFlight'[i] : i \in 1 .. Len(InFlight')}
      BY <1>2 DEF ToSet
    <3>2. CASE Len(InFlight) = 0
      BY <1>2, <1>3, <3>1, <3>2, Uncovered DEF Counted
    <3>3. CASE Len(InFlight) = 1
      <4>1. incoming = {InFlight[1]} /\ r # InFlight[1]
        BY <1>3, <3>3, Uncovered
      <4>2. ToSet(InFlight') = {InFlight[1], r}
        BY <1>2, <3>1, <3>3
      <4> QED
        BY <1>2, <3>3, <4>1, <4>2 DEF Counted
    <3> QED
      BY <3>2, <3>3
  <2>2. OldestMisses'
    BY <1>2, <1>3, Uncovered DEF OldestMisses
  <2>3. NextAsked'
    <3>1. NextRange' = NextRange
      BY DEF NextRange
    <3> QED
      BY <1>2, <3>1, RangeFacts DEF NextAsked
  <2> QED
    BY <2>1, <2>2, <2>3
<1>4. Len(InFlight') \in 0 .. 2 /\ (Len(InFlight') = 2 => pc' \in {"blocked", "panicked"})
  <2>1. CASE Len(InFlight) = 0
    BY <1>2, <2>1
  <2>2. CASE Len(InFlight) = 1
    BY <1>2, <2>2
  <2> QED
    BY <2>1, <2>2
<1>5. fetching' = fetching
  OBVIOUS
<1> QED
  BY <1>3, <1>4, <1>5 DEF Inv

LEMMA CallerInv == Inv /\ (Seek \/ Read) => Inv'
<1> SUFFICES ASSUME Inv, Seek \/ Read PROVE Inv'
  OBVIOUS
<1>1. /\ pc = "idle" /\ pc' \in {"idle", "loop"} /\ position' \in 0 .. Size
      /\ UNCHANGED <<current, incoming, requests, fetching, windows>>
  BY DEF Inv, TypeOK, Seek, Read
<1>2. TypeOK'
  BY <1>1 DEF Inv, TypeOK
<1>3. InFlight' = InFlight
  BY <1>1 DEF InFlight, Fetching
<1>4. Len(InFlight) # 2
  BY <1>1 DEF Inv
<1> QED
  BY <1>1, <1>2, <1>3, <1>4, QueueKept

LEMMA HitInv == Inv /\ Hit => Inv'
<1> SUFFICES ASSUME Inv, Hit PROVE Inv'
  OBVIOUS
<1>1. /\ pc = "loop" /\ current \in Ranges /\ current # NoWindow /\ Holds(current, position)
      /\ position \in 0 .. Size /\ UNCHANGED <<current, fetching, windows>>
  BY RangeFacts DEF Inv, TypeOK, Hit, Holds, NoWindow
<1>2. Len(InFlight) \in 0 .. 1
  BY <1>1 DEF Inv
<1>3. NextRange \in Ranges
  BY <1>1, NextRangeIsRange
<1>4. position' \in 0 .. Size
  BY <1>1, HitStays DEF Hit
<1>5. CASE RangeCovered(NextRange)
  <2>1. pc' = "idle" /\ UNCHANGED <<incoming, requests>>
    BY <1>5 DEF Hit, Ask
  <2>2. TypeOK' /\ InFlight' = InFlight
    BY <1>1, <1>4, <2>1 DEF Inv, TypeOK, InFlight, Fetching
  <2> QED
    BY <1>1, <1>2, <2>1, <2>2, QueueKept
<1>6. CASE ~RangeCovered(NextRange)
  <2>1. /\ incoming' = incoming \cup {NextRange} /\ requests' = Append(requests, NextRange)
        /\ pc' = IF fetching = Dead THEN "panicked" ELSE "idle"
    BY <1>6 DEF Hit, Ask
  <2>2. TypeOK'
    <3>1. requests' \in Seq(Ranges)
      BY <1>3, <2>1 DEF Inv, TypeOK
    <3> QED
      BY <1>1, <1>3, <1>4, <2>1, <3>1 DEF Inv, TypeOK
  <2>3. ASSUME Len(InFlight) = 1, fetching # Dead PROVE FALSE
    <3>1. Covers(current, NextRange) \/ Covers(InFlight[1], NextRange)
      BY <1>1, <2>3 DEF Inv, NextAsked
    <3>2. ~Covers(current, NextRange)
      BY <1>1, <1>6 DEF RangeCovered
    <3>3. ~Covers(InFlight[1], NextRange)
      BY <1>2, <1>3, <1>6, <2>3, Uncovered
    <3> QED
      BY <3>1, <3>2, <3>3
  <2> QED
    BY <1>1, <1>2, <1>3, <1>6, <2>1, <2>2, <2>3, AskInv
<1> QED
  BY <1>5, <1>6

LEMMA WaitInv == Inv /\ Wait => Inv'
<1> SUFFICES ASSUME Inv, Wait PROVE Inv'
  OBVIOUS
<1>1. /\ pc = "loop" /\ fetching # Dead /\ position \in 0 .. Size
      /\ UNCHANGED <<position, current, fetching, windows>>
  BY DEF Inv, TypeOK, Wait
<1>2. Len(InFlight) \in 0 .. 1
  BY <1>1 DEF Inv
<1>3. PositionRange \in Ranges
  BY <1>1, PositionRangeIsRange
<1>4. CASE PositionCovered(position) \/ RangeCovered(PositionRange)
  <2>1. pc' = "blocked" /\ UNCHANGED <<incoming, requests>>
    BY <1>4 DEF Wait, Ask
  <2>2. TypeOK' /\ InFlight' = InFlight
    BY <1>1, <2>1 DEF Inv, TypeOK, InFlight, Fetching
  <2>3. Len(InFlight) < 2 /\ pc' \notin {"idle", "loop"}
    BY ONLY <1>2, <2>1, Small, Zenon
  <2>4. Len(InFlight) = 2 => pc' \in {"blocked", "panicked"}
    BY <2>1
  <2> QED
    BY <1>1, <2>1, <2>2, <2>3, <2>4, QueueKept
<1>5. CASE ~PositionCovered(position) /\ ~RangeCovered(PositionRange)
  <2>1. /\ incoming' = incoming \cup {PositionRange} /\ requests' = Append(requests, PositionRange)
        /\ pc' = "blocked"
    BY <1>1, <1>5 DEF Wait, Ask
  <2>2. TypeOK'
    <3>1. requests' \in Seq(Ranges)
      BY <1>3, <2>1 DEF Inv, TypeOK
    <3> QED
      BY <1>1, <1>3, <2>1, <3>1 DEF Inv, TypeOK
  <2> QED
    BY <1>1, <1>2, <1>3, <1>5, <2>1, <2>2, AskInv
<1> QED
  BY <1>4, <1>5

LEMMA ReceiveInv == Inv /\ Receive => Inv'
<1> SUFFICES ASSUME Inv, Receive PROVE Inv'
  OBVIOUS
<1>1. /\ pc \in {"loop", "blocked"} /\ pc' = "loop" /\ windows # <<>> /\ windows' = Tail(windows)
      /\ UNCHANGED <<position, requests, fetching>>
      /\ incoming' = incoming \ {Head(windows)}
      /\ current' = IF Holds(Head(windows), position) THEN Head(windows) ELSE NoWindow
  BY DEF Receive, Missed, Accepted
<1>2. InFlight # <<>> /\ InFlight' = Tail(InFlight) /\ Head(windows) = InFlight[1]
  BY <1>1, ReceiveTakes DEF Inv
<1>3. /\ InFlight \in Seq(Ranges) /\ InFlight' \in Seq(Ranges)
      /\ Len(InFlight) \in 1 .. 2 /\ Len(InFlight') = Len(InFlight) - 1
      /\ Len(InFlight) = 2 => InFlight'[1] = InFlight[2]
  BY <1>2, QueueTypes, HeadTailProperties DEF Inv
<1>4. TypeOK'
  <2>1. Head(windows) \in Ranges /\ windows' \in Seq(Ranges)
    BY <1>1, HeadTailProperties DEF Inv, TypeOK
  <2> QED
    BY <1>1, <2>1 DEF Inv, TypeOK
<1>5. ASSUME fetching # Dead PROVE Counted'
  <2>1. /\ incoming = {InFlight[i] : i \in 1 .. Len(InFlight)}
        /\ ToSet(InFlight)' = {InFlight'[i] : i \in 1 .. Len(InFlight')}
    BY <1>3, <1>5, LenProperties DEF Inv, Counted, ToSet
  <2>2. CASE Len(InFlight) = 1
    BY <1>1, <1>2, <1>3, <2>1, <2>2 DEF Counted
  <2>3. CASE Len(InFlight) = 2
    <3>1. InFlight[1] # InFlight[2]
      BY <1>5, <2>3 DEF Inv, Counted
    <3>2. incoming = {InFlight[1], InFlight[2]} /\ ToSet(InFlight)' = {InFlight[2]}
      BY <1>3, <2>1, <2>3
    <3> QED
      BY <1>1, <1>2, <1>3, <2>3, <3>1, <3>2 DEF Counted
  <2> QED
    BY <1>3, <2>2, <2>3
<1>6. ASSUME fetching # Dead PROVE OldestMisses' /\ NextAsked'
  <2>1. OldestMisses'
    BY <1>1 DEF OldestMisses
  <2>2. Len(InFlight) = 2 => current' = NoWindow
    <3>1. Len(InFlight) = 2 => pc = "blocked" /\ ~Holds(InFlight[1], position)
      BY <1>1, <1>6 DEF Inv, OldestMisses
    <3> QED
      BY <1>1, <1>2, <3>1
  <2>3. NextAsked'
    BY <1>3, <2>2 DEF NextAsked, NoWindow
  <2> QED
    BY <2>1, <2>3
<1>7. Len(InFlight') \in 0 .. 1
  BY <1>3
<1>8. fetching' = fetching
  BY <1>1
<1> QED
  BY <1>4, <1>5, <1>6, <1>7, <1>8 DEF Inv

LEMMA DisconnectedInv == Inv /\ Disconnected => Inv'
<1> SUFFICES ASSUME Inv, Disconnected PROVE Inv'
  OBVIOUS
<1>1. /\ pc' = "panicked" /\ UNCHANGED <<position, current, incoming, requests, fetching, windows>>
  BY DEF Disconnected
<1>2. TypeOK' /\ InFlight' = InFlight
  BY <1>1 DEF Inv, TypeOK, InFlight, Fetching
<1> QED
  BY <1>1, <1>2, QueueKept

LEMMA FetchInv == Inv /\ FetchStep => Inv'
<1> SUFFICES ASSUME Inv, FetchStep PROVE Inv'
  OBVIOUS
<1>1. UNCHANGED <<pc, position, current, incoming>> /\ fetching # Dead
  BY DEF FetchStep, Fetch, Fetched, NoWindow, Dead
<1>2. TypeOK'
  <2>1. CASE Fetch
    <3>1. Head(requests) \in Ranges /\ requests' \in Seq(Ranges)
      BY <2>1, HeadTailProperties DEF Inv, TypeOK, Fetch
    <3> QED
      BY <1>1, <2>1, <3>1 DEF Inv, TypeOK, Fetch
  <2>2. CASE Fetched
    <3>1. windows' \in Seq(Ranges)
      BY <2>2 DEF Inv, TypeOK, Fetched
    <3> QED
      BY <1>1, <2>2, <3>1 DEF Inv, TypeOK, Fetched
  <2> QED
    BY <2>1, <2>2 DEF FetchStep
<1>3. CASE InFlight' = InFlight /\ fetching' # Dead
  <2>1. Len(InFlight) = 2 => pc' \in {"blocked", "panicked"}
    BY <1>1 DEF Inv
  <2>2. /\ incoming' = incoming /\ current' = current
        /\ pc' = "blocked" => pc = "blocked" /\ position' = position
        /\ pc' \in {"idle", "loop"} => pc \in {"idle", "loop"}
    BY <1>1
  <2> QED
    BY <1>1, <1>2, <1>3, <2>1, <2>2, QueueKept
<1>4. CASE Len(InFlight') = Len(InFlight) - 1 /\ Len(InFlight') \in Nat /\ fetching' = Dead
  <2>1. Len(InFlight') \in 0 .. 2 /\ Len(InFlight') # 2
    <3>1. Len(InFlight) \in 0 .. 2
      BY DEF Inv
    <3> QED
      BY ONLY <1>4, <3>1, Small, Zenon
  <2> QED
    BY <1>2, <1>4, <2>1 DEF Inv
<1> QED
  BY <1>3, <1>4, FetchMoves, FetchedMoves, RangeFacts DEF FetchStep, Inv, Fetch, TypeOK, NoWindow, Dead

LEMMA NextInv == Inv /\ [Next]_vars => Inv'
<1> SUFFICES ASSUME Inv, [Next]_vars PROVE Inv'
  OBVIOUS
<1>1. CASE Seek \/ Read
  BY <1>1, CallerInv
<1>2. CASE ReadStep
  BY <1>2, HitInv, ReceiveInv, WaitInv, DisconnectedInv DEF ReadStep
<1>3. CASE FetchStep
  BY <1>3, FetchInv
<1>4. CASE UNCHANGED vars
  <2>1. UNCHANGED <<pc, position, current, incoming, requests, fetching, windows>>
    BY <1>4 DEF vars
  <2>2. TypeOK' /\ InFlight' = InFlight
    BY <2>1 DEF Inv, TypeOK, InFlight, Fetching
  <2>3. /\ Len(InFlight) = 2 => pc' \in {"blocked", "panicked"}
        /\ pc' = "blocked" => pc = "blocked" /\ position' = position
    BY <2>1 DEF Inv
  <2> QED
    BY <2>1, <2>2, <2>3, QueueKept
<1> QED
  BY <1>1, <1>2, <1>3, <1>4 DEF Next

(* With two windows at most, distinct ones, counting them is elementary. *)
LEMMA InvExact == Inv => InFlightExact
<1> SUFFICES ASSUME Inv PROVE InFlightExact
  OBVIOUS
<1>1. TypeOK /\ Len(InFlight) \in 0 .. 2
  BY DEF Inv
<1>2. ASSUME fetching # Dead
      PROVE  ToSet(InFlight) = incoming /\ Len(InFlight) = Cardinality(incoming)
  <2>1. /\ ToSet(InFlight) = incoming
        /\ incoming = {InFlight[i] : i \in 1 .. Len(InFlight)}
        /\ Len(InFlight) = 2 => InFlight[1] # InFlight[2]
    BY <1>1, <1>2, QueueTypes, LenProperties DEF Inv, Counted, ToSet
  <2>2. CASE Len(InFlight) = 0
    <3>1. incoming = {}
      BY <2>1, <2>2
    <3> QED
      BY <2>1, <2>2, <3>1, FS_EmptySet
  <2>3. CASE Len(InFlight) = 1
    <3>1. incoming = {InFlight[1]}
      BY <2>1, <2>3
    <3> QED
      BY <2>1, <2>3, <3>1, FS_Singleton
  <2>4. CASE Len(InFlight) = 2
    <3>1. incoming = {InFlight[1]} \cup {InFlight[2]} /\ InFlight[2] \notin {InFlight[1]}
      BY <2>1, <2>4
    <3>2. IsFiniteSet({InFlight[1]}) /\ Cardinality({InFlight[1]}) = 1
      BY FS_Singleton
    <3>3. Cardinality(incoming) = 2
      BY <3>1, <3>2, FS_AddElement
    <3> QED
      BY <2>1, <2>4, <3>3
  <2> QED
    BY <1>1, <2>2, <2>3, <2>4
<1>3. Len(InFlight) <= 2
  BY ONLY <1>1, Small, Zenon
<1> QED
  BY <1>1, <1>2, <1>3 DEF InFlightExact

(* ask_window, recv and the fetcher: for every object and window size, what  *)
(* incoming_windows says is in flight is, once; every range asked for is a   *)
(* range of the object; and at most two are in flight at a time.             *)
THEOREM WindowsExact == Spec => []InFlightExact
<1>1. Spec => []Inv
  BY InitInv, NextInv, PTL DEF Spec
<1> QED
  BY <1>1, InvExact, PTL
-----------------------------------------------------------------------------
(* The benchmark, for any contenders and any number of runs. *)

(* A run that is ok stays ok and an upload is not forgotten: what the verdict *)
(* and the result were based on still holds when the lists are made.         *)
Based(c) ==
  /\ stage[c] \in {"control", "gate"} => \A r \in RunsOf(c) : run[r] = "ok"
  /\ stage[c] = "gate" => verdict[c] = "valid"
  /\ stage[c] \in {"delete", "end"} => contender_result[c] \in {"success", "failure"}
  /\ verdict[c] = "valid" => run[<<c, 0>>] = "ok" /\ <<c, 0>> \in uploaded
  /\ contender_result[c] = "success" =>
       c \notin Slow /\ verdict[c] = "valid" /\ \A r \in RunsOf(c) : run[r] = "ok"
  /\ verdict[c] = "valid" => stage[c] \in {"gate", "delete", "end"}

Stored == \A r \in Runs : archive[r] # "none" => r \in uploaded

Partitioned ==
  execution = "partitioned" =>
    /\ \A c \in Contenders : stage[c] = "end"
    /\ lists.success = {c \in Contenders : contender_result[c] = "success"}
    /\ lists.failure = {c \in Contenders : contender_result[c] = "failure"}

BenchInv == BenchTypeOK /\ (\A c \in Contenders : Based(c)) /\ Stored /\ Partitioned

LEMMA RunZero == \A c \in Contenders : <<c, 0>> \in Runs /\ <<c, 0>> \in RunsOf(c)
BY BenchmarkAssumption DEF Runs, run_indices, RunsOf

LEMMA RunsOfRuns == \A c \in Contenders : RunsOf(c) \subseteq Runs
BY DEF Runs, RunsOf

LEMMA BenchInvInit == BenchInit => BenchInv
BY DEF BenchInit, BenchInv, BenchTypeOK, Based, Stored, Partitioned, RunsOf, Runs

(* One step per action; what it leaves alone is in its UNCHANGED.            *)
LEMMA BenchInvNext == BenchInv /\ [BenchNext]_benchVars => BenchInv'
<1> SUFFICES ASSUME BenchInv, [BenchNext]_benchVars PROVE BenchInv'
  OBVIOUS
<1>1. ASSUME NEW c \in Contenders, GetContenderConfig(c)
        PROVE  BenchInv'
  BY <1>1, RunZero, RunsOfRuns
     DEF GetContenderConfig, At, Goto, bucket, BenchInv, BenchTypeOK, Based, Stored, Partitioned
<1>2. ASSUME NEW r \in Runs, InvokeContender(r)
        PROVE  BenchInv'
  BY <1>2, RunZero, RunsOfRuns
     DEF InvokeContender, At, Goto, bucket, BenchInv, BenchTypeOK, Based, Stored, Partitioned
<1>3. ASSUME NEW r \in Runs, Upload(r)
        PROVE  BenchInv'
  BY <1>3, RunZero, RunsOfRuns
     DEF Upload, At, Goto, bucket, BenchInv, BenchTypeOK, Based, Stored, Partitioned, Key
<1>4. ASSUME NEW r \in Runs, RunEnds(r)
        PROVE  BenchInv'
  BY <1>4, RunZero, RunsOfRuns
     DEF RunEnds, At, Goto, bucket, BenchInv, BenchTypeOK, Based, Stored, Partitioned
<1>5. ASSUME NEW r \in Runs, LostRunEnds(r)
        PROVE  BenchInv'
  BY <1>5, RunZero, RunsOfRuns
     DEF LostRunEnds, At, Goto, bucket, BenchInv, BenchTypeOK, Based, Stored, Partitioned
<1>6. ASSUME NEW c \in Contenders, AggregateRuns(c)
        PROVE  BenchInv'
  BY <1>6, RunZero, RunsOfRuns
     DEF AggregateRuns, At, Goto, bucket, BenchInv, BenchTypeOK, Based, Stored, Partitioned, AnyFailed, Failed, Answered
<1>7. ASSUME NEW c \in Contenders, InvokeControl(c)
        PROVE  BenchInv'
  BY <1>7, RunZero, RunsOfRuns
     DEF InvokeControl, At, Goto, bucket, BenchInv, BenchTypeOK, Based, Stored, Partitioned
<1>8. ASSUME NEW c \in Contenders, CheckPerformance(c)
        PROVE  BenchInv'
  BY <1>8, RunZero, RunsOfRuns
     DEF CheckPerformance, At, Goto, bucket, BenchInv, BenchTypeOK, Based, Stored, Partitioned, Gate
<1>9. ASSUME NEW r \in Runs, DeleteOneArchive(r)
        PROVE  BenchInv'
  BY <1>9, RunZero, RunsOfRuns
     DEF DeleteOneArchive, At, Goto, bucket, BenchInv, BenchTypeOK, Based, Stored, Partitioned
<1>10. ASSUME NEW c \in Contenders, EndSuccess(c)
        PROVE  BenchInv'
  BY <1>10, RunZero, RunsOfRuns
     DEF EndSuccess, At, Goto, bucket, BenchInv, BenchTypeOK, Based, Stored, Partitioned
<1>11. CASE PartitionResults
  BY <1>11, RunZero, RunsOfRuns
     DEF PartitionResults, bucket, BenchInv, BenchTypeOK, Based, Stored, Partitioned
<1>12. CASE UNCHANGED benchVars
  BY <1>12 DEF benchVars, bucket, BenchInv, BenchTypeOK, Based, Stored, Partitioned
<1> QED
  BY <1>1, <1>2, <1>3, <1>4, <1>5, <1>6, <1>7, <1>8, <1>9, <1>10, <1>11, <1>12
     DEF BenchNext, ContenderStep, RunStep

LEMMA BenchInvariance == BenchSpec => []BenchInv
BY BenchInvInit, BenchInvNext, PTL DEF BenchSpec

(* The control Lambda validates what run 0 of that contender uploaded:       *)
(* InvokeControl comes after every run of the contender and before every     *)
(* deletion.                                                                 *)
THEOREM BenchmarkVerdictOwn == BenchSpec => []VerdictOwn
<1>1. BenchInv => VerdictOwn
  BY DEF BenchInv, Based, VerdictOwn
<1> QED
  BY <1>1, BenchInvariance, PTL

(* PartitionResults drops no contender, and reports no success that a run,   *)
(* the control Lambda or the performance gate refused.                       *)
THEOREM BenchmarkListsRight == BenchSpec => []ListsRight
<1>1. BenchInv => ListsRight
  <2> SUFFICES ASSUME BenchInv, execution = "partitioned"
               PROVE  /\ lists.success \cup lists.failure = Contenders
                      /\ \A c \in lists.success :
                           c \notin Slow /\ verdict[c] = "valid"
                             /\ \A r \in RunsOf(c) : run[r] = "ok"
    BY DEF ListsRight
  <2>1. \A c \in Contenders : contender_result[c] \in {"success", "failure"}
    BY DEF BenchInv, Partitioned, Based
  <2>2. lists.success \cup lists.failure = Contenders
    BY <2>1 DEF BenchInv, Partitioned
  <2>3. ASSUME NEW c \in lists.success
        PROVE  c \notin Slow /\ verdict[c] = "valid"
                 /\ \A r \in RunsOf(c) : run[r] = "ok"
    BY DEF BenchInv, Partitioned, Based
  <2> QED
    BY <2>2, <2>3
<1> QED
  BY <1>1, BenchInvariance, PTL
-----------------------------------------------------------------------------
(* Archives are deleted after every run of the contender has answered; from  *)
(* then on only a run whose connection was lost can still upload.            *)
Cleaned(r) ==
  /\ stage[r[1]] \in {"control", "gate", "delete", "end"} => run[r] \notin {"todo", "running"}
  /\ deletion[r] # "todo" => stage[r[1]] \in {"delete", "end"}
  /\ deletion[r] = "done" => archive[r] = "none" \/ run[r] \in {"lost", "gone"}
  /\ stage[r[1]] = "end" => deletion[r] # "todo"

AllCleaned == \A r \in Runs : Cleaned(r)

(* The run <<c, i>> is one of the runs of its contender, and no other's.     *)
LEMMA RunsAreOwn ==
  \A r \in Runs : r[1] \in Contenders /\ r \in RunsOf(r[1])
BY DEF Runs, RunsOf

LEMMA CleanedInit == BenchInit => AllCleaned
BY RunsAreOwn DEF BenchInit, AllCleaned, Cleaned

LEMMA CleanedNext == BenchInv /\ AllCleaned /\ [BenchNext]_benchVars => AllCleaned'
<1> SUFFICES ASSUME BenchInv, AllCleaned, [BenchNext]_benchVars, NEW q \in Runs PROVE Cleaned(q)'
  BY DEF AllCleaned, Runs, run_indices
<1>q. Cleaned(q) /\ q[1] \in Contenders /\ q \in RunsOf(q[1])
  BY RunsAreOwn DEF AllCleaned
<1>1. ASSUME NEW c \in Contenders, GetContenderConfig(c) PROVE Cleaned(q)'
  BY <1>1, <1>q
     DEF GetContenderConfig, BenchInv, BenchTypeOK, Cleaned, At, Goto, bucket
<1>2. ASSUME NEW r \in Runs, InvokeContender(r) PROVE Cleaned(q)'
  BY <1>2, <1>q, RunsAreOwn
     DEF InvokeContender, BenchInv, BenchTypeOK, Cleaned, At, Goto, bucket
<1>3. ASSUME NEW r \in Runs, Upload(r) PROVE Cleaned(q)'
  BY <1>3, <1>q, RunsAreOwn
     DEF Upload, BenchInv, BenchTypeOK, Cleaned, At, Goto, bucket, Key
<1>4. ASSUME NEW r \in Runs, RunEnds(r) PROVE Cleaned(q)'
  BY <1>4, <1>q, RunsAreOwn
     DEF RunEnds, BenchInv, BenchTypeOK, Cleaned, At, Goto, bucket
<1>5. ASSUME NEW r \in Runs, LostRunEnds(r) PROVE Cleaned(q)'
  BY <1>5, <1>q, RunsAreOwn
     DEF LostRunEnds, BenchInv, BenchTypeOK, Cleaned, At, Goto, bucket
<1>6. ASSUME NEW c \in Contenders, AggregateRuns(c) PROVE Cleaned(q)'
  BY <1>6, <1>q
     DEF AggregateRuns, BenchInv, BenchTypeOK, Cleaned, At, Goto, bucket, Answered
<1>7. ASSUME NEW c \in Contenders, InvokeControl(c) PROVE Cleaned(q)'
  BY <1>7, <1>q
     DEF InvokeControl, BenchInv, BenchTypeOK, Cleaned, At, Goto, bucket
<1>8. ASSUME NEW c \in Contenders, CheckPerformance(c) PROVE Cleaned(q)'
  BY <1>8, <1>q
     DEF CheckPerformance, BenchInv, BenchTypeOK, Cleaned, At, Goto, bucket
<1>9. ASSUME NEW r \in Runs, DeleteOneArchive(r) PROVE Cleaned(q)'
  BY <1>9, <1>q, RunsAreOwn
     DEF DeleteOneArchive, BenchInv, BenchTypeOK, Cleaned, At, Goto, bucket
<1>10. ASSUME NEW c \in Contenders, EndSuccess(c) PROVE Cleaned(q)'
  BY <1>10, <1>q
     DEF EndSuccess, BenchInv, BenchTypeOK, Cleaned, At, Goto, bucket, Deletions
<1>11. CASE PartitionResults
  BY <1>11, <1>q DEF PartitionResults, Cleaned, bucket
<1>12. CASE UNCHANGED benchVars
  BY <1>12, <1>q DEF benchVars, Cleaned, bucket
<1> QED
  BY <1>1, <1>2, <1>3, <1>4, <1>5, <1>6, <1>7, <1>8, <1>9, <1>10, <1>11, <1>12
     DEF BenchNext, ContenderStep, RunStep

(* What the execution leaves in the bucket: an archive uploaded behind a     *)
(* connection that was lost, or one that S3 refused to delete.               *)
THEOREM BenchmarkOnlyLostLeft == BenchSpec => []OnlyLostLeft
<1>1. BenchInv /\ AllCleaned => OnlyLostLeft
  BY RunsAreOwn DEF BenchInv, BenchTypeOK, Partitioned, AllCleaned, Cleaned, OnlyLostLeft
<1> QED
  BY <1>1, BenchInvariance, CleanedInit, CleanedNext, PTL DEF BenchSpec
-----------------------------------------------------------------------------
(* The rate governor *)

Waiting == {c \in High : call[c] \in {"timed", "woken"}}

Scalars ==
  /\ rate \in Floor .. Ceil /\ tokens \in 0 .. MaxBurst
  /\ refilled \in 0 .. FillTime /\ sinceDown \in 0 .. DownWindow
  /\ sinceUp \in 0 .. RecoverInterval /\ sinceThrottle \in 0 .. RecoverInterval

PerCaller ==
  /\ call \in [Callers -> {"away", "deferred", "timed", "woken", "calling"}]
  /\ waited \in [Callers -> 0 .. Timeout] /\ left \in [Callers -> 0 .. Calls]

(* Whoever is not away has a call to make; only Low callers are deferred. *)
Pending ==
  /\ \A c \in Callers : call[c] # "away" => left[c] > 0
  /\ \A c \in High : call[c] # "deferred"

RateInv == Scalars /\ PerCaller /\ Pending /\ high_waiters = Cardinality(Waiting)

(* What the governor has let through and could let through now. *)
WatchType == watch \in [ms : Nat, issued : Nat, from : Int]
Credit == watch.issued * Token + Refilled <= MaxBurst + Ceil * watch.ms

(* A value that moved by some number of steps, a window apart, the last one  *)
(* since ms ago: what the governor knows of its own steps.                   *)
Steps(moved, step, window, since, ms) ==
  \E k \in Nat : /\ moved <= step * k
                 /\ k = 0 \/ (k - 1) * window + since <= ms

Glide ==
  /\ Steps(watch.from - rate, StepDown, DownWindow, sinceDown, watch.ms)
  /\ Steps(rate - watch.from, StepUp, RecoverInterval, sinceUp, watch.ms)
-----------------------------------------------------------------------------
(* The constants, as the provers can use them. *)
LEMMA Constants ==
  /\ Floor \in Nat \ {0} /\ Ceil \in Nat /\ Start \in Nat /\ StepDown \in Nat /\ StepUp \in Nat
  /\ DownWindow \in Nat \ {0} /\ RecoverInterval \in Nat \ {0}
  /\ MaxBurst \in Nat /\ Token \in Nat \ {0} /\ Timeout \in Nat \ {0} /\ Calls \in Nat \ {0}
  /\ Floor <= Start /\ Start <= Ceil /\ MaxBurst >= Token
  /\ High \cap Low = {}
  BY RateAssumption

LEMMA FillTimeType == FillTime \in Nat \ {0}
  BY Constants DEF FillTime

(* The minimum of two numbers, and the two-sided clamp. *)
LEMMA AtMostIs ==
  ASSUME NEW a \in Int, NEW b \in Int
  PROVE  AtMost(a, b) = IF a <= b THEN a ELSE b
<1> DEFINE m == IF a <= b THEN a ELSE b
<1>1. m \in {a, b} /\ \A y \in {a, b} : m <= y
  OBVIOUS
<1>2. \A x \in {a, b} : (\A y \in {a, b} : x <= y) => x = m
  OBVIOUS
<1> QED
  BY <1>1, <1>2 DEF AtMost, Min

LEMMA LargestOfTwo ==
  ASSUME NEW a \in Int, NEW b \in Int
  PROVE  Max({a, b}) = IF a >= b THEN a ELSE b
<1> DEFINE m == IF a >= b THEN a ELSE b
<1>1. m \in {a, b} /\ \A y \in {a, b} : m >= y
  OBVIOUS
<1>2. \A x \in {a, b} : (\A y \in {a, b} : x >= y) => x = m
  OBVIOUS
<1> QED
  BY <1>1, <1>2 DEF Max

LEMMA ClampIs ==
  ASSUME NEW r \in Int
  PROVE  /\ Clamp(r) \in Floor .. Ceil
         /\ r <= Ceil => Clamp(r) = IF r >= Floor THEN r ELSE Floor
         /\ r >= Floor => Clamp(r) = IF Ceil <= r THEN Ceil ELSE r
<1>1. Min({Ceil, r}) = IF Ceil <= r THEN Ceil ELSE r
  BY Constants, AtMostIs DEF AtMost
<1>2. Clamp(r) = IF Floor >= Min({Ceil, r}) THEN Floor ELSE Min({Ceil, r})
  BY Constants, LargestOfTwo, <1>1 DEF Clamp
<1> QED
  BY <1>1, <1>2, Constants

(* An age grows by one, up to its cap. *)
LEMMA Ages ==
  ASSUME NEW n \in Nat, NEW a \in 0 .. n
  PROVE  AtMost(a + 1, n) \in 0 .. n /\ AtMost(a + 1, n) <= a + 1
  BY AtMostIs

LEMMA RefilledType ==
  ASSUME Scalars
  PROVE  /\ refilled * rate \in Nat
         /\ Refilled = IF tokens + refilled * rate <= MaxBurst
                       THEN tokens + refilled * rate ELSE MaxBurst
         /\ Refilled \in 0 .. MaxBurst
<1>1. refilled \in Nat /\ rate \in Nat /\ tokens \in Nat
  BY Constants, FillTimeType DEF Scalars
<1>2. refilled * rate \in Nat
  BY <1>1
<1>3. tokens + refilled * rate \in Nat
  BY <1>1, <1>2
<1> DEFINE gained == refilled * rate
<1>4. Refilled = IF tokens + gained <= MaxBurst THEN tokens + gained ELSE MaxBurst
  BY <1>3, Constants, AtMostIs DEF Refilled
<1>5. gained \in Nat
  BY <1>2
<1> QED
  BY <1>1, <1>4, <1>5, Constants

(* Products of natural numbers grow with their factors. *)
LEMMA ProductGrows ==
  ASSUME NEW a \in Nat, NEW b \in Nat, NEW c \in Nat, b <= c
  PROVE  a * b <= a * c
<1>1. c - b \in Nat /\ c = b + (c - b)
  OBVIOUS
<1>2. a * c = a * b + a * (c - b)
  BY <1>1
<1>3. a * (c - b) \in Nat /\ a * b \in Nat
  BY <1>1
<1> QED
  BY <1>2, <1>3

LEMMA ProductType == ASSUME NEW a \in Nat, NEW b \in Nat PROVE a * b \in Nat
  OBVIOUS

LEMMA NothingGained ==
  ASSUME NEW t \in Int, NEW a, a = 0, NEW r \in Nat
  PROVE  t + a * r = t
<1>1. 0 * r = 0
  OBVIOUS
<1>2. t + 0 = t
  OBVIOUS
<1> QED
  BY <1>1, <1>2
-----------------------------------------------------------------------------
LEMMA WaitingFinite == IsFiniteSet(Waiting) /\ Cardinality(Waiting) \in Nat
<1>1. Waiting \in SUBSET (High \cup Low)
  BY DEF Waiting
<1> QED
  BY <1>1, FS_Subset, FS_CardinalityType, RateAssumption

(* At the start no caller waits. *)
LEMMA RateInitInv == RateInit => RateInv
<1> SUFFICES ASSUME RateInit PROVE RateInv
  OBVIOUS
<1>1. Scalars
  BY Constants, FillTimeType DEF RateInit, Scalars
<1>2. PerCaller /\ Pending
  BY Constants DEF RateInit, PerCaller, Pending, Callers
<1>3. Waiting = {}
  BY DEF RateInit, Waiting, Callers
<1> QED
  BY <1>1, <1>2, <1>3, FS_EmptySet DEF RateInv, RateInit

LEMMA TickInv == RateInv /\ Tick => RateInv'
<1> SUFFICES ASSUME RateInv, Tick PROVE RateInv'
  OBVIOUS
<1>1. Scalars'
  BY Constants, FillTimeType, Ages DEF RateInv, Scalars, Tick, FillTime
<1>2. ASSUME NEW c \in Callers
      PROVE  (IF call[c] = "timed" THEN AtMost(waited[c] + 1, Timeout) ELSE 0) \in 0 .. Timeout
  <2>1. waited[c] \in 0 .. Timeout
    BY DEF RateInv, PerCaller
  <2> QED
    BY <2>1, Constants, Ages
<1>3. PerCaller'
  BY <1>2 DEF RateInv, PerCaller, Tick
<1>4. Pending' /\ Waiting' = Waiting
  BY DEF RateInv, Pending, Waiting, Tick
<1> QED
  BY <1>1, <1>3, <1>4 DEF RateInv, Tick

(* refill keeps the ages and the rate in their ranges. *)
LEMMA RefillTypes ==
  ASSUME Scalars, Refill, UNCHANGED <<sinceDown, sinceThrottle>>, tokens' \in 0 .. MaxBurst
  PROVE  Scalars'
<1>1. rate + StepUp \in Int
  BY Constants DEF Scalars
<1>2. rate' \in Floor .. Ceil
  BY <1>1, ClampIs DEF Scalars, Refill
<1> QED
  BY <1>2, FillTimeType, Constants DEF Scalars, Refill

(* Whom a caller waits for does not change the others. *)
LEMMA CallTypes ==
  ASSUME PerCaller, Pending, NEW c \in Callers, left[c] > 0,
         NEW s \in {"timed", "woken", "calling"},
         call' = [call EXCEPT ![c] = s] \/ call' = [Notified EXCEPT ![c] = s],
         UNCHANGED <<waited, left>>
  PROVE  PerCaller' /\ Pending'
<1>1. \A x \in Callers : call'[x] # "away" /\ x # c => call[x] # "away"
  BY DEF PerCaller, Notified
<1>2. Pending'
  BY <1>1 DEF PerCaller, Pending, Notified, Callers
<1> QED
  BY <1>2 DEF PerCaller, Notified

LEMMA DeferInv == ASSUME RateInv, NEW c \in Callers, Defer(c) PROVE RateInv'
<1>1. c \notin High /\ left[c] > 0
  BY Constants DEF RateInv, Pending, Defer, Yields, Acquiring
<1>2. Scalars' /\ PerCaller' /\ Pending'
  BY <1>1 DEF RateInv, Scalars, PerCaller, Pending, Defer, clock, FillTime
<1>3. Waiting' = Waiting
  BY <1>1 DEF RateInv, PerCaller, Waiting, Defer
<1> QED
  BY <1>2, <1>3 DEF RateInv, Defer

LEMMA TakeInv == ASSUME RateInv, NEW c \in Callers, Take(c) PROVE RateInv'
<1>1. left[c] > 0 /\ call[c] \in {"away", "woken"}
  BY DEF RateInv, Pending, Take, Acquiring
<1>2. Scalars'
  <2>1. Refilled - Token \in 0 .. MaxBurst
    BY Constants, RefilledType DEF RateInv, Take
  <2> QED
    BY <2>1, RefillTypes DEF RateInv, Take
<1>3. PerCaller' /\ Pending'
  BY <1>1, CallTypes DEF RateInv, Take
<1>4. CASE c \notin High
  <2>1. Waiting' = Waiting
    BY <1>4 DEF RateInv, PerCaller, Waiting, Take
  <2> QED
    BY <1>2, <1>3, <1>4, <2>1, WaitingFinite DEF RateInv, Take, CountedOut, CountedIn
<1>5. CASE c \in High
  <2>1. Waiting' = Waiting \ {c}
    BY <1>5 DEF RateInv, PerCaller, Pending, Waiting, Take, Notified, Callers
  <2>2. c \in Waiting <=> call[c] = "woken"
    BY <1>1, <1>5 DEF Waiting
  <2>3. high_waiters' = IF c \in Waiting THEN Cardinality(Waiting) - 1 ELSE Cardinality(Waiting)
    BY <1>1, <1>5, <2>2, WaitingFinite DEF RateInv, Take, CountedOut, CountedIn
  <2>4. high_waiters' = Cardinality(Waiting')
    BY <2>1, <2>3, WaitingFinite, FS_RemoveElement
  <2> QED
    BY <1>2, <1>3, <2>4 DEF RateInv
<1> QED
  BY <1>4, <1>5

LEMMA MissInv == ASSUME RateInv, NEW c \in Callers, Miss(c) PROVE RateInv'
<1>1. left[c] > 0 /\ call[c] \in {"away", "woken"}
  BY DEF RateInv, Pending, Miss, Acquiring
<1>2. Scalars'
  BY RefilledType, RefillTypes DEF RateInv, Miss
<1>3. PerCaller' /\ Pending'
  BY <1>1, CallTypes DEF RateInv, Miss
<1>4. CASE c \notin High
  <2>1. Waiting' = Waiting
    BY <1>4 DEF RateInv, PerCaller, Waiting, Miss
  <2> QED
    BY <1>2, <1>3, <1>4, <2>1, WaitingFinite DEF RateInv, Miss, CountedIn
<1>5. CASE c \in High
  <2>1. Waiting' = Waiting \cup {c}
    BY <1>5 DEF RateInv, PerCaller, Waiting, Miss, Callers
  <2>2. c \in Waiting <=> call[c] = "woken"
    BY <1>1, <1>5 DEF Waiting
  <2>3. high_waiters' = IF c \in Waiting THEN Cardinality(Waiting) ELSE Cardinality(Waiting) + 1
    BY <1>1, <1>5, <2>2, WaitingFinite DEF RateInv, Miss, CountedIn
  <2>4. high_waiters' = Cardinality(Waiting')
    BY <2>1, <2>3, WaitingFinite, FS_AddElement
  <2> QED
    BY <1>2, <1>3, <2>4 DEF RateInv
<1> QED
  BY <1>4, <1>5

LEMMA TimedOutInv == ASSUME RateInv, NEW c \in Callers, TimedOut(c) PROVE RateInv'
<1>1. left[c] > 0
  BY DEF RateInv, Pending, TimedOut
<1>2. Scalars'
  BY DEF RateInv, Scalars, TimedOut, clock, FillTime
<1>3. PerCaller' /\ Pending'
  BY <1>1, CallTypes DEF RateInv, TimedOut, clock
<1>4. Waiting' = Waiting
  BY DEF RateInv, PerCaller, Waiting, TimedOut
<1> QED
  BY <1>2, <1>3, <1>4 DEF RateInv, TimedOut

(* The call returns, throttled or not. *)
LEMMA EndInv == ASSUME RateInv, NEW c \in Callers, End(c) PROVE RateInv'
<1>1. /\ call[c] = "calling" /\ left[c] \in 1 .. Calls
      /\ call' = [call EXCEPT ![c] = "away"] /\ left' = [left EXCEPT ![c] = @ - 1]
      /\ UNCHANGED <<waited, high_waiters>>
  BY Constants DEF RateInv, PerCaller, Pending, End, Return, Throttled, clock
<1>2. Scalars'
  <2>1. CASE Return(c)
    BY <2>1 DEF RateInv, Scalars, Return, clock, FillTime
  <2>2. CASE Throttled(c)
    <3>1. rate - StepDown \in Int
      BY Constants DEF RateInv, Scalars
    <3>2. rate' \in Floor .. Ceil
      BY <2>2, <3>1, ClampIs DEF RateInv, Scalars, Throttled
    <3> QED
      BY <2>2, <3>2, Constants DEF RateInv, Scalars, Throttled, FillTime
  <2> QED
    BY <2>1, <2>2 DEF End
<1>3. PerCaller' /\ Pending'
  BY <1>1, Constants DEF RateInv, PerCaller, Pending, Callers
<1>4. Waiting' = Waiting
  BY <1>1 DEF RateInv, PerCaller, Waiting
<1> QED
  BY <1>1, <1>2, <1>3, <1>4 DEF RateInv

LEMMA RateStepInv == RateInv /\ [RateNext]_rateVars => RateInv'
<1> SUFFICES ASSUME RateInv, [RateNext]_rateVars PROVE RateInv'
  OBVIOUS
<1>1. CASE Tick
  BY <1>1, TickInv
<1>2. ASSUME NEW c \in Callers, Acquire(c) PROVE RateInv'
  BY <1>2, DeferInv, TakeInv, MissInv, TimedOutInv DEF Acquire
<1>3. ASSUME NEW c \in Callers, End(c) PROVE RateInv'
  BY <1>3, EndInv
<1>4. CASE UNCHANGED rateVars
  BY <1>4 DEF RateInv, Scalars, PerCaller, Pending, Waiting, rateVars, clock, FillTime
<1> QED
  BY <1>1, <1>2, <1>3, <1>4 DEF RateNext
-----------------------------------------------------------------------------
(* The credit does not grow but with time, by at most Ceil per millisecond. *)
LEMMA CreditInit == RateInit => WatchType /\ Credit
<1> SUFFICES ASSUME RateInit PROVE WatchType /\ Credit
  OBVIOUS
<1>1. Scalars
  BY RateInitInv DEF RateInv
<1>2. watch = [ms |-> 0, issued |-> 0, from |-> rate]
  BY DEF RateInit, Restart
<1> QED
  BY <1>1, <1>2, RefilledType, Constants DEF WatchType, Credit, Scalars

LEMMA CreditRestart ==
  ASSUME RateInv, Tick, watch' = Restart
  PROVE  WatchType' /\ Credit'
<1>1. refilled' \in Nat /\ rate \in Nat /\ rate' = rate /\ tokens \in Nat /\ tokens' = tokens
  BY TickInv, FillTimeType, Constants DEF RateInv, Scalars, Tick, FillTime
<1>2. refilled' * rate \in Nat
  BY <1>1, ProductType
<1>3. Refilled' <= MaxBurst /\ Refilled' \in Int
  <2>1. Refilled' = AtMost(tokens + refilled' * rate, MaxBurst)
    BY <1>1 DEF Refilled, AtMost
  <2>2. tokens + refilled' * rate \in Int
    BY <1>1, <1>2
  <2> QED
    BY <2>1, <2>2, Constants, AtMostIs
<1>4. watch' = [ms |-> 0, issued |-> 0, from |-> rate]
  BY DEF Restart
<1>5. watch'.issued * Token = 0 /\ Ceil * watch'.ms = 0 /\ WatchType'
  BY <1>1, <1>4, Constants DEF WatchType
<1> QED
  BY <1>3, <1>5, Constants DEF Credit

LEMMA CreditTick ==
  ASSUME RateInv, WatchType, Credit, Tick, watch' = [watch EXCEPT !.ms = @ + 1]
  PROVE  WatchType' /\ Credit'
<1> DEFINE gained == refilled * rate
           later == refilled' * rate
           ms == watch.ms
           allowed == Ceil * ms
           issued == watch.issued * Token
<1>1. /\ refilled \in Nat /\ refilled' \in Nat /\ refilled' <= refilled + 1
      /\ rate \in Nat /\ rate <= Ceil /\ rate' = rate /\ tokens \in Nat /\ tokens' = tokens
  BY TickInv, FillTimeType, Constants, Ages DEF RateInv, Scalars, Tick, FillTime
<1>2. ms \in Nat /\ watch.issued \in Nat /\ issued \in Nat /\ allowed \in Nat
  BY Constants DEF WatchType
<1>3. gained \in Nat /\ later \in Nat /\ later <= gained + rate
  <2>1. rate * refilled' <= rate * (refilled + 1)
    BY <1>1, ProductGrows
  <2>2. rate * (refilled + 1) = gained + rate /\ rate * refilled' = later
    BY <1>1
  <2> QED
    BY <1>1, <2>1, <2>2
<1>4. Refilled = IF tokens + gained <= MaxBurst THEN tokens + gained ELSE MaxBurst
  BY RefilledType DEF RateInv
<1>5. Refilled' = IF tokens + later <= MaxBurst THEN tokens + later ELSE MaxBurst
  <2>1. Refilled' = AtMost(tokens + later, MaxBurst)
    BY <1>1 DEF Refilled, AtMost
  <2>2. tokens + later \in Int
    BY <1>1, <1>3
  <2> QED
    BY <2>1, <2>2, Constants, AtMostIs
<1>6. Ceil * (ms + 1) = allowed + Ceil
  BY <1>2, Constants
<1>7. watch'.issued = watch.issued /\ watch'.ms = ms + 1 /\ WatchType'
  BY <1>2 DEF WatchType
<1>8. issued + Refilled <= MaxBurst + allowed
  BY DEF Credit
<1> HIDE DEF gained, later, issued, allowed, ms
<1>9. issued + Refilled' <= MaxBurst + (allowed + Ceil)
  BY <1>1, <1>2, <1>3, <1>4, <1>5, <1>8, Constants
<1>10. issued + Refilled' <= MaxBurst + Ceil * (ms + 1)
  BY <1>6, <1>9
<1> QED
  BY <1>7, <1>10 DEF Credit, issued

(* A call let through costs a token of the credit. *)
LEMMA CreditTake ==
  ASSUME RateInv, WatchType, Credit, NEW c \in Callers, Take(c)
  PROVE  WatchType' /\ Credit'
<1> DEFINE issued == watch.issued * Token
           allowed == Ceil * watch.ms
<1>1. rate' \in Nat /\ tokens' = Refilled - Token /\ refilled' = 0
  BY TakeInv, Constants DEF RateInv, Scalars, Take, Refill
<1>2. Refilled \in 0 .. MaxBurst /\ Refilled >= Token
  BY RefilledType DEF RateInv, Take
<1>3. Refilled' = Refilled - Token
  <2>1. tokens' \in Int
    BY <1>1, <1>2, Constants
  <2>2. tokens' + refilled' * rate' = Refilled - Token
    BY <1>1, <2>1, NothingGained, Zenon
  <2>3. Refilled' = AtMost(Refilled - Token, MaxBurst)
    BY <2>2 DEF Refilled, AtMost
  <2> QED
    BY <1>2, <2>3, Constants, AtMostIs
<1>4. watch.issued \in Nat /\ watch.ms \in Nat /\ issued \in Nat /\ allowed \in Nat
  BY Constants DEF WatchType
<1>5. watch'.issued = watch.issued + 1 /\ watch'.ms = watch.ms /\ WatchType'
  BY <1>4 DEF WatchType, Take
<1>6. watch'.issued * Token = issued + Token
  BY <1>4, <1>5, Constants
<1>7. issued + Refilled <= MaxBurst + allowed
  BY DEF Credit
<1> HIDE DEF issued, allowed
<1>8. (issued + Token) + (Refilled - Token) <= MaxBurst + allowed
  BY <1>2, <1>4, <1>7, Constants
<1> QED
  BY <1>3, <1>5, <1>6, <1>8 DEF Credit, allowed

LEMMA CreditMiss ==
  ASSUME RateInv, WatchType, Credit, NEW c \in Callers, Miss(c)
  PROVE  WatchType' /\ Credit'
<1>1. rate' \in Nat /\ tokens' = Refilled /\ refilled' = 0 /\ watch' = watch
  <2>1. rate' \in Nat
    BY MissInv, Constants DEF RateInv, Scalars
  <2> QED
    BY <2>1 DEF Miss, Refill
<1>2. Refilled \in 0 .. MaxBurst
  BY RefilledType DEF RateInv
<1>3. Refilled' = Refilled
  <2>1. tokens' \in Int
    BY <1>1, <1>2, Constants
  <2>2. tokens' + refilled' * rate' = Refilled
    BY <1>1, <2>1, NothingGained, Zenon
  <2>3. Refilled' = AtMost(Refilled, MaxBurst)
    BY <2>2 DEF Refilled, AtMost
  <2> QED
    BY <1>2, <2>3, Constants, AtMostIs
<1> QED
  BY <1>1, <1>3 DEF WatchType, Credit

(* A throttle lowers the rate, also of the time not yet refilled. *)
LEMMA CreditThrottled ==
  ASSUME RateInv, WatchType, Credit, NEW c \in Callers, Throttled(c)
  PROVE  WatchType' /\ Credit'
<1> DEFINE gained == refilled * rate
           lowered == refilled * rate'
<1>1. /\ refilled \in Nat /\ refilled' = refilled /\ tokens \in Nat /\ tokens' = tokens
      /\ rate \in Nat /\ watch' = watch
  BY FillTimeType, Constants DEF RateInv, Scalars, Throttled
<1>2. rate' \in Nat /\ rate' <= rate
  <2>1. rate - StepDown \in Int /\ rate - StepDown <= Ceil /\ rate - StepDown <= rate /\ Floor <= rate
    BY Constants DEF RateInv, Scalars
  <2>2. Clamp(rate - StepDown) \in Floor .. Ceil /\ Clamp(rate - StepDown) <= rate
    BY <2>1, ClampIs, Constants
  <2> QED
    BY <1>1, <2>2, Constants DEF Throttled
<1>3. gained \in Nat /\ lowered \in Nat /\ lowered <= gained
  BY <1>1, <1>2, ProductGrows, ProductType
<1>4. Refilled = IF tokens + gained <= MaxBurst THEN tokens + gained ELSE MaxBurst
  BY RefilledType DEF RateInv
<1>5. Refilled' = IF tokens + lowered <= MaxBurst THEN tokens + lowered ELSE MaxBurst
  <2>1. Refilled' = AtMost(tokens + lowered, MaxBurst)
    BY <1>1 DEF Refilled, AtMost
  <2>2. tokens + lowered \in Int
    BY <1>1, <1>3
  <2> QED
    BY <2>1, <2>2, Constants, AtMostIs
<1> HIDE DEF gained, lowered
<1>6. Refilled' <= Refilled /\ Refilled' \in Int /\ Refilled \in Int
  BY <1>1, <1>3, <1>4, <1>5, Constants
<1>7. watch.issued * Token \in Nat /\ Ceil * watch.ms \in Nat
  BY Constants DEF WatchType
<1> QED
  BY <1>1, <1>6, <1>7, Constants DEF WatchType, Credit

LEMMA CreditStep == RateInv /\ WatchType /\ Credit /\ [RateNext]_rateVars => WatchType' /\ Credit'
<1> SUFFICES ASSUME RateInv, WatchType, Credit, [RateNext]_rateVars PROVE WatchType' /\ Credit'
  OBVIOUS
<1>1. CASE Tick
  BY <1>1, CreditRestart, CreditTick DEF Tick
<1>2. ASSUME NEW c \in Callers, Acquire(c) PROVE WatchType' /\ Credit'
  <2>1. CASE Take(c)
    BY <2>1, CreditTake
  <2>2. CASE Miss(c)
    BY <2>2, CreditMiss
  <2>3. CASE Defer(c) \/ TimedOut(c)
    BY <2>3 DEF Defer, TimedOut, WatchType, Credit, Refilled, AtMost, clock
  <2> QED
    BY <1>2, <2>1, <2>2, <2>3 DEF Acquire
<1>3. ASSUME NEW c \in Callers, End(c) PROVE WatchType' /\ Credit'
  <2>1. CASE Return(c)
    BY <2>1 DEF Return, WatchType, Credit, Refilled, AtMost, clock
  <2>2. CASE Throttled(c)
    BY <2>2, CreditThrottled
  <2> QED
    BY <1>3, <2>1, <2>2 DEF End
<1>4. CASE UNCHANGED rateVars
  BY <1>4 DEF WatchType, Credit, Refilled, AtMost, rateVars, clock
<1> QED
  BY <1>1, <1>2, <1>3, <1>4 DEF RateNext
-----------------------------------------------------------------------------
(* Steps that are a window apart. *)
(* Whole windows in a time. *)
LEMMA Quotient ==
  ASSUME NEW ms \in Nat, NEW window \in Nat \ {0}
  PROVE  ms \div window \in Nat /\ ms < window * (ms \div window + 1)
  OBVIOUS

(* The number of steps in a time is bounded. *)
LEMMA StepsBound ==
  ASSUME NEW moved \in Int, NEW step \in Nat, NEW window \in Nat \ {0}, NEW since \in Nat, NEW ms \in Nat,
         Steps(moved, step, window, since, ms)
  PROVE  moved <= step * (1 + ms \div window)
<1> DEFINE q == ms \div window
<1>1. PICK k \in Nat : moved <= step * k /\ (k = 0 \/ (k - 1) * window + since <= ms)
  BY DEF Steps
<1>2. q \in Nat /\ ms < window * (q + 1)
  BY Quotient
<1>3. k <= 1 + q
  <2>1. CASE k = 0
    BY <1>2, <2>1
  <2>2. CASE k # 0 /\ k > 1 + q
    <3> DEFINE j == k - 1
    <3>1. j \in Nat /\ q + 1 <= j
      BY <2>2, <1>2
    <3>2. window * (q + 1) <= window * j
      BY <3>1, <1>2, ProductGrows
    <3>3. window * j = j * window /\ j * window \in Nat
      BY <3>1
    <3>4. j * window + since <= ms
      BY <1>1, <2>2
    <3> HIDE DEF j
    <3> QED
      BY <1>2, <3>2, <3>3, <3>4
  <2> QED
    BY <2>1, <2>2, <1>2
<1>4. step * k <= step * (1 + q)
  BY <1>2, <1>3, ProductGrows
<1>5. step * k \in Nat /\ step * (1 + q) \in Nat
  BY <1>2
<1> QED
  BY <1>1, <1>4, <1>5

(* Time passes. *)
LEMMA StepsLater ==
  ASSUME NEW moved \in Int, NEW step \in Nat, NEW window \in Nat \ {0}, NEW since \in Nat, NEW ms \in Nat,
         Steps(moved, step, window, since, ms),
         NEW since2 \in Nat, since2 <= since + 1
  PROVE  Steps(moved, step, window, since2, ms + 1)
<1>1. PICK k \in Nat : moved <= step * k /\ (k = 0 \/ (k - 1) * window + since <= ms)
  BY DEF Steps
<1>2. (k - 1) * window \in Int
  OBVIOUS
<1>3. k = 0 \/ (k - 1) * window + since2 <= ms + 1
  <2> DEFINE p == (k - 1) * window
  <2>1. p \in Int /\ (k = 0 \/ p + since <= ms)
    BY <1>1, <1>2
  <2> HIDE DEF p
  <2>2. k = 0 \/ p + since2 <= ms + 1
    BY <2>1
  <2> QED
    BY <2>2 DEF p
<1> QED
  BY <1>1, <1>3 DEF Steps

(* A step, at least a window after the one before. *)
LEMMA StepsMore ==
  ASSUME NEW moved \in Int, NEW step \in Nat, NEW window \in Nat \ {0}, NEW since \in Nat, NEW ms \in Nat,
         Steps(moved, step, window, since, ms), since >= window,
         NEW moved2 \in Int, moved2 <= moved + step
  PROVE  Steps(moved2, step, window, 0, ms)
<1>1. PICK k \in Nat : moved <= step * k /\ (k = 0 \/ (k - 1) * window + since <= ms)
  BY DEF Steps
<1>2. step * (k + 1) = step * k + step /\ step * k \in Nat
  OBVIOUS
<1>3. moved2 <= step * (k + 1)
  <2> DEFINE p == step * k
  <2>1. moved <= p /\ p \in Nat
    BY <1>1, <1>2
  <2> HIDE DEF p
  <2>2. moved2 <= p + step
    BY <2>1
  <2> QED
    BY <1>2, <2>2 DEF p
<1>4. (k + 1 - 1) * window + 0 <= ms
  <2>1. CASE k = 0
    BY <2>1
  <2>2. CASE k # 0
    <3> DEFINE p == (k - 1) * window
    <3>1. p \in Nat /\ p + since <= ms
      BY <1>1, <2>2
    <3>2. (k + 1 - 1) * window + 0 = p + window
      OBVIOUS
    <3> HIDE DEF p
    <3>3. p + window <= ms
      BY <3>1
    <3> QED
      BY <3>2, <3>3
  <2> QED
    BY <2>1, <2>2
<1>5. \E j \in Nat : moved2 <= step * j /\ (j = 0 \/ (j - 1) * window + 0 <= ms)
  <2> WITNESS k + 1 \in Nat
  <2> QED
    BY <1>3, <1>4
<1> QED
  BY <1>5 DEF Steps

(* A move the other way. *)
LEMMA StepsLess ==
  ASSUME NEW moved \in Int, NEW step \in Nat, NEW window \in Nat \ {0}, NEW since \in Nat, NEW ms \in Nat,
         Steps(moved, step, window, since, ms),
         NEW moved2 \in Int, moved2 <= moved, NEW since2 \in Nat, since2 <= since
  PROVE  Steps(moved2, step, window, since2, ms)
<1>1. PICK k \in Nat : moved <= step * k /\ (k = 0 \/ (k - 1) * window + since <= ms)
  BY DEF Steps
<1> DEFINE p == (k - 1) * window
           s == step * k
<1>2. p \in Int /\ s \in Nat /\ moved <= s /\ (k = 0 \/ p + since <= ms)
  BY <1>1
<1> HIDE DEF p, s
<1>3. moved2 <= s /\ (k = 0 \/ p + since2 <= ms)
  BY <1>2
<1> QED
  BY <1>3 DEF Steps, p, s

(* No step yet. *)
LEMMA StepsNone ==
  ASSUME NEW step \in Nat, NEW window, NEW since, NEW ms
  PROVE  Steps(0, step, window, since, ms)
<1>1. 0 <= step * 0
  OBVIOUS
<1> QED
  BY <1>1 DEF Steps

(* The rate and its steps. *)
LEMMA RateMoves ==
  ASSUME RateInv, WatchType
  PROVE  /\ rate \in Int /\ sinceDown \in Nat /\ sinceUp \in Nat /\ watch.ms \in Nat
         /\ watch.from - rate \in Int /\ rate - watch.from \in Int
  BY Constants DEF RateInv, Scalars, WatchType

LEMMA GlideInit == RateInit => Glide
<1> SUFFICES ASSUME RateInit PROVE Glide
  OBVIOUS
<1>1. watch.from - rate = 0 /\ rate - watch.from = 0
  BY Constants DEF RateInit, Restart
<1> QED
  BY <1>1, StepsNone, Constants DEF Glide

LEMMA GlideTick == ASSUME RateInv, WatchType, Glide, Tick PROVE Glide'
<1>1. rate' = rate /\ sinceDown' \in Nat /\ sinceUp' \in Nat
  BY TickInv, Constants DEF RateInv, Scalars, Tick
<1>2. CASE watch' = Restart
  <2>1. watch'.from - rate' = 0 /\ rate' - watch'.from = 0
    BY <1>1, <1>2, RateMoves DEF Restart
  <2> QED
    BY <2>1, StepsNone, Constants DEF Glide
<1>3. CASE watch' = [watch EXCEPT !.ms = @ + 1]
  <2>1. watch'.from = watch.from /\ watch'.ms = watch.ms + 1
    BY <1>3 DEF WatchType
  <2>2. sinceDown' <= sinceDown + 1 /\ sinceUp' <= sinceUp + 1
    BY Ages, Constants DEF RateInv, Scalars, Tick
  <2>3. Steps(watch.from - rate, StepDown, DownWindow, sinceDown', watch.ms + 1)
    BY <1>1, <2>2, RateMoves, StepsLater, Constants DEF Glide
  <2>4. Steps(rate - watch.from, StepUp, RecoverInterval, sinceUp', watch.ms + 1)
    BY <1>1, <2>2, RateMoves, StepsLater, Constants DEF Glide
  <2> QED
    BY <1>1, <2>1, <2>3, <2>4 DEF Glide
<1> QED
  BY <1>2, <1>3 DEF Tick

(* A refill raises the rate at most by a step, and only in quiet time. *)
LEMMA GlideRefill ==
  ASSUME RateInv, WatchType, Glide, Refill, sinceDown' = sinceDown, RateInv',
         watch'.ms = watch.ms, watch'.from = watch.from
  PROVE  Glide'
<1>1. /\ rate' \in Int /\ rate' >= rate /\ sinceUp' \in Nat
      /\ watch'.from - rate' \in Int /\ rate' - watch'.from \in Int
  <2>1. rate' \in Int /\ sinceUp' \in Nat
    BY Constants DEF RateInv, Scalars
  <2>2. rate' >= rate
    <3>1. rate + StepUp \in Int /\ rate <= rate + StepUp /\ Floor <= rate + StepUp /\ rate <= Ceil
      BY Constants DEF RateInv, Scalars
    <3>2. Clamp(rate + StepUp) >= rate
      BY <3>1, ClampIs, Constants
    <3>3. rate' = Clamp(rate + StepUp) \/ rate' = rate
      BY DEF Refill
    <3> QED
      BY <3>2, <3>3, RateMoves
  <2> QED
    BY <2>1, <2>2, RateMoves DEF WatchType
<1>2. Steps(watch.from - rate', StepDown, DownWindow, sinceDown, watch.ms)
  <2>1. watch.from - rate' <= watch.from - rate
    BY <1>1, RateMoves DEF WatchType
  <2>2. Steps(watch.from - rate, StepDown, DownWindow, sinceDown, watch.ms) /\ sinceDown <= sinceDown
    BY RateMoves DEF Glide
  <2> QED
    BY <1>1, <2>1, <2>2, RateMoves, StepsLess, Constants
<1>3. Steps(rate' - watch.from, StepUp, RecoverInterval, sinceUp', watch.ms)
  <2>1. CASE Quiet
    <3>1. rate' <= rate + StepUp
      <4>1. rate + StepUp \in Int /\ rate + StepUp >= Floor
        BY Constants DEF RateInv, Scalars
      <4>2. Clamp(rate + StepUp) <= rate + StepUp
        BY <4>1, ClampIs, Constants
      <4> QED
        BY <2>1, <4>2, RateMoves, Constants DEF Refill
    <3>2. rate' - watch.from <= (rate - watch.from) + StepUp
      BY <1>1, <3>1, RateMoves, Constants DEF WatchType
    <3>3. sinceUp >= RecoverInterval /\ sinceUp' = 0
      BY <2>1 DEF Quiet, Refill
    <3> QED
      BY <1>1, <3>2, <3>3, RateMoves, StepsMore, Constants DEF Glide
  <2>2. CASE ~Quiet
    BY <2>2 DEF Glide, Refill
  <2> QED
    BY <2>1, <2>2
<1> QED
  BY <1>2, <1>3 DEF Glide

(* A throttle lowers the rate at most by a step, once per window. *)
LEMMA GlideThrottled ==
  ASSUME RateInv, WatchType, Glide, NEW c \in Callers, Throttled(c)
  PROVE  Glide'
<1>1. watch' = watch /\ sinceUp' = sinceUp
  BY DEF Throttled
<1>2. CASE ~StepDue
  BY <1>1, <1>2 DEF Glide, Throttled
<1>3. CASE StepDue
  <2>1. rate' = Clamp(rate - StepDown) /\ sinceDown' = 0 /\ sinceDown >= DownWindow
    BY <1>3 DEF Throttled, StepDue
  <2>2. rate' \in Int /\ rate' <= rate /\ rate - StepDown <= rate'
    <3>1. rate - StepDown \in Int /\ rate - StepDown <= Ceil /\ rate - StepDown <= rate /\ Floor <= rate
      BY Constants DEF RateInv, Scalars
    <3> QED
      BY <2>1, <3>1, ClampIs, Constants
  <2>3. /\ watch.from - rate' \in Int /\ watch.from - rate' <= (watch.from - rate) + StepDown
        /\ rate' - watch.from \in Int /\ rate' - watch.from <= rate - watch.from
    BY <2>2, RateMoves, Constants DEF WatchType
  <2>4. Steps(watch.from - rate', StepDown, DownWindow, 0, watch.ms)
    BY <2>1, <2>3, RateMoves, StepsMore, Constants DEF Glide
  <2>5. Steps(rate' - watch.from, StepUp, RecoverInterval, sinceUp, watch.ms)
    BY <2>3, RateMoves, StepsLess, Constants DEF Glide
  <2> QED
    BY <1>1, <2>1, <2>4, <2>5 DEF Glide
<1> QED
  BY <1>2, <1>3

LEMMA GlideStep == RateInv /\ WatchType /\ Glide /\ [RateNext]_rateVars => Glide'
<1> SUFFICES ASSUME RateInv, WatchType, Glide, [RateNext]_rateVars PROVE Glide'
  OBVIOUS
<1>1. CASE Tick
  BY <1>1, GlideTick
<1>2. ASSUME NEW c \in Callers, Acquire(c) PROVE Glide'
  <2>1. CASE Take(c)
    <3>1. watch'.ms = watch.ms /\ watch'.from = watch.from /\ sinceDown' = sinceDown /\ Refill
      BY <2>1 DEF Take, WatchType
    <3> QED
      BY <2>1, <3>1, TakeInv, GlideRefill
  <2>2. CASE Miss(c)
    <3>1. watch' = watch /\ sinceDown' = sinceDown /\ Refill
      BY <2>2 DEF Miss
    <3> QED
      BY <2>2, <3>1, MissInv, GlideRefill
  <2>3. CASE Defer(c) \/ TimedOut(c)
    BY <2>3 DEF Defer, TimedOut, Glide, clock
  <2> QED
    BY <1>2, <2>1, <2>2, <2>3 DEF Acquire
<1>3. ASSUME NEW c \in Callers, End(c) PROVE Glide'
  <2>1. CASE Return(c)
    BY <2>1 DEF Return, Glide, clock
  <2>2. CASE Throttled(c)
    BY <2>2, GlideThrottled
  <2> QED
    BY <1>3, <2>1, <2>2 DEF End
<1>4. CASE UNCHANGED rateVars
  BY <1>4 DEF Glide, rateVars, clock
<1> QED
  BY <1>1, <1>2, <1>3, <1>4 DEF RateNext
-----------------------------------------------------------------------------
(* Ranges, and the count of waiting High callers, which acquire keeps by     *)
(* hand on every path and which Low callers trust.                           *)
THEOREM GovernorTypeOK == RateSpec => []RateTypeOK
<1>1. RateInv => RateTypeOK
  BY DEF RateInv, Scalars, PerCaller, Waiting, RateTypeOK
<1> QED
  BY <1>1, RateInitInv, RateStepInv, PTL DEF RateSpec

(* The calls that the governor lets through in any interval: a burst and the *)
(* ceiling, whatever the throttles, the recoveries and the idle time before. *)
THEOREM RateIssueBounded == RateSpec => []IssueBounded
<1>1. RateInv /\ WatchType /\ Credit => IssueBounded
  <2> SUFFICES ASSUME RateInv, WatchType, Credit PROVE IssueBounded
    OBVIOUS
  <2>1. Refilled \in Nat
    BY RefilledType DEF RateInv
  <2>2. watch.issued * Token \in Nat /\ Ceil * watch.ms \in Nat
    BY Constants DEF WatchType
  <2> QED
    BY <2>1, <2>2, Constants DEF Credit, IssueBounded
<1> QED
  BY <1>1, RateInitInv, RateStepInv, CreditInit, CreditStep, PTL DEF RateSpec

(* Between any two instants the rate falls at most by a step per throttle    *)
(* window and one more, and rises likewise, however many callers report      *)
(* throttles at the same time.                                               *)
THEOREM RateOnlyGlides == RateSpec => []RateGlides
<1>1. RateInv /\ WatchType /\ Glide => RateGlides
  <2> SUFFICES ASSUME RateInv, WatchType, Glide PROVE RateGlides
    OBVIOUS
  <2>1. watch.from - rate <= StepDown * (1 + watch.ms \div DownWindow)
    BY RateMoves, StepsBound, Constants DEF Glide
  <2>2. rate - watch.from <= StepUp * (1 + watch.ms \div RecoverInterval)
    BY RateMoves, StepsBound, Constants DEF Glide
  <2> DEFINE down == StepDown * (1 + watch.ms \div DownWindow)
             up == StepUp * (1 + watch.ms \div RecoverInterval)
  <2>3. down \in Int /\ up \in Int
    BY RateMoves, Quotient, Constants
  <2> HIDE DEF down, up
  <2>4. rate >= watch.from - down /\ rate <= watch.from + up
    BY <2>1, <2>2, <2>3, RateMoves DEF WatchType, down, up
  <2> QED
    BY <2>4 DEF RateGlides, down, up
<1> QED
  BY <1>1, RateInitInv, RateStepInv, CreditInit, CreditStep, GlideInit, GlideStep, PTL DEF RateSpec
=============================================================================
