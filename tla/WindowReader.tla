---------------------------- MODULE WindowReader ----------------------------
(***************************************************************************)
(* S3ObjectReader of the control Lambda (s3_object_proxy.rs): Read + Seek  *)
(* over an object of S3, through a window of bytes in memory and a task    *)
(* that fetches the windows asked for, in order. The zip crate is the      *)
(* caller: it seeks and reads.                                             *)
(*                                                                         *)
(* A range is <<start, end>>, its end excluded, as in the source. A        *)
(* definition that stands next to one of the same shape and that no        *)
(* specification uses (AcceptedKept, ...) is a plausible bug in it.        *)
(***************************************************************************)
EXTENDS Integers, Sequences, FiniteSets, FiniteSetsExt, SequencesExt

CONSTANTS
  Size,        (* object_size                             *)
  MinWindow,   (* MIN_WINDOW_SIZE                         *)
  MaxWindow,   (* MAX_WINDOW_SIZE                         *)
  FetchErrors  (* a GetObject may fail                    *)

ASSUME ReaderAssumption ==
  /\ Size \in Nat \ {0} /\ MinWindow \in Nat \ {0} /\ MaxWindow \in Nat
  /\ MaxWindow >= MinWindow
  /\ FetchErrors \in BOOLEAN

VARIABLES
  pc,        (* the caller's thread: idle, loop, blocked or panicked       *)
  position,  (* the read cursor                                            *)
  current,   (* current_window, or NoWindow                                *)
  incoming,  (* incoming_windows                                           *)
  requests,  (* the channel of requests                                    *)
  fetching,  (* the range being fetched, NoWindow, or Dead                 *)
  windows    (* the channel of windows                                     *)

vars == <<pc, position, current, incoming, requests, fetching, windows>>

NoWindow == <<0, 0>>
Dead == <<-1, -1>>

Holds(range, p) == range[1] <= p /\ p < range[2]
CoversStart(a, b) == a[1] <= b[1]
Covers(a, b) == a[1] <= b[1] /\ a[2] >= b[2]

(* WindowRange::cmp, and the two neighbours that a query point has in the   *)
(* set. A range that starts earlier may be missed.                          *)
Below(a, b) == a[1] < b[1] \/ (a[1] = b[1] /\ a[2] < b[2])
Neighbours(S, range) ==
  LET below == {x \in S : Below(x, range)} IN
    {x \in below : \A y \in below : ~Below(x, y)}
      \cup {x \in S \ below : \A y \in S \ below : ~Below(y, x)}

PositionCovered(p) == \E x \in Neighbours(incoming, <<p, p + 1>>) : Holds(x, p)
RangeCovered(range) ==
  \/ current # NoWindow /\ Covers(current, range)
  \/ \E x \in Neighbours(incoming, range) : Covers(x, range)

(* Bytes that S3 returns for a range: one that ends beyond the object is    *)
(* cut at its end.                                                          *)
Held(range) == Min({range[2], Size}) - range[1]

Init ==
  /\ pc = "idle" /\ position = 0 /\ current = NoWindow
  /\ incoming = {} /\ requests = <<>> /\ fetching = NoWindow /\ windows = <<>>
-----------------------------------------------------------------------------
(* Asking for windows *)

Monus(a, b) == Max({a - b, 0})

Clamped(offset, size) ==
  IF offset + size > Size
  THEN IF Monus(Size, offset) >= MinWindow
       THEN <<offset, Size>>
       ELSE <<Monus(Size, MinWindow), Monus(Size, MinWindow) + MinWindow>>
  ELSE <<offset, offset + size>>

NextRange == Clamped(current[2], Min({MaxWindow, 2 * (current[2] - current[1])}))
PositionRange == Clamped(position, MinWindow)

(* The send fails, and the code panics, when the fetcher has ended.         *)
Ask(range, then) ==
  IF RangeCovered(range) THEN pc' = then /\ UNCHANGED <<incoming, requests>>
  ELSE /\ incoming' = incoming \cup {range}
       /\ requests' = Append(requests, range)
       /\ pc' = IF fetching = Dead THEN "panicked" ELSE then
-----------------------------------------------------------------------------
(* The caller *)

Seek ==
  /\ pc = "idle"
  /\ position' \in 0 .. Size
  /\ UNCHANGED <<pc, current, incoming, requests, fetching, windows>>

Read ==
  /\ pc = "idle"
  /\ pc' = "loop"
  /\ UNCHANGED <<position, current, incoming, requests, fetching, windows>>

(* The window has the position: ask for the next one and return its bytes,  *)
(* as many as the caller has room for.                                      *)
Hit ==
  /\ pc = "loop" /\ Holds(current, position)
  /\ Ask(NextRange, "idle")
  /\ LET there == current[1] + Held(current) - position IN
       \E n \in Min({1, there}) .. there : position' = position + n
  /\ UNCHANGED <<current, fetching, windows>>

Missed == pc \in {"loop", "blocked"} /\ ~Holds(current, position)

(* try_recv or recv: a window that misses the position is thrown away, and  *)
(* the current one too.                                                     *)
AcceptedKept(window) ==
  /\ UNCHANGED incoming
  /\ current' = IF Holds(window, position) THEN window ELSE NoWindow
Accepted(window) ==
  /\ incoming' = incoming \ {window}
  /\ current' = IF Holds(window, position) THEN window ELSE NoWindow

Receive ==
  /\ Missed /\ windows # <<>>
  /\ Accepted(Head(windows))
  /\ windows' = Tail(windows) /\ pc' = "loop"
  /\ UNCHANGED <<position, requests, fetching>>

(* No window is ready: ask for one, unless one in flight has the position,  *)
(* and wait.                                                                *)
Wait ==
  /\ Missed /\ pc = "loop" /\ windows = <<>> /\ fetching # Dead
  /\ IF PositionCovered(position)
     THEN pc' = "blocked" /\ UNCHANGED <<incoming, requests>>
     ELSE Ask(PositionRange, "blocked")
  /\ UNCHANGED <<position, current, fetching, windows>>

Disconnected ==
  /\ Missed /\ windows = <<>> /\ fetching = Dead
  /\ pc' = "panicked"
  /\ UNCHANGED <<position, current, incoming, requests, fetching, windows>>
-----------------------------------------------------------------------------
(* The fetcher task *)

Fetch ==
  /\ fetching = NoWindow /\ requests # <<>>
  /\ fetching' = Head(requests) /\ requests' = Tail(requests)
  /\ UNCHANGED <<pc, position, current, incoming, windows>>

Fetched ==
  /\ fetching \notin {NoWindow, Dead}
  /\ \/ windows' = Append(windows, fetching) /\ fetching' = NoWindow
     \/ FetchErrors /\ fetching' = Dead /\ UNCHANGED windows
  /\ UNCHANGED <<pc, position, current, incoming, requests>>
-----------------------------------------------------------------------------
ReadStep == Hit \/ Receive \/ Wait \/ Disconnected
FetchStep == Fetch \/ Fetched

Next == Seek \/ Read \/ ReadStep \/ FetchStep

(* The thread runs and GetObject returns. *)
Fairness == WF_vars(ReadStep) /\ WF_vars(FetchStep)

Spec == Init /\ [][Next]_vars /\ Fairness
-----------------------------------------------------------------------------
(* Properties *)

Ranges == {r \in (0 .. Size) \X (1 .. Max({Size, MinWindow})) : r[1] < r[2]}
Fetching == IF fetching \in {NoWindow, Dead} THEN <<>> ELSE <<fetching>>
InFlight == windows \o Fetching \o requests       (* the oldest first *)

TypeOK ==
  /\ pc \in {"idle", "loop", "blocked", "panicked"}
  /\ position \in 0 .. Size
  /\ current \in Ranges \cup {NoWindow}
  /\ incoming \subseteq Ranges /\ requests \in Seq(Ranges) /\ windows \in Seq(Ranges)
  /\ fetching \in Ranges \cup {NoWindow, Dead}

(* The set that decides what is asked for tells what is in flight, once:     *)
(* else bytes are fetched twice or a wait has nothing to wait for. No range  *)
(* in flight is empty or one that S3 would refuse. And however the caller    *)
(* seeks, two windows at most are in flight besides the current one: the     *)
(* memory of the Lambda.                                                     *)
InFlightExact ==
  /\ TypeOK
  /\ fetching # Dead => ToSet(InFlight) = incoming /\ Len(InFlight) = Cardinality(incoming)
  /\ Len(InFlight) <= 2

(* A read within the object returns, or panics when a fetch has failed. (At  *)
(* the end of the object it does not: no window holds that position, and the *)
(* reader throws away the last one for ever or waits for none at all.)       *)
ReadReturns == (pc # "idle" /\ position < Size) ~> (pc \in {"idle", "panicked"})

=============================================================================
