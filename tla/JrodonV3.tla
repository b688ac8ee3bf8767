------------------------------ MODULE JrodonV3 ------------------------------
(***************************************************************************)
(* One invocation of the jrodon-v3 contender once the layout is planned:   *)
(* the part executor runs jobs under a memory budget, each entry sends its *)
(* central directory header to the job that writes the directory, and, in  *)
(* v3 mode, jobs made of entries only are delegated in batches to worker   *)
(* Lambdas (lambda_executor.rs). Without FanOut (FORCE_V2_MODE is set, or  *)
(* the program is jrodon-v2) every job is local: that is also the          *)
(* execute_local that a worker Lambda runs on its batch.                   *)
(*                                                                         *)
(* An invocation of a worker Lambda is one step: it uploads the parts of   *)
(* its batch and answers with them and their headers, or fails.            *)
(*                                                                         *)
(* A definition that stands next to one of the same shape and that no      *)
(* specification uses (MaySpawnAny, NextLast, ...) is a plausible bug in   *)
(* it.                                                                     *)
(***************************************************************************)
EXTENDS Integers, Sequences, FiniteSets, Functions

CONSTANTS
  Jobs,         (* the PartJobs, by part number: [kind, entries, cost]     *)
  WorkerCount,  (* MAX_LAMBDA_WORKERS                                      *)
  ChunkMax,     (* LAMBDA_WORKER_PART_JOB_MAX_CHUNK_SIZE                   *)
  MaxMemory,    (* MAX_PART_JOB_TASKS_MEMORY                               *)
  EntryErrors,  (* entries that may fail to resolve                        *)
  PartErrors,   (* local parts whose upload or copy may fail               *)
  WorkerErrors  (* an invocation of a worker may fail                      *)

JobIds == 1 .. Len(Jobs)
DirectoryJob == Len(Jobs)      (* finalize puts the directory in the last job *)
Entries == UNION {Jobs[j].entries : j \in JobIds}
JobOf(e) == CHOOSE j \in JobIds : e \in Jobs[j].entries

(* No job costs more than the budget: its acquire_many_owned would wait for *)
(* ever (PartJobs shows that the builder can produce such a job). An upload  *)
(* holds at least one entry, the header of a copied file if nothing else,    *)
(* or the directory; a copy holds none; no entry is in two jobs.             *)
ASSUME ExecutorAssumption ==
  /\ Jobs # <<>> /\ Jobs[DirectoryJob].kind = "upload"
  /\ Jobs \in Seq([kind : {"upload", "copy"}, entries : SUBSET Entries, cost : 1 .. MaxMemory])
  /\ IsFiniteSet(Entries)
  /\ \A j \in JobIds : Jobs[j].kind = "upload" /\ j # DirectoryJob => Jobs[j].entries # {}
  /\ \A j \in JobIds : Jobs[j].kind = "copy" => Jobs[j].entries = {}
  /\ \A j, k \in JobIds : j # k => Jobs[j].entries \cap Jobs[k].entries = {}
  /\ WorkerErrors \in BOOLEAN
  /\ WorkerCount \in Nat \ {0} /\ ChunkMax \in Nat \ {0} /\ MaxMemory \in Nat
  /\ EntryErrors \subseteq Entries /\ PartErrors \subseteq JobIds

VARIABLES
  handler,    (* plan, execute, complete, or its answer                     *)
  permits,    (* of the memory semaphore                                    *)
  job,        (* job, if local -> todo, running, ok, failed                 *)
  entry,      (* entry, if local -> todo, body, written, failed             *)
  headers,    (* entries whose header was sent to the directory's channel   *)
  directory,  (* those it has received                                      *)
  cd,         (* the directory element: "recv", or "written"                *)
  delegated,  (* the delegating future of execute_with_lambda_subworkers    *)
  cmds,       (* its channel to the dispatch task, of capacity 1            *)
  dispatch,   (* the dispatch task                                          *)
  sending,    (* the number of the batch it sends next                      *)
  join,       (* the worker it is joining                                   *)
  worker,     (* worker task, if any -> warming, idle, busy, ok, failed     *)
  inbox,      (* worker -> its job channel, of capacity 1                   *)
  closed,     (* worker -> the sender of that channel is dropped            *)
  batch,      (* worker -> the batch of the invocation in progress, or 0    *)
  reported    (* job -> how often its part was reported to wait_all         *)

localVars == <<permits, job, entry, directory, cd>>
workerVars == <<worker, inbox, batch, reported>>
dispatchVars == <<cmds, dispatch, sending, join, closed>>
vars == <<handler, localVars, headers, delegated, dispatchVars, workerVars>>

Workers == DOMAIN worker
FanOut == Workers # {}

(* partition: jobs made of entries only are delegated. *)
Delegable(j) == Jobs[j].kind = "upload" /\ j # DirectoryJob
Delegated(j) == FanOut /\ Delegable(j)
LocalJobs == {j \in JobIds : ~Delegated(j)}
DelegatedJobs == {j \in JobIds : Delegated(j)}
Delegating == DelegatedJobs # {}

LocalEntries == UNION {Jobs[j].entries : j \in LocalJobs}

Executing == handler = "execute"
WorkerEnded(w) == worker[w] \in {"ok", "failed"}
JobEnded(j) == job[j] \in {"ok", "failed"}

Init ==
  /\ handler = "plan"
  /\ permits = MaxMemory
  /\ job = [j \in JobIds |-> "todo"] /\ entry = [e \in Entries |-> "todo"]
  /\ headers = {} /\ directory = {} /\ cd = "recv"
  /\ delegated = "plan" /\ cmds = <<>>
  /\ worker \in {[w \in 1 .. WorkerCount |-> "warming"], <<>>}
  /\ dispatch = IF FanOut THEN "context" ELSE "ok"
  /\ sending = 1 /\ join = 1
  /\ inbox = [w \in Workers |-> <<>>]
  /\ closed = [w \in Workers |-> FALSE] /\ batch = [w \in Workers |-> 0]
  /\ reported = [j \in JobIds |-> 0]
-----------------------------------------------------------------------------
(* The handler *)

(* Listing, planning and opening the upload; the executor is created before. *)
(* "refused" is an error answered here, "error" one answered later.          *)
Plan ==
  /\ handler = "plan"
  /\ \/ /\ handler' = "execute"
        /\ delegated' = IF Delegating THEN "context" ELSE "ok"
     \/ handler' = "refused" /\ delegated' = "dropped"
  /\ UNCHANGED <<localVars, headers, dispatchVars, workerVars>>

(* try_join: a failure of the delegating future aborts the local tasks; one  *)
(* of the local future is known when all local jobs have ended.              *)
LocalEnded == \A j \in LocalJobs : JobEnded(j)
LocalFailed == \E j \in LocalJobs : job[j] = "failed"

Joined ==
  /\ Executing
  /\ \/ delegated = "failed" /\ handler' = "error"
     \/ LocalEnded /\ LocalFailed /\ handler' = "error"
     \/ LocalEnded /\ ~LocalFailed /\ delegated = "ok" /\ handler' = "complete"
  /\ UNCHANGED <<localVars, headers, delegated, dispatchVars, workerVars>>

Complete ==
  /\ handler = "complete" /\ handler' \in {"ok", "error"}
  /\ UNCHANGED <<localVars, headers, delegated, dispatchVars, workerVars>>
-----------------------------------------------------------------------------
(* Local execution of the jobs *)

(* In the order of the jobs; the loop waits for the permits of the next one. *)
Todo == {j \in LocalJobs : job[j] = "todo"}
NextLast(j) == \A k \in Todo : k <= j
NextIs(j) == \A k \in Todo : j <= k

MaySpawnAny(j) == TRUE
MaySpawn(j) == Jobs[j].cost <= permits

Spawn(j) ==
  /\ Executing /\ j \in Todo /\ NextIs(j) /\ MaySpawn(j)
  /\ permits' = permits - Jobs[j].cost
  /\ job' = [job EXCEPT ![j] = "running"]
  /\ UNCHANGED <<handler, entry, headers, directory, cd, delegated, dispatchVars, workerVars>>

(* The permits are dropped with the task, whatever its result. *)
EndKeepsPermits(j, result) ==
  /\ job' = [job EXCEPT ![j] = result]
  /\ permits' = IF result = "ok" THEN permits + Jobs[j].cost ELSE permits
End(j, result) ==
  /\ job' = [job EXCEPT ![j] = result]
  /\ permits' = permits + Jobs[j].cost

(* UploadPartCopy *)
CopyEnds(j) ==
  /\ Executing /\ job[j] = "running" /\ Jobs[j].kind = "copy"
  /\ End(j, "ok") \/ (j \in PartErrors /\ End(j, "failed"))
  /\ UNCHANGED <<handler, entry, headers, directory, cd, delegated,
                 dispatchVars, workerVars>>

(* UploadPart, when all elements have been resolved; not if one has failed.  *)
Resolved(j) ==
  /\ \A e \in Jobs[j].entries : entry[e] \in {"written", "failed"}
  /\ j = DirectoryJob => cd = "written"

UploadEnds(j) ==
  /\ Executing /\ job[j] = "running" /\ Jobs[j].kind = "upload" /\ Resolved(j)
  /\ IF \E e \in Jobs[j].entries : entry[e] = "failed" THEN End(j, "failed")
     ELSE End(j, "ok") \/ (j \in PartErrors /\ End(j, "failed"))
  /\ UNCHANGED <<handler, entry, headers, directory, cd, delegated,
                 dispatchVars, workerVars>>

(* An entry knows its CRC from the headers of the response: it sends its     *)
(* directory header, then writes the body.                                   *)
EntryHeader(e) ==
  /\ Executing /\ job[JobOf(e)] = "running" /\ entry[e] = "todo"
  /\ entry' = [entry EXCEPT ![e] = "body"]
  /\ headers' = headers \cup {e}
  /\ UNCHANGED <<handler, permits, job, directory, cd, delegated,
                 dispatchVars, workerVars>>

EntryBody(e) ==
  /\ Executing /\ entry[e] = "body"
  /\ entry' = [entry EXCEPT ![e] = "written"]
  /\ UNCHANGED <<handler, permits, job, headers, directory, cd, delegated,
                 dispatchVars, workerVars>>

EntryFails(e) ==
  /\ Executing /\ job[JobOf(e)] = "running" /\ entry[e] \in {"todo", "body"}
  /\ e \in EntryErrors
  /\ entry' = [entry EXCEPT ![e] = "failed"]
  /\ UNCHANGED <<handler, permits, job, headers, directory, cd, delegated,
                 dispatchVars, workerVars>>

(* The directory element receives headers, in any order, until it has one    *)
(* per record or every sender is dropped: those of the local entries and the *)
(* one the delegating future keeps.                                          *)
DirectoryFull == Cardinality(directory) = Cardinality(Entries) /\ directory # {}

SendersDroppedLocally == \A e \in LocalEntries : entry[e] \in {"written", "failed"}
SendersDropped ==
  /\ \A e \in LocalEntries : entry[e] \in {"written", "failed"}
  /\ delegated \in {"ok", "failed"}

DirectoryRecv(e) ==
  /\ Executing /\ job[DirectoryJob] = "running" /\ cd = "recv" /\ ~DirectoryFull
  /\ e \in headers \ directory
  /\ directory' = directory \cup {e}
  /\ UNCHANGED <<handler, permits, job, entry, cd, headers, delegated,
                 dispatchVars, workerVars>>

DirectoryWritten ==
  /\ Executing /\ job[DirectoryJob] = "running" /\ cd = "recv"
  /\ DirectoryFull \/ (headers \subseteq directory /\ SendersDropped)
  /\ cd' = "written"
  /\ UNCHANGED <<handler, permits, job, entry, directory, headers, delegated,
                 dispatchVars, workerVars>>
-----------------------------------------------------------------------------
(* The delegating future *)

(* set_multipart_upload, then submit_jobs; the dispatch task is still there. *)
Command(from, to) ==
  /\ Executing /\ delegated = from /\ cmds = <<>>
  /\ delegated' = to /\ cmds' = <<from>>
  /\ UNCHANGED <<handler, localVars, headers, dispatch, sending, join, closed, workerVars>>
SetMultipartUpload == Command("context", "submit")
SubmitJobs == Command("submit", "wait")

(* wait_all: both result channels end when every worker task has dropped its *)
(* senders; then the dispatch task is awaited.                               *)
ResultsClosedEarly == \E j \in JobIds : reported[j] > 0
ResultsClosed == \A w \in Workers : WorkerEnded(w)

WaitAll ==
  /\ Executing /\ delegated = "wait" /\ ResultsClosed
  /\ \/ dispatch = "ok" /\ delegated' = "forward"
     \/ dispatch = "failed" /\ delegated' = "failed"
  /\ UNCHANGED <<handler, localVars, headers, dispatchVars, workerVars>>

(* The headers of the delegated entries join the directory's channel. *)
Forward ==
  /\ Executing /\ delegated = "forward"
  /\ headers' = headers \cup UNION {Jobs[j].entries : j \in {k \in JobIds : reported[k] > 0}}
  /\ delegated' = "ok"
  /\ UNCHANGED <<handler, localVars, dispatchVars, workerVars>>
-----------------------------------------------------------------------------
(* The dispatch task *)

(* wait_all, or the end of the future, drops the sender of the commands. *)
NoMoreCommands == cmds = <<>> /\ delegated \notin {"plan", "context", "submit"}

(* Jobs are popped from the back and dealt one by one to a list per worker;  *)
(* when the lists are full a new round of lists begins. The last round may   *)
(* hold empty lists, which are sent like the others, to one worker after the *)
(* other.                                                                    *)
PoppedBefore(j) == Cardinality({k \in DelegatedJobs : k > j})
PerRound == WorkerCount * ChunkMax
Rounds == (Cardinality(DelegatedJobs) \div PerRound) + 1
BatchCount == Rounds * WorkerCount
BatchNo(j) ==
  LET n == PoppedBefore(j) IN (n \div PerRound) * WorkerCount + (n % WorkerCount) + 1
WorkerOf(k) == ((k - 1) % WorkerCount) + 1

(* An error ends the task; it drops the workers, that is their job senders.  *)
DispatchFails == dispatch' = "failed" /\ closed' = [w \in Workers |-> TRUE]

DispatchContext ==
  /\ dispatch = "context"
  /\ \/ cmds # <<>> /\ cmds' = <<>> /\ dispatch' = "recv" /\ UNCHANGED closed
     \/ NoMoreCommands /\ DispatchFails /\ UNCHANGED cmds
  /\ UNCHANGED <<handler, localVars, headers, delegated, sending, join, workerVars>>

DispatchJobs ==
  /\ dispatch = "recv" /\ cmds # <<>>
  /\ cmds' = <<>> /\ dispatch' = "sending"
  /\ UNCHANGED <<handler, localVars, headers, delegated, sending, join, closed, workerVars>>

(* The send waits for room, and fails when the worker task has ended. *)
DispatchSend ==
  /\ dispatch = "sending" /\ sending <= BatchCount
  /\ LET w == WorkerOf(sending) IN
       \/ /\ worker[w] = "failed" /\ DispatchFails
          /\ UNCHANGED <<sending, inbox>>
       \/ /\ worker[w] # "failed" /\ inbox[w] = <<>>
          /\ inbox' = [inbox EXCEPT ![w] = <<sending>>]
          /\ sending' = sending + 1
          /\ UNCHANGED <<dispatch, closed>>
  /\ UNCHANGED <<handler, localVars, headers, delegated, cmds, join, worker, batch, reported>>

DispatchSent ==
  /\ dispatch = "sending" /\ sending > BatchCount
  /\ dispatch' = "recv"
  /\ UNCHANGED <<handler, localVars, headers, delegated, cmds, sending, join, closed, workerVars>>

DispatchClose ==
  /\ dispatch = "recv" /\ NoMoreCommands
  /\ dispatch' = "joining"
  /\ UNCHANGED <<handler, localVars, headers, delegated, cmds, sending, join, closed, workerVars>>

(* Worker after worker: its job sender is dropped, then its task is awaited. *)
Closed == [closed EXCEPT ![join] = TRUE]

CloseWorker ==
  /\ dispatch = "joining" /\ join \in Workers /\ ~closed[join]
  /\ closed' = Closed
  /\ UNCHANGED <<handler, localVars, headers, delegated, cmds, dispatch, sending, join, workerVars>>

JoinWorker ==
  /\ dispatch = "joining" /\ join \in Workers /\ closed[join] /\ WorkerEnded(join)
  /\ \/ worker[join] = "failed" /\ DispatchFails /\ UNCHANGED join
     \/ worker[join] = "ok" /\ join' = join + 1 /\ UNCHANGED <<dispatch, closed>>
  /\ UNCHANGED <<handler, localVars, headers, delegated, cmds, sending, workerVars>>

DispatchOk ==
  /\ dispatch = "joining" /\ join \notin Workers
  /\ dispatch' = "ok"
  /\ UNCHANGED <<handler, localVars, headers, delegated, cmds, sending, join, closed, workerVars>>
-----------------------------------------------------------------------------
(* A worker task *)

WorkerStep(w, from, to) ==
  /\ worker[w] = from /\ worker' = [worker EXCEPT ![w] = to]
  /\ UNCHANGED <<handler, localVars, headers, delegated, dispatchVars>>

WarmUp(w) ==
  /\ WorkerStep(w, "warming", "idle") \/ (WorkerErrors /\ WorkerStep(w, "warming", "failed"))
  /\ UNCHANGED <<inbox, batch, reported>>

TakeBatch(w) ==
  /\ inbox[w] # <<>> /\ WorkerStep(w, "idle", "busy")
  /\ batch' = [batch EXCEPT ![w] = Head(inbox[w])]
  /\ inbox' = [inbox EXCEPT ![w] = <<>>]
  /\ UNCHANGED reported

Invoked(w) ==
  /\ WorkerStep(w, "busy", "idle")
  /\ reported' = [j \in JobIds |->
                    IF j \in DelegatedJobs /\ BatchNo(j) = batch[w] THEN reported[j] + 1 ELSE reported[j]]
  /\ batch' = [batch EXCEPT ![w] = 0]
  /\ UNCHANGED inbox

(* The answer of a worker Lambda that failed cannot be read as JobsResults.  *)
InvokeFails(w) ==
  /\ WorkerErrors /\ WorkerStep(w, "busy", "failed")
  /\ UNCHANGED <<inbox, batch, reported>>

WorkerStops(w) ==
  /\ inbox[w] = <<>> /\ closed[w] /\ WorkerStep(w, "idle", "ok")
  /\ UNCHANGED <<inbox, batch, reported>>
-----------------------------------------------------------------------------
HandlerStep == Plan \/ Joined \/ Complete
JobStep(j) == CopyEnds(j) \/ UploadEnds(j)
EntryStep(e) == EntryHeader(e) \/ EntryBody(e) \/ EntryFails(e)
DirectoryStep == DirectoryWritten \/ \E e \in Entries : DirectoryRecv(e)
Delegate == SetMultipartUpload \/ SubmitJobs \/ WaitAll \/ Forward
Dispatch ==
  \/ DispatchContext \/ DispatchJobs \/ DispatchSend \/ DispatchSent
  \/ DispatchClose \/ CloseWorker \/ JoinWorker \/ DispatchOk
Work(w) == WarmUp(w) \/ TakeBatch(w) \/ Invoked(w) \/ InvokeFails(w) \/ WorkerStops(w)

Next ==
  \/ HandlerStep \/ DirectoryStep \/ Delegate \/ Dispatch
  \/ \E j \in LocalJobs : Spawn(j) \/ JobStep(j)
  \/ \E e \in LocalEntries : EntryStep(e)
  \/ \E w \in Workers : Work(w)

(* The futures and tasks are polled, and S3 and Lambda calls return. *)
Fairness ==
  /\ WF_vars(HandlerStep) /\ WF_vars(\E j \in LocalJobs : Spawn(j)) /\ WF_vars(DirectoryStep)
  /\ WF_vars(Delegate) /\ WF_vars(Dispatch)
  /\ \A j \in JobIds : WF_vars(JobStep(j))
  /\ \A e \in Entries : WF_vars(EntryStep(e))
  /\ \A w \in 1 .. WorkerCount : WF_vars(w \in Workers /\ Work(w))

Spec == Init /\ [][Next]_vars /\ Fairness
-----------------------------------------------------------------------------
(* Properties *)

LocalTypeOK ==
  /\ handler \in {"plan", "execute", "complete", "ok", "error", "refused"}
  /\ permits \in 0 .. MaxMemory
  /\ job \in [JobIds -> {"todo", "running", "ok", "failed"}]
  /\ entry \in [Entries -> {"todo", "body", "written", "failed"}]
  /\ headers \subseteq Entries /\ directory \subseteq headers
  /\ cd \in {"recv", "written"}

(* A batch is where the cycle over the workers puts it. *)
FanOutTypeOK ==
  /\ Workers \in {{}, 1 .. WorkerCount}
  /\ delegated \in {"plan", "context", "submit", "wait", "forward", "ok", "failed", "dropped"}
  /\ cmds \in {<<>>, <<"context">>, <<"submit">>}
  /\ dispatch \in {"context", "recv", "sending", "joining", "ok", "failed"}
  /\ sending \in 1 .. BatchCount + 1 /\ join \in 1 .. WorkerCount + 1
  /\ worker \in [Workers -> {"warming", "idle", "busy", "ok", "failed"}]
  /\ inbox \in [Workers -> {<<>>} \cup {<<k>> : k \in 1 .. BatchCount}]
  /\ closed \in [Workers -> BOOLEAN] /\ batch \in [Workers -> 0 .. BatchCount]
  /\ reported \in [JobIds -> Nat]
  /\ \A w \in Workers, k \in 1 .. BatchCount :
       inbox[w] = <<k>> \/ batch[w] = k => WorkerOf(k) = w

TypeOK == LocalTypeOK /\ FanOutTypeOK

(* An archive that may be completed has every part once and a directory with *)
(* a header for every entry, whatever failed and however work was dealt.     *)
ArchiveWhole ==
  handler \in {"complete", "ok"} =>
    /\ directory = Entries
    /\ \A e \in LocalEntries : entry[e] = "written"
    /\ \A j \in JobIds : reported[j] = IF j \in LocalJobs THEN 0 ELSE 1

(* The buffers of the running jobs stay within the budget, and every way a   *)
(* job ends gives its share back.                                            *)
Running == {j \in LocalJobs : job[j] = "running"}
Cost == [j \in JobIds |-> Jobs[j].cost]
RunningCost == SumFunctionOnSet(Cost, Running)
BudgetConserved == permits + RunningCost = MaxMemory

(* When the handler answers, no worker is still uploading parts: the archive *)
(* key is quiet. (Executors that had nothing to delegate only warm up.)      *)
NoWorkerOutlives ==
  (handler \in {"complete", "ok", "error"} /\ Delegating) =>
    \A w \in Workers : WorkerEnded(w)

(* Jobs wait for memory, the directory for headers, dispatch for workers and *)
(* workers for dispatch: the handler answers all the same.                   *)
HandlerAnswers == <>(handler \in {"ok", "error", "refused"})

(* No worker task is left waiting for jobs, not even when dispatch fails.    *)
WorkersEnd == <>(\A w \in Workers : WorkerEnded(w))

EveryoneEnds == HandlerAnswers /\ WorkersEnd
=============================================================================
