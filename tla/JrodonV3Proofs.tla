--------------------------- MODULE JrodonV3Proofs ---------------------------
(***************************************************************************)
(* Proofs about jrodon-v3, for every list of jobs, number of workers,      *)
(* batch size, memory budget and set of failures: the types, the memory    *)
(* budget is conserved, a completed archive is whole, and when the handler *)
(* answers, no worker Lambda is still uploading parts of the archive.      *)
(*                                                                         *)
(* Nothing in the code says the last in one place. An answer needs the     *)
(* end of the local jobs or a failure of the delegating future; the local  *)
(* job that writes the directory ends when it has a header of every entry, *)
(* those of the delegated entries come when the workers have ended, or     *)
(* when the delegating future drops its sender, after the workers have     *)
(* ended. The invariant follows that chain.                                *)
(*                                                                         *)
(* That the archive is whole follows each delegated job from the sender    *)
(* through a channel and a worker to the result it reports, exactly once.  *)
(***************************************************************************)
EXTENDS JrodonV3, Sums

Types ==
  /\ worker \in [Workers -> {"warming", "idle", "busy", "ok", "failed"}]
  /\ job \in [JobIds -> {"todo", "running", "ok", "failed"}]
  /\ directory \subseteq Entries /\ directory \subseteq headers

(* Nothing has happened before the plan is made. *)
Planning == handler = "plan" => delegated = "plan" /\ cd = "recv"

(* Headers of delegated entries come with the end of the delegating future. *)
HeadersLocal == delegated # "ok" => headers \subseteq LocalEntries

(* That future gets past wait_all only when every worker task has ended. *)
WorkersJoined ==
  (Delegating /\ delegated \in {"forward", "ok", "failed"}) => \A w \in Workers : WorkerEnded(w)

(* The directory is written with all headers, or when no more can come. *)
DirectoryLast == cd = "written" => directory = Entries \/ delegated \in {"ok", "failed"}

DirectoryJobLast == JobEnded(DirectoryJob) => cd = "written"

Inv ==
  /\ Types /\ Planning /\ HeadersLocal /\ WorkersJoined
  /\ DirectoryLast /\ DirectoryJobLast /\ NoWorkerOutlives
-----------------------------------------------------------------------------
(* The directory job is a job, and a local one. *)
LEMMA DirectoryIsLocal == DirectoryJob \in JobIds /\ DirectoryJob \in LocalJobs
  BY ExecutorAssumption DEF DirectoryJob, JobIds, LocalJobs, Delegated, Delegable

(* Which jobs are delegated depends on whether there are workers at all. *)
LEMMA SameDeal ==
  ASSUME Workers' = Workers
  PROVE  /\ LocalJobs' = LocalJobs /\ LocalEntries' = LocalEntries
         /\ DelegatedJobs' = DelegatedJobs /\ Delegating' = Delegating
  BY DEF LocalJobs, LocalEntries, DelegatedJobs, Delegating, Delegated, FanOut

(* A delegated job has an entry that no local job has. *)
LEMMA DelegatedEntry ==
  ASSUME Delegating
  PROVE  \E e \in Entries : e \notin LocalEntries
<1>1. PICK j \in JobIds : Delegated(j)
  BY DEF Delegating, DelegatedJobs
<1>2. Jobs[j].entries # {}
  BY <1>1, ExecutorAssumption DEF Delegated, Delegable
<1>3. PICK e : e \in Jobs[j].entries
  BY <1>2
<1>4. e \in Entries
  BY <1>3 DEF Entries
<1>5. ASSUME NEW k \in LocalJobs PROVE e \notin Jobs[k].entries
  <2>1. k \in JobIds /\ k # j
    BY <1>1 DEF LocalJobs
  <2> QED
    BY <1>3, <2>1, ExecutorAssumption
<1> QED
  BY <1>4, <1>5 DEF LocalEntries

(* A directory with as many headers as there are entries has them all. *)
LEMMA FullIsWhole == ASSUME directory \subseteq Entries, DirectoryFull PROVE directory = Entries
  BY FS_Subset, ExecutorAssumption DEF DirectoryFull

(* When the local jobs have ended, the delegating future is past wait_all.   *)
LEMMA LocalEndWaits ==
  ASSUME Inv, LocalEnded, Delegating
  PROVE  delegated \in {"ok", "failed"}
<1>1. cd = "written"
  BY DirectoryIsLocal DEF Inv, DirectoryJobLast, LocalEnded
<1>2. CASE directory = Entries
  <2>1. PICK e \in Entries : e \notin LocalEntries
    BY DelegatedEntry
  <2>2. e \in headers
    BY <1>2 DEF Inv, Types
  <2> QED
    BY <2>1, <2>2 DEF Inv, HeadersLocal
<1> QED
  BY <1>1, <1>2 DEF Inv, DirectoryLast
-----------------------------------------------------------------------------
LEMMA InitInv == Init => Inv
<1> SUFFICES ASSUME Init PROVE Inv
  OBVIOUS
<1>1. worker \in [Workers -> {"warming", "idle", "busy", "ok", "failed"}]
  <2>1. CASE worker = [w \in 1 .. WorkerCount |-> "warming"]
    BY <2>1 DEF Workers
  <2>2. CASE worker = <<>>
    BY <2>2 DEF Workers
  <2> QED
    BY <2>1, <2>2 DEF Init
<1>2. Types
  BY <1>1 DEF Init, Types
<1>3. ~JobEnded(DirectoryJob)
  BY DirectoryIsLocal DEF Init, JobEnded
<1> QED
  BY <1>2, <1>3
     DEF Init, Inv, Planning, HeadersLocal, WorkersJoined, DirectoryLast, DirectoryJobLast,
         NoWorkerOutlives

(* A step that changes nothing the invariant is about. *)
LEMMA Untouched ==
  ASSUME Inv, UNCHANGED <<handler, job, headers, directory, cd, delegated, worker>>
  PROVE  Inv'
  BY DEF Inv, Types, Planning, HeadersLocal, WorkersJoined, DirectoryLast, DirectoryJobLast,
         NoWorkerOutlives, JobEnded, WorkerEnded, Workers, LocalEntries, LocalJobs, Delegating,
         DelegatedJobs, Delegated, FanOut

LEMMA PlanInv == Inv /\ Plan => Inv'
<1> SUFFICES ASSUME Inv, Plan PROVE Inv'
  OBVIOUS
<1>1. /\ handler = "plan" /\ handler' \in {"execute", "refused"}
      /\ delegated' = "ok" => ~Delegating
      /\ delegated' \in {"ok", "context", "dropped"}
      /\ UNCHANGED <<job, headers, directory, cd, worker>>
  BY DEF Plan, localVars, workerVars
<1>2. Workers' = Workers
  BY <1>1 DEF Workers
<1>3. LocalEntries' = LocalEntries /\ Delegating' = Delegating
  BY <1>2, SameDeal
<1>4. delegated = "plan" /\ cd = "recv"
  BY <1>1 DEF Inv, Planning
<1> QED
  BY <1>1, <1>2, <1>3, <1>4
     DEF Inv, Types, Planning, HeadersLocal, WorkersJoined, DirectoryLast, DirectoryJobLast,
         NoWorkerOutlives, JobEnded

(* Joined and Complete: the answer. *)
LEMMA AnswerInv == Inv /\ (Joined \/ Complete) => Inv'
<1> SUFFICES ASSUME Inv, Joined \/ Complete PROVE Inv'
  OBVIOUS
<1>1. /\ handler # "plan" /\ handler' # "plan"
      /\ UNCHANGED <<job, headers, directory, cd, delegated, worker>>
  BY DEF Joined, Complete, Executing, localVars, workerVars
<1>2. Workers' = Workers
  BY <1>1 DEF Workers
<1>3. LocalEntries' = LocalEntries /\ Delegating' = Delegating
  BY <1>2, SameDeal
<1>4. ASSUME Delegating PROVE \A w \in Workers : WorkerEnded(w)
  <2>1. CASE Joined
    <3>1. delegated \in {"ok", "failed"}
      BY <1>4, <2>1, LocalEndWaits DEF Joined
    <3> QED
      BY <1>4, <3>1 DEF Inv, WorkersJoined
  <2>2. CASE Complete
    BY <1>4, <2>2 DEF Inv, NoWorkerOutlives, Complete
  <2> QED
    BY <2>1, <2>2
<1> QED
  BY <1>1, <1>2, <1>3, <1>4
     DEF Inv, Types, Planning, HeadersLocal, WorkersJoined, DirectoryLast, DirectoryJobLast,
         NoWorkerOutlives, JobEnded, WorkerEnded
-----------------------------------------------------------------------------
(* Local execution *)

(* A job that starts, or ends with its elements resolved. *)
LEMMA JobInv ==
  ASSUME Inv, UNCHANGED <<handler, headers, directory, cd, delegated, worker>>,
         NEW j \in JobIds, NEW s \in {"running", "ok", "failed"},
         job' = [job EXCEPT ![j] = s],
         s # "running" /\ j = DirectoryJob => cd = "written"
  PROVE  Inv'
<1>1. Types' /\ DirectoryJobLast'
  BY DirectoryIsLocal DEF Inv, Types, DirectoryJobLast, JobEnded, Workers
<1> QED
  BY <1>1
     DEF Inv, Planning, HeadersLocal, WorkersJoined, DirectoryLast, NoWorkerOutlives, WorkerEnded,
         Workers, LocalEntries, LocalJobs, Delegating, DelegatedJobs, Delegated, FanOut

LEMMA SpawnInv == \A j \in LocalJobs : Inv /\ Spawn(j) => Inv'
<1> SUFFICES ASSUME NEW j \in LocalJobs, Inv, Spawn(j) PROVE Inv'
  OBVIOUS
<1>1. /\ UNCHANGED <<handler, headers, directory, cd, delegated, worker>>
      /\ j \in JobIds /\ job' = [job EXCEPT ![j] = "running"]
  BY DEF Spawn, LocalJobs, dispatchVars, workerVars
<1> QED
  BY <1>1, JobInv

LEMMA CopyEndsInv == \A j \in LocalJobs : Inv /\ CopyEnds(j) => Inv'
<1> SUFFICES ASSUME NEW j \in LocalJobs, Inv, CopyEnds(j) PROVE Inv'
  OBVIOUS
<1>1. j \in JobIds /\ j # DirectoryJob
  BY ExecutorAssumption DEF LocalJobs, CopyEnds
<1>2. PICK s \in {"ok", "failed"} : End(j, s)
  BY DEF CopyEnds
<1> QED
  BY <1>1, <1>2, JobInv DEF CopyEnds, End, dispatchVars, workerVars

LEMMA UploadEndsInv == \A j \in LocalJobs : Inv /\ UploadEnds(j) => Inv'
<1> SUFFICES ASSUME NEW j \in LocalJobs, Inv, UploadEnds(j) PROVE Inv'
  OBVIOUS
<1>1. j \in JobIds
  BY DEF LocalJobs
<1>2. PICK s \in {"ok", "failed"} : End(j, s)
  BY DEF UploadEnds
<1>3. j = DirectoryJob => cd = "written"
  BY DEF UploadEnds, Resolved
<1> QED
  BY <1>1, <1>2, <1>3, JobInv DEF UploadEnds, End, dispatchVars, workerVars

(* An entry sends its header: it is a local one. *)
LEMMA EntryInv == \A e \in LocalEntries : Inv /\ EntryStep(e) => Inv'
<1> SUFFICES ASSUME NEW e \in LocalEntries, Inv, EntryStep(e) PROVE Inv'
  OBVIOUS
<1>1. /\ UNCHANGED <<handler, job, directory, cd, delegated, worker>>
      /\ headers' \in {headers, headers \cup {e}}
  BY DEF EntryStep, EntryHeader, EntryBody, EntryFails, dispatchVars, workerVars
<1>2. Workers' = Workers
  BY <1>1 DEF Workers
<1>3. LocalEntries' = LocalEntries /\ Delegating' = Delegating
  BY <1>2, SameDeal
<1> QED
  BY <1>1, <1>2, <1>3
     DEF Inv, Types, Planning, HeadersLocal, WorkersJoined, DirectoryLast, DirectoryJobLast,
         NoWorkerOutlives, JobEnded, WorkerEnded

LEMMA DirectoryInv == Inv /\ DirectoryStep => Inv'
<1> SUFFICES ASSUME Inv, DirectoryStep PROVE Inv'
  OBVIOUS
<1>1. /\ UNCHANGED <<handler, job, headers, delegated, worker>>
      /\ handler = "execute"
      /\ directory \subseteq directory'
  BY DEF DirectoryStep, DirectoryRecv, DirectoryWritten, Executing, dispatchVars, workerVars
<1>2. Workers' = Workers
  BY <1>1 DEF Workers
<1>3. LocalEntries' = LocalEntries /\ Delegating' = Delegating
  BY <1>2, SameDeal
<1>4. directory' \subseteq Entries /\ directory' \subseteq headers
  BY DEF DirectoryStep, DirectoryRecv, DirectoryWritten, Inv, Types
<1>5. cd' = "written" => directory' = Entries \/ delegated \in {"ok", "failed"}
  <2>1. CASE DirectoryWritten
    BY <2>1, FullIsWhole DEF DirectoryWritten, SendersDropped, Inv, Types
  <2>2. CASE \E e \in Entries : DirectoryRecv(e)
    BY <2>2 DEF DirectoryRecv
  <2> QED
    BY <2>1, <2>2 DEF DirectoryStep
<1>6. cd = "written" => cd' = "written"
  BY DEF DirectoryStep, DirectoryRecv, DirectoryWritten
<1> QED
  BY <1>1, <1>2, <1>3, <1>4, <1>5, <1>6
     DEF Inv, Types, Planning, HeadersLocal, WorkersJoined, DirectoryLast, DirectoryJobLast,
         NoWorkerOutlives, JobEnded, WorkerEnded
-----------------------------------------------------------------------------
(* Delegation *)

(* The delegating future advances, and ends only when the workers have.      *)
LEMMA DelegateInv == Inv /\ Delegate => Inv'
<1> SUFFICES ASSUME Inv, Delegate PROVE Inv'
  OBVIOUS
<1>1. /\ UNCHANGED <<handler, job, directory, cd, worker>>
      /\ handler = "execute" /\ headers \subseteq headers'
      /\ delegated \in {"context", "submit", "wait", "forward"}
  BY DEF Delegate, SetMultipartUpload, SubmitJobs, Command, WaitAll, Forward, Executing,
         localVars, dispatchVars, workerVars
<1>2. Workers' = Workers
  BY <1>1 DEF Workers
<1>3. LocalEntries' = LocalEntries /\ Delegating' = Delegating
  BY <1>2, SameDeal
<1>4. delegated' # "ok" => headers' = headers
  BY DEF Delegate, SetMultipartUpload, SubmitJobs, Command, WaitAll, Forward
<1>5. delegated' \in {"forward", "ok", "failed"} /\ Delegating => \A w \in Workers : WorkerEnded(w)
  BY DEF Delegate, SetMultipartUpload, SubmitJobs, Command, WaitAll, Forward, ResultsClosed,
         Inv, WorkersJoined
<1>6. cd = "written" => directory = Entries
  BY <1>1 DEF Inv, DirectoryLast
<1> QED
  BY <1>1, <1>2, <1>3, <1>4, <1>5, <1>6
     DEF Inv, Types, Planning, HeadersLocal, WorkersJoined, DirectoryLast, DirectoryJobLast,
         NoWorkerOutlives, JobEnded, WorkerEnded

LEMMA DispatchInv == Inv /\ Dispatch => Inv'
  BY Untouched
     DEF Dispatch, DispatchContext, DispatchJobs, DispatchSend, DispatchSent, DispatchClose,
         CloseWorker, JoinWorker, DispatchOk, localVars, workerVars

(* A worker task moves only as long as it has not ended. *)
LEMMA WorkInv == \A w \in Workers : Inv /\ Work(w) => Inv'
<1> SUFFICES ASSUME NEW w \in Workers, Inv, Work(w) PROVE Inv'
  OBVIOUS
<1>1. PICK s \in {"idle", "busy", "ok", "failed"} : worker' = [worker EXCEPT ![w] = s]
  BY DEF Work, WarmUp, TakeBatch, Invoked, InvokeFails, WorkerStops, WorkerStep
<1>2. UNCHANGED <<handler, job, headers, directory, cd, delegated>> /\ ~WorkerEnded(w)
  BY DEF Work, WarmUp, TakeBatch, Invoked, InvokeFails, WorkerStops, WorkerStep, WorkerEnded,
         localVars
<1>3. Workers' = Workers /\ Types'
  BY <1>1, <1>2 DEF Inv, Types, Workers
<1>4. LocalEntries' = LocalEntries /\ Delegating' = Delegating
  BY <1>3, SameDeal
<1> QED
  BY <1>1, <1>2, <1>3, <1>4
     DEF Inv, Planning, HeadersLocal, WorkersJoined, DirectoryLast, DirectoryJobLast,
         NoWorkerOutlives, JobEnded
-----------------------------------------------------------------------------
LEMMA InvStep == Inv /\ [Next]_vars => Inv'
<1> SUFFICES ASSUME Inv, [Next]_vars PROVE Inv'
  OBVIOUS
<1>1. CASE HandlerStep
  BY <1>1, PlanInv, AnswerInv DEF HandlerStep
<1>2. CASE \E j \in LocalJobs : Spawn(j)
  BY <1>2, SpawnInv
<1>3. CASE DirectoryStep
  BY <1>3, DirectoryInv
<1>4. CASE Delegate
  BY <1>4, DelegateInv
<1>5. CASE Dispatch
  BY <1>5, DispatchInv
<1>6. CASE \E j \in LocalJobs : JobStep(j)
  BY <1>6, CopyEndsInv, UploadEndsInv DEF JobStep
<1>7. CASE \E e \in LocalEntries : EntryStep(e)
  BY <1>7, EntryInv
<1>8. CASE \E w \in Workers : Work(w)
  BY <1>8, WorkInv
<1>9. CASE UNCHANGED vars
  BY <1>9, Untouched DEF vars, localVars, workerVars
<1> QED
  BY <1>1, <1>2, <1>3, <1>4, <1>5, <1>6, <1>7, <1>8, <1>9 DEF Next

LEMMA Invariance == Spec => []Inv
  BY InitInv, InvStep, PTL DEF Spec
-----------------------------------------------------------------------------
(* The budget *)

Budget == permits \in 0 .. MaxMemory /\ BudgetConserved

LEMMA ElementOf ==
  ASSUME NEW S, NEW s \in Seq(S)
  PROVE  Len(s) \in Nat /\ \A i \in 1 .. Len(s) : s[i] \in S
  OBVIOUS

LEMMA JobFacts ==
  /\ MaxMemory \in Nat /\ IsFiniteSet(JobIds)
  /\ \A j \in JobIds : Cost[j] \in 1 .. MaxMemory /\ Cost[j] = Jobs[j].cost
  /\ \A j \in JobIds : Jobs[j].kind \in {"upload", "copy"} /\ Jobs[j].entries \subseteq Entries
<1>1. Len(Jobs) \in Nat /\ \A j \in 1 .. Len(Jobs) :
        Jobs[j] \in [kind : {"upload", "copy"}, entries : SUBSET Entries, cost : 1 .. MaxMemory]
  <2>1. Jobs \in Seq([kind : {"upload", "copy"}, entries : SUBSET Entries, cost : 1 .. MaxMemory])
    BY ExecutorAssumption
  <2> QED
    BY <2>1, ElementOf
<1>2. MaxMemory \in Nat
  BY ExecutorAssumption
<1>3. IsFiniteSet(JobIds)
  BY <1>1, FS_Interval, 1 \in Int, Len(Jobs) \in Int DEF JobIds
<1> QED
  BY <1>1, <1>2, <1>3 DEF JobIds, Cost

(* Any set of jobs costs a natural number. *)
LEMMA RunningFacts ==
  /\ IsFiniteSet(Running) /\ Running \subseteq JobIds
  /\ RunningCost \in Nat
<1>1. IsFiniteSet(Running) /\ Running \subseteq JobIds
  BY JobFacts, FS_Subset DEF Running, LocalJobs
<1>2. \A j \in Running : Cost[j] \in Nat
  BY <1>1, JobFacts
<1> QED
  BY <1>1, <1>2, SumNat DEF RunningCost

LEMMA SameBudget ==
  ASSUME Budget, Workers' = Workers, UNCHANGED <<permits, job>>
  PROVE  Budget'
<1>1. Running' = Running
  BY SameDeal DEF Running
<1> QED
  BY <1>1 DEF Budget, BudgetConserved, RunningCost, Cost, JobIds

LEMMA SpawnBudget ==
  ASSUME Inv, Budget, NEW j \in LocalJobs, Spawn(j)
  PROVE  Budget'
<1>1. Workers' = Workers /\ j \in JobIds
  BY DEF Spawn, workerVars, Workers, LocalJobs
<1>2. j \notin Running /\ Running' = Running \cup {j}
  BY <1>1, SameDeal DEF Inv, Types, Spawn, Running, Todo, LocalJobs
<1>3. SumFunctionOnSet(Cost, Running \cup {j}) = RunningCost + Cost[j]
  BY <1>1, <1>2, JobFacts, RunningFacts, SumAdd DEF RunningCost
<1>4. RunningCost' = RunningCost + Cost[j]
  BY <1>2, <1>3 DEF RunningCost, Cost, JobIds
<1>5. permits' = permits - Cost[j] /\ Cost[j] <= permits
  BY <1>1, JobFacts DEF Spawn, MaySpawn
<1> QED
  BY <1>1, <1>4, <1>5, JobFacts, RunningFacts DEF Budget, BudgetConserved

LEMMA EndBudget ==
  ASSUME Inv, Budget, NEW j \in LocalJobs, job[j] = "running", NEW r \in {"ok", "failed"}, End(j, r),
         Workers' = Workers
  PROVE  Budget'
<1>1. j \in JobIds /\ j \in Running
  BY DEF Running, LocalJobs
<1>2. Running' = Running \ {j}
  BY <1>1, SameDeal DEF Inv, Types, End, Running, LocalJobs
<1>3. RunningCost = Cost[j] + SumFunctionOnSet(Cost, Running \ {j})
  BY <1>1, JobFacts, RunningFacts, SumRemove DEF RunningCost
<1>4. RunningCost' = SumFunctionOnSet(Cost, Running \ {j})
  BY <1>2 DEF RunningCost, Cost, JobIds
<1>5. SumFunctionOnSet(Cost, Running \ {j}) \in Nat
  <2>1. IsFiniteSet(Running \ {j}) /\ \A x \in Running \ {j} : Cost[x] \in Nat
    BY RunningFacts, JobFacts, FS_Subset
  <2> QED
    BY <2>1, SumNat
<1>6. permits' = permits + Cost[j]
  BY <1>1, JobFacts DEF End
<1> QED
  BY <1>1, <1>3, <1>4, <1>5, <1>6, JobFacts DEF Budget, BudgetConserved

LEMMA BudgetStep == Inv /\ Budget /\ [Next]_vars => Budget'
<1> SUFFICES ASSUME Inv, Budget, [Next]_vars PROVE Budget'
  OBVIOUS
<1>1. Workers' = Workers
  BY DEF Next, HandlerStep, Plan, Joined, Complete, Spawn, DirectoryStep, DirectoryWritten,
         DirectoryRecv, Delegate, SetMultipartUpload, SubmitJobs, Command, WaitAll, Forward,
         Dispatch, DispatchContext, DispatchJobs, DispatchSend, DispatchSent, DispatchClose,
         CloseWorker, JoinWorker, DispatchOk, JobStep, CopyEnds, UploadEnds, EntryStep,
         EntryHeader, EntryBody, EntryFails, Work, WarmUp, TakeBatch, Invoked, InvokeFails,
         WorkerStops, WorkerStep, vars, workerVars, Workers, Inv, Types
<1>2. ASSUME NEW j \in LocalJobs, Spawn(j) PROVE Budget'
  BY <1>2, SpawnBudget
<1>3. ASSUME NEW j \in LocalJobs, JobStep(j) PROVE Budget'
  <2>1. job[j] = "running" /\ \E r \in {"ok", "failed"} : End(j, r)
    BY <1>3 DEF JobStep, CopyEnds, UploadEnds
  <2> QED
    BY <1>1, <2>1, EndBudget
<1>4. ASSUME UNCHANGED <<permits, job>> PROVE Budget'
  BY <1>1, <1>4, SameBudget
<1>5. CASE HandlerStep
  BY <1>4, <1>5 DEF HandlerStep, Plan, Joined, Complete, localVars
<1>6. CASE DirectoryStep
  BY <1>4, <1>6 DEF DirectoryStep, DirectoryWritten, DirectoryRecv
<1>7. CASE Delegate \/ Dispatch
  BY <1>4, <1>7
     DEF Delegate, SetMultipartUpload, SubmitJobs, Command, WaitAll, Forward, Dispatch,
         DispatchContext, DispatchJobs, DispatchSend, DispatchSent, DispatchClose, CloseWorker,
         JoinWorker, DispatchOk, localVars
<1>8. CASE \E e \in LocalEntries : EntryStep(e)
  BY <1>4, <1>8 DEF EntryStep, EntryHeader, EntryBody, EntryFails
<1>9. CASE \E w \in Workers : Work(w)
  BY <1>4, <1>9
     DEF Work, WarmUp, TakeBatch, Invoked, InvokeFails, WorkerStops, WorkerStep, localVars
<1>10. CASE UNCHANGED vars
  BY <1>4, <1>10 DEF vars, localVars
<1> QED
  BY <1>2, <1>3, <1>5, <1>6, <1>7, <1>8, <1>9, <1>10 DEF Next

LEMMA BudgetInit == Init => Budget
<1> SUFFICES ASSUME Init PROVE Budget
  OBVIOUS
<1>1. Running = {}
  BY DEF Init, Running, LocalJobs
<1>2. RunningCost = 0
  BY <1>1, SumType, FS_EmptySet DEF RunningCost
<1> QED
  BY <1>2, JobFacts DEF Init, Budget, BudgetConserved

-----------------------------------------------------------------------------
(* The batches *)

(* A worker that is not busy, and has not failed, holds no batch; one that   *)
(* has stopped was told so and has emptied its channel; the dispatch task    *)
(* joins them in order, and ends well when it has joined them all.           *)
Joining ==
  /\ \A w \in Workers : worker[w] \notin {"busy", "failed"} => batch[w] = 0
  /\ \A w \in Workers : worker[w] = "ok" => closed[w] /\ inbox[w] = <<>>
  /\ \A w \in Workers : closed[w] => dispatch \in {"joining", "ok", "failed"}
  /\ \A w \in Workers : w < join => worker[w] = "ok"
  /\ dispatch = "ok" => join \notin Workers

(* The dispatch task follows the commands; it closes only with every batch   *)
(* sent.                                                                     *)
Protocol ==
  Delegating =>
    /\ delegated = "plan" => dispatch = "context" /\ cmds = <<>>
    /\ delegated = "context" => dispatch = "context" /\ cmds = <<>>
    /\ delegated = "submit" =>
         (dispatch = "context" /\ cmds # <<>>) \/ (dispatch = "recv" /\ cmds = <<>>)
    /\ delegated = "dropped" => dispatch \in {"context", "failed"} /\ cmds = <<>>
    /\ delegated \in {"wait", "forward", "ok", "failed"} => dispatch # "context"
    /\ delegated # "submit" /\ dispatch = "recv" => cmds # <<>> \/ sending > BatchCount
    /\ dispatch \in {"joining", "ok"} => sending > BatchCount

(* A delegated job is ahead of the sender, in a channel, with a worker, or   *)
(* reported: in one place, once.                                             *)
Waits(k) == inbox[WorkerOf(k)] = <<k>>
Held(k) == batch[WorkerOf(k)] = k
OnceAt(j, k) ==
  IF sending <= k THEN ~Waits(k) /\ ~Held(k) /\ reported[j] = 0
  ELSE \/ Waits(k) /\ ~Held(k) /\ reported[j] = 0
       \/ ~Waits(k) /\ Held(k) /\ reported[j] = 0
       \/ ~Waits(k) /\ ~Held(k) /\ reported[j] = 1
Accounted ==
  /\ \A j \in DelegatedJobs : OnceAt(j, BatchNo(j))
  /\ \A j \in JobIds \ DelegatedJobs : reported[j] = 0

FanInv == FanOutTypeOK /\ Joining /\ Protocol /\ Accounted

LEMMA WorkerOfFacts == \A k \in Nat \ {0} : WorkerOf(k) \in 1 .. WorkerCount
  BY ExecutorAssumption DEF WorkerOf

LEMMA Divide ==
  ASSUME NEW n \in Nat, NEW m \in Nat, NEW p \in Nat \ {0}, n <= m
  PROVE  n \div p \in Nat /\ m \div p \in Nat /\ n \div p <= m \div p
  OBVIOUS

LEMMA Scale ==
  ASSUME NEW a \in Nat, NEW b \in Nat, NEW w \in Nat, a <= b
  PROVE  a * w \in Nat /\ a * w <= b * w /\ (b + 1) * w = b * w + w
  OBVIOUS

(* Every delegated job is in a batch, and every batch has a worker. *)
LEMMA BatchFacts == \A j \in DelegatedJobs : BatchNo(j) \in 1 .. BatchCount
<1> SUFFICES ASSUME NEW j \in DelegatedJobs PROVE BatchNo(j) \in 1 .. BatchCount
  OBVIOUS
<1> DEFINE n == PoppedBefore(j)
           m == Cardinality(DelegatedJobs)
<1>1. n \in Nat /\ m \in Nat /\ n <= m
  <2>1. IsFiniteSet(DelegatedJobs)
    BY JobFacts, FS_Subset DEF DelegatedJobs
  <2>2. {k \in DelegatedJobs : k > j} \subseteq DelegatedJobs
    OBVIOUS
  <2> QED
    BY <2>1, <2>2, FS_Subset, FS_CardinalityType DEF PoppedBefore
<1>2. WorkerCount \in Nat \ {0} /\ PerRound \in Nat \ {0}
  BY ExecutorAssumption DEF PerRound
<1> HIDE DEF n, m
<1>3. n \div PerRound \in Nat /\ m \div PerRound \in Nat /\ n \div PerRound <= m \div PerRound
  BY <1>1, <1>2, Divide
<1> DEFINE a == n \div PerRound
           b == m \div PerRound
<1>4. a * WorkerCount \in Nat /\ a * WorkerCount <= b * WorkerCount
      /\ (b + 1) * WorkerCount = b * WorkerCount + WorkerCount
  BY <1>2, <1>3, Scale
<1>5. n % WorkerCount \in 0 .. WorkerCount - 1
  BY <1>1, <1>2
<1>6. BatchNo(j) = a * WorkerCount + (n % WorkerCount) + 1
  BY DEF BatchNo, n
<1>7. BatchCount = (b + 1) * WorkerCount
  BY DEF BatchCount, Rounds, m
<1>8. b * WorkerCount \in Nat
  BY <1>2, <1>3, Scale
<1> HIDE DEF a, b
<1> QED
  BY <1>2, <1>4, <1>5, <1>6, <1>7, <1>8

LEMMA BatchWorker ==
  ASSUME FanInv, NEW j \in DelegatedJobs
  PROVE  WorkerOf(BatchNo(j)) \in Workers
<1>1. FanOut
  BY DEF DelegatedJobs, Delegated
<1>2. Workers = 1 .. WorkerCount
  BY <1>1 DEF FanOut, FanInv, FanOutTypeOK
<1>3. BatchNo(j) \in Nat \ {0}
  BY BatchFacts
<1> QED
  BY <1>2, <1>3, WorkerOfFacts

LEMMA SameBatches ==
  ASSUME Workers' = Workers
  PROVE  BatchCount' = BatchCount /\ \A j \in JobIds : BatchNo(j)' = BatchNo(j)
  BY SameDeal DEF BatchCount, Rounds, BatchNo, PoppedBefore

LEMMA BatchCountIs == BatchCount \in Nat
<1>1. Cardinality(DelegatedJobs) \in Nat
  BY JobFacts, FS_Subset, FS_CardinalityType DEF DelegatedJobs
<1>2. WorkerCount \in Nat \ {0} /\ PerRound \in Nat \ {0}
  BY ExecutorAssumption DEF PerRound
<1>3. Rounds \in Nat
  BY <1>1, <1>2, Divide DEF Rounds
<1> QED
  BY <1>2, <1>3 DEF BatchCount

LEMMA SameAccounts ==
  ASSUME Accounted, Workers' = Workers, UNCHANGED <<sending, inbox, batch, reported>>
  PROVE  Accounted'
<1>1. DelegatedJobs' = DelegatedJobs /\ DelegatedJobs \subseteq JobIds
  BY SameDeal DEF DelegatedJobs
<1>2. \A j \in DelegatedJobs : BatchNo(j)' = BatchNo(j)
  BY <1>1, SameBatches
<1> QED
  BY <1>1, <1>2 DEF Accounted, OnceAt, Waits, Held

LEMMA OneTuple ==
  \A k, l : <<k>> # <<>> /\ (<<k>> = <<l>> => k = l) /\ Head(<<k>>) = k
  OBVIOUS

(* Which workers there are does not change. *)
LEMMA SameWorkers == Inv /\ [Next]_vars => Workers' = Workers
  BY DEF Next, HandlerStep, Plan, Joined, Complete, Spawn, DirectoryStep, DirectoryWritten,
         DirectoryRecv, Delegate, SetMultipartUpload, SubmitJobs, Command, WaitAll, Forward,
         Dispatch, DispatchContext, DispatchJobs, DispatchSend, DispatchSent, DispatchClose,
         CloseWorker, JoinWorker, DispatchOk, JobStep, CopyEnds, UploadEnds, EntryStep,
         EntryHeader, EntryBody, EntryFails, Work, WarmUp, TakeBatch, Invoked, InvokeFails,
         WorkerStops, WorkerStep, vars, workerVars, Workers, Inv, Types

LEMMA FanInit == Init => FanInv
<1> SUFFICES ASSUME Init PROVE FanInv
  OBVIOUS
<1>1. /\ worker \in [Workers -> {"warming", "idle", "busy", "ok", "failed"}]
      /\ Workers \in {{}, 1 .. WorkerCount}
      /\ \A w \in Workers : worker[w] = "warming"
  <2>1. CASE worker = [w \in 1 .. WorkerCount |-> "warming"]
    BY <2>1 DEF Workers
  <2>2. CASE worker = <<>>
    BY <2>2 DEF Workers
  <2> QED
    BY <2>1, <2>2 DEF Init
<1>2. BatchCount \in Nat /\ WorkerCount \in Nat \ {0}
  BY BatchCountIs, ExecutorAssumption
<1>3. FanOutTypeOK
  BY <1>1, <1>2, OneTuple DEF FanOutTypeOK, Init
<1>4. Joining
  BY <1>1, <1>2 DEF Joining, Init, FanOut
<1>5. Protocol
  <2>1. Delegating => FanOut
    BY DEF Delegating, DelegatedJobs, Delegated
  <2> QED
    BY <2>1 DEF Protocol, Init
<1>6. Accounted
  <2>1. ASSUME NEW j \in DelegatedJobs PROVE OnceAt(j, BatchNo(j))
    <3>1. FanOut /\ j \in JobIds
      BY DEF DelegatedJobs, Delegated
    <3>2. BatchNo(j) \in 1 .. BatchCount
      BY BatchFacts
    <3>3. WorkerOf(BatchNo(j)) \in Workers
      BY <1>1, <1>2, <3>1, <3>2, WorkerOfFacts DEF FanOut
    <3> QED
      BY <1>2, <3>1, <3>2, <3>3, OneTuple DEF OnceAt, Waits, Held, Init
  <2> QED
    BY <2>1 DEF Accounted, Init
<1> QED
  BY <1>3, <1>4, <1>5, <1>6 DEF FanInv

LEMMA FanUntouched ==
  ASSUME FanInv, Workers' = Workers, UNCHANGED <<delegated, dispatchVars, workerVars>>
  PROVE  FanInv'
<1>1. FanOutTypeOK'
  BY SameBatches DEF FanInv, FanOutTypeOK, dispatchVars, workerVars
<1>2. Joining' /\ Protocol'
  BY SameBatches, SameDeal DEF FanInv, Joining, Protocol, dispatchVars, workerVars
<1>3. Accounted'
  BY SameAccounts DEF FanInv, dispatchVars, workerVars
<1> QED
  BY <1>1, <1>2, <1>3 DEF FanInv

LEMMA PlanFan == Inv /\ FanInv /\ Plan => FanInv'
<1> SUFFICES ASSUME Inv, FanInv, Plan PROVE FanInv'
  OBVIOUS
<1>1. /\ UNCHANGED <<dispatchVars, workerVars>>
      /\ delegated = "plan" /\ delegated' \in {"context", "ok", "dropped"}
      /\ Delegating => delegated' # "ok"
  BY DEF Plan, Inv, Planning
<1>2. Workers' = Workers
  BY <1>1 DEF Workers, workerVars
<1>3. FanOutTypeOK'
  BY <1>1, <1>2, SameBatches DEF FanInv, FanOutTypeOK, dispatchVars, workerVars
<1>4. Joining' /\ Protocol'
  BY <1>1, <1>2, SameBatches, SameDeal DEF FanInv, Joining, Protocol, dispatchVars, workerVars
<1>5. Accounted'
  BY <1>1, <1>2, SameAccounts DEF FanInv, dispatchVars, workerVars
<1> QED
  BY <1>3, <1>4, <1>5 DEF FanInv

LEMMA DelegateFan == Inv /\ FanInv /\ Delegate => FanInv'
<1> SUFFICES ASSUME Inv, FanInv, Delegate PROVE FanInv'
  OBVIOUS
<1>1. UNCHANGED <<dispatch, sending, join, closed, worker, inbox, batch, reported>>
  BY DEF Delegate, SetMultipartUpload, SubmitJobs, Command, WaitAll, Forward, dispatchVars,
         workerVars
<1>2. Workers' = Workers
  BY <1>1 DEF Workers
<1>3. \/ delegated = "context" /\ cmds = <<>> /\ delegated' = "submit" /\ cmds' = <<"context">>
      \/ delegated = "submit" /\ cmds = <<>> /\ delegated' = "wait" /\ cmds' = <<"submit">>
      \/ /\ delegated \in {"wait", "forward"} /\ delegated' \in {"forward", "ok", "failed"}
         /\ cmds' = cmds
  BY DEF Delegate, SetMultipartUpload, SubmitJobs, Command, WaitAll, Forward, dispatchVars
<1>4. FanOutTypeOK'
  BY <1>1, <1>2, <1>3, SameBatches DEF FanInv, FanOutTypeOK
<1>5. Joining'
  BY <1>1, <1>2 DEF FanInv, Joining
<1>6. Protocol'
  BY <1>1, <1>2, <1>3, SameBatches, SameDeal, OneTuple DEF FanInv, Protocol
<1>7. Accounted'
  BY <1>1, <1>2, SameAccounts DEF FanInv
<1> QED
  BY <1>4, <1>5, <1>6, <1>7 DEF FanInv

(* The next batch leaves: it was ahead of the sender, now it waits. *)
LEMMA SendFan == Inv /\ FanInv /\ DispatchSend => FanInv'
<1> SUFFICES ASSUME Inv, FanInv, DispatchSend PROVE FanInv'
  OBVIOUS
<1> DEFINE w == WorkerOf(sending)
<1>1. /\ dispatch = "sending" /\ sending <= BatchCount
      /\ UNCHANGED <<delegated, cmds, join, worker, batch, reported>>
  BY DEF DispatchSend
<1>2. Workers' = Workers
  BY <1>1 DEF Workers
<1>3. sending \in 1 .. BatchCount /\ BatchCount \in Nat
  BY <1>1, BatchCountIs DEF FanInv, FanOutTypeOK
<1>4. CASE /\ dispatch' = "failed" /\ closed' = [v \in Workers |-> TRUE]
           /\ UNCHANGED <<sending, inbox>>
  <2>1. FanOutTypeOK'
    BY <1>1, <1>2, <1>4, SameBatches DEF FanInv, FanOutTypeOK
  <2>2. Joining' /\ Protocol'
    BY <1>1, <1>2, <1>4, SameBatches, SameDeal DEF FanInv, Joining, Protocol
  <2>3. Accounted'
    BY <1>1, <1>2, <1>4, SameAccounts DEF FanInv
  <2> QED
    BY <2>1, <2>2, <2>3 DEF FanInv
<1>5. CASE /\ worker[w] # "failed" /\ inbox[w] = <<>>
           /\ inbox' = [inbox EXCEPT ![w] = <<sending>>] /\ sending' = sending + 1
           /\ UNCHANGED <<dispatch, closed>>
  <2>1. FanOutTypeOK'
    <3>1. inbox' \in [Workers -> {<<>>} \cup {<<k>> : k \in 1 .. BatchCount}]
      BY <1>3, <1>5 DEF FanInv, FanOutTypeOK
    <3>2. \A v \in Workers, k \in 1 .. BatchCount :
            inbox'[v] = <<k>> \/ batch[v] = k => WorkerOf(k) = v
      BY <1>5, OneTuple DEF FanInv, FanOutTypeOK
    <3> QED
      BY <1>1, <1>2, <1>3, <1>5, <3>1, <3>2, SameBatches DEF FanInv, FanOutTypeOK
  <2>2. Joining'
    <3>1. \A v \in Workers : worker[v] = "ok" => inbox'[v] = <<>>
      BY <1>1, <1>5 DEF FanInv, FanOutTypeOK, Joining
    <3> QED
      BY <1>1, <1>2, <1>5, <3>1 DEF FanInv, Joining
  <2>3. Protocol'
    BY <1>1, <1>2, <1>3, <1>5, SameBatches, SameDeal DEF FanInv, Protocol
  <2>4. Accounted'
    <3>1. ASSUME NEW j \in DelegatedJobs, OnceAt(j, BatchNo(j))
          PROVE  OnceAt(j, BatchNo(j))'
      <4>1. j \in JobIds /\ BatchNo(j)' = BatchNo(j) /\ BatchNo(j) \in 1 .. BatchCount
        BY <1>2, SameBatches, BatchFacts DEF DelegatedJobs
      <4> DEFINE k == BatchNo(j)
      <4>2. CASE k = sending
        <5>1. w \in Workers
          BY <4>2, BatchWorker
        <5>2. inbox'[w] = <<sending>>
          BY <1>5, <5>1 DEF FanInv, FanOutTypeOK
        <5> QED
          BY <1>1, <1>3, <1>5, <3>1, <4>1, <4>2, <5>2 DEF OnceAt, Waits, Held
      <4>3. CASE k # sending
        <5>1. (inbox'[WorkerOf(k)] = <<k>>) <=> (inbox[WorkerOf(k)] = <<k>>)
          BY <1>5, <4>3, OneTuple DEF FanInv, FanOutTypeOK
        <5>2. sending + 1 <= k <=> sending <= k
          BY <1>3, <4>1, <4>3
        <5> QED
          BY <1>1, <1>5, <3>1, <4>1, <5>1, <5>2 DEF OnceAt, Waits, Held
      <4> QED
        BY <4>2, <4>3
    <3> QED
      BY <1>1, <1>2, <3>1, SameDeal DEF FanInv, Accounted
  <2> QED
    BY <2>1, <2>2, <2>3, <2>4 DEF FanInv
<1> QED
  BY <1>4, <1>5 DEF DispatchSend, DispatchFails

LEMMA DispatchFan == Inv /\ FanInv /\ Dispatch => FanInv'
<1> SUFFICES ASSUME Inv, FanInv, Dispatch PROVE FanInv'
  OBVIOUS
<1>1. CASE DispatchSend
  BY <1>1, SendFan
<1>2. CASE DispatchContext \/ DispatchJobs \/ DispatchSent \/ DispatchClose
  <2>1. UNCHANGED <<delegated, sending, join, worker, inbox, batch, reported>>
    BY <1>2 DEF DispatchContext, DispatchJobs, DispatchSent, DispatchClose, workerVars
  <2>2. Workers' = Workers
    BY <2>1 DEF Workers
  <2>3. FanOutTypeOK'
    BY <1>2, <2>1, <2>2, SameBatches
       DEF FanInv, FanOutTypeOK, DispatchContext, DispatchJobs, DispatchSent, DispatchClose,
           DispatchFails
  <2>4. Joining'
    BY <1>2, <2>1, <2>2
       DEF FanInv, Joining, DispatchContext, DispatchJobs, DispatchSent, DispatchClose,
           DispatchFails
  <2>5. Protocol'
    BY <1>2, <2>1, <2>2, SameBatches, SameDeal
       DEF FanInv, FanOutTypeOK, Protocol, DispatchContext, DispatchJobs, DispatchSent,
           DispatchClose, DispatchFails, NoMoreCommands
  <2> QED
    BY <2>1, <2>2, <2>3, <2>4, <2>5, SameAccounts DEF FanInv
<1>3. CASE CloseWorker \/ JoinWorker \/ DispatchOk
  <2>1. UNCHANGED <<delegated, cmds, sending, worker, inbox, batch, reported>>
    BY <1>3 DEF CloseWorker, JoinWorker, DispatchOk, workerVars
  <2>2. Workers' = Workers
    BY <2>1 DEF Workers
  <2>3. WorkerCount \in Nat
    BY ExecutorAssumption
  <2>4. /\ dispatch \in {"joining"} /\ dispatch' \in {"joining", "ok", "failed"}
        /\ join' \in 1 .. WorkerCount + 1
        /\ closed' \in [Workers -> BOOLEAN]
    <3>1. join \in 1 .. WorkerCount + 1 /\ Workers \in {{}, 1 .. WorkerCount}
      BY DEF FanInv, FanOutTypeOK
    <3>2. closed \in [Workers -> BOOLEAN]
      BY DEF FanInv, FanOutTypeOK
    <3>3. CASE CloseWorker
      BY <3>1, <3>2, <3>3 DEF CloseWorker, Closed
    <3>4. CASE JoinWorker
      <4>1. join \in 1 .. WorkerCount
        BY <3>1, <3>4 DEF JoinWorker
      <4>2. CASE DispatchFails /\ UNCHANGED join
        BY <3>1, <3>4, <4>2 DEF JoinWorker, DispatchFails
      <4>3. CASE join' = join + 1 /\ UNCHANGED <<dispatch, closed>>
        BY <2>3, <3>2, <3>4, <4>1, <4>3 DEF JoinWorker
      <4> QED
        BY <3>4, <4>2, <4>3 DEF JoinWorker
    <3>5. CASE DispatchOk
      BY <3>1, <3>2, <3>5 DEF DispatchOk
    <3> QED
      BY <1>3, <3>3, <3>4, <3>5
  <2>5. FanOutTypeOK'
    BY <2>1, <2>2, <2>4, SameBatches DEF FanInv, FanOutTypeOK
  <2>6. Joining'
    <3>1. join \in 1 .. WorkerCount + 1 /\ Workers \in {{}, 1 .. WorkerCount}
      BY DEF FanInv, FanOutTypeOK
    <3>2. \A w \in Workers : closed[w] => closed'[w]
      BY <1>3 DEF FanInv, FanOutTypeOK, CloseWorker, Closed, JoinWorker, DispatchOk, DispatchFails
    <3>3. \A w \in Workers : w < join' => worker[w] = "ok"
      BY <1>3, <2>3, <3>1 DEF FanInv, Joining, CloseWorker, JoinWorker, DispatchOk
    <3>4. dispatch' = "ok" => join' \notin Workers
      BY <1>3, <2>4 DEF CloseWorker, JoinWorker, DispatchOk, DispatchFails
    <3> QED
      BY <2>1, <2>2, <2>4, <3>2, <3>3, <3>4 DEF FanInv, Joining
  <2>7. Protocol'
    BY <1>3, <2>1, <2>2, SameBatches, SameDeal
       DEF FanInv, Protocol, CloseWorker, JoinWorker, DispatchOk, DispatchFails
  <2> QED
    BY <2>1, <2>2, <2>6, <2>7, <2>5, SameAccounts DEF FanInv
<1> QED
  BY <1>1, <1>2, <1>3 DEF Dispatch

(* A worker takes the batch in its channel: it held none. *)
LEMMA TakeFan == \A w \in Workers : Inv /\ FanInv /\ TakeBatch(w) => FanInv'
<1> SUFFICES ASSUME NEW w \in Workers, Inv, FanInv, TakeBatch(w) PROVE FanInv'
  OBVIOUS
<1>1. /\ worker[w] = "idle" /\ worker' = [worker EXCEPT ![w] = "busy"]
      /\ batch' = [batch EXCEPT ![w] = Head(inbox[w])] /\ inbox' = [inbox EXCEPT ![w] = <<>>]
      /\ UNCHANGED <<delegated, cmds, dispatch, sending, join, closed, reported>>
  BY DEF TakeBatch, WorkerStep, dispatchVars
<1>2. Workers' = Workers
  BY <1>1 DEF Workers, FanInv, FanOutTypeOK
<1>3. PICK n \in 1 .. BatchCount : inbox[w] = <<n>>
  <2>1. inbox[w] \in {<<>>} \cup {<<k>> : k \in 1 .. BatchCount}
    BY DEF FanInv, FanOutTypeOK
  <2>2. inbox[w] # <<>>
    BY DEF TakeBatch
  <2> QED
    BY <2>1, <2>2
<1>4. batch[w] = 0 /\ WorkerOf(n) = w /\ Head(inbox[w]) = n
  BY <1>1, <1>3, OneTuple DEF FanInv, FanOutTypeOK, Joining
<1>5. batch' = [batch EXCEPT ![w] = n]
  BY <1>1, <1>4
<1>6. FanOutTypeOK'
  <2>1. /\ worker' \in [Workers -> {"warming", "idle", "busy", "ok", "failed"}]
        /\ inbox' \in [Workers -> {<<>>} \cup {<<k>> : k \in 1 .. BatchCount}]
        /\ batch' \in [Workers -> 0 .. BatchCount]
    BY <1>1, <1>5, BatchCountIs DEF FanInv, FanOutTypeOK
  <2>2. \A v \in Workers, k \in 1 .. BatchCount :
          inbox'[v] = <<k>> \/ batch'[v] = k => WorkerOf(k) = v
    BY <1>1, <1>4, <1>5, OneTuple DEF FanInv, FanOutTypeOK
  <2> QED
    BY <1>1, <1>2, <2>1, <2>2, SameBatches DEF FanInv, FanOutTypeOK
<1>7. Joining'
  BY <1>1, <1>2, <1>5 DEF FanInv, FanOutTypeOK, Joining
<1>8. Protocol'
  BY <1>1, <1>2, SameBatches, SameDeal DEF FanInv, Protocol
<1>9. Accounted'
  <2>1. ASSUME NEW j \in DelegatedJobs, OnceAt(j, BatchNo(j))
        PROVE  OnceAt(j, BatchNo(j))'
    <3>1. j \in JobIds /\ BatchNo(j)' = BatchNo(j) /\ BatchNo(j) \in 1 .. BatchCount
      BY <1>2, SameBatches, BatchFacts DEF DelegatedJobs
    <3> DEFINE k == BatchNo(j)
    <3>2. CASE k = n
      <4>1. inbox'[w] = <<>> /\ batch'[w] = n
        BY <1>1, <1>5 DEF FanInv, FanOutTypeOK
      <4>2. inbox[w] = <<k>>
        BY <1>3, <3>2
      <4> QED
        BY <1>1, <1>4, <2>1, <3>1, <3>2, <4>1, <4>2, OneTuple DEF OnceAt, Waits, Held
    <3>3. CASE k # n
      <4>1. (inbox'[WorkerOf(k)] = <<k>>) <=> (inbox[WorkerOf(k)] = <<k>>)
        <5>1. WorkerOf(k) \in Workers
          BY BatchWorker
        <5>2. CASE WorkerOf(k) = w
          BY <1>1, <1>3, <3>3, <5>2, OneTuple DEF FanInv, FanOutTypeOK
        <5>3. CASE WorkerOf(k) # w
          BY <1>1, <5>1, <5>3 DEF FanInv, FanOutTypeOK
        <5> QED
          BY <5>2, <5>3
      <4>2. (batch'[WorkerOf(k)] = k) <=> (batch[WorkerOf(k)] = k)
        BY <1>4, <1>5, <3>1, <3>3 DEF FanInv, FanOutTypeOK
      <4> QED
        BY <1>1, <2>1, <3>1, <4>1, <4>2 DEF OnceAt, Waits, Held
    <3> QED
      BY <3>2, <3>3
  <2> QED
    BY <1>1, <1>2, <2>1, SameDeal DEF FanInv, Accounted
<1> QED
  BY <1>6, <1>7, <1>8, <1>9 DEF FanInv

(* A worker reports the jobs of its batch, and those only. *)
LEMMA ReportFan == \A w \in Workers : Inv /\ FanInv /\ Invoked(w) => FanInv'
<1> SUFFICES ASSUME NEW w \in Workers, Inv, FanInv, Invoked(w) PROVE FanInv'
  OBVIOUS
<1>1. /\ worker[w] = "busy" /\ worker' = [worker EXCEPT ![w] = "idle"]
      /\ batch' = [batch EXCEPT ![w] = 0]
      /\ reported' = [j \in JobIds |->
                        IF j \in DelegatedJobs /\ BatchNo(j) = batch[w]
                        THEN reported[j] + 1 ELSE reported[j]]
      /\ UNCHANGED <<delegated, cmds, dispatch, sending, join, closed, inbox>>
  BY DEF Invoked, WorkerStep, dispatchVars
<1>2. Workers' = Workers
  BY <1>1 DEF Workers, FanInv, FanOutTypeOK
<1>3. FanOutTypeOK'
  <2>1. /\ worker' \in [Workers -> {"warming", "idle", "busy", "ok", "failed"}]
        /\ batch' \in [Workers -> 0 .. BatchCount] /\ reported' \in [JobIds -> Nat]
    BY <1>1, BatchCountIs DEF FanInv, FanOutTypeOK
  <2>2. \A v \in Workers, k \in 1 .. BatchCount :
          inbox[v] = <<k>> \/ batch'[v] = k => WorkerOf(k) = v
    BY <1>1 DEF FanInv, FanOutTypeOK
  <2> QED
    BY <1>1, <1>2, <2>1, <2>2, SameBatches DEF FanInv, FanOutTypeOK
<1>4. Joining'
  BY <1>1, <1>2 DEF FanInv, FanOutTypeOK, Joining
<1>5. Protocol'
  BY <1>1, <1>2, SameBatches, SameDeal DEF FanInv, Protocol
<1>6. Accounted'
  <2>1. ASSUME NEW j \in DelegatedJobs, OnceAt(j, BatchNo(j))
        PROVE  OnceAt(j, BatchNo(j))'
    <3>1. j \in JobIds /\ BatchNo(j)' = BatchNo(j) /\ BatchNo(j) \in 1 .. BatchCount
      BY <1>2, SameBatches, BatchFacts DEF DelegatedJobs
    <3> DEFINE k == BatchNo(j)
    <3>2. CASE k = batch[w]
      <4>1. WorkerOf(k) = w
        BY <3>1, <3>2 DEF FanInv, FanOutTypeOK
      <4>2. batch'[w] = 0 /\ reported'[j] = reported[j] + 1
        BY <1>1, <3>1, <3>2 DEF FanInv, FanOutTypeOK
      <4> QED
        BY <1>1, <2>1, <3>1, <3>2, <4>1, <4>2 DEF OnceAt, Waits, Held
    <3>3. CASE k # batch[w]
      <4>1. (batch'[WorkerOf(k)] = k) <=> (batch[WorkerOf(k)] = k)
        BY <1>1, <3>1, <3>3 DEF FanInv, FanOutTypeOK
      <4>2. reported'[j] = reported[j]
        BY <1>1, <3>1, <3>3
      <4> QED
        BY <1>1, <2>1, <3>1, <4>1, <4>2 DEF OnceAt, Waits, Held
    <3> QED
      BY <3>2, <3>3
  <2>2. \A j \in JobIds \ DelegatedJobs : reported'[j] = 0
    BY <1>1 DEF FanInv, Accounted
  <2> QED
    BY <1>1, <1>2, <2>1, <2>2, SameDeal DEF FanInv, Accounted
<1> QED
  BY <1>3, <1>4, <1>5, <1>6 DEF FanInv

LEMMA WorkFan == \A w \in Workers : Inv /\ FanInv /\ Work(w) => FanInv'
<1> SUFFICES ASSUME NEW w \in Workers, Inv, FanInv, Work(w) PROVE FanInv'
  OBVIOUS
<1>1. CASE TakeBatch(w)
  BY <1>1, TakeFan
<1>2. CASE Invoked(w)
  BY <1>2, ReportFan
<1>3. CASE WarmUp(w) \/ InvokeFails(w) \/ WorkerStops(w)
  <2>1. /\ UNCHANGED <<delegated, cmds, dispatch, sending, join, closed, inbox, batch, reported>>
        /\ \/ /\ worker[w] = "warming" /\ worker' = [worker EXCEPT ![w] = "idle"]
           \/ /\ worker[w] \in {"warming", "busy"} /\ worker' = [worker EXCEPT ![w] = "failed"]
           \/ /\ worker[w] = "idle" /\ worker' = [worker EXCEPT ![w] = "ok"]
              /\ inbox[w] = <<>> /\ closed[w]
    BY <1>3 DEF WarmUp, InvokeFails, WorkerStops, WorkerStep, dispatchVars
  <2>2. Workers' = Workers
    BY <2>1 DEF Workers, FanInv, FanOutTypeOK
  <2>3. FanOutTypeOK'
    BY <2>1, <2>2, SameBatches DEF FanInv, FanOutTypeOK
  <2>4. Joining'
    BY <2>1, <2>2 DEF FanInv, FanOutTypeOK, Joining
  <2>5. Protocol'
    BY <2>1, <2>2, SameBatches, SameDeal DEF FanInv, Protocol
  <2> QED
    BY <2>1, <2>2, <2>3, <2>4, <2>5, SameAccounts DEF FanInv
<1> QED
  BY <1>1, <1>2, <1>3 DEF Work

LEMMA FanStep == Inv /\ FanInv /\ [Next]_vars => FanInv'
<1> SUFFICES ASSUME Inv, FanInv, [Next]_vars PROVE FanInv'
  OBVIOUS
<1>1. Workers' = Workers
  BY SameWorkers
<1>2. ASSUME UNCHANGED <<delegated, dispatchVars, workerVars>> PROVE FanInv'
  BY <1>1, <1>2, FanUntouched
<1>3. CASE HandlerStep
  BY <1>2, <1>3, PlanFan DEF HandlerStep, Joined, Complete
<1>4. CASE DirectoryStep
  BY <1>2, <1>4 DEF DirectoryStep, DirectoryWritten, DirectoryRecv
<1>5. CASE \E j \in LocalJobs : Spawn(j) \/ JobStep(j)
  BY <1>2, <1>5 DEF Spawn, JobStep, CopyEnds, UploadEnds
<1>6. CASE \E e \in LocalEntries : EntryStep(e)
  BY <1>2, <1>6 DEF EntryStep, EntryHeader, EntryBody, EntryFails
<1>7. CASE UNCHANGED vars
  BY <1>2, <1>7 DEF vars
<1> QED
  BY <1>3, <1>4, <1>5, <1>6, <1>7, DelegateFan, DispatchFan, WorkFan DEF Next
-----------------------------------------------------------------------------
(* The archive *)

(* A job that has succeeded wrote its entries, each of which sent its header *)
(* before its body.                                                          *)
EntriesDone == \A j \in LocalJobs : job[j] = "ok" => \A e \in Jobs[j].entries : entry[e] = "written"
HeadersSent == \A e \in LocalEntries : entry[e] \in {"body", "written"} => e \in headers

(* A directory that is not whole was written when no header could come. *)
DirectoryRead == cd = "written" => directory = Entries \/ (SendersDropped /\ headers \subseteq directory)

(* Past wait_all every delegated job is reported; in the end, so are the     *)
(* headers of its entries.                                                   *)
AllReported == delegated \in {"forward", "ok"} => \A j \in DelegatedJobs : reported[j] = 1
HeadersBack == delegated = "ok" => \A j \in DelegatedJobs : Jobs[j].entries \subseteq headers

Answered == handler \in {"complete", "ok"} => delegated = "ok" /\ \A j \in LocalJobs : job[j] = "ok"

WholeInv ==
  /\ LocalTypeOK /\ EntriesDone /\ HeadersSent /\ DirectoryRead
  /\ AllReported /\ HeadersBack /\ Answered

(* A dispatch task that ends well has joined every worker, and each had      *)
(* emptied its channel and reported its batch.                               *)
LEMMA NothingLeft ==
  ASSUME Inv, FanInv, Delegating, dispatch = "ok"
  PROVE  \A j \in DelegatedJobs : reported[j] = 1
<1> SUFFICES ASSUME NEW j \in DelegatedJobs PROVE reported[j] = 1
  OBVIOUS
<1> DEFINE k == BatchNo(j)
<1>1. k \in 1 .. BatchCount /\ WorkerOf(k) \in Workers /\ BatchCount \in Nat
  BY BatchFacts, BatchWorker, BatchCountIs
<1>2. sending \in Nat /\ sending > k
  BY <1>1 DEF FanInv, FanOutTypeOK, Protocol
<1>3. worker[WorkerOf(k)] = "ok"
  <2>1. Workers = 1 .. WorkerCount /\ join \in 1 .. WorkerCount + 1 /\ WorkerCount \in Nat
    BY <1>1, ExecutorAssumption DEF FanInv, FanOutTypeOK
  <2>2. join = WorkerCount + 1
    BY <2>1 DEF FanInv, Joining
  <2> QED
    BY <1>1, <2>1, <2>2 DEF FanInv, Joining
<1>4. ~Waits(k) /\ ~Held(k)
  <2>1. inbox[WorkerOf(k)] = <<>> /\ batch[WorkerOf(k)] = 0
    BY <1>1, <1>3 DEF FanInv, Joining
  <2>2. <<k>> # <<>> /\ k # 0
    BY <1>1, OneTuple
  <2> QED
    BY <2>1, <2>2 DEF Waits, Held
<1>5. OnceAt(j, k)
  BY DEF FanInv, Accounted
<1> QED
  BY <1>1, <1>2, <1>4, <1>5 DEF OnceAt

LEMMA WholeInit == Init => WholeInv
<1> SUFFICES ASSUME Init PROVE WholeInv
  OBVIOUS
<1>1. LocalTypeOK
  BY JobFacts DEF Init, LocalTypeOK
<1>2. \A j \in LocalJobs : j \in JobIds
  BY DEF LocalJobs
<1>3. \A e \in LocalEntries : e \in Entries
  BY <1>2 DEF LocalEntries, Entries
<1> QED
  BY <1>1, <1>2, <1>3
     DEF Init, WholeInv, EntriesDone, HeadersSent, DirectoryRead, AllReported, HeadersBack, Answered

LEMMA WholeUntouched ==
  ASSUME WholeInv, Workers' = Workers, permits' \in 0 .. MaxMemory,
         UNCHANGED <<handler, job, entry, headers, directory, cd, delegated, reported>>
  PROVE  WholeInv'
<1>1. LocalTypeOK'
  BY DEF WholeInv, LocalTypeOK
<1> QED
  BY <1>1, SameDeal
     DEF WholeInv, EntriesDone, HeadersSent, DirectoryRead, SendersDropped, AllReported,
         HeadersBack, Answered

LEMMA HandlerWhole ==
  ASSUME Inv, WholeInv, HandlerStep, Workers' = Workers
  PROVE  WholeInv'
<1>1. UNCHANGED <<permits, job, entry, headers, directory, cd, reported>>
  BY DEF HandlerStep, Plan, Joined, Complete, localVars, workerVars
<1>2. LocalTypeOK'
  BY <1>1 DEF HandlerStep, Plan, Joined, Complete, WholeInv, LocalTypeOK
<1>3. EntriesDone' /\ HeadersSent'
  BY <1>1, SameDeal DEF WholeInv, EntriesDone, HeadersSent
<1>4. CASE Plan
  <2>1. cd = "recv" /\ handler' \in {"execute", "refused"}
    BY <1>4 DEF Plan, Inv, Planning
  <2>2. delegated' = "ok" => DelegatedJobs = {}
    BY <1>4 DEF Plan, Delegating
  <2>3. delegated' # "forward"
    BY <1>4 DEF Plan
  <2> QED
    BY <1>1, <1>2, <1>3, <2>1, <2>2, <2>3, SameDeal
       DEF WholeInv, DirectoryRead, AllReported, HeadersBack, Answered
<1>5. CASE Joined \/ Complete
  <2>1. delegated' = delegated
    BY <1>5 DEF Joined, Complete
  <2>2. handler' \in {"complete", "ok"} => delegated = "ok" /\ \A j \in LocalJobs : job[j] = "ok"
    BY <1>5 DEF Joined, Complete, LocalEnded, LocalFailed, JobEnded, WholeInv, Answered
  <2> QED
    BY <1>1, <1>2, <1>3, <2>1, <2>2, SameDeal
       DEF WholeInv, DirectoryRead, SendersDropped, AllReported, HeadersBack, Answered
<1> QED
  BY <1>4, <1>5 DEF HandlerStep

(* A job that starts, or ends; it ends well with its entries written. *)
LEMMA JobWhole ==
  ASSUME WholeInv, Workers' = Workers, handler = "execute", permits' \in 0 .. MaxMemory,
         UNCHANGED <<handler, entry, headers, directory, cd, delegated, reported>>,
         NEW j \in LocalJobs, NEW s \in {"running", "ok", "failed"},
         job' = [job EXCEPT ![j] = s],
         s = "ok" => \A e \in Jobs[j].entries : entry[e] = "written"
  PROVE  WholeInv'
<1>1. \A i \in LocalJobs : i \in JobIds
  BY DEF LocalJobs
<1>2. LocalTypeOK'
  BY <1>1 DEF WholeInv, LocalTypeOK
<1>3. EntriesDone'
  BY <1>1, SameDeal DEF WholeInv, LocalTypeOK, EntriesDone
<1> QED
  BY <1>2, <1>3, SameDeal
     DEF WholeInv, HeadersSent, DirectoryRead, SendersDropped, AllReported, HeadersBack, Answered

LEMMA EntryWhole ==
  ASSUME WholeInv, Workers' = Workers, NEW e \in LocalEntries, EntryStep(e)
  PROVE  WholeInv'
<1>1. /\ UNCHANGED <<handler, permits, job, directory, cd, delegated, reported>>
      /\ handler = "execute" /\ e \in Entries
  <2>1. e \in Entries
    BY DEF LocalEntries, LocalJobs, Entries
  <2> QED
    BY <2>1 DEF EntryStep, EntryHeader, EntryBody, EntryFails, Executing, workerVars
<1>2. \/ /\ entry[e] = "todo" /\ entry' = [entry EXCEPT ![e] = "body"]
         /\ headers' = headers \cup {e}
      \/ /\ entry[e] = "body" /\ entry' = [entry EXCEPT ![e] = "written"] /\ headers' = headers
      \/ /\ entry[e] \in {"todo", "body"} /\ entry' = [entry EXCEPT ![e] = "failed"]
         /\ headers' = headers
  BY DEF EntryStep, EntryHeader, EntryBody, EntryFails
<1>3. LocalTypeOK'
  BY <1>1, <1>2 DEF WholeInv, LocalTypeOK
<1>4. \A x \in Entries : entry[x] = "written" => entry'[x] = "written"
  BY <1>1, <1>2 DEF WholeInv, LocalTypeOK
<1>5. EntriesDone'
  <2>1. \A j \in LocalJobs : Jobs[j].entries \subseteq Entries
    BY DEF LocalJobs, Entries
  <2> QED
    BY <1>1, <1>4, <2>1, SameDeal DEF WholeInv, EntriesDone
<1>6. HeadersSent'
  <2>1. \A x \in LocalEntries : x \in Entries
    BY DEF LocalEntries, LocalJobs, Entries
  <2> QED
    BY <1>1, <1>2, <2>1, SameDeal DEF WholeInv, LocalTypeOK, HeadersSent
<1>7. DirectoryRead'
  <2>1. ~SendersDropped
    BY <1>2 DEF SendersDropped
  <2> QED
    BY <1>1, <2>1 DEF WholeInv, DirectoryRead
<1> QED
  BY <1>1, <1>2, <1>3, <1>5, <1>6, <1>7, SameDeal
     DEF WholeInv, AllReported, HeadersBack, Answered

LEMMA DirectoryWhole ==
  ASSUME Inv, WholeInv, Workers' = Workers, DirectoryStep
  PROVE  WholeInv'
<1>1. UNCHANGED <<handler, permits, job, entry, headers, delegated, reported>>
  BY DEF DirectoryStep, DirectoryRecv, DirectoryWritten, workerVars
<1>2. LocalTypeOK'
  BY <1>1 DEF DirectoryStep, DirectoryRecv, DirectoryWritten, WholeInv, LocalTypeOK
<1>3. DirectoryRead'
  <2>1. CASE DirectoryWritten
    <3>1. directory = Entries \/ (SendersDropped /\ headers \subseteq directory)
      BY <2>1, FullIsWhole DEF DirectoryWritten, Inv, Types
    <3> QED
      BY <1>1, <2>1, <3>1, SameDeal DEF DirectoryRead, DirectoryWritten, SendersDropped
  <2>2. CASE \E e \in Entries : DirectoryRecv(e)
    BY <2>2 DEF DirectoryRead, DirectoryRecv
  <2> QED
    BY <2>1, <2>2 DEF DirectoryStep
<1> QED
  BY <1>1, <1>2, <1>3, SameDeal
     DEF WholeInv, EntriesDone, HeadersSent, AllReported, HeadersBack, Answered

LEMMA DelegateWhole ==
  ASSUME Inv, FanInv, WholeInv, Workers' = Workers, Delegate
  PROVE  WholeInv'
<1>1. /\ UNCHANGED <<handler, permits, job, entry, directory, cd, reported>>
      /\ handler = "execute" /\ delegated \notin {"ok", "failed"}
  BY DEF Delegate, SetMultipartUpload, SubmitJobs, Command, WaitAll, Forward, Executing,
         localVars, workerVars
<1>2. headers \subseteq headers' /\ headers' \subseteq Entries
  BY DEF Delegate, SetMultipartUpload, SubmitJobs, Command, WaitAll, Forward, Entries, WholeInv,
         LocalTypeOK
<1>3. LocalTypeOK'
  BY <1>1, <1>2 DEF WholeInv, LocalTypeOK
<1>4. EntriesDone' /\ HeadersSent'
  BY <1>1, <1>2, SameDeal DEF WholeInv, EntriesDone, HeadersSent
<1>5. DirectoryRead'
  BY <1>1 DEF WholeInv, DirectoryRead, SendersDropped
<1>6. AllReported'
  <2>1. delegated' = "forward" => dispatch = "ok"
    BY DEF Delegate, SetMultipartUpload, SubmitJobs, Command, WaitAll, Forward
  <2>2. delegated' = "ok" => delegated = "forward"
    BY DEF Delegate, SetMultipartUpload, SubmitJobs, Command, WaitAll, Forward
  <2>3. DelegatedJobs # {} => Delegating
    BY DEF Delegating
  <2> QED
    BY <1>1, <2>1, <2>2, <2>3, NothingLeft, SameDeal DEF WholeInv, AllReported
<1>7. HeadersBack'
  <2>1. ASSUME delegated' = "ok", NEW j \in DelegatedJobs PROVE Jobs[j].entries \subseteq headers'
    <3>1. Forward
      BY <2>1 DEF Delegate, SetMultipartUpload, SubmitJobs, Command, WaitAll
    <3>2. j \in JobIds /\ reported[j] = 1
      BY <3>1 DEF Forward, WholeInv, AllReported, DelegatedJobs
    <3> QED
      BY <3>1, <3>2 DEF Forward
  <2> QED
    BY <2>1, SameDeal DEF HeadersBack
<1> QED
  BY <1>1, <1>3, <1>4, <1>5, <1>6, <1>7 DEF WholeInv, Answered

(* Past wait_all no worker reports any more. *)
LEMMA WorkWhole ==
  ASSUME Inv, WholeInv, Workers' = Workers, NEW w \in Workers, Work(w)
  PROVE  WholeInv'
<1>1. UNCHANGED <<handler, permits, job, entry, headers, directory, cd, delegated>>
      /\ ~WorkerEnded(w)
  BY DEF Work, WarmUp, TakeBatch, Invoked, InvokeFails, WorkerStops, WorkerStep, WorkerEnded,
         localVars
<1>2. delegated \in {"forward", "ok"} => DelegatedJobs = {}
  BY <1>1 DEF Inv, WorkersJoined, Delegating
<1>3. LocalTypeOK'
  BY <1>1 DEF WholeInv, LocalTypeOK
<1> QED
  BY <1>1, <1>2, <1>3, SameDeal
     DEF WholeInv, EntriesDone, HeadersSent, DirectoryRead, SendersDropped, AllReported,
         HeadersBack, Answered

LEMMA WholeStep == Inv /\ FanInv /\ Budget' /\ WholeInv /\ [Next]_vars => WholeInv'
<1> SUFFICES ASSUME Inv, FanInv, Budget', WholeInv, [Next]_vars PROVE WholeInv'
  OBVIOUS
<1>1. Workers' = Workers /\ permits' \in 0 .. MaxMemory
  BY SameWorkers, JobFacts DEF Budget
<1>2. CASE HandlerStep
  BY <1>1, <1>2, HandlerWhole
<1>3. CASE DirectoryStep
  BY <1>1, <1>3, DirectoryWhole
<1>4. CASE Delegate
  BY <1>1, <1>4, DelegateWhole
<1>5. CASE Dispatch
  <2>1. UNCHANGED <<handler, job, entry, headers, directory, cd, delegated, reported>>
    BY <1>5
       DEF Dispatch, DispatchContext, DispatchJobs, DispatchSend, DispatchSent, DispatchClose,
           CloseWorker, JoinWorker, DispatchOk, localVars, workerVars
  <2> QED
    BY <1>1, <2>1, WholeUntouched
<1>6. ASSUME NEW j \in LocalJobs, Spawn(j) PROVE WholeInv'
  <2>1. /\ UNCHANGED <<handler, entry, headers, directory, cd, delegated, reported>>
        /\ handler = "execute" /\ job' = [job EXCEPT ![j] = "running"]
    BY <1>6 DEF Spawn, Executing, workerVars
  <2> QED
    BY <1>1, <2>1, JobWhole
<1>7. ASSUME NEW j \in LocalJobs, JobStep(j) PROVE WholeInv'
  <2>1. /\ UNCHANGED <<handler, entry, headers, directory, cd, delegated, reported>>
        /\ handler = "execute"
    BY <1>7 DEF JobStep, CopyEnds, UploadEnds, Executing, workerVars
  <2>2. PICK s \in {"ok", "failed"} :
          /\ job' = [job EXCEPT ![j] = s]
          /\ s = "ok" => \A e \in Jobs[j].entries : entry[e] = "written"
    <3>1. CASE CopyEnds(j)
      <4>1. Jobs[j].entries = {}
        BY <3>1, ExecutorAssumption DEF CopyEnds, LocalJobs
      <4> QED
        BY <3>1, <4>1 DEF CopyEnds, End
    <3>2. CASE UploadEnds(j)
      BY <3>2 DEF UploadEnds, Resolved, End
    <3> QED
      BY <1>7, <3>1, <3>2 DEF JobStep
  <2> QED
    BY <1>1, <2>1, <2>2, JobWhole
<1>8. CASE \E e \in LocalEntries : EntryStep(e)
  BY <1>1, <1>8, EntryWhole
<1>9. CASE \E w \in Workers : Work(w)
  BY <1>1, <1>9, WorkWhole
<1>10. CASE UNCHANGED vars
  BY <1>1, <1>10, WholeUntouched DEF vars, localVars, workerVars
<1> QED
  BY <1>2, <1>3, <1>4, <1>5, <1>6, <1>7, <1>8, <1>9, <1>10 DEF Next

(* Every entry is in a job, a local one or a delegated one. *)
LEMMA WholeIsWhole ==
  ASSUME Inv, FanInv, WholeInv
  PROVE  ArchiveWhole
<1> SUFFICES ASSUME handler \in {"complete", "ok"}
             PROVE  /\ directory = Entries
                    /\ \A e \in LocalEntries : entry[e] = "written"
                    /\ \A j \in JobIds : reported[j] = IF j \in LocalJobs THEN 0 ELSE 1
  BY DEF ArchiveWhole
<1>1. delegated = "ok" /\ \A j \in LocalJobs : job[j] = "ok"
  BY DEF WholeInv, Answered
<1>2. \A e \in LocalEntries : entry[e] = "written"
  BY <1>1 DEF WholeInv, EntriesDone, LocalEntries
<1>3. \A j \in JobIds : Jobs[j].entries \subseteq headers
  <2>1. ASSUME NEW j \in LocalJobs PROVE Jobs[j].entries \subseteq headers
    BY <1>2 DEF WholeInv, HeadersSent, LocalEntries
  <2>2. ASSUME NEW j \in DelegatedJobs PROVE Jobs[j].entries \subseteq headers
    BY <1>1 DEF WholeInv, HeadersBack
  <2> QED
    BY <2>1, <2>2 DEF LocalJobs, DelegatedJobs
<1>4. Entries \subseteq headers
  BY <1>3 DEF Entries
<1>5. cd = "written"
  BY <1>1, DirectoryIsLocal DEF Inv, DirectoryJobLast, JobEnded
<1>6. directory = Entries
  BY <1>4, <1>5 DEF WholeInv, DirectoryRead, Inv, Types
<1>7. \A j \in JobIds : reported[j] = IF j \in LocalJobs THEN 0 ELSE 1
  BY <1>1 DEF WholeInv, AllReported, FanInv, Accounted, LocalJobs, DelegatedJobs
<1> QED
  BY <1>2, <1>6, <1>7
-----------------------------------------------------------------------------
(* The theorems *)

(* What the running jobs hold of the memory budget and what is left of it   *)
(* are always the whole budget, however jobs end (part_executor/mod.rs:87:   *)
(* the permits are acquired for a task and dropped with it).                 *)
THEOREM BudgetStaysConserved == Spec => []BudgetConserved
<1>1. Inv /\ Budget => BudgetConserved
  BY DEF Budget
<1> QED
  BY <1>1, InitInv, InvStep, BudgetInit, BudgetStep, PTL DEF Spec

(* When the handler has answered, or completes the upload, no worker task    *)
(* still runs (lambda_executor.rs:145, main.rs: the answer comes after       *)
(* try_join).                                                                *)
THEOREM NoWorkerOutlivesAnswer == Spec => []NoWorkerOutlives
<1>1. Inv => NoWorkerOutlives
  BY DEF Inv
<1> QED
  BY <1>1, Invariance, PTL

LEMMA EverythingHolds == Spec => [](Inv /\ Budget /\ FanInv /\ WholeInv)
<1> DEFINE All == Inv /\ Budget /\ FanInv /\ WholeInv
<1>1. Init => All
  BY InitInv, BudgetInit, FanInit, WholeInit
<1>2. All /\ [Next]_vars => All'
  <2> SUFFICES ASSUME All, [Next]_vars PROVE All'
    OBVIOUS
  <2>1. Inv' /\ Budget' /\ FanInv'
    BY InvStep, BudgetStep, FanStep
  <2> QED
    BY <2>1, WholeStep
<1> QED
  BY <1>1, <1>2, PTL DEF Spec

(* Every variable keeps its type; above all, the budget is never overdrawn,  *)
(* and a worker only ever has batches that the cycle over the workers gives  *)
(* it (lambda_executor.rs:130).                                              *)
THEOREM ExecutorTypeOK == Spec => []TypeOK
<1>1. FanInv /\ WholeInv => TypeOK
  BY DEF FanInv, WholeInv, TypeOK
<1> QED
  BY <1>1, EverythingHolds, PTL

(* An archive that may be completed has every part, once, and a directory    *)
(* with a header for every entry, however work was dealt to workers and      *)
(* whatever failed (part_executor/mod.rs:150, main.rs:179).                  *)
THEOREM ArchiveIsWhole == Spec => []ArchiveWhole
<1>1. Inv /\ FanInv /\ WholeInv => ArchiveWhole
  BY WholeIsWhole
<1> QED
  BY <1>1, EverythingHolds, PTL
=============================================================================
