------------------------------ MODULE Benchmark ------------------------------
(***************************************************************************)
(* One execution of the benchmark state machine (benching.asl.json): all   *)
(* contenders side by side, the runs of each side by side, then per        *)
(* contender the control Lambda, the performance gate, the deletion of the *)
(* archives and, at the end, the two lists.                                *)
(*                                                                         *)
(* A contender Lambda is external: during a run it may upload an archive,  *)
(* good or bad, once, and answers or crashes. When the connection to it is *)
(* lost (Lambda.SdkClientException) the state machine goes on and so does  *)
(* the run. A definition that stands next to one of the same shape and     *)
(* that no specification uses (AnyFailed0, ...) is a plausible bug in it.  *)
(***************************************************************************)
EXTENDS Integers, FiniteSets

CONSTANTS
  Contenders,     (* $states.input.contenders                               *)
  RunsPerContender,
  Slow,           (* contenders that the performance gate rejects           *)
  LostCalls,      (* contenders whose invocation may lose its connection    *)
  DeleteErrors,   (* those whose deleteObject may fail                      *)
  ConfigErrors    (* those whose getFunctionConfiguration may fail          *)

ASSUME BenchmarkAssumption ==
  /\ RunsPerContender \in Nat \ {0}
  /\ {Slow, LostCalls, DeleteErrors, ConfigErrors} \subseteq SUBSET Contenders

run_indices == 0 .. RunsPerContender - 1
Runs == Contenders \X run_indices

VARIABLES
  execution,        (* running, partitioned, aborted                        *)
  stage,            (* contender -> its place in the item processor         *)
  run,              (* run -> todo, running, ok, failed, or reported as     *)
                    (* failed while it goes on: lost, and gone at its end   *)
  uploaded,         (* runs that have uploaded their archive                *)
  archive,          (* run -> none, good, bad: what its key holds           *)
  deletion,         (* run -> todo, done, failed                            *)
  contender_result, (* contender -> none, success, failure                  *)
  verdict,          (* contender -> what the control Lambda found of run 0  *)
  lists             (* the output: [success, failure]                       *)

bucket == <<uploaded, archive>>
benchVars == <<execution, stage, run, bucket, deletion, contender_result, verdict, lists>>

BenchInit ==
  /\ execution = "running"
  /\ stage = [c \in Contenders |-> "config"]
  /\ run = [r \in Runs |-> "todo"] /\ uploaded = {} /\ archive = [r \in Runs |-> "none"]
  /\ deletion = [r \in Runs |-> "todo"]
  /\ contender_result = [c \in Contenders |-> "none"]
  /\ verdict = [c \in Contenders |-> "none"]
  /\ lists = [success |-> {}, failure |-> {}]

At(c, place) == execution = "running" /\ stage[c] = place
Goto(c, place) == stage' = [stage EXCEPT ![c] = place]
RunsOf(c) == {<<c, i>> : i \in run_indices}
-----------------------------------------------------------------------------
(* Before the runs. A failure here aborts the whole execution, on purpose.   *)
GetContenderConfig(c) ==
  /\ At(c, "config")
  /\ \/ Goto(c, "runs") /\ UNCHANGED execution
     \/ c \in ConfigErrors /\ execution' = "aborted" /\ UNCHANGED stage
  /\ UNCHANGED <<run, bucket, deletion, contender_result, verdict, lists>>

InvokeContender(r) ==
  /\ At(r[1], "runs") /\ run[r] = "todo"
  /\ run' = [run EXCEPT ![r] = "running"]
  /\ UNCHANGED <<execution, stage, bucket, deletion, contender_result, verdict, lists>>

(* Each run writes to its own key. *)
KeyOfContender(r) == <<r[1], 0>>
Key(r) == r

Upload(r) ==
  /\ run[r] \in {"running", "lost"} /\ r \notin uploaded
  /\ uploaded' = uploaded \cup {r}
  /\ \E kind \in {"good", "bad"} : archive' = [archive EXCEPT ![Key(r)] = kind]
  /\ UNCHANGED <<execution, stage, run, deletion, contender_result, verdict, lists>>

(* StopRunTimer or RecordRunFailure *)
RunEnds(r) ==
  /\ run[r] = "running"
  /\ \/ run' = [run EXCEPT ![r] = "ok"]
     \/ run' = [run EXCEPT ![r] = "failed"]
     \/ r[1] \in LostCalls /\ run' = [run EXCEPT ![r] = "lost"]
  /\ UNCHANGED <<execution, stage, bucket, deletion, contender_result, verdict, lists>>

LostRunEnds(r) ==
  /\ run[r] = "lost"
  /\ run' = [run EXCEPT ![r] = "gone"]
  /\ UNCHANGED <<execution, stage, bucket, deletion, contender_result, verdict, lists>>
-----------------------------------------------------------------------------
(* After the runs *)

AnsweredOk(r) == run[r] = "ok"
Answered(r) == run[r] \in {"ok", "failed", "lost", "gone"}
Failed(c) == {r \in RunsOf(c) : run[r] \in {"failed", "lost", "gone"}}
AnyFailed0(c) == <<c, 0>> \in Failed(c)
AnyFailed(c) == Failed(c) # {}

AggregateRuns(c) ==
  /\ At(c, "runs")
  /\ \A r \in RunsOf(c) : Answered(r)
  /\ IF AnyFailed(c)
     THEN Goto(c, "delete") /\ contender_result' = [contender_result EXCEPT ![c] = "failure"]
     ELSE Goto(c, "control") /\ UNCHANGED contender_result
  /\ UNCHANGED <<execution, run, bucket, deletion, verdict, lists>>

(* The archive of run 0 only; the control Lambda may fail for its own        *)
(* reasons.                                                                  *)
InvokeControl(c) ==
  /\ At(c, "control")
  /\ \/ /\ archive[<<c, 0>>] = "good"
        /\ verdict' = [verdict EXCEPT ![c] = "valid"]
        /\ Goto(c, "gate") /\ UNCHANGED contender_result
     \/ /\ verdict' = [verdict EXCEPT ![c] = "invalid"]
        /\ Goto(c, "delete")
        /\ contender_result' = [contender_result EXCEPT ![c] = "failure"]
  /\ UNCHANGED <<execution, run, bucket, deletion, lists>>

(* RecordContenderTooSlow or BuildSuccessResult *)
Gate(c) == IF c \in Slow THEN "failure" ELSE "success"

CheckPerformance(c) ==
  /\ At(c, "gate")
  /\ contender_result' = [contender_result EXCEPT ![c] = Gate(c)]
  /\ Goto(c, "delete")
  /\ UNCHANGED <<execution, run, bucket, deletion, verdict, lists>>

(* Best effort: an error is ignored. *)
DeleteOneArchive(r) ==
  /\ At(r[1], "delete") /\ deletion[r] = "todo"
  /\ \/ deletion' = [deletion EXCEPT ![r] = "done"] /\ archive' = [archive EXCEPT ![r] = "none"]
     \/ r[1] \in DeleteErrors /\ deletion' = [deletion EXCEPT ![r] = "failed"] /\ UNCHANGED archive
  /\ UNCHANGED <<execution, stage, run, uploaded, contender_result, verdict, lists>>

DeletionsOfUploads(c) == {r \in RunsOf(c) : run[r] = "ok"}
Deletions(c) == RunsOf(c)

EndSuccess(c) ==
  /\ At(c, "delete") /\ \A r \in Deletions(c) : deletion[r] # "todo"
  /\ Goto(c, "end")
  /\ UNCHANGED <<execution, run, bucket, deletion, contender_result, verdict, lists>>

PartitionResults ==
  /\ execution = "running" /\ \A c \in Contenders : stage[c] = "end"
  /\ lists' = [success |-> {c \in Contenders : contender_result[c] = "success"},
               failure |-> {c \in Contenders : contender_result[c] = "failure"}]
  /\ execution' = "partitioned"
  /\ UNCHANGED <<stage, run, bucket, deletion, contender_result, verdict>>
-----------------------------------------------------------------------------
ContenderStep(c) ==
  \/ GetContenderConfig(c) \/ AggregateRuns(c) \/ InvokeControl(c) \/ CheckPerformance(c)
  \/ EndSuccess(c)
RunStep(r) == InvokeContender(r) \/ RunEnds(r) \/ DeleteOneArchive(r)

BenchNext ==
  \/ PartitionResults
  \/ \E c \in Contenders : ContenderStep(c)
  \/ \E r \in Runs : RunStep(r) \/ Upload(r) \/ LostRunEnds(r)

(* Step Functions goes on, and a Lambda answers or is stopped at its timeout. *)
BenchFairness ==
  /\ WF_benchVars(PartitionResults)
  /\ \A c \in Contenders : WF_benchVars(ContenderStep(c))
  /\ \A r \in Runs : WF_benchVars(RunStep(r)) /\ WF_benchVars(LostRunEnds(r))

BenchSpec == BenchInit /\ [][BenchNext]_benchVars /\ BenchFairness
-----------------------------------------------------------------------------
(* Properties *)

BenchTypeOK ==
  /\ execution \in {"running", "partitioned", "aborted"}
  /\ stage \in [Contenders -> {"config", "runs", "control", "gate", "delete", "end"}]
  /\ run \in [Runs -> {"todo", "running", "ok", "failed", "lost", "gone"}]
  /\ uploaded \subseteq Runs /\ archive \in [Runs -> {"none", "good", "bad"}]
  /\ deletion \in [Runs -> {"todo", "done", "failed"}]
  /\ contender_result \in [Contenders -> {"none", "success", "failure"}]
  /\ verdict \in [Contenders -> {"none", "valid", "invalid"}]
  /\ lists.success \subseteq Contenders /\ lists.failure \subseteq Contenders

(* Every contender is in one of the two lists; in success only if all its    *)
(* runs answered, the archive of run 0 was found good and it was fast.       *)
ListsRight ==
  execution = "partitioned" =>
    /\ lists.success \cup lists.failure = Contenders
    /\ \A c \in lists.success :
         c \notin Slow /\ verdict[c] = "valid" /\ \A r \in RunsOf(c) : run[r] = "ok"

(* What the control Lambda found is what run 0 of that contender uploaded:   *)
(* no other run replaced it, no deletion came first.                         *)
VerdictOwn ==
  \A c \in Contenders : verdict[c] = "valid" => run[<<c, 0>>] = "ok" /\ <<c, 0>> \in uploaded

(* What may be left in the bucket: the archive of a run whose connection was *)
(* lost, or one that S3 refused to delete (README.md: "Deletes all per-run   *)
(* archives."). Never that of a run that answered or crashed, of a contender *)
(* that failed or was slow.                                                  *)
OnlyLostLeft ==
  execution = "partitioned" =>
    \A r \in Runs : archive[r] # "none" => run[r] \in {"lost", "gone"} \/ deletion[r] = "failed"

(* The execution ends, whatever the contenders do. *)
ExecutionEnds == <>(execution \in {"partitioned", "aborted"})
=============================================================================
