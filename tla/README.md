# A TLA+ model of demo-s3-archiving

`demo-s3-archiving` is a benchmark: a bucket is filled with 3 000 objects, and a Step Function
invokes each registered contender Lambda ten times in parallel. A contender reads every object
under a prefix and uploads one ZIP archive of them, within 512 MB of memory and 15 minutes; a
control Lambda then validates the archive of run 0. Almost everything that is hard to get right
in this repository is in the contenders' pipelines: bounded buffers shared by threads and tasks,
multipart uploads cut by byte counts, failures in the middle of a stream, and completions that
must not happen before the last byte.

This directory holds TLA+ modules that model those parts, TLC configurations that check them on
small instances, and TLAPS proofs of the properties that matter most for every instance.
Paths below are relative to the repository root (`src/` in `PROJECT.json`).

## 1. Inventory

| Part | Source | State it keeps | Operations |
|---|---|---|---|
| Slab ring of `jrodon` | `contenders/rust/jrodon/src/slabs_ring.rs` | an atomic state per slab, the writer's slab and offset, a channel of leases | `write`, `flush`, `seal`, `find_and_claim_free_slab`, `recv`, `into_vec`, lease drop |
| `jrodon` pipeline | `contenders/rust/jrodon/src/main.rs`, `zipper.rs` | memory semaphore, queue of downloads, upload semaphore, parts | list, start, download job and tasks, zip job, upload job and tasks, complete |
| Layout planner (`jrodon-v2`, `jrodon-v3`) | `zip_layout.rs` | deque of files, layout parts | four passes over the files |
| Part-job builder (`jrodon-v2`, `jrodon-v3`) | `part_executor/part_builder.rs` | jobs, running archive offset | `add_files`, `copy_file`, `partial_copy_file`, `finalize` |
| Header encodings (`jrodon-v2`, `jrodon-v3`) | `zip_format.rs` | none | sizes predicted, records dumped |
| Executor and Lambda fan-out (`jrodon-v3`) | `part_executor/mod.rs`, `lambda_executor.rs`, `shared_buffer.rs` | budget and request semaphores, worker queues, central-directory channel | execute a job locally or on a worker, resolve entries, collect headers, complete |
| `figment-engine` | `contenders/rust/figment-engine/src` | pull list, plan of segments, retry budget | plan one multipart upload, assemble with two pools, stream fallback |
| `figment-engine-chain` | `contenders/rust/figment-engine-chain/src` | per-anchor chains, CRC store, concurrency governor | plan chains, build, stitch, back off |
| C (`sebsto`) | `contenders/c/sebsto/src/main.c` | download slots, in-flight byte budget, part buffers | download callbacks, zipper thread, upload |
| TypeScript (`sebsto`) | `contenders/typescript/sebsto/src/index.ts` | byte budget, part slots, queue | three promises: download, zip, upload |
| Swift (`sebsto-soto`) | `contenders/swift/sebsto-soto/Sources` | actors: byte semaphore, slots | task group of three stages |
| Python (`sebsto`) | `contenders/python/sebsto/index.py` | work and done queues, error box | worker threads and a muxer |
| Python (`j-nicholson98`) | `contenders/python/j-nicholson98/archiver` | fixed pool of buffers, queues, stop event | reader threads, writer, uploader |
| Control Lambda | `benching/control-lambda/src` | window of the object, prefetch in flight | validate an archive through a seekable reader |
| Benchmark state machine | `templates/benching.asl.json` | outcome per contender and run | fan out, check, control, delete, partition |
| `fill-bucket` | `benching/fill-bucket/src/main.rs` | remaining size budget | create, delete, answer CloudFormation |
| Templates, CI | `templates/*.yml`, `ci-config`, `root-template.yml` | none | declarative |

How they interact. The state machine calls contenders and the control Lambda; they share only
the bucket: source objects, archives, and multipart uploads in progress. Inside a contender the
stages share bounded buffers (slabs, slots, byte budgets), hand work over through channels or
queues, and end in one `CompleteMultipartUpload` (or one streamed `PutObject` in C).

What is hard, and what makes each part correct:

* **Slab ring.** A raw-pointer copy next to concurrent readers, kept apart only by atomic
  states; a check and a claim that are two operations. Correct when the writer never touches a
  leased slab, no slab leaks, and the leases cut the stream into consecutive chunks.
* **Pipelines.** Three stages bounded by three resources; any stage may fail at any point.
  Correct when resources are given back on every path, the handler always answers, an object
  that is completed is the whole stream, and an Ok means an entry per source object.
* **Planners and builders.** S3 refuses a part below 5 MiB unless it is the last, and the
  offsets written in headers are fixed before the parts exist. Correct when every part is
  legal, every file is carried once and every offset is where the bytes end up.
* **Encodings.** Sizes are predicted before a byte exists, and a value above 32 or 16 bits moves
  to a ZIP64 field. Correct when what is written has the size predicted and a reader finds every
  entry.
* **Executors.** Jobs run concurrently under a byte budget, and the central directory waits
  for a header from each entry. Correct when the wait always ends and no header is missing.
* **Harness.** The control Lambda reads through a sliding window with prefetch; runs that time
  out may still write. Correct when a verdict concerns the archive it names.

## 2. Plan

The order followed: the slab ring with its abstract specification and proofs; the `jrodon`
pipeline; the layout planner and the builder on top of it, then the header encodings both rely
on; the executor and Lambda fan-out of `jrodon-v3`; the window reader of the control Lambda; the
rate governor, then the planner and the execution of `figment-engine-chain`; the benchmark state
machine; `figment-engine`; the C and the TypeScript contenders. Proofs came component by
component, once the runs agreed. What is left out is in section 8, with the reasons.

`PartJobs` composes the planner (`ZipLayout`), the builder and the encodings (`ZipFormat`);
`JrodonV3` starts where `PartJobs` ends, with the list of jobs; `ChainAssembly` and `FigmentEngine`
share the vocabulary of `FigmentFiles` and the records of `FigmentZip`; `JrodonV1` takes the ring at
the level of `ChunkedStream`, which `SlabRing` implements; `Benchmark` sees a contender as a Lambda
that uploads something or nothing, and the control Lambda, whose reader is `WindowReader`, as one
step.

## 3. Modules

`ChunkedStream` is the promise of a buffer between a producer of bytes and an uploader of
parts: consecutive chunks, all of `ChunkSize` bytes but the last, each delivered intact.

`SlabRing` is `slabs_ring.rs` at the grain of its atomic operations. `state` is the vector of
`AtomicU8`; `pc`, `slab_idx`, `offset`, `next_idx` and `todo` are the writer thread inside
`write`; `leases` is the channel, of which `recvd` are received and `held` not dropped. Bytes
are numbered by their place in the stream, so that an overwritten byte shows. `seal` is two
actions (swap, send), the claim of a slab is two (load, swap), and `into_vec` is separate from
the drop of the lease. The zip crate is the caller: it calls `write` any number of times and
`flush` at most once, last (`main.rs:241-247`).
`Stream == INSTANCE ChunkedStream WITH ...` is the refinement mapping.

`JrodonV1` is one invocation of `jrodon`. It takes the ring at the level `SlabRing` proves and
counts bytes. Permits of the memory semaphore, slabs, and upload permits are explicit; each
download task, the zip job and each upload task is an actor. The scan of the writer passes all
slabs but the one just sealed (`Passed`): with the two slabs of the program it waits for the other
one. The drop of the zip writer after a
failed `add_file` writes a directory of the entries so far (the `zip` crate does that), without
the final flush. The S3 calls of the handler may fail at any time.

`ZipFormat` holds the encodings of `jrodon-v2` and `jrodon-v3`: the sizes `zip_format.rs`
predicts, the number of bytes each `dump` writes, and the fields ZIP64 extends. `ZipLayout`
extends it with `from_files_info`: one turn of each loop is an action, the deque is an interval
`lo .. hi` of the sorted files. `PartJobs` extends that with `into_part_jobs` and the builder,
and predicts and writes the directory, ZIP64 included; `add_files` counts the elements of its
upload again (`Recounted`), `finalize` adds to the count it finds. Elements keep the offset their header
claims, so that the property compares a claim with the place the bytes have in the assembled
object.

`JrodonV3` is one invocation of `jrodon-v3` after planning, whose jobs are a constant. The
handler, the local executor, the directory element, the delegating half of `try_join!`, the
dispatch task and each worker task are actors; `cmds` and `inbox` are the bounded channels
between them, `closed` the drop of a job sender. Batches are known by their number: the batch a
job is in follows from how many jobs are popped before it (`BatchNo`), and its worker from the
cycle over the workers (`WorkerOf`). `reported` counts how often the part of a job came back, so
that a part reported twice, or never, shows. A worker Lambda is one step, since what
it does to the upload is visible to the caller only in its answer. The behaviours that start
without workers are those of `FORCE_V2_MODE` and of `jrodon-v2`.

`WindowReader` is `s3_object_proxy.rs`, the seekable reader under the archive validation.
Windows are ranges of the object; `incoming` is the set the code consults, `requests`, `fetching`
and `windows` are where those windows are: the two channels and the fetcher task. The zip crate
is the caller: it seeks and reads. `ReadReturns` speaks of reads that start within the object
(see section 7 for those at its end).

`RateLimit` is the governor of `figment-engine-chain`: a token bucket whose rate steps down on a
throttle and up after quiet time, with callers of two priorities. Its callers are futures of one
task, so the code between two awaits is one action. Instants are kept as ages, each capped where
the code no longer tells ages apart. `watch` serves the properties: it starts at any instant and
counts what follows.

`Benchmark` is one execution of `benching.asl.json`. `stage` is the place of each contender in
the item processor, `run` each invocation, `archive` what each key holds. A contender Lambda is
external: it uploads something good or bad, or nothing, at any time while it runs. `lost` is a
run recorded as failed because the connection broke, and that goes on; `gone` is one that ended.

`FigmentFiles` is what the two figment contenders have in common (`figment-engine-chain` depends on
the crate of the other): a list of files, the slices of their headers and bodies, the selection and
order of the bigs, the offsets of an order and its directory, and `ArchiveReadable`, what an
archive promises. `FigmentZip` holds the records both write, and the reader that finds its way
back from the end record to the entries. Sizes are cut to 32 bits, as the code does. The classic
end record holds the count, the size and the offset unless they reach the mark of their field; the
reader believes it, and goes to the ZIP64 record only for a marked value.

`ChainAssembly` is one invocation of `figment-engine-chain`. `plan` is the `ChainPlan`, computed
from the list by the operators above it; `head` is the stream of HEAD requests and the CRC store
it fills; `phase`, `link`, `parts` and `object` are the future of each segment inside
`wait_for`, `build_segment_object` and `build_one_link`; `stitched` holds the parts of the
archive. Objects are sequences of numbered bytes, so that a part in the wrong place shows. A call
and its retries are one call: what a retry repeats is idempotent, except a completion, whose
second attempt finds no upload and gives up. `faulty` records that some call gave up.

`FigmentEngine` is one invocation of `figment-engine`: the plan of one multipart upload
(`SinglePlan`, computed from the list), its parts in a pool of copies and a pool of streams, and
the fallback that builds the archive in memory. As in `ChainAssembly`, objects are sequences of
numbered bytes.

`SebstoC` is one invocation of the C contender. The zipper thread, the callbacks of downloads and
the callback of the upload are actors on a shared window (`download`, `inflight`,
`inflight_bytes`); `zipper` is the place of that thread in its loop, `batch` and `sent` are the
bytes on their way to an upload of unknown length.

`SebstoTs` is one invocation of the TypeScript contender. What a stage does between two awaits
runs as microtasks to completion before the event loop takes the next answer of S3 (`Quiet`), so
the interleavings are those of the runtime and no more. A chunk in flight holds its slot, so
there are never as many uploads as `MAX_CONCURRENT_UPLOADS` and the `Promise.race` is
unreachable; an assumption of the module says so.

`Sums` states what `JrodonV1Proofs`, `JrodonV3Proofs`, `PartJobsProofs`, `SebstoProofs` and
`FigmentProofs` need of sums over a finite set.

A definition that no specification uses and that stands next to one of the same shape
(`ClaimableAny`, `FlushForgotten`, ...) is a plausible bug in that definition; each property has
one that TLC finds to violate it.

## 4. Runs

| Run | Question | Bounds and why they are enough |
|---|---|---|
| `SlabRing` | no race, no `unreachable!`, one owner; the chunked stream; do `write` and `recv` return | three slabs of 2 bytes, one more than the program has, so that scans pass over leased slabs; 9 bytes: every slab is reused and the last is partial |
| `JrodonV1` | permits, memory, whole objects, an answer | 3 files of 1 and 2 bytes against 3 permits, 2 slabs of 2 bytes, 2 uploads: every resource is exhausted in some state; every failure occurs |
| `PartJobs` | the planner: legal halves, each file once, Singles last; the builder: offsets, buffers, legal parts, bytes carried once | all sorted lists of up to 6 sizes from 0 to 360, on both sides of both thresholds (150 and 240), of the width of a field (270) and of a count (5); names of 1 and 31 |
| `JrodonV3` | whole archives, budget, quiet workers, an answer | with and without workers; 2 workers, lists of 1, 3 delegated jobs: two rounds with an empty list; a full inbox blocks dispatch, a budget of 3 blocks spawning; entries, parts, warm-ups and invocations fail |
| `WindowReader_seeks` | is every request legal, the set in flight exact and small; does a read return or, after a failed fetch, panic | windows of 2 to 4 over 9 bytes: growth, a cut last window, a seek to every byte; fetches fail |
| `RateLimit` | calls issued per time, how the rate moves, the count of waiters, is every caller served | 2 High callers and a Low one, a burst of one token and a half, rates 1 to 3: floor, ceiling, the windows of 2 and 3 ms are all reached, the Low caller is deferred and woken |
| `Benchmark` | lists, verdict, deletion, end | 2 contenders of 2 runs, so that one run can fail beside one that succeeds; the first is slow and its deletions may fail, the second loses connections |
| `ChainAssembly` | is every part legal and as long as planned, an archive that exists readable, does the run end, without an error unless a call failed | a floor of 3 bytes; lists with more and with fewer smalls than bigs, bigs of equal size, an empty small, one big, no big; a 32-bit limit of 9 and a count limit of 3: offsets, directories and counts below, at and above them, a file above the limit; two HEADs and two segments at a time, so that the third segment waits for room and sleeping segments share a notification |
| `FigmentEngine` | the same questions | a floor of 4, a 32-bit limit of 13 and a count limit of 3: offsets, directories and counts below, at and above them, a file above the limit (the size of a directory stays below it; the proof has that case); the lists of `MCFigmentEngine` reach each branch of the plan: whole copies, lent prefixes, a folded big, smalls that run out or are left over, the fallback, nothing; two copies and two streams at a time, so that a part waits for room |
| `SebstoC` | is the window counted exactly and nothing freed under a callback; does success mean a whole archive; does the run end, with an error only for a cause | 3 downloads and 6 bytes at a time, batches of 4: lists with more objects than downloads, objects that do not fit together, one as large as the window and one larger, none; any download and any write fails |
| `SebstoTs` | are budget and slots exact; what may an archive lack; does the job always end, for a cause | sizes 2, 6, 0, 2 against a budget of 4, so one file above it; chunks of 3 and 2 slots: six parts, so both slots wait; downloads and parts fail |
| `SebstoTs_lost` | violation: "ok" with a part missing | the same instance |

Where a run does not check for deadlock, its cfg says why: the system has answered, or its
external caller may stop calling.

## 5. Fairness

`SlabRing`: weak fairness of the writer's thread, of the upload loop and of each upload task:
they are a thread and tokio tasks that the scheduler keeps running. Nothing makes the caller
call again. `JrodonV1`: weak fairness of each job and task; an S3 call returns, with an answer
or an error, within the SDK's timeouts, so a call in progress is not left for ever. `JrodonV3`:
weak fairness of each future and task; the invocation of a worker Lambda returns, at the latest
at the timeout of that Lambda. `WindowReader`: the download thread runs and `GetObject` returns.
`RateLimit`: time passes, a future that is ready is polled, a request returns. `ChainAssembly`
and `FigmentEngine`: a future that was woken is polled (one that sleeps is not), a call returns.
`SebstoC`: the threads run, and the S3 client answers each download, and an upload that was told
its end or that failed; nothing makes it answer an upload still waiting for bytes. `SebstoTs`: the
event loop runs what is ready, and every S3 call is answered. `Benchmark`: Step
Functions goes on, and a Lambda answers or is stopped at its timeout. No strong fairness is used.

## 6. Proofs

`SlabRingProofs` proves, for every number and size of slabs and every stream, that `Inv` is
inductive: types; `Control` (what each program point implies, for instance that the slab about
to be claimed is still Free, since only the writer takes a slab out of Free); `OneOwner`;
`Contents` (a slab that is leased still holds the bytes of its chunk) and `Coverage` (the leases
tile the bytes written). `OneOwner` alone is not inductive: a drop in another task must be known
to leave the slab of the writer alone, which needs the program points. From `Inv` follow
`RingTypeOK`, `RingNoDataRace`, `RingSlabsOwned` and, step by step, `RingImplementsStream`: the
ring refines the chunked stream.

`JrodonV1Proofs` proves `PipelineTypeOK`, `PipelineConserves` and `PipelineObjectWhole` for every
list of files, amount of memory, number and size of slabs, and set of failures. A file is in one
place, and the channel holds what was fetched and not taken, once (`Flow`): that gives the permits
(`Memory`), even when the receiver is dropped with a full queue. The bytes in parts and in the
slab being filled are the entries written and what is left of the current one (`Stream`), all
parts but one that ends the stream are full (`FullParts`, hence the bound on part numbers), the
entries are the files zipped (`ZippedOnce`), the directory is written when no file is on its way
(`Drained`), and the upload job ends when no part can come (`Ends`). `ObjectWhole` needs all of
them at once: the object is fixed at completion, but it is whole because of what ended before.

`PartJobsProofs` covers the headers, the layout planner and the builder, for every list of files,
header sizes and thresholds. Of `ZipFormat`: what is predicted is what `dump` writes
(`LocSizeExact`, `CdfhSizeExact`, `EndSizeExact`), and a reader finds what was written
(`CdfhReads`, `EndReads`) for every size, name and offset; the one exception of `CdfhReads` is in
section 7. Of `ZipLayout`: `LayoutTypeOK` and `LayoutIsLegal`. The invariant adds that the held
big file and those already placed reach the minimum, and that once a Single exists the first pass
is out of files: then no later step appends a Duo. Two more parts of `LayoutInv` serve the
builder: each file popped is in hand or in exactly one part (`Placement`), and the upload half of
every Duo fits the budget (`Fit`, which follows the sorted list through the passes: what the
later ones add to a Duo is smaller than `MinPart`).

Of `PartJobs`: `OffsetsAlwaysMatch`, `JobsAlwaysLegal` and `FilesAlwaysCarried`, from one
invariant, because none of the three is inductive alone. It is a balance between the parts taken
and the jobs so far:

* `Counters`: a part is half taken only if it is a Duo;
* `JobsInv`: an upload's `part_size` is the sum of its elements; every local header is at the sum
  of the bytes of the jobs before and the elements before; every job but the last reaches the
  minimum, and such an upload fits the budget;
* `OpenUpload`: `offset` is the size of all jobs; between the halves of a Duo the last job is the
  upload with its regular half, which is why the panics of `internal_copy_file` are out of reach;
  otherwise an upload is last only if a Single was;
* `Books`: each file taken has one header and its bytes once, the others none, and the central
  headers predicted add up to those of the elements in the uploads. One sum is over the order of
  registration, the other over a set of elements, which is what `SumImage` of `Sums` is for;
* `Closed`: what `finalize` adds to that.

The lemma `BuilderKeepsLayout` (`PlanSpec => Spec`) lets the builder's proof use the layout's.
`BuilderAssumption` is what the budget needs: two minimal parts and a header, or a target, a
minimal part and two headers, fit it. The code has 5, 10 and 50 MiB and S3 limits a name to 1024
bytes.

`JrodonV3Proofs` proves `NoWorkerOutlivesAnswer` for every list of jobs, workers, batch size,
budget and failures. Nothing in the code says so in one place: an answer needs the end of the
local jobs or a failure of the delegating future; the local job that writes the directory ends
only when the directory is written (`DirectoryJobLast`), that is with all headers or when no more
can come (`DirectoryLast`); the headers of delegated entries come only when that future has ended
(`HeadersLocal`), which it does when the worker tasks have (`WorkersJoined`).
`ArchiveIsWhole` follows every delegated job: it is ahead of the sender, in a channel, held by a
worker or reported, exactly once (`Accounted`); the dispatch task closes the channels only with
every batch sent (`Protocol`) and joins the workers in order, and a worker that has stopped has
emptied its channel and holds no batch (`Joining`), so that nothing is left when the dispatch ends
well. Locally, an entry sends its headers before its body (`HeadersSent`), a job that succeeds has
written its entries (`EntriesDone`), and the directory has every header or fails
(`DirectoryRead`). `ExecutorTypeOK` comes from the same invariant.
`BudgetStaysConserved` is a fact about a sum over the set of running jobs. `Sums` proves what it
takes (`SumAdd`, `SumRemove`, `SumParts`, `SumWithin`, `SumShift`, `SumImage`, ...) of
`SumFunctionOnSet`, which is defined by recursion over sets: an induction over finite sets, stated
for a set of numbers rather than for a predicate, follows from the well-foundedness of the
naturals.

`SebstoProofs` covers the two sebsto contenders that are modelled; `SebstoTs` has names of its own
(`JobSpec`, `JobTypeOK`, ...) so that one module can speak of both.

It proves `SebstoTsBudgetExact` and `SebstoTsArchiveHoles` for every list of objects,
budget, chunk size and number of slots. The invariant follows the stream: the bytes in parts, in
the chunk being filled and yet to append are those of the entries begun, plus the directory at
the end (`Balance`); all parts but the last of the stream are full (`FullParts`); the entries written
are the files in place `zipped`, once (`Once`). A failed download is seen or has ended the process,
and when the directory is written after downloads that all went well nothing is left in the
channel (`Drained`). The parts an archive may lack are those whose failure nobody saw; the last
one is never among them (`PartsAwaited`), and that is a matter of scheduling: between its emission and
the `Promise.all` that awaits it no answer of S3 is taken. The proof rests on `Quiet`, which is
therefore spelled out, await by await, instead of as "no microtask is ENABLED".

Of the C contender it proves `SebstoCTypeOK` and `SebstoCOkMeansWhole`, for every list of objects,
window and batch. `TypeOK` says that the two counters are the requests held and their bytes: each
end of a download, on whatever thread, and each way out of the zipper keeps them. For the second,
downloads start in the order of the list and none is larger than the window (`InOrder`); so when
the loop ends with nothing in flight, and the next object cannot start, what was fed is everything
before the first larger object (`Archived`). As long as the zipper writes, the bytes the upload
took and those in the batch, put together, hold each fed entry where the ZIP writer's offset says
(`Entered`), at whatever place the batches cut them; a write that fails ends that phase for good
(`Writing`). The directory and the end record appended to such a stream make it an archive
(`Found`), and success is answered only when the upload took all of it (`Concluded`).

`FigmentProofs` covers both figment contenders, for every list of files, every floor and every
width of their pools. It proves, of `figment-engine`, `EnginePartsLegal`, `EngineArchiveReadable`
and `EngineErrorHasCause`; of `figment-engine-chain`, `ChainLinksLegal`, `ChainArchiveReadable`
and `ChainErrorHasCause`. The last of each is the safety half of the liveness property of the run:
an error always has a cause outside the program. Four layers:

* *Joined sequences.* The plans flatten, fold and sort lists. `FlattenSeq` is a recursive
  function, of which induction over a set of numbers says what a bijection, a map, a sum or the
  place of an element becomes (`FlattenConcat`, `FlattenAt`, `FlattenFind`, `FlattenSum`,
  `FlattenBijection`, ...). Sorting by rank returns each element once and in order.
* *The directory.* `DirectoryReads`: what the reader finds in the records of an order is that
  order, each value taken from the classic record or, where that has the mark, from the ZIP64 one
  (`EndRecordsAre`, `LastSays`). `ArchiveReads`: the entries in an order that lists every file once
  (`Lists1`), followed by the directory computed for it, are readable, but for what section 7 says
  of files of 4 GiB - 1 and of one offset.
* *The plans.* However a planner cuts the entries, its parts, joined, are the entries in the order
  the directory was computed for, and all but the last reach the floor. In `SinglePlanIs` the cuts
  are the prefixes a big lends, the group of smalls before it, and what is folded. In `ChainPlanIs`
  the smalls are dealt to the bigs in turn (each once: `TurnsOnce`, `TurnsAll`), a link adds one
  slice to the object of the link before it (`LinkFits`), and the header of a big rides at the end of
  the segment before it, so only the segments together are the entries (`StitchesJoin`).
* *The executions* then only have to lose and to swap nothing. `EngineInv` says of every part at
  S3 which bytes it holds, whichever pool uploaded it and in whatever order; the completion it
  leads to is never refused (`EngineAccepted`). `ChainInv` says of every segment, at each point of
  its future, which object its links have built so far and which parts are up (`LinkAt`); that its
  CRCs are known once it passed its gate, which is why `meta_of` never misses one; and that what
  is stitched under its number is its object (`StitchedAt`), whoever finished first. `LinksLegal` is
  not inductive alone: that a first part reaches the floor is a fact about the object the
  previous link completed.

`ControlProofs` covers the harness: the benchmark, the reader of its control Lambda, and the
governor that paces the calls of a contender. Of the governor it proves `GovernorTypeOK`;
`RateIssueBounded`, by an invariant on the credit the governor could still spend in the rest of the
interval; and `RateOnlyGlides`, by an invariant that counts steps at least a window apart, the last
of them `since` ms ago.

Of the reader it proves `WindowsExact` for every object and window sizes. The invariant adds
that of two windows in flight the older one is never the one a blocked read needs
(`OldestMisses`), and that with one in flight the range to prefetch next is already covered
(`NextAsked`): so no third window is asked for.

Of the benchmark it proves `BenchmarkVerdictOwn`, `BenchmarkListsRight` and `BenchmarkOnlyLostLeft` for any
contenders and number of runs. `ListsRight` speaks of the end only; the invariant `Based` says at
each stage what the next one will rely on (all runs ok at the control stage, a valid verdict at
the gate, a result from the deletion on), `Stored` that a key holds something only if its own run
uploaded, without which a verdict could not be traced to run 0, and `Cleaned` what is left behind
a deletion.

Assumptions are those of the modules, as weak as the code justifies: at least two slabs
(`SlabAssumption`), at least one run (`BenchmarkAssumption`), jobs that fit the budget, a
directory in the last upload, copies without entries and no entry in two jobs
(`ExecutorAssumption`; the builder of `PartJobs` makes such jobs, but for the last, see section
7).

Only model-checked: liveness (`RunHasCause`, `AnswerHasCause`, and every other property that
something happens) and what ENABLED means, which are out of the prover's reach. Every invariant of
the passing runs is stated by a theorem.

## 7. Disagreements

One run shows the program to do something else than its source says:

* `SebstoTs_lost`: `cleanup` takes a failed upload out of `inflight` as soon as it settles, and
  the awaits look at what is left there (`typescript/sebsto/src/index.ts:701`), against the
  comment at 698-700, by which the rejection reaches them. A part that fails before the last
  chunk is emitted is seen by nobody; the upload is completed without it and the handler answers
  "ok". `ArchiveHoles` says what an archive may lack.

Behaviours met while modelling, which the models contain and the properties allow for:

* `jrodon`: a failed download ends its task with an error nobody awaits (`main.rs:185`); the
  archive is completed without that entry and the handler answers Ok, against `README.md:223`
  ("Exactly one entry per source object"). `ObjectWhole` excepts those entries. When `add_file`
  fails, the drop of the ZIP writer finishes the archive with the entries so far, and the
  truncated object may be completed (`main.rs:232`).
* `jrodon-v2`, `jrodon-v3`: the leftover Singles are merged into one last upload job without
  bound (`part_builder.rs:79`, `zip_layout.rs:37`); above `MAX_PART_JOB_TASKS_MEMORY` it waits
  for permits that do not exist (`part_executor/mod.rs:87`). Only the last job can be so large
  (a conjunct of `JobsLegal`).
* `jrodon-v2`, `jrodon-v3`: a size or a count that is exactly the largest of its field is written
  as the ZIP64 mark without the ZIP64 field (`zip_format.rs:165`, `263`, `370-378`); a `dump` into
  too small a buffer is cut without an error; nothing checks the limit of 10 000 parts.
* Control Lambda: a read at the end of the object, which a seek may reach, never returns
  (`s3_object_proxy.rs:283`): the clamped window does not contain the position, against line 431
  ("the next `read` call triggers a window fetch if needed").
* Benchmark: a run whose connection was lost goes on, and may upload after `DeleteAllArchives`
  went over its key (`benching.asl.json:99`), against `README.md:58` ("Deletes all per-run
  archives"). `OnlyLostLeft` names those runs.
* C: an object larger than the window never starts; once nothing is in flight the loop ends where
  the code says "shouldn't happen" (`main.c:617`), and the run ends in success without that object
  and those after it. `OkMeansWhole` excepts them. The ZIP64 records come when the count, the offset or
  the size of the directory exceeds 32 bits (`zip.c:162`), so a count above 16 bits does not by
  itself bring them (`zip.c:196`): the end record then says 0xFFFF entries.
  `OkMeansWhole` speaks of archives whose count fits.
* TypeScript: when a download fails while the download loop awaits the budget, its rejection is
  handled by nobody yet (`index.ts:571`): the runtime stops the process before line 764 can abort
  the upload.
* TypeScript: the comment at `index.ts:55-57` says that the slots exclude "parts currently being
  sent", and the one at 44-45 budgets `4×10 MiB chunk buffers + 6×10 MiB upload bodies`. In the
  code a part gives its slot back only when it has settled (`index.ts:693`), so queued and sending
  parts together are at most `BUFFER_CHUNKS_COUNT`, three; a full buffer waits for a slot as the
  fourth. `BudgetExact` states what the code does; `MAX_CONCURRENT_UPLOADS` is never reached.
* `figment-engine`, `figment-engine-chain`: both headers write `size as u32`
  (`zip_format.rs:93-94`, `159-160`) under a `debug_assert`, which a release build drops: a file
  above 4 GiB - 1 has a truncated size in its record, and one of exactly that size the mark, without
  an extra field. An offset of exactly 0xFFFFFFFF is written as the mark without its extra field
  (`zip_format.rs:145`). `ArchiveReadable` excepts such files, and says of such an offset where the
  file is. The doc comment at 194-196 says that the classic end record carries sentinels; it does
  only where a value reaches the limit of its field (246-281), which an unzip program reads as well.
* `figment-engine`: the fallback holds the whole archive in memory, "small by definition"
  (`stream_fallback.rs:33`); a list without a big file takes it, however long it is.

## 8. Not modelled

* **Swift (`sebsto-soto`)**: the stages of the TypeScript contender on Swift tasks. How `async
  let` and task groups cancel and are awaited at the end of a scope decides what happens after a
  failure, so a model of it is mostly one of the language runtime. Read for this work: a failed
  download skips `out.finish()`, the zip stage then sleeps, and the implicit await of the other
  `async let` waits for it, whatever the comment at `Archiver.swift:87-88` says of cancellation.
* **Python (`sebsto`)**: a thread pool and two queues, with the interleavings of `SebstoC` and the
  stages of `SebstoTs`. What differs: the error box is looked at before a blocking `done_q.get`
  (`index.py:283-285`). A download that fails in between stops the workers, and the muxer waits
  for an item nobody will put.
* **Python (`j-nicholson98`)**: reader threads, a third-party streaming ZIP library that places
  the bytes, an uploader. `open_multipart_upload` is outside the `try` that stops the workers
  (`archive.py:100`).
* **`fill-bucket`**: independent puts and deletes under a semaphore, all joined before the answer
  to CloudFormation.
* **Templates, CI, packaging**: declarative.
* Within modelled parts: constant header fields, CRCs and name encodings, logging and statistics;
  the cold start and runtime loop of C; retries and their pace, but for the governor; the split of
  a worker's invocation into steps. In `JrodonV1` a file larger than the memory semaphore
  (`main.rs:177` also cuts a size to 32 bits) would make `acquire_many_owned` wait for ever, and
  is left out. Of the figment contenders, S3's limits of 5 GiB for a copied part and of 10 000
  parts are left out. In `Benchmark` the validation by the control Lambda is one step, and one execution
  runs at a time.
