# A TLA+ model of slr_map_reduce

The program runs one MapReduce job on a set of lab machines. An orchestrator
(`src/scripts/mapreduce`) starts a worker process (`src/scripts/worker`) on `-n`
hosts over SSH, gives each of `N` logical *slots* a part of the input, and drives
all slots over HTTP through load, map, reduce and result. A slot is owned by one
host at a time; when a call fails, the host blamed for it is retired and the slot
starts over on a cold spare or, when none is left, on the owner of another slot.

What is hard here is that replacement. A pass of `drive` advances all slots in
parallel, looks at the errors only afterwards, and may swap several hosts while
other slots hold progress built on data of the hosts swapped out. The `epoch` is
there to find that progress and redo it. A health watcher marks hosts dead
concurrently, workers crash or answer too late, and a call that was given up may
still be running on its worker.

## Inventory

| Component | State it keeps | Operations | What makes it correct |
|---|---|---|---|
| slot table and drives, `coordinator.go` | per slot: host, state, attempts, result, reduceEpoch; epoch | `drive`, `tryOneStep`, `identifyCulprit`, `replaceHost` | a collected result was reduced from the present owners; progress on record is held by the present owner; attempts bound the swaps; every job ends |
| pool of hosts, `coordinator.go` | spares, dead, touched | `claimSpare`, `claimActiveHost`, `markDead`, `markTouched` | a spare is always fresh; every started host is known to the clean-up; a dead host is not used again |
| health watcher, `coordinator.go` | healthFailures | `watchHealth`, `pollHealth` | false alarms never hurt a job |
| worker, `worker/main.go` | per slot: input, peers, output; bucket files | `/data`, `/load`, `/map`, `/intermediate`, `/reduce`, `/result` | a reduce sees whole buckets; two handlers never share a slot's files |
| worker algorithms, `worker/mapreduce.go` | none | `runMap`, `runReduce`, `targetNode` | the streaming reduce equals a group-by |
| downloads, `worker/main.go` | temporary and final input files | `downloadInputs`, `downloadInput`, `downloadInputOnce` | all inputs or none |
| deployment, `mapreduce/main.go` | hosts running a worker, hosts to clean up | `deployInitialWorkers`, `deployWorkersNFS`, `activateWorker`, `cleanupWorkers` | no worker outlives the job |
| input preparation, `mapreduce/main.go` | chunk or URLs per slot | `splitIntoChunks`, `chunkForWorker`, `assignURLsRoundRobin`, limits | every byte and URL is given to one slot |
| merge and write, `coordinator.go`, `mapreduce/main.go` | output file | `mergeResults`, `writeMerged`, `writeFileAtomic` | old file or new file, never a part |
| parallel runner, `internal/remote` | semaphore | `RunBounded` | all items run, never more than the limit at once |
| jobs, `scripts/jobs` | none | `Map` and `Reduce` of `wordcount`, `docdensity`, `langdetect`, `domainpop` | totals agree with the text; the reduced values are integers the merge may add |
| build, `make_hosts`, profiling, scripts, Kafka comparison | - | - | not modelled (below) |

They interact through the calls the orchestrator makes to workers, the fetches
workers make from each other during `/reduce`, and the coordinator's fields that
the driving goroutine, its per-slot goroutines and the watcher share under
`c.mu`, `s.mu` and `healthMu`. There is no other messaging, and nothing is
persisted: a crash of the orchestrator ends the job.

The hazards, each at its line with the properties that cover it, are listed in
`PROJECT.json`.

## Modules

| Module | What it is |
|---|---|
| `SlotLedger` | abstract specification: what the coordinator promises about owners, phases and epochs |
| `Coordinator` | `coordinator.go` in full, with workers abstracted to the outcome of a call |
| `CoordinatorWaits` | the backoff of `drive`, in arithmetic that wraps around |
| `MapReduce` | `Coordinator` composed with the workers, their files and their failures; data abstracted to completeness |
| `TextJobs` | the four jobs, on texts of symbols |
| `Chunking` | which part of the input each slot gets |
| `StreamReduce` | `runMap`, `targetNode`, the sort, the streaming `runReduce`, `mergeResults` |
| `Download` | `/load` with its temporary files, retries and removals |
| `ResultFile` | `writeFileAtomic` step by step, with the end of the process at any moment |
| `Pipeline` | one job from its input to its output file, with the data; composes the five above |
| `RunBounded` | the bounded parallel runner of `internal/remote` |
| `Deploy` | starting workers over SSH, activating spares, cleaning up with `RunBounded` |
| `MCCoordinator`, `MCMapReduce`, `MCPipeline`, `MCDeploy` | instances for TLC |
| `CoordinatorClaims`, `MapReduceClaims` | statements of the repository that the models do not keep (two more are in `MCDeploy` and `MCPipeline`) |
| `CoordinatorProofs`, `CoordinatorAccounts`, `MapReduceProofs`, `DeployProofs`, `PipelineProofs`, `ResultProofs` | theorems, proved with TLAPS |
| `DataInduction`, `DataProofs` | the lemmas they rest on: induction and sums over finite sets; lines, chunks, pairs, the shuffle, the sort and the merge |

Two views of the same handlers are kept apart on purpose. `MapReduce` has the faults
of workers, calls and bucket files in every interleaving, and knows of data only whether it is complete;
`Pipeline` has the data and a job that ends at the first failing call. What joins
them is that a worker's answers depend on a slot's own files alone, which
`NoOverlappingHandlers` (in `MapReduce`) and `InputsAreWhole` (in `Pipeline`) are about.

### Coordinator

The driving goroutine has a program counter `pc`:

    step -> inspect -> claim -> activate -> assign -> inspect -> ... -> step
                            \-> fallback -> assign
            inspect -> exhausted | succeeded        fallback -> nohost

*`pc = "step"`* is `wg.Wait` in `drive`: each slot's goroutine (`step[s]`) reads its
host and state (`StartStep`, or `SkipStep` when the slot is at the target), and
returns with `ReturnOk` or `ReturnErr`. An error is represented by the slot
`identifyCulprit` will find in its text: the slot itself, or, from `/reduce` only,
a slot on the peer list the call carried. `Barrier` is the end of `wg.Wait`.

*The sequential part* is cut wherever the code releases `c.mu`, because the
watcher runs in between: `Retire` is the charge at coordinator.go:455 with
`markDead`; `ClaimSpare` the critical section of `claimSpare`; `ActivateOk` and
`ActivateFails` the SSH start of the spare with `markTouched` or `markDead`;
`NoSpare`, `ClaimActiveHost` and `NoActiveHost` the fallback; `Assign` the end of
`replaceHost`. The rebinding (345-350) and `epoch.Add` (352) are one step: the
watcher, all that runs beside them, does not read the epoch. `Retry` and `NextDrive` are the end of a pass,
rewinding included; `NextDrive` also starts the next of the four drives of `run()`.

*The watcher* is `PollStart` (the snapshot of `allHosts`), then `PollOk(h)` or
`PollFail(h)` for each polled host in any order, before the next poll.
`healthFailures` stops at 2, as the code only asks for 2 or more.

`CoordinatorWaits` adds the wait after a swap as a function of the slot's attempts:
`Backoff` doubles the first wait once per earlier attempt (`Shifted`) in a signed integer
whose sign bit weighs `SignBit`, and caps the outcome. The code does it in this
order, so the cap is no help when the doubling overflows. `Documented` is
the wait the flag's description gives.

Left out: the settle wait (it only delays), metrics, logging, and the
cancellation of `ctx`, which happens only after the last drive. `sFailed` is never
assigned by the code and has no counterpart.

### MapReduce

A worker has, for each slot it was given, the state of its input, of its bucket
files and of its output. Data is abstracted to completeness: `buckets` is the set of the
reducers whose bucket file has everything the slot's `/map` emits for them. It is
empty while `/map` writes, and stays so when `/map` ran on an input already consumed. A
reduce output is the set of slots whose data went into it in full.

`Load` is `/load` or `/data`; `MapBegin` and `MapEnd` are `/map` up to the creation of
its empty bucket files and from there to its end; `Fetch(s, i)` is one goroutine
of `/reduce` together with the peer's `/intermediate`; `FlushFails(s, r)` is an error of the
`Flush` or `Close` of one bucket file, which `handleMap` does not look at
(worker/main.go:302-308): the bucket is cut and `/map` answers 200 all the same. `ReduceNamesPeer` and `Reduce`
are its two ends; `Result` is `/result`. The end of a handler and the arrival of
its answer are one step. `Crash` stops a worker for good, as nothing restarts it.
`Refused` is a call that finds no worker or a slot unknown to it; `HandlerFails` a
500 that does not name a peer; `Lose` a call that is lost or times out, remembered
in `abandoned` because its handler may go on.

In URL mode `/map` deletes its input files (`clearMappedInputs`); in local mode the
input stays in memory. A slot without input is sent an empty `/data` in both.

A failed `/load` has entered the slot in the worker's table without its data, which is what
`HandlerFails` leaves behind.

`lateSwaps` and `abandoned` are history variables; no action's guard reads them. `cut` is
history too, except that within one `/map` it tells `MapEnd` which buckets lost their end.

### Deploy

`run()` around the drives: the loop over the host list of `deployInitialWorkers` and
`deployWorkersNFS` (`TryHost`, `Deployed`, `TooFew`, and `Stage` for the single copy of
the NFS variant), the activation of one host (`Preflight`, `SendStart`, `Echo`,
`Ready`, or `NotReady` and `Undo`), the spares the job claims, and the deferred
clean-up (`EndJob`, `Exit`). With `-cleanup-only` there is nothing but the clean-up,
of all hosts (`CleanupOnly`). `nfsDeploy`, `cleanupOnly` and `parallel` are the flags,
chosen in `Init`. The clean-up visits hosts with `RunBounded`: `StartVisit` is the loop
of the caller taking a place in the semaphore, `Visit` a goroutine running the
command and giving the place back.

A host is what holds its port beforehand (`occupant`), its PID file, and the
background job of the start command. In
`kill $(cat PID) || true && rm -f PID && nohup worker & echo $! > PID` the `&` ends
the whole list, so `JobKill`, `JobClear` and `JobLaunch` interleave with `Echo` and
with all that follows. `$!` is taken to be the pid of the future worker, as in a
shell that execs the last command of a list; bash 5.2 keeps a subshell there, and
the file then names that. The remote shell is not part of the repository, and the
choice made is the one that favours the code.

`Deploy` and `Coordinator` are not composed; `SparesAreCold` is what `Coordinator`
assumes of its initial hosts (`CoordinatorAssumption`), and `ClaimSpare` with
`Ready` or `Undo` is what its `ActivateOk` and `ActivateFails` abstract.

### Pipeline and its parts

`pc` is where `run()` is: `index` (only without `-crawl`), `prepare`, then the four
drives `load`, `map`, `reduce`, `collect`, then `write`. `at[s]` is where the handler
serving slot `s` is. A drive ends when all calls have returned (`NextPhase`), or ends
the job (`JobFails`).

*Text* is a sequence of symbols; `"nl"` ends a line, and a symbol such as `"W"` or
`"u"` stands for a run of characters no job takes apart (a header's start, a URL's
scheme). The alphabet is the constant `Symbols`, of which `Letters` and `Alnum` are parts.
`TextJobs` has one mapper per job, with the library calls they are made of
(`strings.FieldsFunc`, `TrimSpace`, `ToLower`) as operators. A value is the integer
whose decimal text the code writes.

*Input.* `PrepareLocal` splits the text with `SplitIntoChunks` and gives slot `s` chunk
`s`. `PrepareURLs` deals the URLs of the manifest within the limits; `ManifestFails` is a
failed attempt of `retryCommonCrawl`, `LatestCrawl` the list of crawls.

*Download.* An attempt is `Get`, `Copy` and `Install` (remove the final name, rename), or
the failure of one of them, after which `Again` decides between another attempt and
giving up; `GiveUp` is `downloadInputs` removing what it has. The downloads of several
slots interleave in one directory.

*Map to collect.* `MapBegin` makes the empty bucket files, `MapEnd` writes them.
`short` is an error of `Flush` or `Close`, which the code ignores: a bucket loses its
end, `/map` answers 200, and the history variable `lossy` notes it. `MapTooLong` is a line
that fills the scanner's buffer. `Fetch`, `Reduce` and `Collect` are the rest; `Merge`
adds up per key.

*ResultFile* is `writeFileAtomic`: create, write, rename, the return of success
(`ReportSuccess`), the deferred removal, and a failure of each. The process may end
(`WriterDies`) at any moment, between the rename and the return included.

## Properties

| Property | Kind | What it says |
|---|---|---|
| `TypeOK`, `MRTypeOK`, `DTypeOK`, `PipelineTypeOK` | invariant | types; `replaceHost` never works without a culprit or assigns a host it has not found; a call in flight is one to its slot's present owner |
| `ReducedFromOwners` | invariant | while calls are made and on success, the `/reduce` of each reduced slot carried the present owners |
| `AttemptsAccountForSwaps` | invariant | between results the attempts are twice the swaps, and the epoch counts the swaps |
| `SparesArePristine` | invariant | no spare was started, owned, polled or declared dead, though the watcher edits the pool concurrently |
| `OwnersAreTouched` | invariant | the clean-up knows every host that owns a slot or is about to |
| `ImplementsLedger` | refinement | every step of `Coordinator` is a step of `SlotLedger` or leaves the ledger alone |
| `Termination`, `JobEnds` | liveness | every job ends |
| `OwnersBackTheRecord` | invariant | a slot recorded as loaded or mapped has its input or whole buckets on its present owner, but for buckets that an ignored flush error cut in its last `/map` |
| `NoOverlappingHandlers` | invariant | no call goes to a worker that may still serve an abandoned call of the same slot |
| `OnlySwapsAndCutsLose` | invariant | a slot's result in a successful job misses data only of slots swapped in the reduce or collect drive and of slots whose last `/map` cut the bucket for it |
| `SwapsNeedFaults` | invariant | without a crash, loss or failure no host is swapped and no job fails, whatever the watcher believes |
| `SparesAreCold` | invariant | the coordinator gets as many owners as asked for, and spares on which nothing was started |
| `ReadyRunOurs` | invariant | a host handed over runs the worker this run started, but for an NFS spare whose port was taken |
| `MissedByCleanup` | invariant | the hosts with a started worker that no clean-up visits are those of a failed ssh after the start, and those of a start-up that fell short |
| `WaitsDouble` | invariant | with flags whose largest shift stays below the sign bit (`FlagsFit`), the wait after a swap is the documented one, whatever charges the slot took before |
| `OldWorkersGone` | invariant | `-cleanup-only` without a failing command leaves no old worker that a PID file names |
| `RunReturns` | liveness | `run()` returns whatever becomes of its commands and whatever limit is given; the clean-up is not stuck behind its own semaphore |
| `ResultIsReference` | invariant | a reported result is the count, by positions in the text, of exactly what the slots were given; of a local file that is a part that ends with a line; after an ignored flush error the result may be less and never more |
| `KeysReducedWhole` | invariant | a slot's output has the whole count of each of its keys |
| `TotalsAccountedFor` | invariant | totals of a result agree with the words and lines of the text, job by job |
| `InputsAreWhole` | invariant | after a `/load` answered 200 every file of the slot is there and complete, whatever failed before and beside it |
| `FailedLoadsLeaveNothing` | invariant | a `/load` answered 500 leaves no temporary and no final file |
| `OldOrNew` | invariant | the output file is the old or the new result at every moment, whenever the orchestrator dies; a reported success has the new one in place, a reported failure has left the old one alone, and both leave no temporary file |

`ReducedFromOwners` relates a peer list sent long before to the owners now. It is
*not* the claim that results are complete: `OnlySwapsAndCutsLose` is the strongest
statement about completeness that the code keeps, and the finding
`claim_complete` shows why. `ResultIsReference` holds although `splitIntoChunks` cuts
through a line when a chunk has no newline (its comment at main.go:836-837 says
"always splitting on newline boundaries"): such a chunk fills the scanner's buffer, so
`/map` answers 500 and no result is reported. The two limits are the same constant by
coincidence of two literals, in two programs; the seeded fault `LargerBuffer`
shows what a larger buffer would do.

A definition commented "Seeded fault" is a plausible wrong version of the one after it.
No action uses it; `PROJECT.json` pairs each property with one that violates it.

## Runs

| Run | Instance | Distinct states |
|---|---|---|
| `coordinator_two` | 2 slots, 1 spare, `-max-attempts 3`, watcher, waits, fairness | 730 000 |
| `coordinator_three` | 3 slots (one without input), 2 spares, `-max-attempts 4`, no poll | 880 000 |
| `mapreduce_watch` | 2 slots (one without input), no spare, local input, a crash, another fault, watcher | 578 000 |
| `mapreduce_three` | 3 slots (one without input), 1 spare, URL input, a crash, another fault, no poll, fairness | 422 000 |
| `pipeline` | 2 slots, 4 jobs, local and URL inputs, 2 faults | 239 000 |
| `deploy` | 3 hosts, `-n 2`, every initial use of the ports, both variants and `-cleanup-only`, `-parallel` 0 and 1, 3 failing commands, fairness | 262 000 |

`coordinator_two` also checks `Termination`, `mapreduce_three` `JobEnds` and `deploy`
`RunReturns`. Six more runs check one statement each that is violated (below).

*Bounds.* Two slots are the least at which one slot's error can lead to another
slot and one slot's reduce can be stale because of another's swap; three are the
least at which a third slot's reduce is stale while a second is replaced in the
same pass, and at which a fallback host is chosen between candidates of unequal
load. One spare is enough to use the pool up and reach the fallback, and two show
the order of the list, which `MCSpareRank` sets against the order of the names.
`-max-attempts` 3 and 4 allow one or two swaps per slot: the charge is double,
so 3 is the odd case. The watcher and three slots together exceed what TLC does
in minutes; the watcher touches only the pool, so it is checked with two slots.
In `MapReduce`, `MaxCrashes` and `MaxLost` bound the faults of a run; with one of
each, every pair of a crash and another fault (a lost call, a handler or activation that
fails, a cut bucket) in different phases is covered. URL input is
checked with three slots and local input with two.
In `Deploy`, with two hosts wanted of three, a spare remains, none remains, or the
start-up falls short; three faults let the NFS copy fail everywhere, and a failing start
meet failing clean-ups. A limit of 1 makes the clean-up wait at every host, and 0 is
the default, here 2 of the code's 16.
In `Pipeline`, a chunk is 5 symbols instead of 64 MB and texts have up to three lines of
up to 6, so that a text is empty, one chunk, two, or one more than there are slots, a
line fits, just fits, just does not or does not at all, and the last line has its newline or
not. `MaxTries` is 2 instead of 4 and `MaxFaults` 2, so that a retry succeeds, and all
attempts at a URL or at the manifest fail. `MinTokens` is 2 instead of 3 and
the stop words are two short lists that overlap, so that there are ties.
`SignBit` 8 with a first wait of 1 puts the largest shift of `-max-attempts 3` just
below the sign bit, so `FlagsFit` is true in `coordinator_two`. With the code's 63 bits and
250 ms it is true up to `-max-attempts` 36.
Symmetry is not used: host names are ordered in `claimActiveHost`, and slots are
inspected and chunks handed out in order.

*Fairness.* `FairSpec` of `Coordinator` asks for weak fairness of the per-slot goroutines as a
whole and of the sequential part. Every HTTP client of the orchestrator has a timeout,
so a call always returns, and the driving goroutine never waits for anything else.
`MRFairness` asks the same of handlers and of the coordinator's control. Nothing is
assumed of the watcher, of crashes or of losses. Termination is not due to these
alone: each pass either advances a slot, or spends an attempt, or is the last.
`FairSpec` of `Deploy` asks for weak fairness of what the orchestrator does: ssh and scp run
under a time limit (remote.go:16-17, 53-70), `waitHealthy` tries a bounded number of times, and the
drives end (`JobEnds`). The background jobs on the hosts may be as slow as they like.
`Pipeline` states no liveness: its data changes nothing about what `JobEnds` says.

## What the repository says and the code does not do

Each is a run that checks one statement and violates it.

| Run | Statement | What happens |
|---|---|---|
| `claim_complete` | coordinator.go:327-329, REPORT.md:126: a swap makes the others redo `/reduce`, so stale topology does not reach the results | survivors redo it in the pass in which the new owner is still loading; the bucket that is not there is served as an empty 200 (worker/main.go:342-346), the reduce carries the current epoch, and the job succeeds without that slot's data |
| `claim_blame` | coordinator.go:615-616: a host already replaced has no culprit slot | slots are found by id, so a second error about a slot in the same pass retires the slot's fresh host; with two workers and no spare, one crash seen by both slots retires the survivor too, against README.md:485 |
| `claim_chunks` | README.md:158: the local file is split into chunks that are pushed to the workers | slot `i` gets chunk `i` and the chunks after the `N`-th go to nobody (main.go:235-237); the job reports success |
| `claim_cleanup` | REPORT.md:372, CRITERIA_AUDIT.md:51: workers are identified by a PID file and the clean-up kills them all | the start command's background `rm` deletes the PID file its foreground shell has just written (main.go:470-472, 492-494); the clean-up finds no pid |
| `claim_race` | coordinator.go:306: a host marked dead is never reused | the watcher marks the fallback host between its choice and its assignment |
| `claim_health` | coordinator.go:754-762: the slot of a host marked dead is forced into replacement on its next attempt | `tryOneStep` (511-556) never looks at `dead`, so the slot's next call goes to the host marked dead, and the slot is replaced only if that call fails. This is what makes `SwapsNeedFaults` true: a false alarm costs nothing, and a true one speeds up nothing |

Smaller disagreements that no run is spent on:

- REPORT.md:131 says the final output is written directly, without a temporary file and a
  rename, but `writeMerged` goes through `writeFileAtomic`, as CRITERIA_AUDIT.md:110 says. Were the
  report right, `OldOrNew` would be false: `WriteInPlace`, the seeded fault of `ResultFile`, is that code.
- README.md:501 and 509 give `-max-attempts` as the swaps a slot gets before the job fails, but a
  swap costs two attempts (coordinator.go:349 and 455, `AttemptsAccountForSwaps`): with 4, the third
  failure of a slot ends the job after two swaps.
- main.go:95 and README.md:503 say the wait doubles up to 5 s. As a swap charges two attempts,
  successive waits of a slot are 250 ms, 1 s and 4 s. `backoff` shifts first and caps afterwards,
  and no flag is validated: with `-max-attempts` above 36 a slot's 19th failure is followed by a
  negative wait, which is none (`CapComesTooLate`).
- The package comment of `langdetect` (job.go:5-6) attributes lines of too few tokens to
  `lang:unknown`, but the code (65-67) emits nothing for them.
- main.go:836-837 says chunks always end at a newline (see `ResultIsReference` above).

## Proofs

All theorems hold for every value of the constants under the assumptions named in the
modules. `CoordinatorAssumption` says that there is a slot, that initial owners are
distinct and not among the spares, and types the rest; distinct host names are what the
tool expects of `hosts.txt`, though `readHosts` does not enforce it.
`MapReduceAssumption` adds that results are among the payloads; `DeployAssumption`,
`ParallelismAssumption`, `ChunkingAssumption`, `DownloadAssumption`, `TextJobsAssumption` and
`InputsAssumption` only type the parameters, the `MinTokens` of langdetect, a constant of the code
that is 3, as at least one. `HashAssumption` says that `fnv32a` gives keys of
the texts natural numbers, as an unsigned hash does; nothing else is assumed of it.
`BackoffAssumption` only types the width, the first wait and the cap, as the code validates none of its flags;
the condition on them that `WaitsDoubleUpToCap` needs, `FlagsFit`, is part of the property.

| Module | Theorem | What it states |
|---|---|---|
| `CoordinatorProofs` | `TypeCorrect`, `ReducesAreCurrent`, `PoolStaysPristine`, `CleanupReachesOwners` | `Spec => []` of `TypeOK`, `ReducedFromOwners`, `SparesArePristine`, `OwnersAreTouched` |
| | `LedgerImplemented` | `Spec => Ledger!Spec` |
| `CoordinatorAccounts` | `AccountsBalance`, `WaitsDoubleUpToCap` | `Spec => []` of `AttemptsAccountForSwaps`, `WaitsDouble` |
| | `CapComesTooLate` | whatever the first wait and the width are, some number of attempts makes the wait negative |
| `MapReduceProofs` | `WorkersFitCoordinator` | `MRSpec => Spec`: the workers give the coordinator no outcome it does not allow for, so the theorems above hold of the composition |
| | `MRTypeCorrect`, `RecordIsBacked`, `HandlersDoNotOverlap`, `OnlySwapsAndCutsCost`, `NoSwapWithoutFault` | `MRSpec => []` of `MRTypeOK`, `OwnersBackTheRecord`, `NoOverlappingHandlers`, `OnlySwapsAndCutsLose`, `SwapsNeedFaults` |
| `PipelineProofs` | `OutputIsOldOrNew`, `LoadsAreWhole`, `FailedLoadsAreClean`, `PipelineTypes` | `PipelineSpec => []` of `OldOrNew`, `InputsAreWhole`, `FailedLoadsLeaveNothing`, `PipelineTypeOK` |
| `ResultProofs` | `KeysMeetInOneSlot`, `ResultIsRight`, `TotalsAgree` | `PipelineSpec => []` of `KeysReducedWhole`, `ResultIsReference`, `TotalsAccountedFor` |
| | `ResultInvariant` | `PipelineSpec => []` of the invariant all three follow from |
| `DeployProofs` | `DeployTyped`, `SparesStayCold`, `ReadyWorkersAreOurs`, `CleanupIsComplete`, `CleanupOnlyStopsAll` | `Spec => []` of `DTypeOK`, `SparesAreCold`, `ReadyRunOurs`, `MissedByCleanup`, `OldWorkersGone` |

*Coordinator.* `ReducedFromOwners` speaks only of `pc = "step"` and `"succeeded"`:
within the inspection of a pass it is false, between a swap and the rewinding that
answers it. The inductive invariant `IInv` says what holds in between.
`EpochWithinPass`: outside a pass's inspection the epoch is the pass's `startEpoch`,
and within it never below. `StampsWithinPass`: a reduce stamp is at most the epoch,
and at most `startEpoch`. `NeverPastTarget`: no slot is past the target, so the
early drives have nothing to rewind. `CallsInsidePass`: calls exist only in
`"step"`. `OwnersAtReduce`: *if* a reduced slot's stamp equals the epoch, its peer
list names the present owners. A swap raises the epoch above all stamps, which
makes `OwnersAtReduce` vacuous for the earlier reduces; `Retry` then rewinds them
all. `PoolInv` adds to the pool properties that a candidate has left the pool
before it is started. The refinement maps `state` to `phase` and `reduceEpoch` to
`stamp`; `NextDrive` and `Retry` map to `Rewind`, which may change nothing, and the
proof that `Succeed` is `Finish` uses `SuccessIsQuiet`.

*The accounts.* `AttemptsAccountForSwaps` holds only between results, as a failed call and the
swap that follows charge the slot one by one. `Settled` is that property; `HalfCharged` is what
holds while a host is replaced: the culprit has an odd account, all others an even one, and the
total is one more than twice the epoch. `WithinBudget` adds that no account is more than one past
`-max-attempts` (two when the job is ending). From `HalfCharged` the shift of a wait is
below `-max-attempts`. By an induction over `Shifted` (`ShiftedGrows`) what is shifted out is then nothing
if `FlagsFit` is true (`ShiftLosesNothing`), and the wait is `Documented`.

*MapReduce.* `MRInv` rests on `IInv`. `NoOverlappingHandlers` is about the next call and
says nothing of the time from the timeout of a call to its slot's replacement; `GivenUp`
fills that in: a worker that left a call unanswered is dead for the coordinator, or its slot's
failure is still to be looked at in this pass, and no slot is bound to it again.
`Backed` is `OwnersBackTheRecord` with what keeps it: a slot loaded is known to its owner,
so a handler that finds no files does not answer 200, and while `/map` runs its input is there and
only `cut` takes a bucket away. `Lossless` follows a slot's data
from the fetch of each bucket through the reduce output to the result, for all slots that are
`Expected`: not in `lateSwaps` and with no bucket of theirs `cut`. It needs that from the reduce
drive on no slot but those of `lateSwaps` is below `sMapped`, so that `cut` changes no more for them. `Quiet` says that without a fault no error ever exists.

*Pipeline.* For the output file it is enough that the temporary file is complete before it is
renamed, and that the new file is in place from then on (`FileInv`). `LoadInv` follows one slot's download: the first `got` files are
there with their URLs, none beyond is, the temporary file is whole exactly at `install`, and
after a failure everything up to `got` is still listed for removal. That the slots do
not disturb each other comes from `InputFile` being injective.

*Data.* The library's induction theorems take an operator, which the provers cannot
instantiate. `DataInduction` states induction for *sets* instead: a set of naturals with 0 and
all successors has all naturals, and among bad subsets of a finite set there is a least, both
from the well-founded orderings of the library. The folds of the community modules are
recursive functions on the subsets of a domain, so that it is first proved that such a
function exists (`RecursionExists`) and that `+` gives the same sum in every order
(`SumsTakeAny`). From there come sums that split by parts, that follow a bijection,
and that are compared term by term. What depends on an input is a function or a set, never
a `RECURSIVE` operator, in all modules that are proved about.

*The types of the data.* `PipelineTypeOK` looks at lengths and names, but that merged totals
are natural numbers depends on all that is done to a text: the invariant `TypeInv` joins
`LoadInv`, what the control variables are (`ControlTypes`), how far a download may be
(`LoadBounds`) and what buckets, copies, outputs and the merged result are made of
(`DataTypes`), which rests on the lemmas that the mappers, the sort, the streaming
reduce and the merge make pairs of pairs.

*The result.* `IsPart(o, w, r, whole)` says that pairs `o` have, of the pairs `w`, the
keys that belong to slot `r`, each with its whole sum, or with no more than that if `whole` is
false. Mapping a text and keeping one bucket makes a part (`RunMapPart`), joining the parts of
the slots does (`JoinedPart`), so do the sort and the streaming reduce, after which a key occurs
once (`ReducedPart`), and the merge of the parts of all slots has the sums of everything
(`MergedParts`), as a key belongs to one slot only. That is the shuffle; `ResultInv` carries it
through the job: `GivenInv` says what a slot was given, `BucketInv` that its buckets are those of
its texts, `CopyInv` that a fetched copy is the bucket, `OutputInv` that an output
is the reduce of those buckets, `MergedInv` that the total is the merge, and `PlaceInv` where slots
may be in which phase, so that nobody maps while somebody reduces. On the other side is the
reference, which counts by positions. `LinesAreSpans` matches the lines the mapper is
called with to `LineSpans`, one to one. URLs dealt by remainder are all dealt once
(`HandsSum`). For a local file, mapping two texts in turn is mapping one after the other if the
first ends with a newline (`MappedConcat`), a chunk that ends elsewhere is the last one or has a line
no worker scans (`ScannedChunkEnds`, by `NextCut` and the scanner's buffer), and so the chunks
of the slots of a successful job sum up to the text up to a line's end (`CutsSum`).

*The totals.* `TotalsAccountedFor` counts a second time, without the jobs' mappers. With the result known
to be the reference, a total over keys is the weight of all pairs for these keys
(`WeightOf`), and a weight is the sum of the weights of the lines (`WeightOfText`, `WeightOfAll`).
A line of wordcount weighs its words, one of langdetect 1 or 0, and one of docdensity the
same for both sides of each equation (`WordCountWeighs`, `LangDetectWeighs`, `DocDensityWeighs`).
What `Fields` splits off are the words by position, one to one (`FieldsAreWords`), trimming a line
takes none away (`WordsOfTrimmed`), and each word of a text is in exactly one line
(`WordsInLines`).

*Deploy.* `Phases` says what `run()` has gone through at each place, `Cold` that the hosts not
yet tried have nothing of this run on them, `Accounts` where each started host is
recorded (cleaned, reported with an error, handed over, or in hand) and that each
host of a clean-up is behind it, running or still ahead, and `Ports` what a PID file and a
port say about each other while a host is being started.

Only model-checked: liveness (`Termination`, `JobEnds`, `RunReturns`), which is out of the
prover's reach. Every invariant and every action property of the passing runs is also a theorem.

## Not modelled

- The build of the worker, the profiling endpoints, `make_hosts` and the shell scripts:
  one pass of I/O without state of their own. The Kafka comparison is another system.
- Functions the program does not call: `distributeData`, `assignChunksRoundRobin`,
  `broadcastMap`, `broadcastPost`, `collectResults`, `writeKVLines`, `readKVFlat`.
- In `TextJobs`: Unicode classes, ports and paths of URLs, the full stop-word lists. In
  `StreamReduce`: the 64 MB limit of the scanner in `runReduce`, which a key of that
  length would meet, and the order of lines in the output file.
- In `Download`: a removal that itself fails, and a second `/load` of a slot on the same
  worker; by `NoOverlappingHandlers` that happens only after the first has returned.
- In `Pipeline`: replacements, retries elsewhere and crashes of workers, which are
  `MapReduce`'s.
- Time, which appears only as "may be late". The orchestrator's own crash ends the job;
  the workers it leaves running stay until the next `-cleanup-only`.
- Liveness of `Pipeline`, and the data of a job with replacements: the product of the two
  models is beyond TLC, and `OnlySwapsAndCutsLose` says which slots' data are missing.

## Plan

1. Done: the coordinator, its ledger, the composition with workers, deployment, the data
   from input to output file, and the theorems above.
2. Next: the limit of `RunBounded` on running commands.
3. Then: `waitHealthy` with several hosts at a time, if the program comes to use it so.
