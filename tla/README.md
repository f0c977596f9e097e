# Code Review Agent: formal models and proofs

The repository is a GitHub App that reviews pull requests with language models: a webhook receiver, Celery workers,
a LangGraph of reviewing agents, PostgreSQL for reviews and technical-debt scores, Neo4j for a call graph, Chroma for
a repository's conventions, a dashboard and a training pipeline. This directory holds TLA+ models of the parts in
which order, concurrency and failure decide what users see, TLC runs over small instances, and TLAPS proofs for
every size. Paths below are relative to the repository.

## 1. Inventory

| Component | State it keeps | Operations | What is hard | What makes it correct |
|---|---|---|---|---|
| Webhook receiver (`backend/app/webhooks/github.py`) | `installations`, `repos` rows | installation created, repositories added or removed, pull request event | overlapping requests, SELECT then INSERT, tasks published before the commit, rename and reuse of names | a repository answered with 200 is known, has had its index task, is found by its reviews, and is active as the last event sent says, as far as the code can know |
| Review job (`backend/app/tasks/review_job.py`, `celery_app.py`) | status of a `pull_requests` row, broker queue | duplicate check, claim, pipeline, post, save, done and failed marks, retry | duplicate and redelivered messages, crashes at any step, exceptions at any step, a claim that is not a lock | completed means saved; one review of a head until an attempt fails; every request settles |
| Review graph (`agents/orchestrator.py`, `agents/schemas.py`) | `PRContext` | ingestion, routing, three reviewing agents, debt agent, aggregator, summary | supersteps, thread pools, failing calls, escalation | no agent silences another; failures stay where they are; the graph ends |
| Aggregation and posting (`aggregator_node`, `post_findings_to_github`) | lists of findings | dedupe and sort, twice; review; check run | which finding of a place is kept, the limit of 15, partial failure of GitHub | what is shown agrees with what is saved; green means no saved blocker |
| Review persistence (`backend/app/db/crud.py`, `session.py`, `models/`) | `reviews`, `findings`, `debt_scores` | save in one transaction | reading a score and writing its successor without a lock | scores add up; a save is whole |
| Conventions index (`backend/app/parser/conventions.py`) | Chroma collection, local lock file | clone, delete, add in batches, retrieve | cached client, two kinds of store, failures between delete and add, concurrent jobs | the index is one version of the documents, and the newest |
| Ingestion and call graph (`backend/app/parser/pipeline.py`, `neo4j_ingest.py`) | Neo4j | replace a file's functions and calls; blast radius | re-ingestion, concurrent workers, repositories with the same paths | no stale calls; nothing missing without a reason |
| Model calls (`call_primary_model`, `call_vllm_api`, `_throttle_request`) | time of the last request | throttle, retry, fallback to Groq | threads behind one lock, rate limits | spaced requests; no answer attributed to the wrong model |
| AST summaries (`backend/app/parser/ast.py`) | none | lines of a hunk to lines of the file, those to enclosing definitions | removed lines, markers of a missing newline, lines that `splitlines()` cuts in two, several nodes on one line | every added line counts as changed; nothing untouched is found, nothing touched is missed without a reason |
| Dashboard API (`backend/app/api/v1/endpoints.py`) | none | four queries | many SELECTs per listing while saves commit | the listing is the ledger's |
| Dashboard (`dashboard/app/`) | React state | fetch and show | answers out of order | what is shown belongs to the current filter |
| Training (`training/`) | data set, manifest, evaluation set, adapter, quantised model, report, all files | export, split, train, quantise, serve, evaluate, gate | scripts that hand files to each other and stop between two writes, placeholders in the place of models, gates that compare two failures | the logged hash is that of the data; a model is not evaluated on what it was trained on; passing the gate means catching no fewer |
| Authentication, configuration, metrics, scripts, validation | – | – | – | – |

How they interact: GitHub calls the webhook receiver, which writes `repos` and publishes Celery messages to Redis
(`index_repo_conventions_task`, `process_pr_review`). A worker that runs a review reads and writes the
`pull_requests` row, lets `ingest_pr` fill Neo4j and a `PRContext`, invokes the graph (which reads Chroma and calls
the models), posts to GitHub, and saves to PostgreSQL. The dashboard reads PostgreSQL through the API. All shared
state is in those stores; inside a worker only the graph's pools run in parallel.

## 2. Modules

| Module | Models | State and actions against the code |
|---|---|---|
| `ReviewJob` | `process_pr_review` on all workers, the broker, a head's row | `pc[w]` is the next step of the task, `seen[w]` the status that its open transaction has read. `update_pr_status` and the save are a read step and a write step, since READ COMMITTED lets others commit in between. `Raise*`, `ClaimInDoubt` (the claim commits and raises), `LoseFailedMark` and `Crash` are the exceptions and the lost process; `Retry` publishes the message that autoretry publishes, `Ack` acknowledges late. |
| `ReviewPromise` | what a user may rely on | requested heads, postings, recorded reviews; implemented by `ReviewJob` (`PromiseKept`) |
| `Findings` | the operators both copies of the dedupe-and-sort code consist of | `Absorb` is one iteration of the loop; `SortedBySeverity` is the stable sort |
| `FindingsReport` | aggregator, posting | one action per iteration and per GitHub call |
| `ReviewGraph` | one invocation of the graph | `hunk[a][t]` is the thread of task `t` of agent `a`; a superstep ends with `Merge`, the reducer. `escalated` is a history of what was kept of the findings that Claude was asked about, each with its agent, task and index. The three reviewing agents are one program in the code, up to category and choice of files, and one set of actions here. |
| `DebtLedger` | `debt_scores`, its writers, `GET /repos` | a save begins, records file by file and commits; a row's `time` is the start of its transaction, as `now()` is |
| `Installations` | `repos` and the handlers of installation events | a handler is a SELECT step per repository, with its publication, and a commit, which may be refused, or be done without an answer; `RequestFails` is an exception at any point. GitHub's events, renames and deletions are external; events are handled in any order. `latest` is the last event *sent*, `contested` says where the code cannot follow it. |
| `ConventionsIndex` | the index tasks on one host | clone, connect (cached client: server or local), lock if local, delete, add per batch |
| `ModelCalls` | `call_primary_model` in the threads of one process | `lock` and `sleep` are the throttle's, `since` the age of `_last_request_time`; `call[c]` is a thread in a provider's retry loop, and a request ends in an action per kind of outcome. `ReviewGraph` takes such a call as one step: an answer or an exception. |
| `CallGraph` | the functions and calls in Neo4j | `Ingest` is a file's transaction `_ingest_tx` (`Write`) in `ingest_pr`, `Query` is `get_blast_radius`, which answers, or `[]` after an error of its own |
| `ChangedDefinitions` | `parse_changed_lines`, `get_changed_definitions` | `ParseLine` is one piece of the hunk as `splitlines()` cuts it (`rests` are those that are no lines), `Descend` one call of `find_deepest_node`, `Climb` one step of `get_enclosing_definition`. Trees and hunks are chosen in `Init`. |
| `TrainingPipeline` | `export_findings`, `train_lora`, `quantize_awq`, vLLM's start, `evaluate` | one action per file that a script writes, and several for the data set (`OpenDataset` empties it, `WriteLines`, `WriteDataset`), which may be read meanwhile; `CrashExport` and `StopTraining` leave a file as far as it was written. `Tally` has the counts of `compute_metrics`, of which the gate's ratios are made. |
| `ReviewJob_proofs` | theorems about `ReviewJob`, `ReviewPromise` and `DebtLedger` | section 4, as the next four rows |
| `Findings_proofs` | theorems about `FindingsReport` and `ReviewGraph` | both are made of `Findings`, whose lemmas they share |
| `Ingestion_proofs` | theorems about `CallGraph` and `ChangedDefinitions` | |
| `ConventionsIndex_proofs`, `Installations_proofs`, `ModelCalls_proofs`, `TrainingPipeline_proofs` | theorems about the module of that name | |
| `FoldFacts` | induction, recursive functions, folds, sums and flattened sequences | lemmas for the proofs, nothing of the code |

Where one module proves theorems about two, it extends both, and the specification parts of the second have names of their own: `Ledger*` in
`DebtLedger`, `Lookup*` in `ChangedDefinitions`, `Review*` in `ReviewGraph`.

Every module takes its sizes as constants with named assumptions. Each `MC*` module gives an instance for TLC. Definitions
named in a comment as a mutant of another are the bugs that the properties were tried against: with the mutant in
the place of the definition, TLC finds the property violated.

External, and modelled only from how the code uses it: GitHub, Celery's delivery (at least once, late
acknowledgement), PostgreSQL's READ COMMITTED, Chroma's `add` (ids that are there already are left alone), Neo4j's
transactions (taken as one step), LangGraph's supersteps. tree-sitter's trees and GitHub's hunks are inputs of `ChangedDefinitions`, each of
them that fits the bounds; a training library's result, vLLM's loading and the models' answers are choices in `TrainingPipeline`.

## 3. Runs

| Run | Instance | What it shows |
|---|---|---|
| `review_job` | 1 head, 2 workers, 2 events, 1 retry, 1 crash | all safety invariants, the refinement of `ReviewPromise`, and that every request settles |
| `lost_worker` | 1 head, 1 worker, 1 event, 1 retry, 1 crash | violation: the message of a lost worker is skipped as a duplicate |
| `findings_report` | all lists of up to 3 findings over 2 categories, 3 severities, 2 confidences, line or none; 1 inline | what is kept, posted, shown and concluded |
| `blocker_fails_check` | the same | violation: a blocker loses its place to a surer warning and the check is green |
| `review_graph` | 2 agents, pools of 2, 3 pull requests (one with 3 hunks) | independence of agents, containment of failures, escalation, termination |
| `debt_ledger` | 2 saves that share a file, 6 clock ticks | scores add up unless saves overlap, and what is lost when they do |
| `installations` | 2 repositories, 2 names, 2 handlers, 3 events, 3 changes on GitHub | answered repositories have rows and index tasks, rows agree with the events, and reviews find them |
| `conventions` | 2 workers, 2 tasks, 2 versions of a repository, 1 retry, 1 crash | the index is one version unless writers met or failed, and heals; tasks end |
| `model_calls` | 3 threads, an interval of 2 ticks, 2 attempts, both backends, with and without a key | requests pass one per interval; every end of a call is explained; every call ends |
| `call_graph` | 2 repositories with 2 equal paths, 5 contents, 2 workers, 4 ingestions | nothing stale; what is missing, and why |
| `changed_definitions` | all trees of 4 nodes over 3 lines, all hunks of up to 3 pieces, at most 1 of them the rest of a cut line, with and without a header | every added line is changed, or one as far behind it as lines were cut; what is found is touched; what is missed without a cut begins on a shared line |
| `training` | 2 findings, a clean built-in sample, a sample from the hub, 1 template, half of the records trained on, 2 exports, 2 trainings, 1 stop, up to 2 reports per example | what the hash, the evaluation set, the gate and the export's volume gate can be relied on for |

Bounds. Heads do not interact in `ReviewJob` (no action reads another head's row), so one is enough; two workers and
two messages give every pair of steps of two tasks, one retry gives an attempt before and after, one crash strikes any step, including
after the retry was published. Three findings give a key-mate on either side of a third finding, and an inline
limit of one gives inline, overflow and no-line. Pools of two with three hunks make a task wait. Six ticks are two
overlapping saves, one of them repeated. Three events over two repositories give an add, a remove and another add
that race, overtake each other or fail; repositories, names and handlers are each symmetric (`Symmetry`). Two chunks in the older and one in the newer version make a mixture and a leftover visible. Four
ingestions let both repositories write a path twice, or all four files once, and one worker write between the other's ingestion and query. Four nodes are a root and either
three siblings on one line, a definition in a definition, or one behind a statement; three hunk lines hold a removed line, its marker and an added line,
which is the shortest hunk that a marker shifts, or a cut line, its rest and an added one. Two findings of one template, one of them trained on and one held out, are the smallest set whose
inputs overlap; two exports and two trainings let each run meet a data set, a manifest and an evaluation set that are not its own, and one stop strikes any script;
two reports per example are the fewest that count a label twice. Two attempts give a first, a retried and a last one at each
provider, three threads two that wait for the lock while one sleeps in it. The counters bounded by constants
(`MaxRetries`, `MaxEvents`, `MaxCrashes`, `MaxTime`, `MaxMoves`, `MaxRequests`, `MaxIngests`, `MaxRuns`, `MaxExports`, `MaxStops`) are inputs, apart from
`MaxRetries`, which the code has (3 and 2).

Deadlock is not checked, since every one of these systems may come to rest when nobody asks for anything.

Fairness. `ReviewJob` and `ConventionsIndex` assume that Celery goes on delivering (`WF(Deliver)`) and that a started
task goes on (`WF` of a worker's step, exceptions included in `ReviewJob`, excluded in `ConventionsIndex`, where a failure must not be what lets a
waiting task end). Events, pushes and crashes are never forced. `ReviewGraph` assumes that each agent's threads go on,
since calls to the models return or time out and retries are bounded (10).
`ModelCalls` shows that such calls end, from the passing of time and the progress of each thread once it has been started: the lock is not fair,
but each thread takes it a bounded number of times. No strong fairness is assumed anywhere: the file lock is
polled for, and with boundedly many tasks a waiter finds it free for good.

## 4. Proofs

`ReviewJob_proofs` proves, for any set of heads, any finite set of workers and any bounds (`WorkersAssumption`,
`BoundsAssumption`), `TypeOK`, `CompletedMeansSaved`, `ProcessingHasOwner`, `SingleFlightUntilFailure`,
`SavedOnlyAfterPosting` and `PromiseKept`. None of the invariants is inductive alone. `CompletedMeansSaved` needs to know that a
worker that is past its save has one, and that one that will write `completed` is; `SingleFlightUntilFailure` needs that, before a failure, a
row at `absent` has no owner, that an owner before posting finds no posting, and that the claims under way have read `absent`; `ProcessingHasOwner` needs
what each transaction has read. `IInv` is their conjunction with the type invariant; `Invariance` proves it from
`Init` and one lemma per group of steps, and the theorems follow with PTL. `ImplementsPromise` maps each step to a
step of `ReviewPromise` or a stutter, using `IInv` for the guards of `Post` and `Record`.

It proves of `DebtLedger`, for any finite sets of files and saves and any deltas (`ChangedAssumption`, `DeltaAssumption`, `FiniteAssumption`,
`MaxTimeAssumption`), `LedgerTypeOK`, `SerialSavesAddUp`, `ScoresAreSums` and `QuietListingIsExact`. A score that is going to be committed was
computed from rows that have been joined by others since: `PendingInv` says that it is a sum of *some* committed deltas and its own, and that it is
made from the latest score unless a save of the file was committed after its own began, which is just what `SerialSavesAddUp` excludes. `LedgerTimes` says that rows are
stamped before they are committed: the row with the latest stamp need not be the one that was committed last.
`QuietListingIsExact` needs that `GET /repos` reads files that have rows (`ListedFiles`), and that the sum of what it has read and what it has
still to read stays what it was.

`Findings_proofs` proves of `FindingsReport`, for any set of findings, lists of any length and any inline limit
(`FindingAssumption`, `InputsAssumption`, `InlineMaxAssumption`), `TypeOK` and the five invariants of the `findings_report` run. The two loops
are followed by loop invariants: `AggregateInv` (the dict has one finding per key and covers what was read) and
`PostInv` (over findings with distinct keys the loop copies its input). The lemmas on `Absorb` say what an iteration
preserves; those on the sort say that a sorted list that is sorted again stays as it is, since the sort is stable.

It proves of `ReviewGraph`, for any agents, findings and pull requests, any size of the pools and any threshold
(`PoolAssumption`, `ThresholdAssumption`, `PullRequestsAssumption`), `ReviewTypeOK`, `AgentsIndependent`, `ConfidentFindingsSurvive` and
`DoubtfulFindingsChecked`. Three assumptions come from the code: the agents are distinct nodes and none is the debt agent (`ReviewersAssumption`),
and each agent writes its own category into a finding, whatever the model or the escalation answers (`AnswerAssumption`,
`RefinedAssumption`; the literals at `agents/orchestrator.py` 604, 676, 807, 874, 977 and 1042). The three properties are about the end of
a review, and say nothing of a task under way. `GraphInv` gives each task its account (`TaskInv`): what it has found accounts for every answer
that it has looked at, checked or kept, up to the one it is at. What an agent has returned is the concatenation of what its tasks found (`Returned`), findings are empty until
the aggregator runs (`PhaseInv`), and what it leaves is the deduped merge (`FindingsInv`). TLC checked `GraphInv` on the instance of the `review_graph` run. From there to the
properties it takes facts about the merge: each agent's findings are one block of the merged list (`ConcatBlock`), and the dedupe treats every category by itself
(`DedupeBlock`), since the category is part of the key.

Two more theorems join these modules to each other and to a finding. `LoopComputesDedupe`: the aggregator's loop, one finding at a time in `FindingsReport`, computes what the
aggregator of `ReviewGraph` does in one step. `DebtCountsNothing`: the debt agent always counts zero findings, in every review and every interleaving (section 5).

`ModelCalls_proofs` proves, for any set of threads, any interval and any number of attempts (`NoCallerAssumption`,
`IntervalAssumption`, `MaxRetriesAssumption`), `TypeOK`, `EndsExplained` and `GrantsSpaced`. `LockInv` says who holds the lock, and that its
holder sleeps through what is left of the interval (`since + sleep >= Interval`), which time preserves; `CallInv` ties the loop's
counter to the requests that were really sent, and being at Groq to how one gets there.

`Installations_proofs` proves, for any repositories, names, handlers and bounds (`InstallationsBounds`,
`NoNameAssumption`), all four invariants of the `installations` run and `TypeOK`. A row that `LastEventObeyed` speaks of is written at a commit, long after it was selected,
so that the invariant has to say what a transaction has in hand: `HandlerInv` and `AddedInv` that what it went through has a row, or an insert,
and an index task; `NumberInv` that the last event sent about a repository is one event, in the mail or in one transaction; `AgreeInv` that what is done about an uncontested
repository once its last event was received agrees with it, and that what the SELECT of that event saw still holds; `NameInv` that a name that was kept and not reused means one
repository in the table, in the mail and in every transaction.

`ConventionsIndex_proofs` proves, for any workers, versions and bounds (`ChunksAssumption`, `IndexBounds`, `WorkersAssumption`), `TypeOK`, `LockHasWriter` and
`IndexIsOneSnapshot`. `StoreInv` is the latter made inductive: an undisturbed store has at most one writer and holds what that one has added
so far; `StepInv` says what a task has at each step. For the local store the lock makes writers one, which is why `LockHasWriter` is part of the invariant.

`Ingestion_proofs` proves of `CallGraph`, for any repositories, files, contents and workers (`CallGraphAssumption`), the three invariants of the `call_graph`
run and `TypeOK`. `FreshInv` adds to `CallsAreFresh` that the caller is still defined in the file whose contents have the call: without that
a cleanup would leave the call. `StampInv` orders ingestions. `QueryInv`
says what is known of the calls between an ingestion and its query: those of the file's functions that the graph has and the file's contents do not, or the other way round, are due to
ingestions since, of the caller's file or of the file itself (`Asked`).

It proves of `ChangedDefinitions`, for trees, files and hunks of any size (`SizeAssumption`), `LookupTypeOK`, `EveryAddedLineIsChanged`,
`FoundIsTouched` and `MissedOnlyOnSharedFirstLine`. `ParseInv` is the interesting part: the parser is ahead of a line by at most the cuts before it (`Near`), and past a marker by
one more, and the line that it then leaves out is among the changed ones, since the removed line before the marker was taken to be there. `ValuesInv` keeps every changed line at, or as far ahead of, an added or removed one, `SearchInv` keeps
the search at a node that covers its line. `MissInv` follows a definition that covers the line from the root down and up again: the search is above it, or has gone below it, or
has turned off where the definition begins behind something else on its line (`WayDownHides`). Ancestors are reached by an induction over node numbers, since a parent's is lower.

`TrainingPipeline_proofs` proves, for any findings, samples and bounds (`BoundsAssumption`, `GateAssumption`, `SamplesAssumption`), all properties of the
`training` run and `TypeOK`. `FileInv` and `HashInv` follow the hash from the manifest to what is served; `AgeInv` and `HeldOutInv` say that the set that
a run held out is still there when it saves, and that no model is younger than it; `OwnInv` that findings stay in the database, so that an unforced export has read all that was ever in the data set; `ReportInv`
that both tallies of a report are about the same labels, from which `GateMeans` gets what the ratios imply.

`FoldFacts` holds what these proofs need of induction and folds. The library's theorems about them take a predicate or an operator as a parameter, which first-order provers
cannot instantiate. Here a principle is about a set of numbers (what is not in it would have a least element, from `WFMin` of the library), a recursive function is one that
satisfies its equation, and what is folded is a function. The lemmas then say that the folds of the community modules that the models use are such functions:
`DedupeRun` and `MergedParts` for the merge, `TotalIs` and `LatestSum` for sums over the ledger.

Only model-checked: the four liveness properties `EveryRequestSettles`, `IndexingEnds`, `GraphEnds` and `EveryCallEnds`, since fairness and `ENABLED` are beyond the
prover, and the two violations. Every other property of the runs is a theorem. Some theorems are not in a run: the type invariants
of the modules other than `ReviewGraph` and `DebtLedger`, `SavedOnlyAfterPosting`, `LoopComputesDedupe` and `DebtCountsNothing`.

## 5. Where code and documents disagree

Two disagreements are runs that TLC violates (`lost_worker`, `blocker_fails_check`); the others were met while modelling and are listed with
their lines in `PROJECT.json`. Of the review job: two workers may both claim a head that was marked failed; an unknown repository is reported as a
concurrent run; there is no Redis check for duplicates. Of the stores: debt scores are read and written without a lock; events that overtake each other or fail leave a
repository against the last of them; renamed or reused repository names leave a repository unreviewed; an older clone may be indexed last; two document paths may get the same chunk id;
re-ingestion of a file deletes the calls of others to it, so blast radii hold little but the file's own functions. Of the graph: the debt agent counts findings that are not there yet, and hence none ever (`DebtCountsNothing`); the
summary is never posted; nothing reads the cost limit per review. Of the AST summaries: a definition that begins behind something else on its line may be missed; `splitlines()` cuts lines
at separators that git and the parser of the tree do not know, and numbers what follows too high; a full scan has no changed definitions. Of training: no finding is ever labelled confirmed or rejected; contexts of one kind are all alike, so that inputs that are held out
equal inputs that are trained on; the evaluation set is every run's; the loss is looked at after all epochs; samples of the hub cannot be
evaluated; the baseline for the precision check is never found in the report; a finding that is reported several times counts several times.

## 6. Excepted, or not modelled, and why

Several hazards are not prevented by the code. The properties then except the case, in their own words, and show that it is the only one: a second review of a head that was marked failed
(`SingleFlightUntilFailure`), overlapping saves (`SerialSavesAddUp`) and listings (`QuietListingIsExact`), opposite events that overlap or overtake each other and events that fail
(`LastEventObeyed`), renames and reused names (`ReviewsFindTheirRepo`), two writers on the Chroma server and failed writes, until the next lone one (`IndexIsOneSnapshot`), another ingestion before the query
(`RadiusIsOwnFile`), lines that are cut (`MissedOnlyOnSharedFirstLine`), exports that cross a training run or stop (`LoggedVersionTrained`, `UnforcedExportKeepsOwn`), later evaluation
sets (`HeldOutUnseen`). The notes of the hazards in `PROJECT.json` say which.

Hunks in which the rest of a cut line reads as a whole header (they would go on with lines of their own); a line of a file that is only half written (its JSON does not parse, so the script stops); two ids in one
payload that are equal.
Prompts, parsing of answers, formatting and metrics: data that no property tells apart. Request authentication: pure functions of one request.
The names, signatures and bodies of the definitions found, import resolution and chunking: inputs of `CallGraph` and `ConventionsIndex`, or text. Concurrent `MERGE` of two
transactions: a transaction of Neo4j is one step. A wall clock that is set back (the throttle reads `time.time()`). The length of delays and the broker's visibility timeout: a
redelivery while the first delivery still runs is an ordinary second message for the head, which `ReviewJob` has.
What training and quantisation compute: steps of libraries, of which the outcomes matter. `cost_comparison_report`: it formats prices. The older copies of the training
scripts in `backend/scripts` are superseded by those in `training/`. Validation, end-to-end and operational scripts: sequential programs that call what is modelled, demonstrations and seed data.
The dashboard pages and the endpoints other than `GET /repos`: single queries and their display, of which overlapping fetches are the one hazard (section 7).

## 7. Plan

Done, in order of importance: the review job with its promise, the report, the review graph, the ledger,
installations, the conventions index, the call graph, the model calls, the changed definitions and the training pipeline; proofs of all of them.

Next, in this order:

1. A composition of `ReviewJob` and `DebtLedger`: a repeated save of a head counts its debt twice.
2. A composition of `ReviewGraph` and `FindingsReport`: what is shown at the end of a review, in terms of what the models answered.
3. `DashboardPage`: overlapping fetches and the filter they belong to.
