-------------------------- MODULE TrainingPipeline --------------------------
(***************************************************************************)
(* From stored findings to the go/no-go gate (src/training).  Four scripts *)
(* hand files to each other: export_findings writes a data set and its     *)
(* manifest, train_lora an evaluation set and an adapter, quantize_awq a   *)
(* quantised model, which vLLM serves, and evaluate compares what is       *)
(* served with Groq.  Reviews store findings in the meantime, and a script *)
(* may stop between two writes, or in the middle of one.                   *)
(*                                                                         *)
(* A training record is a number: the id of a finding or, after those, a   *)
(* public sample.  The order of a file's lines is the order of the numbers *)
(* (ORDER BY id, then the public samples), so that a file is a set.  What  *)
(* a record says is told apart only as far as two findings may be turned   *)
(* into the same input.  Records have one labelled finding, or none if     *)
(* they are clean, so that matching a prediction is a hit or a miss.       *)
(***************************************************************************)
EXTENDS Naturals, FiniteSets

CONSTANTS
    MaxFindings,  \* bound: ids of findings
    LocalCount,   \* OFFLINE_PUBLIC_SAMPLES
    HubCount,     \* samples taken from the HuggingFace data set
    Clean,        \* the built-in samples without a finding
    Templates,    \* contexts that are generated alike for several findings
    MinimumOwn,   \* MINIMUM_OWN_DATA_EXAMPLES
    TrainParts,   \* of Parts parts of the records, as many are trained on (4 of 5)
    Parts,
    MaxRuns,      \* bound: training runs
    MaxExports,   \* bound: exports that write
    MaxStops,     \* bound: scripts that stop halfway
    MaxHits       \* bound: findings that a model reports for one example

Own == 1..MaxFindings
Local == (MaxFindings + 1)..(MaxFindings + LocalCount)
Hub == (MaxFindings + LocalCount + 1)..(MaxFindings + LocalCount + HubCount)
Records == Own \cup Local \cup Hub

ASSUME BoundsAssumption ==
    /\ MaxFindings \in Nat /\ HubCount \in Nat
    /\ MaxRuns \in Nat /\ MaxExports \in Nat /\ MaxStops \in Nat /\ MaxHits \in Nat
    /\ LocalCount \in Nat \ {0}
ASSUME GateAssumption ==
    /\ MinimumOwn \in Nat \ {0}
    /\ TrainParts \in Nat /\ Parts \in Nat \ {0} /\ TrainParts <= Parts
ASSUME SamplesAssumption ==
    /\ Clean \subseteq Local
    /\ Templates \cap {"none", "unlearnable", "own text"} = {}

VARIABLES
    stored,       \* the findings table: what becomes of each id
    dataset,      \* training_data.jsonl
    manifest,     \* dataset_manifest.json: the records whose SHA-256 it has
    evalSet,      \* eval_set.jsonl, with the run that wrote it
    adapter,      \* models/qwen2.5-coder-7b-finetuned
    quantized,    \* models/qwen2.5-coder-7b-instruct-quantized
    live,         \* what vLLM has loaded
    export,       \* the running export script
    train,        \* the running training script
    report,       \* the last evaluation report
    runs,         \* training runs so far
    exports,      \* exports so far
    stops,        \* scripts that stopped halfway
    interrupted,  \* history: the last export stopped after touching the data
    exported,     \* history: the own findings that were ever in the data set
    whole         \* history: the last export to touch it was unforced and wrote all

vars == <<stored, dataset, manifest, evalSet, adapter, quantized, live,
          export, train, report, runs, exports, stops, interrupted, exported, whole>>

-----------------------------------------------------------------------------
(* Types *)

Contexts == {"own text", "unlearnable"} \cup Templates

File == [exists : BOOLEAN, records : SUBSET Records]
NoFile == [exists |-> FALSE, records |-> {}]

Run == 0..MaxRuns

\* Weights: the run that made them, the data set it read, the data set whose
\* SHA-256 it logged to MLflow, whether an export wrote in between, and
\* whether they are the placeholders of a simulation.
Model == [exists : BOOLEAN, stub : BOOLEAN, run : Run, crossed : BOOLEAN,
          data : SUBSET Records, sha : SUBSET Records]
NoModel == [exists |-> FALSE, stub |-> FALSE, run |-> 0, crossed |-> FALSE,
            data |-> {}, sha |-> {}]

Tally == [tp : Nat, caught : Nat, labelled : Nat, falseOnClean : Nat]
NoTally == [tp |-> 0, caught |-> 0, labelled |-> 0, falseOnClean |-> 0]

IdleExport == [pc |-> "idle", forced |-> FALSE, records |-> {}]
IdleTraining == [pc |-> "idle", crossed |-> FALSE, data |-> {}, sha |-> {}]

TypeOK ==
    /\ stored \in [Own -> {"none"} \cup Contexts]
    /\ dataset \in File /\ manifest \in File
    /\ evalSet \in [exists : BOOLEAN, records : SUBSET Records, run : Run]
    /\ adapter \in Model /\ quantized \in Model /\ live \in Model
    /\ export \in [pc : {"idle", "write", "writing", "manifest"}, forced : BOOLEAN,
                   records : SUBSET Records]
    /\ train \in [pc : {"idle", "read", "fit"}, crossed : BOOLEAN,
                  data : SUBSET Records, sha : SUBSET Records]
    /\ report \in [exists : BOOLEAN, passed : BOOLEAN, tuned : Tally, groq : Tally]
    /\ runs \in Run /\ exports \in 0..MaxExports /\ stops \in 0..MaxStops
    /\ interrupted \in BOOLEAN /\ whole \in BOOLEAN
    /\ exported \in SUBSET Own

-----------------------------------------------------------------------------
(* The findings and their export *)

\* A finding gets an id when it is inserted and is seen once its review has
\* committed, so that ids may appear in any order.  Its escalation outcome
\* stays at the column's default.
StoreFinding(i, context) ==
    /\ stored[i] = "none"
    /\ stored' = [stored EXCEPT ![i] = context]
    /\ UNCHANGED <<dataset, manifest, evalSet, adapter, quantized, live,
                   export, train, report, runs, exports, stops, interrupted, exported, whole>>

\* Findings that were escalated have an unknown outcome, and the debt agent's
\* have no format: both are skipped.
Learnable == {i \in Own : stored[i] \notin {"none", "unlearnable"}}

\* The input of a record: those of a template say the same.
InputOf(r) ==
    IF r \in Own /\ stored[r] \in Templates THEN <<"context", stored[r]>> ELSE <<"record", r>>
Inputs(S) == {InputOf(r) : r \in S}

\* Mutant of StartExport: the volume gate counts all records.
StartExportCountingAll(dbUp, hubUp, forced) ==
    LET own == IF dbUp THEN Learnable ELSE {}
        public == IF hubUp THEN Hub ELSE Local
    IN  /\ export.pc = "idle"
        /\ Cardinality(own \cup public) >= MinimumOwn \/ forced
        /\ exports < MaxExports /\ exports' = exports + 1
        /\ export' = [pc |-> "write", forced |-> forced, records |-> own \cup public]
        /\ UNCHANGED <<stored, dataset, manifest, evalSet, adapter, quantized, live,
                       train, report, runs, stops, interrupted, exported, whole>>

\* Without the database only the public samples are left, without the hub
\* the built-in ones; too few own examples stop the script, unless forced.
StartExport(dbUp, hubUp, forced) ==
    LET own == IF dbUp THEN Learnable ELSE {}
        public == IF hubUp THEN Hub ELSE Local
    IN  /\ export.pc = "idle"
        /\ Cardinality(own) >= MinimumOwn \/ forced
        /\ exports < MaxExports /\ exports' = exports + 1
        /\ export' = [pc |-> "write", forced |-> forced, records |-> own \cup public]
        /\ UNCHANGED <<stored, dataset, manifest, evalSet, adapter, quantized, live,
                       train, report, runs, stops, interrupted, exported, whole>>

\* The training script that has read the manifest has not yet read the data.
CrossedTraining == [train EXCEPT !.crossed = @ \/ train.pc = "read"]

\* open(.., 'w') empties the data set that was there.
OpenDataset ==
    /\ export.pc = "write"
    /\ dataset' = [exists |-> TRUE, records |-> {}]
    /\ export' = [export EXCEPT !.pc = "writing"]
    /\ train' = CrossedTraining
    /\ whole' = FALSE
    /\ UNCHANGED <<stored, manifest, evalSet, adapter, quantized, live,
                   report, runs, exports, stops, interrupted, exported>>

\* What a file that is written line by line may hold before it is complete.
Beginnings(S) == {{r \in S : r <= n} : n \in S \cup {0}}

\* Some of the lines are written, as whoever reads the file then finds it.
WriteLines ==
    /\ export.pc = "writing"
    /\ \E written \in Beginnings(export.records) \ {export.records} :
          /\ dataset.records \subseteq written /\ dataset.records # written
          /\ dataset' = [dataset EXCEPT !.records = written]
          /\ exported' = exported \cup (written \cap Own)
    /\ train' = CrossedTraining
    /\ UNCHANGED <<stored, manifest, evalSet, adapter, quantized, live,
                   export, report, runs, exports, stops, interrupted, whole>>

\* The rest is written and the file closed.
WriteDataset ==
    /\ export.pc = "writing"
    /\ dataset' = [dataset EXCEPT !.records = export.records]
    /\ exported' = exported \cup (export.records \cap Own)
    /\ export' = [export EXCEPT !.pc = "manifest"]
    /\ train' = CrossedTraining
    /\ whole' = ~export.forced
    /\ UNCHANGED <<stored, manifest, evalSet, adapter, quantized, live,
                   report, runs, exports, stops, interrupted>>

\* Mutant of WriteManifest: a manifest that is there is kept.
WriteManifestOnce ==
    /\ export.pc = "manifest"
    /\ manifest' = IF manifest.exists THEN manifest ELSE dataset
    /\ export' = IdleExport
    /\ interrupted' = FALSE
    /\ UNCHANGED <<stored, dataset, evalSet, adapter, quantized, live,
                   train, report, runs, exports, stops, exported, whole>>

\* The hash is taken from the file.
WriteManifest ==
    /\ export.pc = "manifest"
    /\ manifest' = dataset
    /\ export' = IdleExport
    /\ interrupted' = FALSE
    /\ UNCHANGED <<stored, dataset, evalSet, adapter, quantized, live,
                   train, report, runs, exports, stops, exported, whole>>

\* The script stops: the files stay as they are.
CrashExport ==
    /\ export.pc # "idle"
    /\ stops < MaxStops /\ stops' = stops + 1
    /\ export' = IdleExport
    /\ interrupted' = (interrupted \/ export.pc # "write")
    /\ UNCHANGED <<stored, dataset, manifest, evalSet, adapter, quantized, live,
                   train, report, runs, exports, exported, whole>>

-----------------------------------------------------------------------------
(* Training *)

\* split_dataset: the first int(n * 0.8) records train, the rest are held out.
SplitIndex(n) == (n * TrainParts) \div Parts
Trained(data) ==
    {r \in data : Cardinality({q \in data : q <= r}) <= SplitIndex(Cardinality(data))}
\* Mutant of HeldOut: the slice begins one record too early.
HeldOutEarly(data) ==
    {r \in data : Cardinality({q \in data : q <= r}) >= SplitIndex(Cardinality(data))}
HeldOut(data) == data \ Trained(data)

\* The manifest is read before the data.
StartTraining ==
    /\ train.pc = "idle" /\ runs < MaxRuns
    /\ dataset.exists /\ manifest.exists
    /\ runs' = runs + 1
    /\ train' = [pc |-> "read", data |-> {}, sha |-> manifest.records,
                 crossed |-> interrupted \/ export.pc \in {"writing", "manifest"}]
    /\ UNCHANGED <<stored, dataset, manifest, evalSet, adapter, quantized, live,
                   export, report, exports, stops, interrupted, exported, whole>>

\* The evaluation set is written over before training starts.
SplitData ==
    /\ train.pc = "read"
    /\ evalSet' = [exists |-> TRUE, records |-> HeldOut(dataset.records), run |-> runs]
    /\ train' = [train EXCEPT !.pc = "fit", !.data = dataset.records]
    /\ UNCHANGED <<stored, dataset, manifest, adapter, quantized, live,
                   export, report, runs, exports, stops, interrupted, exported, whole>>

\* What a run leaves in the output directory.
AdapterOf(stub) ==
    [exists |-> TRUE, stub |-> stub, run |-> runs, crossed |-> train.crossed,
     data |-> train.data, sha |-> train.sha]

\* run_real_training cannot train on nothing.
SaveAdapter ==
    /\ train.pc = "fit" /\ Trained(train.data) # {}
    /\ adapter' = AdapterOf(FALSE)
    /\ train' = IdleTraining
    /\ UNCHANGED <<stored, dataset, manifest, evalSet, quantized, live,
                   export, report, runs, exports, stops, interrupted, exported, whole>>

\* On a host without CUDA placeholders are written to the same place.
SimulateTraining ==
    /\ train.pc = "fit"
    /\ adapter' = AdapterOf(TRUE)
    /\ train' = IdleTraining
    /\ UNCHANGED <<stored, dataset, manifest, evalSet, quantized, live,
                   export, report, runs, exports, stops, interrupted, exported, whole>>

\* The loss did not go down (exit 2), an exception, or a lost process.
StopTraining ==
    /\ train.pc \in {"read", "fit"}
    /\ stops < MaxStops /\ stops' = stops + 1
    /\ \/ /\ train.pc = "read"
          /\ \E written \in Beginnings(HeldOut(dataset.records)) :
                evalSet' = [exists |-> TRUE, records |-> written, run |-> runs]
       \/ UNCHANGED evalSet
    /\ train' = IdleTraining
    /\ UNCHANGED <<stored, dataset, manifest, adapter, quantized, live,
                   export, report, runs, exports, interrupted, exported, whole>>

-----------------------------------------------------------------------------
(* Quantisation and serving *)

\* The quantised model is saved first and checked afterwards: the check changes
\* only the exit code.  Placeholders cannot be loaded.
QuantizeModel ==
    /\ adapter.exists /\ ~adapter.stub
    /\ quantized' = adapter
    /\ UNCHANGED <<stored, dataset, manifest, evalSet, adapter, live,
                   export, train, report, runs, exports, stops, interrupted, exported, whole>>

\* Without AutoAWQ a placeholder is written, whatever there is to quantise.
SimulateQuantize ==
    /\ quantized' = [NoModel EXCEPT !.exists = TRUE, !.stub = TRUE]
    /\ UNCHANGED <<stored, dataset, manifest, evalSet, adapter, live,
                   export, train, report, runs, exports, stops, interrupted, exported, whole>>

\* vLLM is started: it loads what is there, and cannot load a placeholder.
ServeModel ==
    /\ quantized.exists
    /\ live' = IF quantized.stub THEN NoModel ELSE quantized
    /\ UNCHANGED <<stored, dataset, manifest, evalSet, adapter, quantized,
                   export, train, report, runs, exports, stops, interrupted, exported, whole>>

-----------------------------------------------------------------------------
(* Evaluation *)

\* Built-in samples may be clean; a finding's record has one labelled finding.
Labelled(S) == S \ Clean

\* The answers of a model to the examples S: pairs of an example and the
\* number of a finding reported for it near the labelled one, or, for a clean
\* example, of any finding.  A call that fails counts as no finding.
Answers(S) == SUBSET (S \X (1..MaxHits))

\* compute_metrics: each prediction near the label counts as a true positive,
\* and the label as caught, once.
TallyOf(S, answers) ==
    LET hits == {p \in answers : p[1] \in Labelled(S)}
    IN  [tp |-> Cardinality(hits),
         caught |-> Cardinality({p[1] : p \in hits}),
         labelled |-> Cardinality(Labelled(S)),
         falseOnClean |-> Cardinality(answers \ hits)]

\* Recall is tp / (tp + fn), and 1 where there is nothing to find.
Denominator(t) == t.tp + (t.labelled - t.caught)

\* Mutant of RecallAtLeast: recall is 1 where nothing is found.
RecallOfNothing(t, u) == IF t.tp = 0 THEN TRUE ELSE t.tp * Denominator(u) >= u.tp * Denominator(t)

RecallAtLeast(t, u) ==
    IF Denominator(t) = 0 THEN TRUE
    ELSE IF Denominator(u) = 0 THEN t.tp >= Denominator(t)
    ELSE t.tp * Denominator(u) >= u.tp * Denominator(t)

\* At most 20% more false alarms on the same clean examples.
FalseAlarmsWithin(t, u) == 5 * t.falseOnClean <= 6 * u.falseOnClean

GatePassed(tuned, groq) == RecallAtLeast(tuned, groq) /\ FalseAlarmsWithin(tuned, groq)

\* The output of a sample from the hub is no JSON: loading it ends the script.
\* A dry run, with made-up answers, writes the same report to the same place.
\* Bound: one evaluation, since nothing that is modelled depends on a report.
Evaluate ==
    LET S == evalSet.records
    IN  /\ evalSet.exists /\ S \cap Hub = {}
        /\ ~report.exists
        /\ \E dryRun \in BOOLEAN :
           \E tuned \in {TallyOf(S, a) : a \in IF live.exists \/ dryRun THEN Answers(S) ELSE {{}}},
              groq \in {TallyOf(S, a) : a \in Answers(S)} :
                  report' = [exists |-> TRUE, passed |-> GatePassed(tuned, groq),
                             tuned |-> tuned, groq |-> groq]
        /\ UNCHANGED <<stored, dataset, manifest, evalSet, adapter, quantized, live,
                       export, train, runs, exports, stops, interrupted, exported, whole>>

-----------------------------------------------------------------------------

Init ==
    /\ stored = [i \in Own |-> "none"]
    /\ dataset = NoFile /\ manifest = NoFile
    /\ evalSet = [exists |-> FALSE, records |-> {}, run |-> 0]
    /\ adapter = NoModel /\ quantized = NoModel /\ live = NoModel
    /\ export = IdleExport /\ train = IdleTraining
    /\ report = [exists |-> FALSE, passed |-> FALSE, tuned |-> NoTally, groq |-> NoTally]
    /\ runs = 0 /\ exports = 0 /\ stops = 0
    /\ interrupted = FALSE /\ whole = FALSE /\ exported = {}

Next ==
    \/ \E i \in Own, context \in Contexts : StoreFinding(i, context)
    \/ \E dbUp, hubUp, forced \in BOOLEAN : StartExport(dbUp, hubUp, forced)
    \/ OpenDataset \/ WriteLines \/ WriteDataset \/ WriteManifest \/ CrashExport
    \/ StartTraining \/ SplitData \/ StopTraining
    \/ SaveAdapter \/ SimulateTraining
    \/ QuantizeModel \/ SimulateQuantize
    \/ ServeModel
    \/ Evaluate

Spec == Init /\ [][Next]_vars

-----------------------------------------------------------------------------
(* Properties *)

Models == {adapter, quantized, live}

\* The data set whose hash MLflow has for a model is the one that it was
\* trained on, unless an export was writing when the hash was read, or wrote
\* between the reading of the hash and that of the data, or the last one had
\* stopped between opening the data and writing the manifest.
LoggedVersionTrained == \A m \in Models : m.sha # m.data => m.crossed

\* The evaluation set is that of the model's own run or of a later one; in the
\* former case the model has seen no record of it, and no input of it other
\* than those that are generated alike for several findings.
HeldOutUnseen ==
    \A m \in Models : m.exists /\ ~m.stub =>
        /\ evalSet.run >= m.run
        /\ evalSet.run = m.run =>
              /\ evalSet.records \cap Trained(m.data) = {}
              /\ Inputs(evalSet.records) \cap Inputs(Trained(m.data)) \subseteq
                     {<<"context", t>> : t \in Templates}

\* A model that passes the gate, and reports nothing twice, caught at least as
\* many of the labelled findings as the baseline; in any case it caught some
\* if the baseline did, and raised no false alarm if the baseline raised none.
PassMeansNoFewer ==
    report.passed =>
        /\ report.tuned.tp = report.tuned.caught => report.tuned.caught >= report.groq.caught
        /\ report.groq.caught > 0 => report.tuned.caught > 0
        /\ report.groq.falseOnClean = 0 => report.tuned.falseOnClean = 0

\* Where the last export to touch the data set was not forced and wrote all of
\* it, every finding that any data set before it held is there, whatever was
\* forced or stopped in between, and although an export goes on without the
\* database when it cannot be read.  One that is writing, or that has stopped
\* before its last line, has lost findings.
UnforcedExportKeepsOwn == whole => exported \subseteq dataset.records
=============================================================================
