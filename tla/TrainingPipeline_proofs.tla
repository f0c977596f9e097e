---------------------- MODULE TrainingPipeline_proofs ----------------------
(***************************************************************************)
(* Theorems about TrainingPipeline, for any number of findings, samples,   *)
(* runs, exports and stops: what MLflow's hash says, what a model has not  *)
(* seen, what an export keeps and what passing the gate means.             *)
(***************************************************************************)
EXTENDS TrainingPipeline, FiniteSetTheorems, TLAPS

-----------------------------------------------------------------------------
(* The inductive invariant *)

\* The manifest is that of the data, but during and after a broken export.
FileInv ==
    manifest.records # dataset.records =>
        interrupted \/ export.pc \in {"writing", "manifest"}

\* The hash goes with the data from the manifest to what is served.
HashInv ==
    /\ train.pc = "read" => (train.sha # dataset.records => train.crossed)
    /\ train.pc = "fit" => (train.sha # train.data => train.crossed)
    /\ LoggedVersionTrained

\* Models are no younger than the evaluation set, and older than a run that
\* is under way.
AgeInv ==
    /\ evalSet.run <= runs
    /\ \A m \in Models : m.run <= evalSet.run
    /\ train.pc # "idle" => \A m \in Models : m.run < runs

\* The set that a run has held out is still there when it saves its adapter.
HeldOutInv ==
    /\ train.pc = "fit" =>
          evalSet.run = runs /\ evalSet.records = HeldOut(train.data)
    /\ \A m \in Models : m.exists /\ ~m.stub /\ evalSet.run = m.run =>
          evalSet.records \cap Trained(m.data) = {}

\* What was ever exported is still in the database; an export that is not
\* forced has read it all.
OwnInv ==
    /\ exported \subseteq Learnable
    /\ export.records \cap Own \subseteq Learnable
    /\ export.pc \in {"write", "writing"} /\ ~export.forced =>
          exported \subseteq export.records
    /\ export.pc = "writing" => ~whole
    /\ UnforcedExportKeepsOwn

\* The tallies of a report are about the same examples.
Sound(t) ==
    /\ t \in Tally
    /\ t.caught <= t.tp /\ t.caught <= t.labelled
    /\ t.tp > 0 => t.caught > 0
ReportInv ==
    report.passed =>
        /\ Sound(report.tuned) /\ Sound(report.groq)
        /\ report.tuned.labelled = report.groq.labelled
        /\ GatePassed(report.tuned, report.groq)

IInv ==
    /\ TypeOK /\ FileInv /\ HashInv /\ AgeInv /\ HeldOutInv /\ OwnInv /\ ReportInv

-----------------------------------------------------------------------------
(* The split and the tallies *)

LEMMA RecordsFinite == IsFiniteSet(Records)
<1>1. IsFiniteSet(Own) /\ IsFiniteSet(Local) /\ IsFiniteSet(Hub)
  BY BoundsAssumption, FS_Interval DEF Own, Local, Hub
<1> QED
  BY <1>1, FS_Union DEF Records

\* Findings and public samples have different numbers.
LEMMA PublicIsNotOwn == (Local \cup Hub) \cap Own = {}
BY BoundsAssumption DEF Own, Local, Hub

\* Of what a file was to hold, its beginning is a part.
LEMMA BeginningsAreParts ==
  ASSUME NEW S \in SUBSET Records
  PROVE  \A written \in Beginnings(S) : written \in SUBSET S
BY DEF Beginnings

LEMMA SplitIsDisjoint == \A data : HeldOut(data) \cap Trained(data) = {}
BY DEF HeldOut

\* compute_metrics: a caught label has a true positive, and the other way round.
LEMMA TallySound ==
  ASSUME NEW S \in SUBSET Records, NEW answers \in Answers(S)
  PROVE  Sound(TallyOf(S, answers)) /\ TallyOf(S, answers).labelled = Cardinality(Labelled(S))
<1> DEFINE hits == {p \in answers : p[1] \in Labelled(S)}
           caught == {p[1] : p \in hits}
           t == TallyOf(S, answers)
<1>1. IsFiniteSet(S) /\ IsFiniteSet(answers)
  <2>1. IsFiniteSet(S)
    BY RecordsFinite, FS_Subset
  <2>2. IsFiniteSet(1..MaxHits)
    BY BoundsAssumption, FS_Interval
  <2>3. IsFiniteSet(S \X (1..MaxHits))
    BY <2>1, <2>2, FS_Product
  <2> QED
    BY <2>1, <2>3, FS_Subset DEF Answers
<1>2. /\ IsFiniteSet(hits) /\ IsFiniteSet(answers \ hits)
      /\ IsFiniteSet(Labelled(S))
  <2>1. hits \in SUBSET answers /\ answers \ hits \in SUBSET answers /\ Labelled(S) \in SUBSET S
    BY DEF Labelled
  <2> QED
    BY <1>1, <2>1, FS_Subset
<1>3. IsFiniteSet(caught) /\ Cardinality(caught) <= Cardinality(hits)
  <2> DEFINE first == [p \in hits |-> p[1]]
  <2>1. first \in Surjection(hits, caught)
    BY DEF Surjection
  <2> HIDE DEF first, hits, caught
  <2> QED
    BY <1>2, <2>1, FS_Surjection
<1>4. Cardinality(caught) <= Cardinality(Labelled(S))
  <2>1. caught \in SUBSET Labelled(S)
    OBVIOUS
  <2> QED
    BY <1>2, <2>1, FS_Subset
<1>5. Cardinality(hits) > 0 => Cardinality(caught) > 0
  <2>1. hits # {} => caught # {}
    OBVIOUS
  <2> HIDE DEF hits, caught
  <2> QED
    BY <1>2, <1>3, <2>1, FS_EmptySet, FS_CardinalityType
<1>6. /\ Cardinality(hits) \in Nat /\ Cardinality(caught) \in Nat
      /\ Cardinality(Labelled(S)) \in Nat /\ Cardinality(answers \ hits) \in Nat
  <2> HIDE DEF hits, caught
  <2> QED
    BY <1>2, <1>3, FS_CardinalityType
<1>7. t = [tp |-> Cardinality(hits), caught |-> Cardinality(caught),
           labelled |-> Cardinality(Labelled(S)), falseOnClean |-> Cardinality(answers \ hits)]
  BY DEF TallyOf
<1> HIDE DEF hits, caught, t
<1>8. Sound(t) /\ t.labelled = Cardinality(Labelled(S))
  BY <1>3, <1>4, <1>5, <1>6, <1>7 DEF Sound, Tally
<1> QED
  BY <1>8 DEF t

\* a of n labels with p true positives against b of n: the recall of p is not
\* reached by a single positive per label.
LEMMA FewerCaughtIsLess ==
  ASSUME NEW a \in Nat, NEW b \in Nat, NEW n \in Nat, NEW p \in Nat,
         a < b, b <= n, b <= p
  PROVE  a * (p + (n - b)) < p * n
<1>1. a * (p + (n - b)) <= (b - 1) * (p + (n - b))
  <2>1. \A x, y, z \in Nat : x <= y => x * z <= y * z
    OBVIOUS
  <2>2. b - 1 \in Nat /\ p + (n - b) \in Nat /\ a <= b - 1
    OBVIOUS
  <2> HIDE <2>2
  <2> QED
    BY <2>1, <2>2
<1>2. PICK d \in Nat, e \in Nat : n = b + d /\ p = b + e
  <2>1. n - b \in Nat /\ n = b + (n - b) /\ p - b \in Nat /\ p = b + (p - b)
    OBVIOUS
  <2> QED
    BY <2>1
<1>3. p * n - b * (p + (n - b)) = d * e
  BY <1>2
<1>4. (b - 1) * (p + (n - b)) = b * (p + (n - b)) - (p + (n - b))
  OBVIOUS
<1>5. d * e >= 0 /\ p + (n - b) > 0
  BY <1>2
<1> QED
  BY <1>1, <1>3, <1>4, <1>5

\* What the gate's two conditions say of sound tallies over the same labels.
LEMMA GateMeans ==
  ASSUME NEW t, NEW u, Sound(t), Sound(u), t.labelled = u.labelled, GatePassed(t, u)
  PROVE  /\ t.tp = t.caught => t.caught >= u.caught
         /\ u.caught > 0 => t.caught > 0
         /\ u.falseOnClean = 0 => t.falseOnClean = 0
<1> DEFINE n == t.labelled
<1>1. /\ t.tp \in Nat /\ t.caught \in Nat /\ n \in Nat /\ t.falseOnClean \in Nat
      /\ u.tp \in Nat /\ u.caught \in Nat /\ u.falseOnClean \in Nat
      /\ t.caught <= t.tp /\ t.caught <= n /\ u.caught <= u.tp /\ u.caught <= n
      /\ t.tp > 0 => t.caught > 0
      /\ Denominator(t) = t.tp + (n - t.caught)
      /\ Denominator(u) = u.tp + (n - u.caught)
  BY DEF Sound, Tally, Denominator
<1>2. CASE Denominator(t) = 0
  <2>1. n = 0
    BY <1>1, <1>2
  <2> QED
    BY <1>1, <2>1 DEF GatePassed, FalseAlarmsWithin
<1>3. CASE Denominator(u) = 0
  <2>1. u.caught = 0
    BY <1>1, <1>3
  <2> QED
    BY <1>1, <2>1 DEF GatePassed, FalseAlarmsWithin
<1>4. CASE Denominator(t) # 0 /\ Denominator(u) # 0
  <2>1. t.tp * Denominator(u) >= u.tp * Denominator(t)
    BY <1>4 DEF GatePassed, RecallAtLeast
  <2>2. t.tp = t.caught => t.caught >= u.caught
    <3> SUFFICES ASSUME t.tp = t.caught, t.caught < u.caught PROVE FALSE
      BY <1>1
    <3>1. t.caught * (u.tp + (n - u.caught)) < u.tp * n
      BY <1>1, FewerCaughtIsLess
    <3>2. Denominator(t) = n
      BY <1>1
    <3> QED
      BY <1>1, <2>1, <3>1, <3>2
  <2>3. u.caught > 0 => t.caught > 0
    <3> SUFFICES ASSUME u.caught > 0, t.caught = 0 PROVE FALSE
      BY <1>1
    <3>1. t.tp = 0 /\ Denominator(t) = n /\ n > 0 /\ u.tp > 0
      BY <1>1
    <3>2. u.tp * n > 0
      BY <1>1, <3>1
    <3>3. 0 * Denominator(u) = 0
      BY <1>1
    <3>4. t.tp * Denominator(u) = 0 /\ u.tp * Denominator(t) > 0
      BY <3>1, <3>2, <3>3
    <3> QED
      BY <1>1, <2>1, <3>4
  <2>4. u.falseOnClean = 0 => t.falseOnClean = 0
    BY <1>1 DEF GatePassed, FalseAlarmsWithin
  <2> QED
    BY <2>2, <2>3, <2>4
<1> QED
  BY <1>2, <1>3, <1>4

-----------------------------------------------------------------------------
(* Types *)

LEMMA InitTypeOK == Init => TypeOK
<1> SUFFICES ASSUME Init PROVE TypeOK
  OBVIOUS
<1>1. 0 \in Run /\ 0 \in 0..MaxExports /\ 0 \in 0..MaxStops
  BY BoundsAssumption DEF Run
<1>2. NoFile \in File /\ NoModel \in Model /\ NoTally \in Tally
  BY <1>1 DEF NoFile, File, NoModel, Model, NoTally, Tally
<1>3. /\ export \in [pc : {"idle", "write", "writing", "manifest"}, forced : BOOLEAN,
                     records : SUBSET Records]
      /\ train \in [pc : {"idle", "read", "fit"}, crossed : BOOLEAN,
                    data : SUBSET Records, sha : SUBSET Records]
  BY DEF Init, IdleExport, IdleTraining
<1>4. evalSet \in [exists : BOOLEAN, records : SUBSET Records, run : Run]
  BY <1>1 DEF Init
<1>5. report \in [exists : BOOLEAN, passed : BOOLEAN, tuned : Tally, groq : Tally]
  BY <1>2 DEF Init
<1>6. stored \in [Own -> {"none"} \cup Contexts] /\ interrupted \in BOOLEAN
      /\ whole \in BOOLEAN /\ exported \in SUBSET Own
  BY DEF Init
<1> QED
  BY <1>1, <1>2, <1>3, <1>4, <1>5, <1>6 DEF Init, TypeOK

\* The findings, the export, the manifest.
LEMMA ExportTypeOK ==
  ASSUME TypeOK,
         \/ \E i \in Own, context \in Contexts : StoreFinding(i, context)
         \/ \E dbUp, hubUp, forced \in BOOLEAN : StartExport(dbUp, hubUp, forced)
         \/ OpenDataset \/ WriteLines \/ WriteDataset \/ WriteManifest \/ CrashExport
  PROVE  TypeOK'
<1> USE BoundsAssumption DEF TypeOK
<1>1. ASSUME NEW i \in Own, NEW context \in Contexts, StoreFinding(i, context)
      PROVE  TypeOK'
  BY <1>1 DEF StoreFinding
<1>2. ASSUME NEW dbUp \in BOOLEAN, NEW hubUp \in BOOLEAN, NEW forced \in BOOLEAN,
             StartExport(dbUp, hubUp, forced)
      PROVE  TypeOK'
  <2>1. (IF dbUp THEN Learnable ELSE {}) \cup (IF hubUp THEN Hub ELSE Local) \in SUBSET Records
    BY DEF Learnable, Records
  <2>2. exports' \in 0..MaxExports
    BY <1>2 DEF StartExport
  <2>3. export' = [pc |-> "write", forced |-> forced,
                   records |-> (IF dbUp THEN Learnable ELSE {}) \cup (IF hubUp THEN Hub ELSE Local)]
    BY <1>2 DEF StartExport
  <2> QED
    BY <1>2, <2>1, <2>2, <2>3 DEF StartExport
<1>3. CrossedTraining \in [pc : {"idle", "read", "fit"}, crossed : BOOLEAN,
                            data : SUBSET Records, sha : SUBSET Records]
  BY DEF CrossedTraining
<1>4. CASE OpenDataset
  <2>1. dataset' \in File
    BY <1>4 DEF OpenDataset, File
  <2> QED
    BY <1>3, <1>4, <2>1 DEF OpenDataset
<1>5. CASE WriteLines
  <2>1. PICK written \in Beginnings(export.records) :
          /\ dataset' = [dataset EXCEPT !.records = written]
          /\ exported' = exported \cup (written \cap Own)
    BY <1>5 DEF WriteLines
  <2>2. written \in SUBSET Records
    BY BeginningsAreParts
  <2>3. dataset' \in File /\ exported' \in SUBSET Own
    BY <2>1, <2>2 DEF File
  <2> QED
    BY <1>3, <1>5, <2>3 DEF WriteLines
<1>6. CASE WriteDataset
  <2>1. dataset' \in File /\ exported' \in SUBSET Own
    BY <1>6 DEF WriteDataset, File
  <2> QED
    BY <1>3, <1>6, <2>1 DEF WriteDataset
<1>7. CASE WriteManifest
  BY <1>7 DEF WriteManifest, IdleExport
<1>8. CASE CrashExport
  BY <1>8 DEF CrashExport, IdleExport
<1> QED
  BY <1>1, <1>2, <1>4, <1>5, <1>6, <1>7, <1>8

LEMMA TrainTypeOK ==
  ASSUME TypeOK, StartTraining \/ SplitData \/ SaveAdapter \/ SimulateTraining \/ StopTraining
  PROVE  TypeOK'
<1> USE BoundsAssumption DEF TypeOK
<1>1. CASE StartTraining
  <2>1. runs' \in Run
    BY <1>1 DEF StartTraining, Run
  <2> QED
    BY <1>1, <2>1 DEF StartTraining, File
<1>2. CASE SplitData
  <2>1. HeldOut(dataset.records) \in SUBSET Records
    BY DEF HeldOut, File
  <2>2. train' \in [pc : {"idle", "read", "fit"}, crossed : BOOLEAN,
                    data : SUBSET Records, sha : SUBSET Records]
    BY <1>2 DEF SplitData, File
  <2> QED
    BY <1>2, <2>1, <2>2 DEF SplitData
<1>3. ASSUME NEW stub \in BOOLEAN PROVE AdapterOf(stub) \in Model
  BY DEF AdapterOf, Model
<1>4. CASE SaveAdapter
  BY <1>3, <1>4 DEF SaveAdapter, IdleTraining
<1>5. CASE SimulateTraining
  BY <1>3, <1>5 DEF SimulateTraining, IdleTraining
<1>6. CASE StopTraining
  <2>1. HeldOut(dataset.records) \in SUBSET Records
    BY DEF HeldOut, File
  <2>2. \A written \in Beginnings(HeldOut(dataset.records)) : written \in SUBSET Records
    <3>1. \A written \in Beginnings(HeldOut(dataset.records)) :
             written \in SUBSET HeldOut(dataset.records)
      BY <2>1, BeginningsAreParts
    <3> QED
      BY <2>1, <3>1
  <2>3. evalSet' \in [exists : BOOLEAN, records : SUBSET Records, run : Run]
    <3>1. CASE UNCHANGED evalSet
      BY <3>1
    <3>2. ASSUME NEW written \in Beginnings(HeldOut(dataset.records)),
                 evalSet' = [exists |-> TRUE, records |-> written, run |-> runs]
          PROVE  evalSet' \in [exists : BOOLEAN, records : SUBSET Records, run : Run]
      <4>1. written \in SUBSET Records
        BY <2>2
      <4> QED
        BY <3>2, <4>1
    <3> QED
      BY <1>6, <3>1, <3>2 DEF StopTraining
  <2> QED
    BY <1>6, <2>3 DEF StopTraining, IdleTraining
<1> QED
  BY <1>1, <1>2, <1>4, <1>5, <1>6

LEMMA ServeTypeOK ==
  ASSUME TypeOK, QuantizeModel \/ SimulateQuantize \/ ServeModel
  PROVE  TypeOK'
<1> USE BoundsAssumption DEF TypeOK
<1>1. NoModel \in Model /\ [NoModel EXCEPT !.exists = TRUE, !.stub = TRUE] \in Model
  <2>1. 0 \in Run
    BY DEF Run
  <2>2. NoModel \in Model
    BY <2>1 DEF NoModel, Model
  <2>3. \A m \in Model : [m EXCEPT !.exists = TRUE, !.stub = TRUE] \in Model
    BY DEF Model
  <2> QED
    BY <2>2, <2>3
<1>2. CASE QuantizeModel
  BY <1>2 DEF QuantizeModel
<1>3. CASE SimulateQuantize
  BY <1>1, <1>3 DEF SimulateQuantize
<1>4. CASE ServeModel
  BY <1>1, <1>4 DEF ServeModel
<1> QED
  BY <1>2, <1>3, <1>4

\* An evaluation's tallies are those of answers to the evaluation set.
LEMMA EvaluateReport ==
  ASSUME TypeOK, Evaluate
  PROVE  \E tuned, groq :
            /\ report' = [exists |-> TRUE, passed |-> GatePassed(tuned, groq),
                          tuned |-> tuned, groq |-> groq]
            /\ Sound(tuned) /\ Sound(groq) /\ tuned.labelled = groq.labelled
<1> DEFINE S == evalSet.records
<1>1. S \in SUBSET Records
  BY DEF TypeOK
<1>2. {} \in Answers(S)
  BY DEF Answers
<1>3. PICK a \in Answers(S), b \in Answers(S) :
        report' = [exists |-> TRUE, passed |-> GatePassed(TallyOf(S, a), TallyOf(S, b)),
                   tuned |-> TallyOf(S, a), groq |-> TallyOf(S, b)]
  BY <1>2 DEF Evaluate
<1>4. /\ Sound(TallyOf(S, a)) /\ TallyOf(S, a).labelled = Cardinality(Labelled(S))
      /\ Sound(TallyOf(S, b)) /\ TallyOf(S, b).labelled = Cardinality(Labelled(S))
  BY <1>1, TallySound
<1> QED
  BY <1>3, <1>4

LEMMA EvaluateTypeOK ==
  ASSUME TypeOK, Evaluate
  PROVE  TypeOK'
<1>1. PICK tuned, groq :
        /\ report' = [exists |-> TRUE, passed |-> GatePassed(tuned, groq),
                      tuned |-> tuned, groq |-> groq]
        /\ Sound(tuned) /\ Sound(groq)
  BY EvaluateReport
<1>2. GatePassed(tuned, groq) \in BOOLEAN
  BY DEF GatePassed, RecallAtLeast, FalseAlarmsWithin
<1>3. report' \in [exists : BOOLEAN, passed : BOOLEAN, tuned : Tally, groq : Tally]
  BY <1>1, <1>2 DEF Sound
<1> QED
  BY <1>3 DEF TypeOK, Evaluate

LEMMA NextTypeOK == TypeOK /\ [Next]_vars => TypeOK'
<1>1. TypeOK /\ UNCHANGED vars => TypeOK'
  BY DEF TypeOK, vars
<1> QED
  BY <1>1, ExportTypeOK, TrainTypeOK, ServeTypeOK, EvaluateTypeOK DEF Next

-----------------------------------------------------------------------------
(* Hashes *)

LEMMA NextFileInv == TypeOK /\ FileInv /\ [Next]_vars => FileInv'
<1> SUFFICES ASSUME TypeOK, FileInv, [Next]_vars PROVE FileInv'
  OBVIOUS
<1> USE DEF FileInv
<1>1. ASSUME NEW dbUp, NEW hubUp, NEW forced, StartExport(dbUp, hubUp, forced)
      PROVE  FileInv'
  BY <1>1 DEF StartExport
<1>2. CASE OpenDataset \/ WriteLines \/ WriteDataset
  BY <1>2 DEF OpenDataset, WriteLines, WriteDataset, TypeOK
<1>3. CASE WriteManifest
  BY <1>3 DEF WriteManifest
<1>4. CASE CrashExport
  BY <1>4 DEF CrashExport, TypeOK
<1>5. CASE UNCHANGED <<dataset, manifest, interrupted, export>>
  BY <1>5
<1> QED
  BY <1>1, <1>2, <1>3, <1>4, <1>5
  DEF Next, StoreFinding, StartTraining, SplitData, SaveAdapter, SimulateTraining, StopTraining,
      QuantizeModel, SimulateQuantize, ServeModel, Evaluate, vars

LEMMA NextHashInv == TypeOK /\ FileInv /\ HashInv /\ [Next]_vars => HashInv'
<1> SUFFICES ASSUME TypeOK, FileInv, HashInv, [Next]_vars PROVE HashInv'
  OBVIOUS
<1> USE DEF HashInv, LoggedVersionTrained, Models
<1>1. CASE OpenDataset \/ WriteLines
  BY <1>1 DEF OpenDataset, WriteLines, CrossedTraining, TypeOK
<1>2. CASE WriteDataset
  BY <1>2 DEF WriteDataset, CrossedTraining, TypeOK
<1>3. CASE StartTraining
  BY <1>3 DEF StartTraining, FileInv
<1>4. CASE SplitData
  BY <1>4 DEF SplitData, TypeOK
<1>5. CASE SaveAdapter
  BY <1>5 DEF SaveAdapter, AdapterOf, IdleTraining
<1>6. CASE SimulateTraining
  BY <1>6 DEF SimulateTraining, AdapterOf, IdleTraining
<1>7. CASE StopTraining
  BY <1>7 DEF StopTraining, IdleTraining
<1>8. CASE QuantizeModel
  BY <1>8 DEF QuantizeModel
<1>9. CASE SimulateQuantize
  BY <1>9 DEF SimulateQuantize, NoModel
<1>10. CASE ServeModel
  BY <1>10 DEF ServeModel, NoModel
<1>11. CASE UNCHANGED <<dataset, train, adapter, quantized, live>>
  BY <1>11
<1> QED
  BY <1>1, <1>2, <1>3, <1>4, <1>5, <1>6, <1>7, <1>8, <1>9, <1>10, <1>11
  DEF Next, StoreFinding, StartExport, WriteManifest, CrashExport, Evaluate, vars

-----------------------------------------------------------------------------
(* Runs and what they have held out *)

LEMMA NextAgeInv == TypeOK /\ AgeInv /\ HeldOutInv /\ [Next]_vars => AgeInv'
<1> SUFFICES ASSUME TypeOK, AgeInv, HeldOutInv, [Next]_vars PROVE AgeInv'
  OBVIOUS
<1>1. /\ runs \in Nat /\ evalSet.run \in Nat
      /\ \A m \in Models : m.run \in Nat
  BY BoundsAssumption DEF TypeOK, Run, Models, Model
<1> USE <1>1 DEF AgeInv, Models
<1>2. CASE StartTraining
  BY <1>2 DEF StartTraining, TypeOK
<1>3. CASE SplitData
  BY <1>3 DEF SplitData, TypeOK
<1>4. CASE SaveAdapter
  BY <1>4 DEF SaveAdapter, AdapterOf, IdleTraining, HeldOutInv
<1>5. CASE SimulateTraining
  BY <1>5 DEF SimulateTraining, AdapterOf, IdleTraining, HeldOutInv
<1>6. CASE StopTraining
  BY <1>6 DEF StopTraining, IdleTraining
<1>7. CASE QuantizeModel
  BY <1>7 DEF QuantizeModel
<1>8. CASE SimulateQuantize
  BY <1>8 DEF SimulateQuantize, NoModel
<1>9. CASE ServeModel
  BY <1>9 DEF ServeModel, NoModel
<1>10. CASE UNCHANGED <<evalSet, runs, adapter, quantized, live>> /\ train'.pc = train.pc
  BY <1>10
<1> QED
  BY <1>2, <1>3, <1>4, <1>5, <1>6, <1>7, <1>8, <1>9, <1>10
  DEF Next, StoreFinding, StartExport, OpenDataset, WriteLines, WriteDataset, WriteManifest,
      CrashExport, CrossedTraining, Evaluate, vars, TypeOK

LEMMA NextHeldOutInv == TypeOK /\ AgeInv /\ HeldOutInv /\ [Next]_vars => HeldOutInv'
<1> SUFFICES ASSUME TypeOK, AgeInv, HeldOutInv, [Next]_vars PROVE HeldOutInv'
  OBVIOUS
<1>1. /\ runs \in Nat /\ evalSet.run \in Nat
      /\ \A m \in Models : m.run \in Nat
  BY BoundsAssumption DEF TypeOK, Run, Models, Model
<1> USE <1>1 DEF HeldOutInv, Models
<1>2. CASE StartTraining
  BY <1>2 DEF StartTraining
<1>3. CASE SplitData
  BY <1>3 DEF SplitData, TypeOK, AgeInv
<1>4. CASE SaveAdapter
  BY <1>4, SplitIsDisjoint DEF SaveAdapter, AdapterOf, IdleTraining
<1>5. CASE SimulateTraining
  BY <1>5 DEF SimulateTraining, AdapterOf, IdleTraining
<1>6. CASE StopTraining
  BY <1>6 DEF StopTraining, IdleTraining, AgeInv
<1>7. CASE QuantizeModel
  BY <1>7 DEF QuantizeModel
<1>8. CASE SimulateQuantize
  BY <1>8 DEF SimulateQuantize, NoModel
<1>9. CASE ServeModel
  BY <1>9 DEF ServeModel, NoModel
<1>10. CASE /\ UNCHANGED <<evalSet, runs, adapter, quantized, live>>
            /\ train'.pc = train.pc /\ train'.data = train.data
  BY <1>10
<1> QED
  BY <1>2, <1>3, <1>4, <1>5, <1>6, <1>7, <1>8, <1>9, <1>10
  DEF Next, StoreFinding, StartExport, OpenDataset, WriteLines, WriteDataset, WriteManifest,
      CrashExport, CrossedTraining, Evaluate, vars, TypeOK

\* Two different records have the same input only by a template.
LEMMA EqualInputsAreTemplates ==
  ASSUME NEW r, NEW q, r # q, InputOf(r) = InputOf(q)
  PROVE  InputOf(r) \in {<<"context", t>> : t \in Templates}
BY DEF InputOf

LEMMA HeldOutIsUnseen == AgeInv /\ HeldOutInv => HeldOutUnseen
<1> SUFFICES ASSUME AgeInv, HeldOutInv, NEW m \in Models, m.exists, ~m.stub
             PROVE  /\ evalSet.run >= m.run
                    /\ evalSet.run = m.run =>
                          /\ evalSet.records \cap Trained(m.data) = {}
                          /\ Inputs(evalSet.records) \cap Inputs(Trained(m.data)) \subseteq
                                 {<<"context", t>> : t \in Templates}
  BY DEF HeldOutUnseen
<1>1. evalSet.run >= m.run
  BY DEF AgeInv
<1>2. ASSUME evalSet.run = m.run
      PROVE  evalSet.records \cap Trained(m.data) = {}
  BY <1>2 DEF HeldOutInv
<1>3. ASSUME evalSet.run = m.run,
             NEW x \in Inputs(evalSet.records) \cap Inputs(Trained(m.data))
      PROVE  x \in {<<"context", t>> : t \in Templates}
  <2>1. PICK r \in evalSet.records, q \in Trained(m.data) : x = InputOf(r) /\ x = InputOf(q)
    BY <1>3 DEF Inputs
  <2>2. r # q
    BY <1>2, <1>3, <2>1
  <2> QED
    BY <2>1, <2>2, EqualInputsAreTemplates
<1> QED
  BY <1>1, <1>2, <1>3

-----------------------------------------------------------------------------
(* Findings *)

LEMMA NextOwnInv == TypeOK /\ OwnInv /\ [Next]_vars => OwnInv'
<1> SUFFICES ASSUME TypeOK, OwnInv, [Next]_vars PROVE OwnInv'
  OBVIOUS
<1> USE DEF UnforcedExportKeepsOwn
<1>1. ASSUME NEW i \in Own, NEW context \in Contexts, StoreFinding(i, context)
      PROVE  OwnInv'
  <2>1. Learnable \subseteq Learnable'
    BY <1>1 DEF StoreFinding, Learnable, TypeOK
  <2> QED
    BY <1>1, <2>1 DEF StoreFinding, OwnInv
<1>2. UNCHANGED stored => Learnable' = Learnable
  BY DEF Learnable
<1>3. ASSUME NEW dbUp \in BOOLEAN, NEW hubUp \in BOOLEAN, NEW forced \in BOOLEAN,
             StartExport(dbUp, hubUp, forced)
      PROVE  OwnInv'
  <2> DEFINE own == IF dbUp THEN Learnable ELSE {}
             public == IF hubUp THEN Hub ELSE Local
  <2>1. public \cap Own = {} /\ own \subseteq Learnable
    BY PublicIsNotOwn
  <2>2. /\ Cardinality(own) >= MinimumOwn \/ forced
        /\ export' = [pc |-> "write", forced |-> forced, records |-> own \cup public]
        /\ UNCHANGED <<stored, dataset, exported, whole>>
    BY <1>3 DEF StartExport
  <2>3. ~forced => own = Learnable
    <3>1. ~(0 >= MinimumOwn)
      BY GateAssumption
    <3> QED
      BY <2>2, <3>1, FS_EmptySet
  <2> HIDE DEF own, public
  <2> QED
    BY <1>2, <2>1, <2>2, <2>3 DEF OwnInv
<1>4. CASE OpenDataset
  BY <1>2, <1>4 DEF OpenDataset, OwnInv, TypeOK
<1>5. CASE WriteLines
  <2>1. PICK written \in Beginnings(export.records) : exported' = exported \cup (written \cap Own)
    BY <1>5 DEF WriteLines
  <2>2. written \subseteq export.records
    BY BeginningsAreParts DEF TypeOK
  <2> QED
    BY <1>2, <1>5, <2>1, <2>2 DEF WriteLines, OwnInv
<1>6. CASE WriteDataset
  <2>1. dataset'.records = export.records /\ exported' = exported \cup (export.records \cap Own)
    BY <1>6 DEF WriteDataset, TypeOK, File
  <2>2. export'.pc = "manifest" /\ export'.records = export.records
    BY <1>6 DEF WriteDataset, TypeOK
  <2> QED
    BY <1>2, <1>6, <2>1, <2>2 DEF WriteDataset, OwnInv
<1>7. CASE WriteManifest
  BY <1>2, <1>7 DEF WriteManifest, OwnInv, IdleExport
<1>8. CASE CrashExport
  BY <1>2, <1>8 DEF CrashExport, OwnInv, IdleExport
<1>9. CASE UNCHANGED <<stored, dataset, export, exported, whole>>
  BY <1>2, <1>9 DEF OwnInv
<1> QED
  BY <1>1, <1>3, <1>4, <1>5, <1>6, <1>7, <1>8, <1>9
  DEF Next, StartTraining, SplitData, SaveAdapter, SimulateTraining, StopTraining,
      QuantizeModel, SimulateQuantize, ServeModel, Evaluate, vars

-----------------------------------------------------------------------------
(* The gate *)

LEMMA NextReportInv == TypeOK /\ ReportInv /\ [Next]_vars => ReportInv'
<1>1. ASSUME TypeOK, Evaluate
      PROVE  ReportInv'
  <2>1. PICK tuned, groq :
          /\ report' = [exists |-> TRUE, passed |-> GatePassed(tuned, groq),
                        tuned |-> tuned, groq |-> groq]
          /\ Sound(tuned) /\ Sound(groq) /\ tuned.labelled = groq.labelled
    BY <1>1, EvaluateReport
  <2>2. /\ report'.tuned = tuned /\ report'.groq = groq
        /\ report'.passed = GatePassed(tuned, groq)
    BY <2>1
  <2> QED
    BY <2>1, <2>2 DEF ReportInv, Sound, GatePassed, RecallAtLeast, FalseAlarmsWithin, Denominator
<1>2. ReportInv /\ UNCHANGED report => ReportInv'
  BY DEF ReportInv, Sound, GatePassed, RecallAtLeast, FalseAlarmsWithin, Denominator
<1> QED
  BY <1>1, <1>2
  DEF Next, StoreFinding, StartExport, OpenDataset, WriteLines, WriteDataset, WriteManifest,
      CrashExport, StartTraining, SplitData, SaveAdapter, SimulateTraining, StopTraining,
      QuantizeModel, SimulateQuantize, ServeModel, vars

LEMMA PassedMeansNoFewer == ReportInv => PassMeansNoFewer
BY GateMeans DEF ReportInv, PassMeansNoFewer

-----------------------------------------------------------------------------
(* Theorems *)

LEMMA InitIInv == Init => IInv
<1> SUFFICES ASSUME Init PROVE IInv
  OBVIOUS
<1>1. FileInv /\ ReportInv
  BY DEF Init, FileInv, NoFile, ReportInv
<1>2. HashInv /\ AgeInv /\ HeldOutInv
  BY DEF Init, HashInv, LoggedVersionTrained, AgeInv, HeldOutInv, Models, NoModel, IdleTraining
<1>3. OwnInv
  BY DEF Init, OwnInv, UnforcedExportKeepsOwn, NoFile, IdleExport
<1> QED
  BY <1>1, <1>2, <1>3, InitTypeOK DEF IInv

\* The inductive invariant holds in every reachable state of the pipeline.
THEOREM TrainingInvariance == Spec => []IInv
<1>1. IInv /\ [Next]_vars => IInv'
  BY NextTypeOK, NextFileInv, NextHashInv, NextAgeInv, NextHeldOutInv, NextOwnInv, NextReportInv
  DEF IInv
<1> QED
  BY <1>1, InitIInv, PTL DEF Spec

\* The files, models and reports of the scripts have their types.
THEOREM TrainingTypeCorrect == Spec => []TypeOK
<1>1. IInv => TypeOK
  BY DEF IInv
<1> QED
  BY <1>1, TrainingInvariance, PTL

\* The hash that train_lora logs is that of the data it trains on, unless an
\* export came in between.
THEOREM LoggedHashIsTrained == Spec => []LoggedVersionTrained
<1>1. IInv => LoggedVersionTrained
  BY DEF IInv, HashInv
<1> QED
  BY <1>1, TrainingInvariance, PTL

\* What split_dataset holds out is not trained on, as long as the set is that
\* of the model's own run.
THEOREM HeldOutIsNeverTrained == Spec => []HeldOutUnseen
<1>1. IInv => HeldOutUnseen
  BY HeldOutIsUnseen DEF IInv
<1> QED
  BY <1>1, TrainingInvariance, PTL

\* A passed gate of evaluate.py is worth something for models that report
\* nothing twice.
THEOREM GateIsSound == Spec => []PassMeansNoFewer
<1>1. IInv => PassMeansNoFewer
  BY PassedMeansNoFewer DEF IInv
<1> QED
  BY <1>1, TrainingInvariance, PTL

\* The volume gate of export_findings protects what was exported before, as far
\* as an export ends: a data set that an unforced export has written to the end
\* holds every finding of all data sets before it.
THEOREM VolumeGateKeepsOwn == Spec => []UnforcedExportKeepsOwn
<1>1. IInv => UnforcedExportKeepsOwn
  BY DEF IInv, OwnInv
<1> QED
  BY <1>1, TrainingInvariance, PTL
=============================================================================
