----------------------------- MODULE ReviewGraph -----------------------------
(***************************************************************************)
(* One invocation of the review graph (agents/orchestrator.py): ingestion, *)
(* the routed agents side by side, the merge of what they found, the       *)
(* aggregator and the summary.                                             *)
(*                                                                         *)
(* The security, architecture and test-coverage agents are the same        *)
(* program but for their category, their severities and their choice of    *)
(* files: a pool of PoolSize threads takes the hunks in order, asks the    *)
(* primary model about each, and asks Claude again about every finding     *)
(* that is not confident.  A call is one step here, with the retries, the  *)
(* throttle and the fallback that are inside it.                           *)
(***************************************************************************)
EXTENDS Findings, SequencesExt

CONSTANTS
  Reviewers,     \* the reviewing agents, in the order in which LangGraph merges them
  PullRequests,  \* lists of changed files
  Answer(_, _),  \* Answer(a, path): lists of findings the primary model may give
  Refined(_),    \* Refined(f): what Claude may make of the finding f
  Threshold,     \* confidence below which a finding is escalated, 0.7 in the code
  PoolSize       \* 3 in the code

Debt   == "debt"
Agents == ToSet(Reviewers)

Supported == {"python", "javascript", "typescript"}

\* Test files are no task of the test-coverage agent.
Reviews(a, file) == file.language \in Supported /\ ~(a = "test-coverage" /\ file.test)

ASSUME PoolAssumption == PoolSize \in Nat \ {0}

ASSUME ThresholdAssumption == Threshold \in Nat

\* The agents are nodes of their own, and none of them is the debt agent.
ASSUME ReviewersAssumption ==
  /\ Reviewers \in Seq(Agents)
  /\ \A i, j \in DOMAIN Reviewers : Reviewers[i] = Reviewers[j] => i = j
  /\ Debt \notin Agents

ASSUME PullRequestsAssumption ==
  \A files \in PullRequests :
    /\ files \in Seq(ToSet(files))
    /\ \A i \in DOMAIN files : files[i].hunks \in Nat

\* Every agent writes its own category into a finding, whatever the model answers.
ASSUME AnswerAssumption ==
  \A a \in Agents, files \in PullRequests : \A i \in DOMAIN files :
    Reviews(a, files[i]) =>
      \A answer \in Answer(a, files[i].path) :
        /\ answer \in Seq(Finding)
        /\ \A j \in DOMAIN answer : answer[j].category = a

ASSUME RefinedAssumption ==
  \A f \in Finding : \A g \in Refined(f) : g \in Finding /\ g.category = f.category

VARIABLES
  pr,        \* changed_files
  client,    \* whether there is a key for Claude
  phase,     \* the superstep the graph is in
  running,   \* nodes of the agents' superstep that have not returned
  hunk,      \* hunk[a][t]: what the thread of task t does
  raw,       \* raw[a][t]: the primary model's findings
  at,        \* at[a][t]: index of the one that is looked at
  got,       \* got[a][t]: hunk_findings
  output,    \* output[a]: the findings that node a returned
  findings,  \* state.findings
  counted,   \* findings the debt agent has counted
  escalated, \* history: what was kept of the findings that Claude was asked about
  aborted    \* history: tasks ended by an exception

taskVars == <<hunk, raw, at, got, escalated, aborted>>
reviewVars == <<pr, client, phase, running, taskVars, output, findings, counted>>

-----------------------------------------------------------------------------
(* The agents and their tasks                                              *)

\* One task per hunk, as the path of its file, in the order of the files.
Tasks(a) ==
  FoldLeft(LAMBDA ts, file : IF Reviews(a, file)
                             THEN ts \o [h \in 1 .. file.hunks |-> file.path] ELSE ts,
           <<>>, pr)

TaskIds(a) == DOMAIN Tasks(a)

\* route_agents
Routed ==
  {Debt} \cup (IF \E i \in DOMAIN pr : pr[i].language \in Supported THEN Agents ELSE {})

Idle   == [a \in Agents |-> <<>>]
Active == {"calling", "looking", "escalating"}

\* An escalation that kept a finding: of raw[agent][task][at], as the finding kept.
Escalation ==
  [agent : Agents, task : Nat, at : Nat, outcome : {"failed", "answered"}, kept : Finding]

ReviewTypeOK ==
  /\ pr \in PullRequests
  /\ client \in BOOLEAN
  /\ phase \in {"ingestion", "agents", "aggregator", "summary", "end"}
  /\ running \subseteq Agents \cup {Debt}
  /\ hunk \in [Agents -> Seq(Active \cup {"queued", "done"})]
  /\ raw \in [Agents -> Seq(Seq(Finding))]
  /\ at \in [Agents -> Seq(Nat \ {0})]
  /\ got \in [Agents -> Seq(Seq(Finding))]
  /\ \A a \in Agents :
       /\ DOMAIN raw[a] = DOMAIN hunk[a]
       /\ DOMAIN at[a] = DOMAIN hunk[a]
       /\ DOMAIN got[a] = DOMAIN hunk[a]
       /\ \A t \in DOMAIN hunk[a] : at[a][t] <= Len(raw[a][t]) + 1
  /\ output \in [Agents -> Seq(Finding)]
  /\ findings \in Seq(Finding)
  /\ counted \in Nat
  /\ escalated \subseteq Escalation
  /\ aborted \subseteq Agents \X Nat

ReviewInit ==
  /\ pr \in PullRequests
  /\ client \in BOOLEAN
  /\ phase = "ingestion"
  /\ running = {}
  /\ hunk = Idle
  /\ raw = Idle
  /\ at = Idle
  /\ got = Idle
  /\ output = Idle
  /\ findings = <<>>
  /\ counted = 0
  /\ escalated = {}
  /\ aborted = {}

-----------------------------------------------------------------------------
(* Ingestion                                                               *)

\* ingestion_node, whose own errors leave the conventions empty, and route_agents.
Ingest ==
  /\ phase = "ingestion"
  /\ phase' = "agents"
  /\ running' = Routed
  /\ hunk' = [a \in Agents |-> [t \in TaskIds(a) |-> "queued"]]
  /\ raw'  = [a \in Agents |-> [t \in TaskIds(a) |-> <<>>]]
  /\ at'   = [a \in Agents |-> [t \in TaskIds(a) |-> 1]]
  /\ got'  = [a \in Agents |-> [t \in TaskIds(a) |-> <<>>]]
  /\ UNCHANGED <<pr, client, output, findings, counted, escalated, aborted>>

-----------------------------------------------------------------------------
(* One task of a reviewing agent: process_single_hunk                      *)

InTask == UNCHANGED <<pr, client, phase, running, output, findings, counted>>

Thread(a, t, from, to) == hunk[a][t] = from /\ hunk' = [hunk EXCEPT ![a][t] = to]

Keep(a, t, f) == got' = [got EXCEPT ![a][t] = Append(@, f)]
Skip(a, t)    == at' = [at EXCEPT ![a][t] = @ + 1]
Looked(a, t)  == raw[a][t][at[a][t]]
HasMore(a, t) == at[a][t] <= Len(raw[a][t])

Asked(a, t, outcome, f) ==
  escalated' = escalated \cup
    {[agent |-> a, task |-> t, at |-> at[a][t], outcome |-> outcome, kept |-> f]}

Busy(a) == {t \in DOMAIN hunk[a] : hunk[a][t] \in Active}

\* Mutant of StartHunk: the pool's threads are not used again.
StartHunkOnce(a, t) ==
  /\ a \in running
  /\ Thread(a, t, "queued", "calling")
  /\ \A u \in 1 .. t - 1 : hunk[a][u] # "queued"
  /\ t <= PoolSize
  /\ UNCHANGED <<raw, at, got, escalated, aborted>>
  /\ InTask

\* A free thread of the pool takes the first task that waits.
StartHunk(a, t) ==
  /\ a \in running
  /\ Thread(a, t, "queued", "calling")
  /\ \A u \in 1 .. t - 1 : hunk[a][u] # "queued"
  /\ Cardinality(Busy(a)) < PoolSize
  /\ UNCHANGED <<raw, at, got, escalated, aborted>>
  /\ InTask

PrimaryAnswers(a, t) ==
  /\ Thread(a, t, "calling", "looking")
  /\ \E answer \in Answer(a, Tasks(a)[t]) : raw' = [raw EXCEPT ![a][t] = answer]
  /\ UNCHANGED <<at, got, escalated, aborted>>
  /\ InTask

\* Mutant of PrimaryFails: the failure is remembered.
PrimaryFailsLoudly(a, t) ==
  /\ Thread(a, t, "calling", "failed")
  /\ UNCHANGED <<raw, at, got, escalated, aborted>>
  /\ InTask

\* The call raises, or its answer is no JSON: the hunk has no findings.
PrimaryFails(a, t) ==
  /\ Thread(a, t, "calling", "done")
  /\ UNCHANGED <<raw, at, got, escalated, aborted>>
  /\ InTask

\* Mutant of Accept: doubts about what is no blocker are not escalated.
AcceptMinor(a, t) ==
  /\ Thread(a, t, "looking", "looking")
  /\ HasMore(a, t)
  /\ ~client \/ Looked(a, t).confidence >= Threshold \/ Looked(a, t).severity # "blocker"
  /\ Keep(a, t, Looked(a, t))
  /\ Skip(a, t)
  /\ UNCHANGED <<raw, escalated, aborted>>
  /\ InTask

\* A confident finding is kept, and so is any when Claude cannot be asked.
Accept(a, t) ==
  /\ Thread(a, t, "looking", "looking")
  /\ HasMore(a, t)
  /\ ~client \/ Looked(a, t).confidence >= Threshold
  /\ Keep(a, t, Looked(a, t))
  /\ Skip(a, t)
  /\ UNCHANGED <<raw, escalated, aborted>>
  /\ InTask

Escalate(a, t) ==
  /\ Thread(a, t, "looking", "escalating")
  /\ HasMore(a, t)
  /\ client /\ Looked(a, t).confidence < Threshold
  /\ UNCHANGED <<raw, at, got, escalated, aborted>>
  /\ InTask

Confirm(a, t) ==
  /\ Thread(a, t, "escalating", "looking")
  /\ \E f \in Refined(Looked(a, t)) : Keep(a, t, f) /\ Asked(a, t, "answered", f)
  /\ Skip(a, t)
  /\ UNCHANGED <<raw, aborted>>
  /\ InTask

\* Claude returns no finding.
Reject(a, t) ==
  /\ Thread(a, t, "escalating", "looking")
  /\ Skip(a, t)
  /\ UNCHANGED <<raw, got, escalated, aborted>>
  /\ InTask

\* The call raises, or its answer cannot be used: the finding stays as it was.
EscalationFails(a, t) ==
  /\ Thread(a, t, "escalating", "looking")
  /\ Keep(a, t, Looked(a, t))
  /\ Skip(a, t)
  /\ Asked(a, t, "failed", Looked(a, t))
  /\ UNCHANGED <<raw, aborted>>
  /\ InTask

\* A finding that is no valid Finding raises: the task ends with those before it.
Abort(a, t) ==
  /\ Thread(a, t, "looking", "done")
  /\ HasMore(a, t)
  /\ aborted' = aborted \cup {<<a, t>>}
  /\ UNCHANGED <<raw, at, got, escalated>>
  /\ InTask

EndHunk(a, t) ==
  /\ Thread(a, t, "looking", "done")
  /\ ~HasMore(a, t)
  /\ UNCHANGED <<raw, at, got, escalated, aborted>>
  /\ InTask

TaskStep(a, t) ==
  \/ StartHunk(a, t) \/ PrimaryAnswers(a, t) \/ PrimaryFails(a, t)
  \/ Accept(a, t) \/ Escalate(a, t)
  \/ Confirm(a, t) \/ Reject(a, t) \/ EscalationFails(a, t)
  \/ Abort(a, t) \/ EndHunk(a, t)

-----------------------------------------------------------------------------
(* The nodes                                                               *)

\* executor.map gives the results in the order of the tasks.
AgentReturns(a) ==
  /\ phase = "agents"
  /\ a \in running
  /\ \A t \in DOMAIN hunk[a] : hunk[a][t] = "done"
  /\ output' = [output EXCEPT ![a] = FlattenSeq(got[a])]
  /\ running' = running \ {a}
  /\ UNCHANGED <<pr, client, phase, taskVars, findings, counted>>

\* debt_scoring_agent_node counts the findings of the state it was started with.
DebtReturns ==
  /\ phase = "agents"
  /\ Debt \in running
  /\ counted' = Len(findings)
  /\ running' = running \ {Debt}
  /\ UNCHANGED <<pr, client, phase, taskVars, output, findings>>

\* Mutant of Merge: without the reducer, the last output replaces the others.
MergeLast ==
  /\ phase = "agents"
  /\ running = {}
  /\ findings' = output[Last(Reviewers)]
  /\ phase' = "aggregator"
  /\ UNCHANGED <<pr, client, running, taskVars, output, counted>>

\* The end of the superstep: merge_findings is applied node by node.
Merge ==
  /\ phase = "agents"
  /\ running = {}
  /\ findings' = FoldLeft(LAMBDA merged, a : merged \o output[a], findings, Reviewers)
  /\ phase' = "aggregator"
  /\ UNCHANGED <<pr, client, running, taskVars, output, counted>>

\* Mutant of Dedupe: the category is left out of the key.
DedupePlace(s) ==
  FoldLeft(LAMBDA kept, f : IF \E g \in ToSet(kept) : g.file = f.file /\ g.line = f.line
                            THEN kept ELSE Append(kept, f), <<>>, s)

Dedupe(s) == FoldLeft(Absorb, <<>>, s)

\* aggregator_node; ReplaceFindings makes the reducer overwrite the state.
Aggregate ==
  /\ phase = "aggregator"
  /\ \E kept \in {Dedupe(findings)} : findings' \in SortedBySeverity(kept)
  /\ phase' = "summary"
  /\ UNCHANGED <<pr, client, running, taskVars, output, counted>>

\* summary_agent_node; an error of it gives a fallback text.
Summarise ==
  /\ phase = "summary"
  /\ phase' = "end"
  /\ UNCHANGED <<pr, client, running, taskVars, output, findings, counted>>

AgentStep(a) == (\E t \in DOMAIN hunk[a] : TaskStep(a, t)) \/ AgentReturns(a)

ReviewNext ==
  \/ Ingest
  \/ \E a \in Agents : AgentStep(a)
  \/ DebtReturns \/ Merge \/ Aggregate \/ Summarise

\* Every thread goes on: the calls to the models return or time out.
Fairness ==
  /\ WF_reviewVars(Ingest \/ DebtReturns \/ Merge \/ Aggregate \/ Summarise)
  /\ \A a \in Agents : WF_reviewVars(AgentStep(a))

ReviewSpec == ReviewInit /\ [][ReviewNext]_reviewVars /\ Fairness

-----------------------------------------------------------------------------
(* Properties                                                              *)

Aggregated == phase \in {"summary", "end"}

OfAgent(a) == {f \in ToSet(findings) : f.category = a}

\* No agent silences another: what is reported of an agent is what its findings
\* alone would give, although all agents' findings are deduped together.
AgentsIndependent ==
  Aggregated => \A a \in Agents : OfAgent(a) = ToSet(Dedupe(output[a]))

\* Whatever fails elsewhere (other hunks, other agents, escalations), a confident
\* finding of the primary model is reported, or a key-mate at least as confident.
ConfidentFindingsSurvive ==
  Aggregated =>
    \A a \in Agents : \A t \in DOMAIN raw[a] :
      <<a, t>> \notin aborted =>
        Covers(ToSet(findings), {f \in ToSet(raw[a][t]) : f.confidence >= Threshold})

\* The tasks that have found f.
FoundIn(f) == {t \in DOMAIN got[f.category] : f \in ToSet(got[f.category][t])}

\* With a key for Claude, a doubtful finding is reported only if every task that found
\* it had asked Claude about a doubtful finding of its own: either that call failed and
\* this is the finding it was about, or Claude answered with this, still doubtful.
DoubtfulFindingsChecked ==
  Aggregated /\ client =>
    \A f \in ToSet(findings) :
      f.confidence < Threshold =>
        /\ FoundIn(f) # {}
        /\ \A t \in FoundIn(f) : \E e \in escalated :
             /\ e.agent = f.category /\ e.task = t /\ e.kept = f
             /\ LET given == raw[e.agent][t][e.at] IN
                  /\ given.confidence < Threshold
                  /\ IF e.outcome = "failed" THEN f = given ELSE f \in Refined(given)

\* The graph ends, whatever the models do.
GraphEnds == <>(phase = "end")

\* "Count of findings from other agents" (debt_scoring_agent_node).
DebtCountsFindings ==
  phase = "end" => counted = Len(FlattenSeq([i \in DOMAIN Reviewers |-> output[Reviewers[i]]]))
=============================================================================
