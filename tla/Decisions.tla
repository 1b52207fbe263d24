----------------------------- MODULE Decisions ------------------------------
(***************************************************************************)
(* The decisions that are functions of their inputs, each compared with a  *)
(* definition of its own over bounded inputs: the validation and order of  *)
(* a plan, the comparison of two test runs, the application of a batch of  *)
(* edits.  A behaviour takes one question and answers it; answer is empty  *)
(* until then.                                                             *)
(***************************************************************************)
EXTENDS PlanValidation, VerificationTriage, EditBatch

CONSTANT NTasks   \* the tasks of a plan whose every graph is tried, at most 4

ASSUME NTasksAssumption == NTasks \in 1 .. 4

VARIABLES question, answer

vars == <<question, answer>>

-----------------------------------------------------------------------------
(* Plans: every graph of dependencies over NTasks tasks of two kinds and   *)
(* over one task less of any kind, and small plans with everything that is *)
(* not allowed.                                                            *)

Name(i) == <<"t1", "t2", "t3", "t4">>[i]

LooplessGraphs(n) == {g \in [1 .. n -> SUBSET (1 .. n)] : \A i \in 1 .. n : i \notin g[i]}

GraphPlan(graph, kind) ==
  [i \in DOMAIN graph |->
     [id |-> Name(i), kind |-> kind[i], asks |-> FALSE, risk |-> "low",
      deps |-> SetToSeq({Name(j) : j \in graph[i]})]]

GraphPlans(n, kinds) ==
  {GraphPlan(graph, kind) : graph \in LooplessGraphs(n), kind \in [1 .. n -> kinds]}

OddTasks ==
  [id: {"t1", "t2", ""}, kind: {"code", "test", "other"}, asks: BOOLEAN,
   risk: {"low", "other"},
   deps: {<< >>, <<"t1">>, <<"t2">>, <<"t1", "t1">>, <<"t9">>, <<"t1", "t2">>}]

PlainTasks ==
  [id: {"t1", "t2"}, kind: {"code", "test", "docs"}, asks: {FALSE}, risk: {"high"},
   deps: {<< >>, <<"t1">>, <<"t1", "t1">>, <<"t9">>}]

OddPlans == {<<t, u>> : t \in OddTasks, u \in PlainTasks}

PlanQuestions(plans) == {[topic |-> "plan", plan |-> plan] : plan \in plans}

-----------------------------------------------------------------------------
(* A test run before a change and one after it.                            *)

Commands ==
  { << >>, <<"pytest">>, <<"python", "-m", "pytest">>, <<"python", "pytest">>,
    <<"uv", "run", "pytest", "-q">>, <<"uv", "run", "python", "-m", "pytest">>,
    <<"uv", "run">>, <<"uv", "pytest", "-q">>, <<"make", "test">> }

Results == [code: {0, 1, 5}, failures: SUBSET {"a.py::t", "b.py"}, noTests: BOOLEAN]

TriageQuestions ==
  [topic: {"triage"},
   workspace: [repository: BOOLEAN, dirty: BOOLEAN],
   command: Commands,
   before: [raised: BOOLEAN, moved: BOOLEAN, changed: BOOLEAN, result: Results],
   after: Results]

-----------------------------------------------------------------------------
(* Batches of edits, of two files at the paths a and d/b, one of which has *)
(* a second name, and of a file that is never to be touched.               *)

PathA == <<"a">>
PathB == <<"d", "b">>
AliasA == <<".", "a">>
AliasB == <<".", "d", "b">>
Secret == <<"d", ".env">>

Replacements ==
  [kind: {"replace_exact"}, path: {PathA, PathB, AliasA}, old: {<<"x">>, <<"x", Blank>>},
   new: {<<"x">>, <<"y">>, <<"y", Blank>>}]

Creations ==
  [kind: {"create_file"}, path: {PathA, AliasB, Secret}, old: {<< >>},
   new: {<<"y">>, <<"y", Blank>>}]

Deletions ==
  [kind: {"delete_file"}, path: {PathA, PathB, AliasA}, old: {<< >>}, new: {<< >>}]

Operations == Replacements \cup Creations \cup Deletions

Trees ==
  {t \in [{PathA, PathB, Secret} ->
            {<<Absent>>, <<Directory>>, <<"x">>, <<"x", "x">>, <<"y", "x", Blank>>}] :
     t[Secret] = <<Absent>>}

EditQuestions ==
  [topic: {"edit"},
   tree: Trees,
   batch: {<<o>> : o \in Operations} \cup {<<o, p>> : o, p \in Operations},
   grounded: {{PathA, PathB}, {PathA, AliasA}},
   forbidden: {{}, {<<"d">>}}]

-----------------------------------------------------------------------------

Answer(q) ==
  CASE q.topic = "plan" -> ValidatePlan(q.plan)
    [] q.topic = "triage" ->
         [established |-> Established(q.workspace, q.command, q.before),
          allowed |-> Allowed(Summarize(q.command, q.before.result),
                              Summarize(q.command, q.after))]
    [] q.topic = "edit" ->
         ApplyEditOperations(q.tree, q.batch, q.grounded, q.forbidden)

Init ==
  /\ \/ question \in PlanQuestions(GraphPlans(NTasks, {"code", "test"}))
     \/ question \in PlanQuestions(GraphPlans(NTasks - 1, SupportedKinds))
     \/ question \in PlanQuestions(OddPlans)
     \/ question \in TriageQuestions
     \/ question \in EditQuestions
  /\ answer = << >>

Next ==
  /\ answer = << >>
  /\ answer' = <<Answer(question)>>
  /\ UNCHANGED question

Spec == Init /\ [][Next]_vars
=============================================================================
