------------------------- MODULE DecisionProperties -------------------------
(***************************************************************************)
(* What the decisions promise, by definitions that are not those of the    *)
(* code.                                                                   *)
(***************************************************************************)
EXTENDS Decisions

Asked(topic) == question.topic = topic /\ answer # << >>

-----------------------------------------------------------------------------
(* Plans.                                                                  *)

DependsOn(plan, i, j) == plan[j].id \in ToSet(plan[i].deps)

Closed(plan, S) == \A i \in S : \A j \in DOMAIN plan : DependsOn(plan, i, j) => j \in S

(* The tasks i depends on by whatever chain: the least set that has those  *)
(* it names and is closed.                                                 *)
Prerequisites(plan, i) ==
  {j \in DOMAIN plan :
     \A S \in SUBSET DOMAIN plan :
       Closed(plan, S) /\ (\A k \in DOMAIN plan : DependsOn(plan, i, k) => k \in S) => j \in S}

(* What a plan must be, in words of relations.                             *)
Acceptable(plan) ==
  LET tasks == DOMAIN plan
  IN  /\ \A i, j \in tasks : i # j => plan[i].id # plan[j].id
      /\ \A i \in tasks :
           /\ plan[i].id # ""
           /\ plan[i].kind \in {"code", "test", "review", "docs", "deploy", "manual"}
           /\ plan[i].risk \in {"low", "medium", "high", "critical"}
           /\ \A id \in ToSet(plan[i].deps) : \E j \in tasks : plan[j].id = id
           /\ i \notin Prerequisites(plan, i)
           /\ plan[i].kind = "test" =>
                /\ ~plan[i].asks
                /\ (\E j \in tasks : plan[j].kind = "code") =>
                     \E j \in Prerequisites(plan, i) : plan[j].kind = "code"

Linearizes(order, plan) ==
  /\ Len(order) = Len(plan)
  /\ ToSet(order) = DOMAIN plan
  /\ \A k, l \in DOMAIN order : DependsOn(plan, order[l], order[k]) => k < l

Before(p, q) ==
  \E k \in DOMAIN p : p[k] < q[k] /\ \A j \in 1 .. k - 1 : p[j] = q[j]

(* What is to be said of the verdict on a plan.                            *)
DecidedWell(plan, verdict) ==
  /\ verdict.accepted <=> Acceptable(plan)
  /\ verdict.accepted =>
       /\ Linearizes(verdict.order, plan)
       /\ \A p \in [DOMAIN plan -> DOMAIN plan] :
            Linearizes(p, plan) => ~Before(p, verdict.order)

(* A plan is accepted exactly when its ids, kinds and risks are good, its  *)
(* dependencies known and without a cycle, and every test task comes, by   *)
(* whatever chain, after a code task; and its order is the first of all    *)
(* that respect the dependencies (validate_plan).                          *)
PlanDecided == Asked("plan") => DecidedWell(question.plan, answer[1])

-----------------------------------------------------------------------------
(* Test runs.                                                              *)

PytestCommands ==
  { <<"pytest">>, <<"python", "-m", "pytest">>, <<"uv", "run", "pytest", "-q">>,
    <<"uv", "run", "python", "-m", "pytest">> }

Reported(result) ==
  result.failures \cup {n \in {NoTests} : result.code = 5 /\ result.noTests}

(* A baseline that is accepted was taken of a clean repository that it has *)
(* left as it was; and a change goes through only if its tests pass, or if *)
(* pytest names what fails and the baseline had failed with all of it      *)
(* (establish_baseline, compare_verification).                             *)
NoNewFailurePasses ==
  Asked("triage") /\ answer[1].established =>
    /\ question.workspace.repository =>
         ~question.workspace.dirty /\ ~question.before.moved /\ ~question.before.changed
    /\ answer[1].allowed /\ question.after.code # 0 =>
         /\ question.command \in PytestCommands
         /\ question.before.result.code # 0
         /\ Reported(question.after) # {}
         /\ Reported(question.after) \subseteq Reported(question.before.result)

-----------------------------------------------------------------------------
(* Edits.                                                                  *)

(* Where old stands in text, and text with new in its place.               *)
Places(old, text) ==
  {k \in 1 .. Len(text) - Len(old) + 1 : SubSeq(text, k, k + Len(old) - 1) = old}

Only(places) == CHOOSE k \in places : TRUE

Replaced(text, k, old, new) ==
  SubSeq(text, 1, k - 1) \o new \o SubSeq(text, k + Len(old), Len(text))

(* One operation carried out on the tree as it is then, or <<>> when it    *)
(* cannot be.                                                              *)
Step(trees, op) ==
  LET t == trees[1]
      p == Resolve(op.path)
      places == Places(op.old, t[p])
  IN  CASE trees = << >> -> << >>
        [] trees # << >> /\ op.kind = "create_file" ->
             IF t[p] = <<Absent>> THEN <<[t EXCEPT ![p] = op.new]>> ELSE << >>
        [] trees # << >> /\ op.kind = "delete_file" ->
             IF IsText(t[p]) THEN <<[t EXCEPT ![p] = <<Absent>>]>> ELSE << >>
        [] trees # << >> /\ op.kind = "replace_exact" ->
             IF Cardinality(places) # 1 THEN << >>
             ELSE <<[t EXCEPT ![p] = Replaced(t[p], Only(places), op.old, op.new)]>>

OneByOne(tree, batch) ==
  LET done[k \in 0 .. Len(batch)] ==
        IF k = 0 THEN <<tree>> ELSE Step(done[k - 1], batch[k])
  IN  done[Len(batch)]

(* What is to be said of the tree after a batch.                           *)
AllOrNothing(tree, batch, forbidden, after) ==
  after # tree =>
    /\ OneByOne(tree, batch) = <<after>>
    /\ \A i \in DOMAIN batch :
         LET path == batch[i].path
         IN  /\ Resolve(path) # Secret
             /\ \A boundary \in forbidden : ~IsPrefix(boundary, path)

(* A batch of edits changes nothing, or has exactly the effect of its      *)
(* operations carried out one after another, each of them possible at its  *)
(* turn and none undone by a later one; and then no file changes that is   *)
(* sensitive by its name or that an operation names in a forbidden scope   *)
(* (apply_edit_operations).                                                *)
EditsAllOrNothing ==
  Asked("edit") =>
    AllOrNothing(question.tree, question.batch, question.forbidden, answer[1])
=============================================================================
