--------------------------- MODULE PlanValidation ---------------------------
(***************************************************************************)
(* validate_plan (services/plan_validation.py).                            *)
(*                                                                         *)
(* A plan is a sequence of tasks [id, kind, asks, risk, deps]: asks stands *)
(* for describes_test_creation of its description, deps is the list        *)
(* depends_on, which may name a task twice.  The outcome is an order of    *)
(* task indices, or a rejection.                                           *)
(*                                                                         *)
(* A definition named Seeded... is the one after it with a bug.            *)
(***************************************************************************)
EXTENDS Naturals, FiniteSetsExt, SequencesExt

SupportedKinds == {"code", "test", "review", "docs", "deploy", "manual"}
SupportedRisks == {"low", "medium", "high", "critical"}

Rejected == [accepted |-> FALSE, order |-> << >>]

Ids(plan) == {plan[i].id : i \in DOMAIN plan}
Code(plan) == {plan[i].id : i \in {j \in DOMAIN plan : plan[j].kind = "code"}}
TaskOf(plan, id) == CHOOSE i \in DOMAIN plan : plan[i].id = id

IdsDistinct(plan) ==
  /\ "" \notin Ids(plan)
  /\ Cardinality(Ids(plan)) = Len(plan)

TaskSupported(task) ==
  /\ task.kind \in SupportedKinds
  /\ ~(task.kind = "test" /\ task.asks)
  /\ task.risk \in SupportedRisks

DepsKnown(plan, task) == ToSet(task.deps) \subseteq Ids(plan) \ {task.id}

(* The depth first search of a test task for a code task it depends on,    *)
(* one id of the list pending at a time; an id that a task not yet         *)
(* examined invents ends it too, with a KeyError and not with a            *)
(* PlanValidationError.                                                    *)
Examine(plan, s) ==
  LET id == Last(s.pending)
      rest == Front(s.pending)
  IN  IF s.pending = << >> THEN s
      ELSE IF id \in s.seen THEN [s EXCEPT !.pending = rest]
      ELSE IF id \in Code(plan) THEN [s EXCEPT !.pending = << >>, !.found = TRUE]
      ELSE IF id \notin Ids(plan) THEN [s EXCEPT !.pending = << >>]
      ELSE [s EXCEPT !.pending = rest \o plan[TaskOf(plan, id)].deps,
                     !.seen = s.seen \cup {id}]

(* No id is examined twice, so that the list is empty after this many.     *)
Turns(plan) == (Len(plan) + 1) * Max({Len(plan[i].deps) : i \in DOMAIN plan})

Search(plan, task) ==
  LET search[k \in 0 .. Turns(plan)] ==
        IF k = 0 THEN [pending |-> task.deps, seen |-> {}, found |-> FALSE]
        ELSE Examine(plan, search[k - 1])
  IN  search

FindsCode(plan, task) == Search(plan, task)[Turns(plan)].found

SeededHasPrerequisite(plan, task) ==
  task.kind = "test" /\ Code(plan) # {} => task.deps # << >>

HasPrerequisite(plan, task) ==
  task.kind = "test" /\ Code(plan) # {} => FindsCode(plan, task)

WellFormed(plan) ==
  /\ IdsDistinct(plan)
  /\ \A i \in DOMAIN plan :
       /\ TaskSupported(plan[i])
       /\ DepsKnown(plan, plan[i])
       /\ HasPrerequisite(plan, plan[i])

(* indegree counts every entry of depends_on.                              *)
Indegree(plan) == [i \in DOMAIN plan |-> Len(plan[i].deps)]

Occurrences(id, deps) == Cardinality({k \in DOMAIN deps : deps[k] = id})

(* One turn of the loop: the first of the sorted ready list.               *)
Pop(plan, s) ==
  LET ready == {i \in DOMAIN plan : s.degree[i] = 0 /\ i \notin ToSet(s.order)}
      index == Min(ready)
  IN  IF ready = {} THEN s
      ELSE [order |-> Append(s.order, index),
            degree |-> [i \in DOMAIN plan |->
                          s.degree[i] - Occurrences(plan[index].id, plan[i].deps)]]

(* The loop, from what indegree is at first.                               *)
Sort(plan) ==
  LET sorted[k \in 0 .. Len(plan)] ==
        IF k = 0 THEN [order |-> << >>, degree |-> Indegree(plan)]
        ELSE Pop(plan, sorted[k - 1])
  IN  sorted

OrderOf(plan) == Sort(plan)[Len(plan)].order

ValidatePlan(plan) ==
  IF WellFormed(plan) /\ Len(OrderOf(plan)) = Len(plan)
    THEN [accepted |-> TRUE, order |-> OrderOf(plan)]
    ELSE Rejected
=============================================================================
