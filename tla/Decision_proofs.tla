-------------------------- MODULE Decision_proofs ---------------------------
(***************************************************************************)
(* Proofs that the decisions are what DecisionProperties says of them, for *)
(* every plan, every pair of test runs, and every tree and batch of edits; *)
(* what the runs check of the questions of Decisions follows.              *)
(***************************************************************************)
EXTENDS DecisionProperties, WellFoundedInduction, FiniteSetTheorems,
        SequenceTheorems, TLAPS

-----------------------------------------------------------------------------
(* Loops.                                                                  *)

(* Induction on the turns of a loop, with the set of the turns at which    *)
(* something holds.                                                        *)
LEMMA SetInduction ==
  ASSUME NEW S, 0 \in S, \A n \in Nat : n \in S => n + 1 \in S
  PROVE  Nat \subseteq S
<1> DEFINE T == Nat \ S
<1> SUFFICES ASSUME T # {} PROVE FALSE
  OBVIOUS
<1>1. PICK x \in T : \A y \in T : <<y, x>> \notin OpToRel(<, Nat)
  <2> HIDE DEF T
  <2>1. T \subseteq Nat
    BY DEF T
  <2> QED
    BY <2>1, WFMin, NatLessThanWellFounded
<1>2. x # 0 /\ x \in Nat
  OBVIOUS
<1>3. x - 1 \in Nat /\ x - 1 \notin T
  <2>1. x - 1 \in Nat /\ x - 1 < x
    BY <1>2
  <2> QED
    BY <1>1, <2>1, <1>2 DEF OpToRel
<1>4. x - 1 \in S
  BY <1>3
<1>5. (x - 1) + 1 = x
  BY <1>2
<1> QED
  BY <1>3, <1>4, <1>5

(* f has the states of a loop of n turns that begins in base, the k-th of  *)
(* which takes the state s to turn[k][s].                                  *)
Iterates(f, n, S, base, turn) ==
  /\ f \in [0 .. n -> S]
  /\ f[0] = base
  /\ \A k \in 1 .. n : f[k] = turn[k][f[k - 1]]

(* A loop that keeps to the set S has its states.                          *)
LEMMA LoopExists ==
  ASSUME NEW n \in Nat, NEW S, NEW base \in S, NEW turn \in [1 .. n -> [S -> S]]
  PROVE  \E f : Iterates(f, n, S, base, turn)
<1> DEFINE Runs(m, f) ==
             f \in [0 .. m -> S] /\ f[0] = base /\ \A k \in 1 .. m : f[k] = turn[k][f[k - 1]]
           Good == {m \in Nat : m <= n => \E f : Runs(m, f)}
<1>1. 0 \in Good
  <2>1. Runs(0, [k \in 0 .. 0 |-> base])
    OBVIOUS
  <2> HIDE DEF Runs
  <2> QED
    BY <2>1
<1>2. ASSUME NEW m \in Nat, m \in Good PROVE m + 1 \in Good
  <2> SUFFICES ASSUME m + 1 <= n PROVE \E f : Runs(m + 1, f)
    OBVIOUS
  <2>1. PICK f : Runs(m, f)
    BY <1>2
  <2> DEFINE g == [k \in 0 .. m + 1 |-> IF k = m + 1 THEN turn[m + 1][f[m]] ELSE f[k]]
  <2>2. m + 1 \in 1 .. n /\ f[m] \in S
    BY <2>1
  <2>3. turn[m + 1][f[m]] \in S
    BY <2>2
  <2>4. g \in [0 .. m + 1 -> S]
    BY <2>1, <2>3
  <2>5. g[0] = base
    BY <2>1
  <2>6. ASSUME NEW k \in 1 .. m + 1 PROVE g[k] = turn[k][g[k - 1]]
    <3>1. CASE k = m + 1
      BY <3>1
    <3>2. CASE k # m + 1
      <4>1. k \in 1 .. m /\ k - 1 \in 0 .. m
        BY <3>2
      <4> QED
        BY <2>1, <4>1
    <3> QED
      BY <3>1, <3>2
  <2>7. Runs(m + 1, g)
    BY <2>4, <2>5, <2>6
  <2> HIDE DEF Runs
  <2> QED
    BY <2>7
<1>3. n \in Good
  <2> HIDE DEF Good
  <2> QED
    BY <1>1, <1>2, SetInduction, Zenon
<1>4. PICK f : Runs(n, f)
  BY <1>3
<1> QED
  BY <1>4 DEF Iterates

-----------------------------------------------------------------------------
(* Questions and answers.                                                  *)

(* All that is asked.                                                      *)
Questions ==
  PlanQuestions(GraphPlans(NTasks, {"code", "test"})) \cup
  PlanQuestions(GraphPlans(NTasks - 1, SupportedKinds)) \cup
  PlanQuestions(OddPlans) \cup TriageQuestions \cup EditQuestions

(* The answer is that of the question, which is one of those that are      *)
(* asked.                                                                  *)
Answered ==
  /\ question \in Questions
  /\ answer # << >> => answer = <<Answer(question)>>

(* The invariant of the behaviours of Decisions.                           *)
LEMMA AnswersFollow == Spec => []Answered
<1>1. Init => Answered
  BY DEF Init, Answered, Questions
<1>2. Answered /\ [Next]_vars => Answered'
  BY DEF Answered, Next, vars, Questions
<1> QED
  BY <1>1, <1>2, PTL DEF Spec

-----------------------------------------------------------------------------
(* Test runs.                                                              *)

(* The commands that are taken for pytest, of those that are asked about.  *)
LEMMA PytestIsKnown ==
  ASSUME NEW c \in Commands, IsPytest(c)
  PROVE  c \in PytestCommands
BY DEF Commands, PytestCommands, IsPytest, VerificationTool, Unwrapped

(* A change that fails goes through only against a baseline that had       *)
(* failed with all of it, and named it, whatever the command and the       *)
(* results (compare_verification).                                         *)
THEOREM EveryRegressionStopped ==
  ASSUME NEW command, NEW before, NEW after,
         Allowed(Summarize(command, before), Summarize(command, after)), after.code # 0
  PROVE  /\ IsPytest(command)
         /\ before.code # 0
         /\ Reported(after) # {}
         /\ Reported(after) \subseteq Reported(before)
<1> DEFINE pre == Summarize(command, before)
           post == Summarize(command, after)
<1>1. ~post.passed /\ post.interpretable /\ post.failures # {} /\ ~pre.passed
  BY DEF Allowed, Summarize, Passed
<1>2. IsPytest(command)
  BY <1>1 DEF Summarize
<1>3. post.failures = Reported(after)
  BY <1>1, <1>2 DEF Summarize, FailureIdentities, Reported
<1>4. pre.failures = Reported(before) /\ before.code # 0
  BY <1>1, <1>2 DEF Summarize, FailureIdentities, Reported, Passed
<1>5. post.failures \subseteq pre.failures
  BY <1>1 DEF Allowed, NewFailures
<1> QED
  BY <1>1, <1>2, <1>3, <1>4, <1>5

(* In every state, a change that goes through has its tests pass, or fail  *)
(* only where those of a baseline did that was taken of a clean and        *)
(* untouched repository (establish_baseline, compare_verification).        *)
THEOREM RegressionsStopped == Spec => []NoNewFailurePasses
<1>1. ASSUME Answered PROVE NoNewFailurePasses
  <2> SUFFICES ASSUME Asked("triage"), answer[1].established PROVE NoNewFailurePasses
    BY DEF NoNewFailurePasses
  <2>1. question.topic = "triage" /\ answer[1] = Answer(question)
    BY <1>1 DEF Answered, Asked
  <2>2. question \in TriageQuestions
    BY <1>1, <2>1 DEF Answered, Questions, PlanQuestions, EditQuestions
  <2>3. /\ Established(question.workspace, question.command, question.before)
        /\ answer[1].allowed =>
             Allowed(Summarize(question.command, question.before.result),
                     Summarize(question.command, question.after))
    BY <2>1 DEF Answer
  <2>4. question.workspace.repository =>
         ~question.workspace.dirty /\ ~question.before.moved /\ ~question.before.changed
    BY <2>3 DEF Established, Untouched
  <2>5. ASSUME answer[1].allowed, question.after.code # 0
        PROVE  /\ question.command \in PytestCommands
               /\ question.before.result.code # 0
               /\ Reported(question.after) # {}
               /\ Reported(question.after) \subseteq Reported(question.before.result)
    <3>1. question.command \in Commands
      BY <2>2 DEF TriageQuestions
    <3> QED
      BY <2>3, <2>5, <3>1, EveryRegressionStopped, PytestIsKnown
  <2> QED
    BY <2>4, <2>5 DEF NoNewFailurePasses
<1> QED
  BY <1>1, AnswersFollow, PTL

-----------------------------------------------------------------------------
(* Edits.                                                                  *)

(* Operations on trees of the paths P with texts of the characters C; a    *)
(* replacement replaces something (models/edit.py).                        *)
Fits(op, P, C) ==
  /\ op.kind \in {"create_file", "delete_file", "replace_exact"}
  /\ Resolve(op.path) \in P
  /\ op.old \in Seq(C) /\ op.new \in Seq(C)
  /\ op.kind = "replace_exact" => op.old # << >>

(* str.count counts the places, as a replacement replaces something.       *)
LEMMA MatchesArePlaces ==
  ASSUME NEW C, NEW old \in Seq(C), NEW text \in Seq(C), old # << >>
  PROVE  Matches(old, text) = Places(old, text)
<1>1. Len(old) \in Nat /\ Len(old) > 0 /\ Len(text) \in Nat
  BY EmptySeq, LenProperties
<1>2. SubSeq(old, 1, Len(old)) = old
  BY <1>1
<1>3. ASSUME NEW k \in 1 .. Len(text)
      PROVE  IsPrefix(old, SubSeq(text, k, Len(text))) <=>
               /\ k <= Len(text) - Len(old) + 1
               /\ SubSeq(text, k, k + Len(old) - 1) = old
  <2> DEFINE rest == SubSeq(text, k, Len(text))
  <2>1. Len(rest) = Len(text) - k + 1
    BY <1>1
  <2>2. CASE k <= Len(text) - Len(old) + 1
    <3>1. /\ k \in 1 .. Len(text) /\ Len(text) \in 1 .. Len(text)
          /\ 1 \in 1 .. Len(text) - k + 1 /\ Len(old) \in 1 .. Len(text) - k + 1
      BY <1>1, <2>2
    <3>2. SubSeq(rest, 1, Len(old)) = SubSeq(text, k + 1 - 1, k + Len(old) - 1)
      BY <3>1, SubSeqOfSubSeq
    <3>3. k + 1 - 1 = k
      OBVIOUS
    <3>4. SubSeq(rest, 1, Len(old)) = SubSeq(text, k, k + Len(old) - 1)
      BY <3>2, <3>3
    <3>5. Len(old) <= Len(rest)
      BY <1>1, <2>1, <2>2
    <3> HIDE DEF rest
    <3>6. IsPrefix(old, rest) <=> SubSeq(text, k, k + Len(old) - 1) = old
      BY <1>2, <3>4, <3>5 DEF IsPrefix
    <3> QED
      BY <2>2, <3>6 DEF rest
  <2>3. CASE ~(k <= Len(text) - Len(old) + 1)
    BY <1>1, <2>1, <2>3 DEF IsPrefix
  <2> QED
    BY <2>2, <2>3
<1> DEFINE A == {k \in 1 .. Len(text) : IsPrefix(old, SubSeq(text, k, Len(text)))}
           B == {k \in 1 .. Len(text) - Len(old) + 1 : SubSeq(text, k, k + Len(old) - 1) = old}
<1>4. ASSUME NEW k \in A PROVE k \in B
  BY <1>1, <1>3
<1>5. ASSUME NEW k \in B PROVE k \in A
  <2>1. k \in 1 .. Len(text)
    BY <1>1
  <2> QED
    BY <1>3, <2>1
<1>6. A = B
  <2> HIDE DEF A, B
  <2> QED
    BY <1>4, <1>5
<1> QED
  BY <1>6 DEF Matches, Places

(* What old a replacement finds in a text has one place, and there it goes *)
(* into the text.                                                          *)
LEMMA OnePlace ==
  ASSUME NEW C, NEW op, NEW text \in Seq(C), op.old \in Seq(C), op.new \in Seq(C),
         op.old # << >>, Cardinality(Matches(op.old, text)) = 1
  PROVE  \E k \in 1 .. Len(text) :
           /\ Matches(op.old, text) = {k}
           /\ ReplaceFirst(text, op.old, op.new) = Replaced(text, k, op.old, op.new)
           /\ ReplaceFirst(text, op.old, op.new) \in Seq(C)
<1> DEFINE found == Matches(op.old, text)
           After(k) == Replaced(text, k, op.old, op.new)
<1>1. found \subseteq 1 .. Len(text) /\ Len(text) \in Nat /\ Len(op.old) \in Nat
  BY DEF Matches
<1>2. IsFiniteSet(found)
  <2>1. IsFiniteSet(1 .. Len(text))
    BY <1>1, FS_Interval
  <2> QED
    BY <1>1, <2>1, FS_Subset
<1>3. PICK k : found = {k}
  BY <1>2, FS_Singleton
<1>4. k \in 1 .. Len(text)
  BY <1>1, <1>3
<1>5. (CHOOSE i \in found : \A j \in found : i <= j) = k
  BY <1>3, <1>4
<1>6. ReplaceFirst(text, op.old, op.new) = After(k)
  <2> HIDE DEF found
  <2> QED
    BY <1>5 DEF ReplaceFirst, Replaced, found
<1>7. After(k) \in Seq(C)
  <2>1. SubSeq(text, 1, k - 1) \in Seq(C)
    BY <1>1, <1>4, SubSeqProperties, ElementOfSeq
  <2>2. SubSeq(text, k + Len(op.old), Len(text)) \in Seq(C)
    BY <1>1, <1>4, SubSeqProperties, ElementOfSeq
  <2> QED
    BY <2>1, <2>2, ConcatProperties DEF Replaced
<1> QED
  BY <1>3, <1>4, <1>6, <1>7

(* An operation that is valid has a text or an absence for an outcome.     *)
LEMMA ContentIsText ==
  ASSUME NEW P, NEW C, Absent \in C, NEW tree \in [P -> Seq(C)],
         NEW op, Fits(op, P, C), NEW grounded, NEW forbidden,
         OperationValid(tree, op, grounded, forbidden)
  PROVE  Content(tree, op) \in Seq(C)
<1> DEFINE text == tree[Resolve(op.path)]
<1>1. text \in Seq(C) /\ op.old \in Seq(C) /\ op.new \in Seq(C)
  BY DEF Fits
<1>2. CASE op.kind = "create_file"
  BY <1>1, <1>2 DEF Content
<1>3. CASE op.kind = "delete_file"
  BY <1>1, <1>3 DEF Content
<1>4. CASE op.kind = "replace_exact"
  <2>1. Content(tree, op) = ReplaceFirst(text, op.old, op.new)
    BY <1>4 DEF Content
  <2>2. op.old # << >> /\ Cardinality(Matches(op.old, text)) = 1
    BY <1>4 DEF Fits, OperationValid, Editable
  <2> HIDE DEF text
  <2> QED
    BY <1>1, <2>1, <2>2, OnePlace
<1> QED
  BY <1>2, <1>3, <1>4 DEF Fits

(* To carry out op is to write its content.                                *)
StepWrites(tree, t, op) == Step(<<t>>, op) = <<Written(tree, t, op)>>

(* To carry out a valid operation while its path is as it was is to write  *)
(* its content.                                                            *)
LEMMA StepWritesContent ==
  ASSUME NEW P, NEW C, NEW tree \in [P -> Seq(C)], NEW t \in [P -> Seq(C)],
         NEW op, Fits(op, P, C), NEW grounded, NEW forbidden,
         OperationValid(tree, op, grounded, forbidden),
         t[Resolve(op.path)] = tree[Resolve(op.path)]
  PROVE  StepWrites(tree, t, op)
<1> DEFINE p == Resolve(op.path)
           text == tree[p]
<1>1. text \in Seq(C) /\ op.old \in Seq(C) /\ op.new \in Seq(C) /\ t[p] = text
  BY DEF Fits
<1>2. <<t>> # << >> /\ <<t>>[1] = t
  OBVIOUS
<1>3. CASE op.kind = "create_file"
  <2>1. Content(tree, op) = op.new /\ text = <<Absent>>
    BY <1>3 DEF Content, OperationValid, Creatable
  <2>2. Step(<<t>>, op) = IF t[p] = <<Absent>> THEN <<[t EXCEPT ![p] = op.new]>> ELSE << >>
    BY <1>2, <1>3 DEF Step
  <2> QED
    BY <1>1, <2>1, <2>2 DEF Written, StepWrites
<1>4. CASE op.kind = "delete_file"
  <2>1. Content(tree, op) = <<Absent>> /\ IsText(text)
    BY <1>4 DEF Content, OperationValid, Editable
  <2>2. Step(<<t>>, op) = IF IsText(t[p]) THEN <<[t EXCEPT ![p] = <<Absent>>]>> ELSE << >>
    BY <1>2, <1>4 DEF Step
  <2> QED
    BY <1>1, <2>1, <2>2 DEF Written, StepWrites
<1>5. CASE op.kind = "replace_exact"
  <2>1. Content(tree, op) = ReplaceFirst(text, op.old, op.new)
    BY <1>5 DEF Content
  <2>2. op.old # << >> /\ Cardinality(Matches(op.old, text)) = 1
    BY <1>5 DEF Fits, OperationValid, Editable
  <2>3. PICK k \in 1 .. Len(text) :
           /\ Matches(op.old, text) = {k}
           /\ ReplaceFirst(text, op.old, op.new) = Replaced(text, k, op.old, op.new)
    <3> HIDE DEF text
    <3> QED
      BY <1>1, <2>2, OnePlace
  <2>4. Places(op.old, text) = {k} /\ Cardinality(Places(op.old, text)) = 1
    <3> HIDE DEF text
    <3> QED
      BY <1>1, <2>2, <2>3, MatchesArePlaces
  <2>5. Only(Places(op.old, text)) = k
    BY <2>4 DEF Only
  <2>6. Step(<<t>>, op) =
          LET places == Places(op.old, t[p])
          IN  IF Cardinality(places) # 1 THEN << >>
              ELSE <<[t EXCEPT ![p] = Replaced(t[p], Only(places), op.old, op.new)]>>
    BY <1>2, <1>5 DEF Step
  <2>7. Step(<<t>>, op) = <<[t EXCEPT ![p] = Replaced(text, k, op.old, op.new)]>>
    BY <1>1, <2>4, <2>5, <2>6
  <2> QED
    BY <2>1, <2>3, <2>7 DEF Written, StepWrites
<1> QED
  BY <1>3, <1>4, <1>5 DEF Fits

(* The tree that _apply_to_candidate builds, by the number of operations   *)
(* written.                                                                *)
Builds(w, P, C, tree, batch) ==
  /\ w \in [0 .. Len(batch) -> [P -> Seq(C)]]
  /\ w[0] = tree
  /\ w[Len(batch)] = Candidate(tree, batch)
  /\ \A k \in 1 .. Len(batch) : w[k] = Written(tree, w[k - 1], batch[k])

(* The states of the tree as a valid batch is written, one operation at a  *)
(* time.                                                                   *)
LEMMA CandidateIsBuilt ==
  ASSUME NEW P, NEW C, Absent \in C, NEW tree \in [P -> Seq(C)],
         NEW grounded, NEW forbidden, NEW batch, Len(batch) \in Nat, DOMAIN batch = 1 .. Len(batch),
         \A i \in DOMAIN batch :
           Fits(batch[i], P, C) /\ OperationValid(tree, batch[i], grounded, forbidden)
  PROVE  \E w : Builds(w, P, C, tree, batch)
<1> DEFINE n == Len(batch)
           S == [P -> Seq(C)]
           After(k, t) == Written(tree, t, batch[k])
           turn == [k \in 1 .. n |-> [t \in S |-> After(k, t)]]
           Built(f) == f = [k \in 0 .. n |-> IF k = 0 THEN tree ELSE After(k, f[k - 1])]
           w == CHOOSE f : Built(f)
<1>1. ASSUME NEW k \in 1 .. n, NEW t \in S PROVE After(k, t) \in S
  <2>1. Resolve(batch[k].path) \in P /\ Content(tree, batch[k]) \in Seq(C)
    BY ContentIsText DEF Fits
  <2> QED
    BY <2>1 DEF Written
<1>2. w[n] = Candidate(tree, batch)
  BY DEF Candidate
<1>3. tree \in S /\ n \in Nat
  OBVIOUS
<1> HIDE DEF S, After, n
<1>4. turn \in [1 .. n -> [S -> S]]
  BY <1>1
<1>5. PICK f : Iterates(f, n, S, tree, turn)
  <2> HIDE DEF turn
  <2> QED
    BY <1>3, <1>4, LoopExists
<1>6. Built(f)
  <2>1. ASSUME NEW k \in 1 .. n PROVE turn[k][f[k - 1]] = After(k, f[k - 1])
    <3>1. f[k - 1] \in S
      <4> HIDE DEF turn
      <4> QED
        BY <1>3, <1>5 DEF Iterates
    <3> QED
      BY <3>1
  <2> HIDE DEF turn
  <2>2. \A k \in 0 .. n : f[k] = IF k = 0 THEN tree ELSE After(k, f[k - 1])
    BY <1>3, <1>5, <2>1 DEF Iterates
  <2>3. f = [k \in 0 .. n |-> f[k]]
    BY <1>5 DEF Iterates
  <2> QED
    BY <2>2, <2>3
<1>7. Built(w)
  BY <1>6, Zenon
<1> HIDE DEF w
<1>8. w[0] = tree /\ DOMAIN w = 0 .. n /\ w = [k \in 0 .. n |-> w[k]]
  BY <1>3, <1>7
<1>9. \A k \in 1 .. n : w[k] = After(k, w[k - 1])
  BY <1>3, <1>7
<1>10. w \in [0 .. n -> S]
  <2> DEFINE Good == {k \in Nat : k <= n => w[k] \in S}
  <2>1. 0 \in Good
    BY <1>3, <1>8
  <2>2. ASSUME NEW k \in Nat, k \in Good PROVE k + 1 \in Good
    <3>1. CASE k + 1 <= n
      <4>1. k + 1 \in 1 .. n /\ w[k] \in S /\ (k + 1) - 1 = k
        BY <1>3, <2>2, <3>1
      <4> QED
        BY <1>1, <1>9, <4>1
    <3> QED
      BY <3>1
  <2>3. Nat \subseteq Good
    <3> HIDE DEF Good
    <3> QED
      BY <2>1, <2>2, SetInduction, Zenon
  <2>4. \A k \in 0 .. n : w[k] \in S
    BY <1>3, <2>3
  <2> QED
    BY <1>8, <2>4
<1> QED
  BY <1>2, <1>8, <1>9, <1>10 DEF S, After, n, Builds

(* For every tree and batch, forbidden scope and set of grounded paths, a  *)
(* batch is applied as its operations one after another or not at all.     *)
THEOREM EveryBatchAllOrNothing ==
  ASSUME NEW P, NEW C, Absent \in C, NEW tree \in [P -> Seq(C)],
         NEW grounded, NEW forbidden, NEW batch, Len(batch) \in Nat, DOMAIN batch = 1 .. Len(batch),
         \A i \in DOMAIN batch : Fits(batch[i], P, C)
  PROVE  AllOrNothing(tree, batch, forbidden,
                      ApplyEditOperations(tree, batch, grounded, forbidden))
<1> DEFINE n == Len(batch)
           after == ApplyEditOperations(tree, batch, grounded, forbidden)
           path(k) == Resolve(batch[k].path)
<1> SUFFICES ASSUME after # tree
             PROVE  /\ OneByOne(tree, batch) = <<after>>
                    /\ \A i \in DOMAIN batch :
                         /\ path(i) # Secret
                         /\ \A boundary \in forbidden : ~IsPrefix(boundary, batch[i].path)
  BY DEF AllOrNothing
<1>1. /\ after = Candidate(tree, batch)
      /\ PathsDistinct(batch)
      /\ \A i \in 1 .. n : OperationValid(tree, batch[i], grounded, forbidden)
  BY DEF ApplyEditOperations, Accepted, BatchValid
<1>10. PICK w : Builds(w, P, C, tree, batch)
  <2>1. \A i \in DOMAIN batch :
           Fits(batch[i], P, C) /\ OperationValid(tree, batch[i], grounded, forbidden)
    BY <1>1
  <2> HIDE DEF after
  <2> QED
    BY <2>1, CandidateIsBuilt
<1>2. /\ w \in [0 .. n -> [P -> Seq(C)]]
      /\ w[0] = tree /\ w[n] = after
      /\ \A k \in 1 .. n : w[k] = Written(tree, w[k - 1], batch[k])
  <2> HIDE DEF after
  <2> QED
    BY <1>1, <1>10 DEF Builds
<1>3. \A k \in 1 .. n : Fits(batch[k], P, C) /\ path(k) \in P
  BY DEF Fits
<1>4. \A i, j \in 1 .. n : i # j => path(i) # path(j)
  BY <1>1 DEF PathsDistinct
<1>5. n \in Nat
  OBVIOUS
<1> HIDE DEF n, path, after
(* What is yet to be written is as it was.                                 *)
<1>6. ASSUME NEW k \in 0 .. n, NEW i \in k + 1 .. n PROVE w[k][path(i)] = tree[path(i)]
  <2> DEFINE Good == {m \in Nat : m < i => w[m][path(i)] = tree[path(i)]}
  <2>1. 0 \in Good
    BY <1>2
  <2>2. ASSUME NEW m \in Nat, m \in Good PROVE m + 1 \in Good
    <3> SUFFICES ASSUME m + 1 < i PROVE w[m + 1][path(i)] = tree[path(i)]
      OBVIOUS
    <3>1. m + 1 \in 1 .. n /\ i \in 1 .. n /\ (m + 1) - 1 = m /\ m \in 0 .. n /\ m < i
      BY <1>5
    <3>2. w[m + 1] = [w[m] EXCEPT ![path(m + 1)] = Content(tree, batch[m + 1])]
      BY <1>2, <3>1 DEF Written, path
    <3>3. path(m + 1) # path(i) /\ w[m] \in [P -> Seq(C)] /\ path(i) \in P
      <4>1. m + 1 # i
        BY <3>1
      <4> QED
        BY <1>2, <1>3, <1>4, <3>1, <4>1
    <3>4. w[m][path(i)] = tree[path(i)]
      BY <2>2, <3>1
    <3> QED
      BY <3>2, <3>3, <3>4
  <2>3. Nat \subseteq Good
    <3> HIDE DEF Good
    <3> QED
      BY <2>1, <2>2, SetInduction, Zenon
  <2> QED
    BY <1>5, <2>3
<1>7. ASSUME NEW k \in 1 .. n PROVE Step(<<w[k - 1]>>, batch[k]) = <<w[k]>>
  <2>1. k - 1 \in 0 .. n /\ k \in (k - 1) + 1 .. n
    BY <1>5
  <2>2. w[k - 1][path(k)] = tree[path(k)] /\ w[k - 1] \in [P -> Seq(C)]
    BY <1>2, <1>6, <2>1
  <2>3. Fits(batch[k], P, C) /\ OperationValid(tree, batch[k], grounded, forbidden)
    BY <1>1, <1>3
  <2>4. w[k - 1][Resolve(batch[k].path)] = tree[Resolve(batch[k].path)]
    BY <2>2 DEF path
  <2>5. StepWrites(tree, w[k - 1], batch[k])
    BY <2>2, <2>3, <2>4, StepWritesContent
  <2> QED
    BY <1>2, <2>5 DEF StepWrites
<1>8. OneByOne(tree, batch) = <<after>>
  <2> DEFINE Done(f) == f = [k \in 0 .. n |-> IF k = 0 THEN <<tree>> ELSE Step(f[k - 1], batch[k])]
             d == CHOOSE f : Done(f)
             f == [k \in 0 .. n |-> <<w[k]>>]
             Good == {k \in Nat : k <= n => d[k] = <<w[k]>>}
  <2>1. OneByOne(tree, batch) = d[n]
    BY DEF OneByOne, n
  <2>2. Done(f)
    <3>1. ASSUME NEW k \in 0 .. n
          PROVE  f[k] = IF k = 0 THEN <<tree>> ELSE Step(f[k - 1], batch[k])
      <4>1. CASE k = 0
        BY <1>2, <4>1
      <4>2. CASE k # 0
        <5>1. k \in 1 .. n /\ k - 1 \in 0 .. n
          BY <1>5, <4>2
        <5>2. f[k - 1] = <<w[k - 1]>> /\ f[k] = <<w[k]>>
          BY <5>1
        <5> QED
          BY <1>7, <4>2, <5>1, <5>2
      <4> QED
        BY <4>1, <4>2
    <3>2. f = [k \in 0 .. n |-> f[k]]
      OBVIOUS
    <3> HIDE DEF f
    <3> QED
      BY <3>1, <3>2
  <2>3. Done(d)
    <3> HIDE DEF Done
    <3> QED
      BY <2>2, Zenon
  <2> HIDE DEF d
  <2>4. d[0] = <<tree>> /\ \A k \in 1 .. n : d[k] = Step(d[k - 1], batch[k])
    <3>1. 0 \in 0 .. n /\ \A k \in 1 .. n : k \in 0 .. n /\ k # 0
      BY <1>5
    <3>2. d[0] = <<tree>>
      BY <2>3, <3>1
    <3>3. ASSUME NEW k \in 1 .. n PROVE d[k] = Step(d[k - 1], batch[k])
      BY <2>3, <3>1
    <3> QED
      BY <3>2, <3>3
  <2>5. 0 \in Good
    BY <1>2, <2>4
  <2>6. ASSUME NEW k \in Nat, k \in Good PROVE k + 1 \in Good
    <3> SUFFICES ASSUME k + 1 <= n PROVE d[k + 1] = <<w[k + 1]>>
      OBVIOUS
    <3>1. k + 1 \in 1 .. n /\ (k + 1) - 1 = k /\ k <= n
      BY <1>5
    <3>2. d[k + 1] = Step(<<w[k]>>, batch[k + 1])
      BY <2>4, <2>6, <3>1
    <3> QED
      BY <1>7, <3>1, <3>2
  <2>7. Nat \subseteq Good
    <3> HIDE DEF Good
    <3> QED
      BY <2>5, <2>6, SetInduction, Zenon
  <2> QED
    BY <1>2, <1>5, <2>1, <2>7
<1>9. ASSUME NEW i \in 1 .. n
      PROVE  path(i) # Secret /\ \A boundary \in forbidden : ~IsPrefix(boundary, batch[i].path)
  <2>1. ~IsForbidden(batch[i].path, forbidden)
    BY <1>1 DEF OperationValid
  <2>2. Last(path(i)) # ".env"
    BY <2>1, SensitiveAssumption DEF IsForbidden, IsBuiltinForbidden, path
  <2>3. Last(Secret) = ".env"
    BY DEF Last, Secret
  <2> QED
    BY <2>1, <2>2, <2>3 DEF IsForbidden, PathMatches
<1> QED
  BY <1>8, <1>9 DEF n

(* The segments of a path that are kept of its first k.                    *)
Keeps(f, path) ==
  /\ f[0] = << >>
  /\ f[Len(path)] = Resolve(path)
  /\ \A k \in 1 .. Len(path) :
       f[k] = IF path[k] = "." THEN f[k - 1] ELSE Append(f[k - 1], path[k])

(* Resolve, a segment at a time.                                           *)
LEMMA ResolveKeeps ==
  ASSUME NEW C, NEW path \in Seq(C)
  PROVE  \E f : Keeps(f, path)
<1> DEFINE n == Len(path)
           S == Seq(C)
           After(k, s) == IF path[k] = "." THEN s ELSE Append(s, path[k])
           turn == [k \in 1 .. n |-> [s \in S |-> After(k, s)]]
           Kept(f) ==
             f = [k \in 0 .. n |->
                    IF k = 0 THEN << >>
                    ELSE IF path[k] = "." THEN f[k - 1] ELSE Append(f[k - 1], path[k])]
           w == CHOOSE f : Kept(f)
<1>1. ASSUME NEW k \in 1 .. n, NEW s \in S PROVE After(k, s) \in S
  <2>1. path[k] \in C
    BY ElementOfSeq
  <2> QED
    BY <2>1, AppendProperties
<1>2. w[n] = Resolve(path)
  BY DEF Resolve
<1>3. << >> \in S /\ n \in Nat
  BY LenProperties
<1>4. \A f : Kept(f) <=> f = [k \in 0 .. n |-> IF k = 0 THEN << >> ELSE After(k, f[k - 1])]
  OBVIOUS
<1> HIDE DEF S, After, n
<1>5. turn \in [1 .. n -> [S -> S]]
  BY <1>1
<1>6. PICK f : Iterates(f, n, S, << >>, turn)
  <2> HIDE DEF turn
  <2> QED
    BY <1>3, <1>5, LoopExists
<1>7. Kept(f)
  <2>1. ASSUME NEW k \in 1 .. n PROVE turn[k][f[k - 1]] = After(k, f[k - 1])
    <3>1. f[k - 1] \in S
      <4> HIDE DEF turn
      <4> QED
        BY <1>3, <1>6 DEF Iterates
    <3> QED
      BY <3>1
  <2> HIDE DEF turn, Kept
  <2>2. \A k \in 0 .. n : f[k] = IF k = 0 THEN << >> ELSE After(k, f[k - 1])
    BY <1>3, <1>6, <2>1 DEF Iterates
  <2>3. f = [k \in 0 .. n |-> f[k]]
    BY <1>6 DEF Iterates
  <2> QED
    BY <1>4, <2>2, <2>3
<1>8. Kept(w)
  <2> HIDE DEF Kept
  <2> QED
    BY <1>7, Zenon
<1>9. w = [k \in 0 .. n |-> IF k = 0 THEN << >> ELSE After(k, w[k - 1])]
  <2> HIDE DEF Kept, w
  <2> QED
    BY <1>4, <1>8
<1> HIDE DEF w
<1>10. w[0] = << >>
  BY <1>3, <1>9
<1>11. \A k \in 1 .. n : w[k] = After(k, w[k - 1])
  BY <1>3, <1>9
<1> QED
  BY <1>2, <1>10, <1>11 DEF Keeps, After, n

(* One segment of it.                                                      *)
LEMMA SegmentKept ==
  ASSUME NEW f, NEW path, Keeps(f, path), NEW j, NEW k \in 1 .. Len(path), j = k - 1
  PROVE  f[k] = IF path[k] = "." THEN f[j] ELSE Append(f[j], path[k])
BY DEF Keeps

(* A list of one and another element.                                      *)
LEMMA AppendOne ==
  ASSUME NEW a, NEW b
  PROVE  Append(<<a>>, b) = <<a, b>>
<1>1. <<a, b>> \in Seq({a, b}) /\ Append(<<a>>, b) \in Seq({a, b})
  OBVIOUS
<1>2. Len(Append(<<a>>, b)) = 2 /\ Len(<<a, b>>) = 2
  OBVIOUS
<1>3. Append(<<a>>, b)[1] = a /\ Append(<<a>>, b)[2] = b
  OBVIOUS
<1>4. \A i \in 1 .. 2 : Append(<<a>>, b)[i] = <<a, b>>[i]
  <2>1. \A i \in 1 .. 2 : i = 1 \/ i = 2
    OBVIOUS
  <2> QED
    BY <1>3, <2>1
<1> QED
  BY <1>1, <1>2, <1>4, SeqEqual

(* The paths of the questions, and what they name.                         *)
LEMMA PathsResolved ==
  /\ Resolve(PathA) = PathA /\ Resolve(AliasA) = PathA
  /\ Resolve(PathB) = PathB /\ Resolve(AliasB) = PathB
  /\ Resolve(Secret) = Secret
<1>1. Resolve(PathA) = PathA
  <2>1. PathA \in Seq({"a"}) /\ Len(PathA) = 1
    BY DEF PathA
  <2>2. PathA[1] = "a"
    BY DEF PathA
  <2>3. PICK f : Keeps(f, PathA)
    BY <2>1, ResolveKeeps
  <2>4. f[0] = << >> /\ f[1] = Resolve(PathA)
    BY <2>1, <2>3 DEF Keeps
  <2>5. f[1] = <<"a">>
    <3>1. 1 \in 1 .. Len(PathA) /\ 0 = 1 - 1
      BY <2>1
    <3>2. f[1] = IF PathA[1] = "." THEN f[0] ELSE Append(f[0], PathA[1])
      BY <2>3, <3>1, SegmentKept
    <3>3. f[1] = Append(<< >>, "a")
      BY <2>2, <2>4, <3>2
    <3> QED
      BY <3>3
  <2> QED
    BY <2>4, <2>5 DEF PathA
<1>2. Resolve(AliasA) = PathA
  <2>1. AliasA \in Seq({".", "a"}) /\ Len(AliasA) = 2
    BY DEF AliasA
  <2>2. AliasA[1] = "." /\ AliasA[2] = "a"
    BY DEF AliasA
  <2>3. PICK f : Keeps(f, AliasA)
    BY <2>1, ResolveKeeps
  <2>4. f[0] = << >> /\ f[2] = Resolve(AliasA)
    BY <2>1, <2>3 DEF Keeps
  <2>5. f[1] = << >>
    <3>1. 1 \in 1 .. Len(AliasA) /\ 0 = 1 - 1
      BY <2>1
    <3>2. f[1] = IF AliasA[1] = "." THEN f[0] ELSE Append(f[0], AliasA[1])
      BY <2>3, <3>1, SegmentKept
    <3> QED
      BY <2>2, <2>4, <3>2
  <2>6. f[2] = <<"a">>
    <3>1. 2 \in 1 .. Len(AliasA) /\ 1 = 2 - 1
      BY <2>1
    <3>2. f[2] = IF AliasA[2] = "." THEN f[1] ELSE Append(f[1], AliasA[2])
      BY <2>3, <3>1, SegmentKept
    <3>3. f[2] = Append(<< >>, "a")
      BY <2>2, <2>5, <3>2
    <3> QED
      BY <3>3
  <2> QED
    BY <2>4, <2>6 DEF PathA
<1>3. ASSUME NEW name \in {"b", ".env"} PROVE Resolve(<<"d", name>>) = <<"d", name>>
  <2> DEFINE path == <<"d", name>>
  <2>1. path \in Seq({"d", name}) /\ Len(path) = 2
    OBVIOUS
  <2>2. path[1] = "d" /\ path[2] = name
    OBVIOUS
  <2>3. name # "."
    OBVIOUS
  <2> HIDE DEF path
  <2>4. PICK f : Keeps(f, path)
    BY <2>1, ResolveKeeps
  <2>5. f[0] = << >> /\ f[2] = Resolve(path)
    BY <2>1, <2>4 DEF Keeps
  <2>6. f[1] = <<"d">>
    <3>1. 1 \in 1 .. Len(path) /\ 0 = 1 - 1
      BY <2>1
    <3>2. f[1] = IF path[1] = "." THEN f[0] ELSE Append(f[0], path[1])
      BY <2>4, <3>1, SegmentKept
    <3>3. f[1] = Append(<< >>, "d")
      BY <2>2, <2>3, <2>5, <3>2
    <3> QED
      BY <3>3
  <2>7. f[2] = <<"d", name>>
    <3>1. 2 \in 1 .. Len(path) /\ 1 = 2 - 1
      BY <2>1
    <3>2. f[2] = IF path[2] = "." THEN f[1] ELSE Append(f[1], path[2])
      BY <2>4, <3>1, SegmentKept
    <3>3. f[2] = Append(<<"d">>, name)
      BY <2>2, <2>3, <2>6, <3>2
    <3> QED
      BY <3>3, AppendOne
  <2> QED
    BY <2>5, <2>7 DEF path
<1>4. Resolve(AliasB) = PathB
  <2>1. AliasB \in Seq({".", "d", "b"}) /\ Len(AliasB) = 3
    BY DEF AliasB
  <2>2. AliasB[1] = "." /\ AliasB[2] = "d" /\ AliasB[3] = "b"
    BY DEF AliasB
  <2>3. PICK f : Keeps(f, AliasB)
    BY <2>1, ResolveKeeps
  <2>4. f[0] = << >> /\ f[3] = Resolve(AliasB)
    BY <2>1, <2>3 DEF Keeps
  <2>5. f[1] = << >>
    <3>1. 1 \in 1 .. Len(AliasB) /\ 0 = 1 - 1
      BY <2>1
    <3>2. f[1] = IF AliasB[1] = "." THEN f[0] ELSE Append(f[0], AliasB[1])
      BY <2>3, <3>1, SegmentKept
    <3> QED
      BY <2>2, <2>4, <3>2
  <2>6. f[2] = <<"d">>
    <3>1. 2 \in 1 .. Len(AliasB) /\ 1 = 2 - 1
      BY <2>1
    <3>2. f[2] = IF AliasB[2] = "." THEN f[1] ELSE Append(f[1], AliasB[2])
      BY <2>3, <3>1, SegmentKept
    <3>3. f[2] = Append(<< >>, "d")
      BY <2>2, <2>5, <3>2
    <3> QED
      BY <3>3
  <2>7. f[3] = <<"d", "b">>
    <3>1. 3 \in 1 .. Len(AliasB) /\ 2 = 3 - 1
      BY <2>1
    <3>2. f[3] = IF AliasB[3] = "." THEN f[2] ELSE Append(f[2], AliasB[3])
      BY <2>3, <3>1, SegmentKept
    <3>3. f[3] = Append(<<"d">>, "b")
      BY <2>2, <2>6, <3>2
    <3> QED
      BY <3>3, AppendOne
  <2> QED
    BY <2>4, <2>7 DEF PathB
<1> QED
  BY <1>1, <1>2, <1>3, <1>4 DEF PathB, Secret

(* In every state, a batch of edits has been applied as its operations one *)
(* after another, none in a forbidden place, or not at all                 *)
(* (apply_edit_operations).                                                *)
THEOREM EditsAtomic == Spec => []EditsAllOrNothing
<1>1. ASSUME Answered PROVE EditsAllOrNothing
  <2> SUFFICES ASSUME Asked("edit")
               PROVE  AllOrNothing(question.tree, question.batch, question.forbidden, answer[1])
    BY DEF EditsAllOrNothing
  <2> DEFINE P == {PathA, PathB, Secret}
             C == {"x", "y", Absent, Directory, Blank}
             tree == question.tree
             batch == question.batch
  <2>1. question.topic = "edit" /\ answer[1] = Answer(question) /\ question \in Questions
    BY <1>1 DEF Answered, Asked
  <2>2. question \in EditQuestions
    BY <2>1 DEF Questions, PlanQuestions, TriageQuestions
  <2>3. answer[1] = ApplyEditOperations(tree, batch, question.grounded, question.forbidden)
    BY <2>1 DEF Answer
  <2>4. Absent \in C /\ tree \in [P -> Seq(C)]
    <3>1. /\ <<Absent>> \in Seq(C) /\ <<Directory>> \in Seq(C) /\ <<"x">> \in Seq(C)
          /\ <<"x", "x">> \in Seq(C) /\ <<"y", "x", Blank>> \in Seq(C)
      OBVIOUS
    <3>2. tree \in Trees
      BY <2>2 DEF EditQuestions
    <3> HIDE DEF C, tree
    <3>3. tree \in [P -> Seq(C)]
      BY <3>1, <3>2 DEF Trees
    <3> QED
      BY <3>3 DEF C
  <2>5. ASSUME NEW op \in Operations PROVE Fits(op, P, C)
    <3>1. /\ << >> \in Seq(C) /\ <<"x">> \in Seq(C) /\ <<"y">> \in Seq(C)
          /\ <<"x", Blank>> \in Seq(C) /\ <<"y", Blank>> \in Seq(C)
      OBVIOUS
    <3>2. <<"x">> # << >> /\ <<"x", Blank>> # << >>
      OBVIOUS
    <3>3. CASE op \in Replacements
      BY <3>1, <3>2, <3>3, PathsResolved DEF Replacements, Fits
    <3>4. CASE op \in Creations
      BY <3>1, <3>4, PathsResolved DEF Creations, Fits
    <3>5. CASE op \in Deletions
      BY <3>1, <3>5, PathsResolved DEF Deletions, Fits
    <3> QED
      BY <3>3, <3>4, <3>5 DEF Operations
  <2>6. /\ Len(batch) \in Nat /\ DOMAIN batch = 1 .. Len(batch)
        /\ \A i \in DOMAIN batch : batch[i] \in Operations
    BY <2>2 DEF EditQuestions
  <2>7. \A i \in DOMAIN batch : Fits(batch[i], P, C)
    BY <2>5, <2>6
  <2> HIDE DEF P, C
  <2>8. AllOrNothing(tree, batch, question.forbidden,
                     ApplyEditOperations(tree, batch, question.grounded, question.forbidden))
    BY <2>4, <2>6, <2>7, EveryBatchAllOrNothing
  <2> QED
    BY <2>3, <2>8
<1> QED
  BY <1>1, AnswersFollow, PTL

-----------------------------------------------------------------------------
(* Plans: the search for a code task.                                      *)

(* A plan whose ids are among Id; the schema (models/plan.py) has no other *)
(* demand on it.                                                           *)
IsPlan(plan, Id) ==
  /\ Len(plan) \in Nat /\ DOMAIN plan = 1 .. Len(plan)
  /\ \A i \in DOMAIN plan : plan[i].id \in Id /\ plan[i].deps \in Seq(Id)

(* No task without an id, and no id twice.                                 *)
Distinct(plan) ==
  /\ \A i \in DOMAIN plan : plan[i].id # ""
  /\ \A i, j \in DOMAIN plan : i # j => plan[i].id # plan[j].id

(* Every dependency is a task of the plan.                                 *)
Known(plan) ==
  \A i \in DOMAIN plan : \A id \in ToSet(plan[i].deps) : \E j \in DOMAIN plan : plan[j].id = id

(* To have as many ids as tasks is to have no id twice.                    *)
LEMMA DistinctIds ==
  ASSUME NEW Id, NEW plan, IsPlan(plan, Id)
  PROVE  /\ IsFiniteSet(Ids(plan)) /\ Cardinality(Ids(plan)) <= Len(plan)
         /\ IdsDistinct(plan) <=> Distinct(plan)
<1> DEFINE n == Len(plan)
           T == Ids(plan)
           f == [i \in 1 .. n |-> plan[i].id]
<1>1. n \in Nat /\ DOMAIN plan = 1 .. n
  BY DEF IsPlan
<1>2. IsFiniteSet(1 .. n) /\ Cardinality(1 .. n) = n
  <2>1. 1 \in Int /\ n \in Int /\ (IF 1 > n THEN 0 ELSE n - 1 + 1) = n
    BY <1>1
  <2> HIDE DEF n
  <2> QED
    BY <2>1, FS_Interval
<1>3. f \in Surjection(1 .. n, T)
  BY <1>1 DEF Surjection, Ids
<1>4. /\ IsFiniteSet(T) /\ Cardinality(T) <= n
      /\ Cardinality(T) = n <=> f \in Injection(1 .. n, T)
  <2> HIDE DEF n, f, T
  <2> QED
    BY <1>2, <1>3, FS_Surjection
<1>5. f \in Injection(1 .. n, T) <=> \A i, j \in 1 .. n : i # j => plan[i].id # plan[j].id
  BY <1>1, <1>3 DEF Injection, IsInjective, Surjection
<1>6. "" \notin Ids(plan) <=> \A i \in 1 .. n : plan[i].id # ""
  BY <1>1 DEF Ids
<1> QED
  BY <1>1, <1>4, <1>5, <1>6 DEF IdsDistinct, Distinct

(* The task of an id, of a plan that has no id twice.                      *)
LEMMA TaskOfId ==
  ASSUME NEW plan, Distinct(plan), NEW i \in DOMAIN plan
  PROVE  TaskOf(plan, plan[i].id) = i
BY DEF TaskOf, Distinct

-----------------------------------------------------------------------------
(* What a task depends on.                                                 *)

(* Prerequisites is the least closed set with what i names.                *)
LEMMA PrerequisitesClosed ==
  ASSUME NEW plan, NEW i \in DOMAIN plan
  PROVE  /\ Prerequisites(plan, i) \subseteq DOMAIN plan
         /\ \A k \in DOMAIN plan : DependsOn(plan, i, k) => k \in Prerequisites(plan, i)
         /\ Closed(plan, Prerequisites(plan, i))
         /\ \A S \in SUBSET DOMAIN plan :
              Closed(plan, S) /\ (\A k \in DOMAIN plan : DependsOn(plan, i, k) => k \in S) =>
                Prerequisites(plan, i) \subseteq S
<1> DEFINE R == Prerequisites(plan, i)
           Has(S) == Closed(plan, S) /\ \A k \in DOMAIN plan : DependsOn(plan, i, k) => k \in S
<1>1. R = {j \in DOMAIN plan : \A S \in SUBSET DOMAIN plan : Has(S) => j \in S}
  BY DEF Prerequisites
<1>2. R \subseteq DOMAIN plan /\ \A S \in SUBSET DOMAIN plan : Has(S) => R \subseteq S
  <2> HIDE DEF R, Has
  <2> QED
    BY <1>1
<1>3. \A k \in DOMAIN plan : DependsOn(plan, i, k) => k \in R
  <2> HIDE DEF R
  <2> QED
    BY <1>1
<1>4. ASSUME NEW j \in R, NEW k \in DOMAIN plan, DependsOn(plan, j, k) PROVE k \in R
  <2>1. ASSUME NEW S \in SUBSET DOMAIN plan, Has(S) PROVE k \in S
    <3>1. j \in S
      BY <1>2, <2>1
    <3> QED
      BY <1>4, <2>1, <3>1 DEF Closed
  <2> HIDE DEF R, Has
  <2> QED
    BY <1>1, <2>1
<1>5. Closed(plan, R)
  BY <1>4 DEF Closed
<1> QED
  BY <1>2, <1>3, <1>5

(* What a prerequisite of i needs, i needs.                                *)
LEMMA PrerequisitesShrink ==
  ASSUME NEW plan, NEW i \in DOMAIN plan, NEW k \in Prerequisites(plan, i)
  PROVE  Prerequisites(plan, k) \subseteq Prerequisites(plan, i)
<1>1. /\ k \in DOMAIN plan /\ Prerequisites(plan, i) \in SUBSET DOMAIN plan
      /\ Closed(plan, Prerequisites(plan, i))
  BY PrerequisitesClosed
<1>2. \A j \in DOMAIN plan : DependsOn(plan, k, j) => j \in Prerequisites(plan, i)
  BY <1>1 DEF Closed
<1> QED
  BY <1>1, <1>2, PrerequisitesClosed

-----------------------------------------------------------------------------
(* The search of a test task for a code task.                              *)

(* A set of numbers that is bounded and not empty has its greatest.        *)
LEMMA MaxBounds ==
  ASSUME NEW S \in SUBSET Nat, S # {}, NEW b \in Nat, \A x \in S : x <= b
  PROVE  Max(S) \in S /\ \A x \in S : x <= Max(S)
<1> DEFINE T == {y \in Nat : \E x \in S : y = b - x}
<1>1. T # {} /\ T \subseteq Nat
  <2>1. PICK x \in S : TRUE
    OBVIOUS
  <2>2. b - x \in T
    BY <2>1
  <2> QED
    BY <2>2
<1>2. PICK y \in T : \A z \in T : <<z, y>> \notin OpToRel(<, Nat)
  <2> HIDE DEF T
  <2> QED
    BY <1>1, WFMin, NatLessThanWellFounded
<1>3. PICK m \in S : y = b - m
  OBVIOUS
<1>4. ASSUME NEW x \in S PROVE x <= m
  <2>1. b - x \in T /\ b - x \in Nat /\ y \in Nat
    OBVIOUS
  <2>2. ~(b - x < y)
    BY <1>2, <2>1 DEF OpToRel
  <2> QED
    BY <1>3, <2>2
<1>5. \E x \in S : \A z \in S : x >= z
  BY <1>4
<1>6. Max(S) \in S /\ \A z \in S : Max(S) >= z
  BY <1>5 DEF Max
<1> QED
  BY <1>6

(* The greatest value of a function, by induction on its domain.           *)
LEMMA LongestBounds ==
  ASSUME NEW n \in Nat \ {0}, NEW g \in [1 .. n -> Nat]
  PROVE  /\ Max({g[i] : i \in 1 .. n}) \in Nat
         /\ \A i \in 1 .. n : g[i] <= Max({g[j] : j \in 1 .. n})
<1> DEFINE Bounded == {m \in Nat : m <= n => \E b \in Nat : \A i \in 1 .. m : g[i] <= b}
           S == {g[i] : i \in 1 .. n}
<1>1. 0 \in Bounded
  OBVIOUS
<1>2. ASSUME NEW m \in Nat, m \in Bounded PROVE m + 1 \in Bounded
  <2> SUFFICES ASSUME m + 1 <= n PROVE \E b \in Nat : \A i \in 1 .. m + 1 : g[i] <= b
    OBVIOUS
  <2>1. PICK b \in Nat : \A i \in 1 .. m : g[i] <= b
    BY <1>2
  <2>2. m + 1 \in 1 .. n /\ g[m + 1] \in Nat
    OBVIOUS
  <2>3. b + g[m + 1] \in Nat /\ \A i \in 1 .. m + 1 : g[i] <= b + g[m + 1]
    <3>1. ASSUME NEW i \in 1 .. m + 1 PROVE g[i] <= b + g[m + 1]
      <4>1. CASE i = m + 1
        BY <2>2, <4>1
      <4>2. CASE i # m + 1
        <5>1. i \in 1 .. m /\ g[i] \in Nat
          BY <4>2
        <5> QED
          BY <2>1, <2>2, <5>1
      <4> QED
        BY <4>1, <4>2
    <3> QED
      BY <2>2, <3>1
  <2> QED
    BY <2>3
<1>3. n \in Bounded
  <2> HIDE DEF Bounded
  <2> QED
    BY <1>1, <1>2, SetInduction, Zenon
<1>4. PICK b \in Nat : \A i \in 1 .. n : g[i] <= b
  BY <1>3
<1>5. S \in SUBSET Nat /\ S # {} /\ \A x \in S : x <= b
  BY <1>4
<1>6. Max(S) \in S /\ \A x \in S : x <= Max(S)
  <2> HIDE DEF S
  <2> QED
    BY <1>5, MaxBounds
<1> QED
  BY <1>5, <1>6

(* The length of a list of dependencies is at most that of the longest.    *)
Longest(plan) == Max({Len(plan[i].deps) : i \in DOMAIN plan})

LEMMA LongestList ==
  ASSUME NEW Id, NEW plan, IsPlan(plan, Id), plan # << >>
  PROVE  /\ Longest(plan) \in Nat
         /\ \A i \in DOMAIN plan : Len(plan[i].deps) <= Longest(plan)
         /\ Turns(plan) = (Len(plan) + 1) * Longest(plan)
<1> DEFINE n == Len(plan)
           g == [i \in 1 .. n |-> Len(plan[i].deps)]
<1>1. n \in Nat \ {0} /\ DOMAIN plan = 1 .. n
  BY DEF IsPlan
<1>2. g \in [1 .. n -> Nat]
  BY <1>1 DEF IsPlan
<1>3. {Len(plan[i].deps) : i \in DOMAIN plan} = {g[i] : i \in 1 .. n}
  BY <1>1
<1>4. \A i \in 1 .. n : Len(plan[i].deps) = g[i]
  BY <1>1
<1>5. Turns(plan) = (n + 1) * Longest(plan)
  BY DEF Turns, Longest
<1> HIDE DEF g, n
<1>6. /\ Max({g[i] : i \in 1 .. n}) \in Nat
      /\ \A i \in 1 .. n : g[i] <= Max({g[j] : j \in 1 .. n})
  BY <1>1, <1>2, LongestBounds
<1>7. Longest(plan) = Max({g[i] : i \in 1 .. n})
  BY <1>3 DEF Longest
<1> QED
  BY <1>1, <1>4, <1>5, <1>6, <1>7 DEF n

(* The states of the search.                                               *)
SearchStates(Id) == [pending: Seq(Id), seen: SUBSET Id, found: BOOLEAN]

(* A turn of the search keeps to its states.                               *)
LEMMA ExamineTyped ==
  ASSUME NEW Id, NEW plan, IsPlan(plan, Id), NEW s \in SearchStates(Id)
  PROVE  Examine(plan, s) \in SearchStates(Id)
<1> DEFINE id == Last(s.pending)
           rest == Front(s.pending)
<1>1. s.pending \in Seq(Id) /\ s.seen \in SUBSET Id /\ s.found \in BOOLEAN
  BY DEF SearchStates
<1>2. CASE s.pending = << >>
  BY <1>2 DEF Examine
<1>3. CASE s.pending # << >>
  <2>1. Len(s.pending) \in Nat /\ Len(s.pending) > 0
    BY <1>1, <1>3, EmptySeq
  <2>2. id \in Id
    BY <1>1, <2>1, ElementOfSeq DEF Last
  <2>3. rest \in Seq(Id)
    <3>1. \A k \in 1 .. Len(s.pending) - 1 : s.pending[k] \in Id
      BY <1>1, <2>1, ElementOfSeq
    <3>2. 1 \in Int /\ Len(s.pending) - 1 \in Int
      BY <2>1
    <3> QED
      BY <3>1, <3>2, SubSeqProperties DEF Front
  <2>4. ASSUME id \in Ids(plan) PROVE rest \o plan[TaskOf(plan, id)].deps \in Seq(Id)
    <3>1. TaskOf(plan, id) \in DOMAIN plan
      BY <2>4 DEF TaskOf, Ids
    <3>2. plan[TaskOf(plan, id)].deps \in Seq(Id)
      BY <3>1 DEF IsPlan
    <3> QED
      BY <2>3, <3>2, ConcatProperties
  <2> HIDE DEF id, rest
  <2>5. << >> \in Seq(Id)
    BY EmptySeq
  <2>6. Examine(plan, s) =
          IF id \in s.seen THEN [s EXCEPT !.pending = rest]
          ELSE IF id \in Code(plan) THEN [s EXCEPT !.pending = << >>, !.found = TRUE]
          ELSE IF id \notin Ids(plan) THEN [s EXCEPT !.pending = << >>]
          ELSE [s EXCEPT !.pending = rest \o plan[TaskOf(plan, id)].deps,
                         !.seen = s.seen \cup {id}]
    BY <1>3 DEF Examine, id, rest
  <2>7. \A q \in Seq(Id), e \in SUBSET Id, f \in BOOLEAN :
           [s EXCEPT !.pending = q] \in SearchStates(Id)
           /\ [s EXCEPT !.pending = q, !.found = f] \in SearchStates(Id)
           /\ [s EXCEPT !.pending = q, !.seen = e] \in SearchStates(Id)
    BY DEF SearchStates
  <2>8. s.seen \cup {id} \in SUBSET Id /\ TRUE \in BOOLEAN
    BY <1>1, <2>2
  <2>9. CASE id \in s.seen
    BY <2>3, <2>6, <2>7, <2>9
  <2>10. CASE id \notin s.seen /\ id \in Code(plan)
    BY <2>5, <2>6, <2>7, <2>8, <2>10
  <2>11. CASE id \notin s.seen /\ id \notin Code(plan) /\ id \notin Ids(plan)
    BY <2>5, <2>6, <2>7, <2>11
  <2>12. CASE id \notin s.seen /\ id \notin Code(plan) /\ id \in Ids(plan)
    BY <2>4, <2>6, <2>7, <2>8, <2>12
  <2> QED
    BY <2>9, <2>10, <2>11, <2>12
<1> QED
  BY <1>2, <1>3

(* s has the states of the search of task, by the ids examined.            *)
Searches(s, Id, plan, task) ==
  /\ s \in [0 .. Turns(plan) -> SearchStates(Id)]
  /\ s[0] = [pending |-> task.deps, seen |-> {}, found |-> FALSE]
  /\ \A k \in 1 .. Turns(plan) : s[k] = Examine(plan, s[k - 1])
  /\ FindsCode(plan, task) = s[Turns(plan)].found

(* The search is defined, for as many turns as it is given.                *)
LEMMA SearchRuns ==
  ASSUME NEW Id, NEW plan, IsPlan(plan, Id), Turns(plan) \in Nat,
         NEW task, task.deps \in Seq(Id)
  PROVE  \E s : Searches(s, Id, plan, task)
<1> DEFINE n == Turns(plan)
           S == SearchStates(Id)
           base == [pending |-> task.deps, seen |-> {}, found |-> FALSE]
           After(s) == Examine(plan, s)
           turn == [k \in 1 .. n |-> [s \in S |-> After(s)]]
           Runs(f) == f = [k \in 0 .. n |-> IF k = 0 THEN base ELSE After(f[k - 1])]
           w == CHOOSE f : Runs(f)
<1>1. \A s \in S : After(s) \in S
  BY ExamineTyped
<1>2. w = Search(plan, task)
  BY DEF Search
<1>3. base \in S /\ n \in Nat
  BY DEF SearchStates
<1> HIDE DEF S, After, n, base
<1>4. turn \in [1 .. n -> [S -> S]]
  BY <1>1
<1>5. PICK f : Iterates(f, n, S, base, turn)
  <2> HIDE DEF turn
  <2> QED
    BY <1>3, <1>4, LoopExists
<1>6. Runs(f)
  <2>1. ASSUME NEW k \in 1 .. n PROVE turn[k][f[k - 1]] = After(f[k - 1])
    <3>1. f[k - 1] \in S
      <4> HIDE DEF turn
      <4> QED
        BY <1>3, <1>5 DEF Iterates
    <3> QED
      BY <3>1
  <2> HIDE DEF turn
  <2>2. \A k \in 0 .. n : f[k] = IF k = 0 THEN base ELSE After(f[k - 1])
    BY <1>3, <1>5, <2>1 DEF Iterates
  <2>3. f = [k \in 0 .. n |-> f[k]]
    BY <1>5 DEF Iterates
  <2> QED
    BY <2>2, <2>3
<1>7. Runs(w)
  BY <1>6, Zenon
<1> HIDE DEF w
<1>8. w[0] = base /\ DOMAIN w = 0 .. n /\ w = [k \in 0 .. n |-> w[k]]
  BY <1>3, <1>7
<1>9. \A k \in 1 .. n : w[k] = After(w[k - 1])
  BY <1>3, <1>7
<1>10. w \in [0 .. n -> S]
  <2> DEFINE Good == {k \in Nat : k <= n => w[k] \in S}
  <2>1. 0 \in Good
    BY <1>3, <1>8
  <2>2. ASSUME NEW k \in Nat, k \in Good PROVE k + 1 \in Good
    <3>1. CASE k + 1 <= n
      <4>1. k + 1 \in 1 .. n /\ w[k] \in S /\ (k + 1) - 1 = k
        BY <1>3, <2>2, <3>1
      <4> QED
        BY <1>1, <1>9, <4>1
    <3> QED
      BY <3>1
  <2>3. Nat \subseteq Good
    <3> HIDE DEF Good
    <3> QED
      BY <2>1, <2>2, SetInduction, Zenon
  <2>4. \A k \in 0 .. n : w[k] \in S
    BY <1>3, <2>3
  <2> QED
    BY <1>8, <2>4
<1>11. FindsCode(plan, task) = w[n].found
  BY <1>2 DEF FindsCode, n
<1> QED
  BY <1>8, <1>9, <1>10, <1>11 DEF Searches, S, After, n, base

(* A turn of the search takes the last id of the list.                     *)
Taken(plan, x, y, id, rest) ==
  \/ id \in x.seen /\ y = [x EXCEPT !.pending = rest]
  \/ id \notin x.seen /\ id \in Code(plan) /\ y = [x EXCEPT !.pending = << >>, !.found = TRUE]
  \/ id \notin x.seen /\ id \notin Ids(plan) /\ y = [x EXCEPT !.pending = << >>]
  \/ /\ id \notin x.seen /\ id \in Ids(plan) /\ id \notin Code(plan)
     /\ y = [x EXCEPT !.pending = rest \o plan[TaskOf(plan, id)].deps,
                      !.seen = x.seen \cup {id}]

(* What a turn does to a list that is not empty.                           *)
LEMMA ExamineTakes ==
  ASSUME NEW Id, NEW plan, NEW x \in SearchStates(Id), x.pending # << >>
  PROVE  \E id \in Id, rest \in Seq(Id) :
           /\ Len(rest) = Len(x.pending) - 1
           /\ ToSet(x.pending) = ToSet(rest) \cup {id}
           /\ Taken(plan, x, Examine(plan, x), id, rest)
<1> DEFINE q == x.pending
           id == Last(q)
           rest == Front(q)
<1>1. q \in Seq(Id) /\ Len(q) \in Nat /\ Len(q) > 0 /\ DOMAIN q = 1 .. Len(q)
  BY EmptySeq, LenProperties DEF SearchStates
<1>2. id \in Id /\ id = q[Len(q)]
  BY <1>1, ElementOfSeq DEF Last
<1>3. rest \in Seq(Id) /\ Len(rest) = Len(q) - 1 /\ \A k \in 1 .. Len(q) - 1 : rest[k] = q[k]
  <2>1. \A k \in 1 .. Len(q) - 1 : q[k] \in Id
    BY <1>1, ElementOfSeq
  <2>2. 1 \in Int /\ Len(q) - 1 \in Int
    BY <1>1
  <2> HIDE DEF q
  <2>3. /\ rest \in Seq(Id)
        /\ Len(rest) = IF 1 <= Len(q) - 1 THEN Len(q) - 1 - 1 + 1 ELSE 0
        /\ \A k \in 1 .. Len(q) - 1 - 1 + 1 : rest[k] = q[1 + k - 1]
    BY <2>1, <2>2, SubSeqProperties DEF Front
  <2> HIDE DEF rest
  <2>4. Len(rest) = Len(q) - 1
    <3>1. \A l \in Nat : l > 0 => (IF 1 <= l - 1 THEN l - 1 - 1 + 1 ELSE 0) = l - 1
      OBVIOUS
    <3> QED
      BY <1>1, <2>3, <3>1
  <2>5. ASSUME NEW k \in 1 .. Len(q) - 1 PROVE rest[k] = q[k]
    <3>1. k \in 1 .. Len(q) - 1 - 1 + 1 /\ 1 + k - 1 = k
      BY <1>1
    <3> QED
      BY <2>3, <3>1
  <2> QED
    BY <2>3, <2>4, <2>5
<1>4. ToSet(q) = ToSet(rest) \cup {id}
  <2>1. DOMAIN rest = 1 .. Len(q) - 1
    BY <1>3, LenProperties
  <2> HIDE DEF q, rest, id
  <2>2. 1 .. Len(q) = (1 .. Len(q) - 1) \cup {Len(q)}
    BY <1>1
  <2> QED
    BY <1>1, <1>2, <1>3, <2>1, <2>2 DEF ToSet
<1>5. Taken(plan, x, Examine(plan, x), id, rest)
  BY DEF Taken, Examine
<1> QED
  BY <1>2, <1>3, <1>4, <1>5

(* What is in one list or the other.                                       *)
LEMMA ToSetOfConcat ==
  ASSUME NEW Id, NEW p \in Seq(Id), NEW q \in Seq(Id)
  PROVE  ToSet(p \o q) = ToSet(p) \cup ToSet(q)
<1>1. /\ Len(p) \in Nat /\ DOMAIN p = 1 .. Len(p) /\ Len(q) \in Nat /\ DOMAIN q = 1 .. Len(q)
      /\ DOMAIN (p \o q) = 1 .. Len(p) + Len(q)
  BY LenProperties, ConcatProperties
<1>2. ASSUME NEW i \in 1 .. Len(p) PROVE i \in 1 .. Len(p) + Len(q) /\ (p \o q)[i] = p[i]
  BY <1>1
<1>3. ASSUME NEW i \in 1 .. Len(q)
      PROVE  Len(p) + i \in 1 .. Len(p) + Len(q) /\ (p \o q)[Len(p) + i] = q[i]
  BY <1>1
<1>4. ASSUME NEW i \in 1 .. Len(p) + Len(q)
      PROVE  \/ i \in 1 .. Len(p) /\ (p \o q)[i] = p[i]
             \/ i - Len(p) \in 1 .. Len(q) /\ (p \o q)[i] = q[i - Len(p)]
  BY <1>1
<1> HIDE DEF ToSet
<1>5. ASSUME NEW e \in ToSet(p \o q) PROVE e \in ToSet(p) \cup ToSet(q)
  <2>1. PICK i \in 1 .. Len(p) + Len(q) : e = (p \o q)[i]
    BY <1>1 DEF ToSet
  <2> QED
    BY <1>1, <1>4, <2>1 DEF ToSet
<1>6. ASSUME NEW e \in ToSet(p) PROVE e \in ToSet(p \o q)
  <2>1. PICK i \in 1 .. Len(p) : e = p[i]
    BY <1>1 DEF ToSet
  <2> QED
    BY <1>1, <1>2, <2>1 DEF ToSet
<1>7. ASSUME NEW e \in ToSet(q) PROVE e \in ToSet(p \o q)
  <2>1. PICK i \in 1 .. Len(q) : e = q[i]
    BY <1>1 DEF ToSet
  <2> QED
    BY <1>1, <1>3, <2>1 DEF ToSet
<1> QED
  BY <1>5, <1>6, <1>7

(* What the ids not yet examined and the list may still cost.              *)
Weight(plan, x) == (Len(plan) - Cardinality(x.seen)) * Longest(plan) + Len(x.pending)

(* Every turn lowers the weight, or ends the search.                       *)
LEMMA ExamineCosts ==
  ASSUME NEW Id, NEW plan, IsPlan(plan, Id), plan # << >>,
         NEW x \in SearchStates(Id), x.seen \subseteq Ids(plan), x.pending # << >>
  PROVE  LET y == Examine(plan, x)
         IN  /\ y.seen \subseteq Ids(plan)
             /\ y.pending = << >> \/ Weight(plan, y) + 1 <= Weight(plan, x)
<1> DEFINE y == Examine(plan, x)
           n == Len(plan)
           M == Longest(plan)
           c == Cardinality(x.seen)
<1>1. PICK id \in Id, rest \in Seq(Id) :
         Len(rest) = Len(x.pending) - 1 /\ Taken(plan, x, y, id, rest)
  BY ExamineTakes
<1>2. /\ M \in Nat /\ n \in Nat /\ c \in Nat /\ Len(x.pending) \in Nat
      /\ IsFiniteSet(x.seen)
  <2>1. IsFiniteSet(x.seen)
    BY DistinctIds, FS_Subset
  <2>2. Len(x.pending) \in Nat
    BY DEF SearchStates
  <2> QED
    BY <2>1, <2>2, LongestList, FS_CardinalityType DEF IsPlan
<1> HIDE DEF y
<1>3. CASE id \in x.seen /\ y = [x EXCEPT !.pending = rest]
  <2>1. y.seen = x.seen /\ y.pending = rest
    BY <1>3 DEF SearchStates
  <2> HIDE DEF n, M, c
  <2>2. Weight(plan, y) = (n - c) * M + (Len(x.pending) - 1)
    BY <1>1, <2>1 DEF Weight, n, M, c
  <2>3. Weight(plan, x) = (n - c) * M + Len(x.pending)
    BY DEF Weight, n, M, c
  <2>4. (n - c) * M \in Int
    BY <1>2
  <2> QED
    BY <1>2, <2>1, <2>2, <2>3, <2>4 DEF y
<1>4. CASE /\ id \notin x.seen /\ id \in Ids(plan)
           /\ y = [x EXCEPT !.pending = rest \o plan[TaskOf(plan, id)].deps,
                            !.seen = x.seen \cup {id}]
  <2> DEFINE deps == plan[TaskOf(plan, id)].deps
  <2>1. y.seen = x.seen \cup {id} /\ y.pending = rest \o deps
    BY <1>4 DEF SearchStates
  <2>2. TaskOf(plan, id) \in DOMAIN plan
    BY <1>4 DEF TaskOf, Ids
  <2>3. deps \in Seq(Id) /\ Len(deps) \in Nat /\ Len(deps) <= M
    <3>1. deps \in Seq(Id)
      BY <2>2 DEF IsPlan
    <3>2. \A i \in DOMAIN plan : Len(plan[i].deps) <= M
      BY LongestList
    <3> QED
      BY <2>2, <3>1, <3>2
  <2>4. Len(y.pending) = Len(x.pending) - 1 + Len(deps)
    <3> HIDE DEF deps, M
    <3> QED
      BY <1>1, <2>1, <2>3, ConcatProperties
  <2>5. Cardinality(y.seen) = c + 1
    BY <1>2, <1>4, <2>1, FS_AddElement
  <2> HIDE DEF n, M, c, deps
  <2>6. Weight(plan, y) = (n - (c + 1)) * M + (Len(x.pending) - 1 + Len(deps))
    BY <2>4, <2>5 DEF Weight, n, M
  <2>7. Weight(plan, x) = (n - c) * M + Len(x.pending)
    BY DEF Weight, n, M, c
  <2>8. (n - (c + 1)) * M = (n - c) * M - M /\ (n - c) * M \in Int
    BY <1>2
  <2> DEFINE W == (n - c) * M
  <2>9. W \in Int /\ Weight(plan, x) = W + Len(x.pending)
    BY <2>7, <2>8
  <2>10. Weight(plan, y) = W - M + (Len(x.pending) - 1 + Len(deps))
    BY <2>6, <2>8
  <2> HIDE DEF W
  <2>11. Weight(plan, y) + 1 <= Weight(plan, x)
    BY <1>2, <2>3, <2>9, <2>10
  <2>12. y.seen \subseteq Ids(plan)
    BY <1>4, <2>1
  <2> QED
    BY <2>11, <2>12 DEF y
<1>5. CASE y.seen = x.seen /\ y.pending = << >>
  BY <1>5 DEF y
<1> QED
  BY <1>1, <1>3, <1>4, <1>5 DEF Taken, SearchStates

(* Turns are enough: the list is empty at the end.                         *)
LEMMA SearchEnds ==
  ASSUME NEW Id, NEW plan, IsPlan(plan, Id), plan # << >>, NEW i \in DOMAIN plan,
         NEW s, Searches(s, Id, plan, plan[i])
  PROVE  s[Turns(plan)].pending = << >>
<1> DEFINE n == Len(plan)
           M == Longest(plan)
           N == Turns(plan)
           Good == {k \in Nat : k <= N =>
                      /\ s[k].seen \subseteq Ids(plan)
                      /\ s[k].pending = << >> \/ Weight(plan, s[k]) + k <= N}
<1>1. /\ M \in Nat /\ n \in Nat /\ N \in Nat /\ N = (n + 1) * M
      /\ Len(plan[i].deps) \in Nat /\ Len(plan[i].deps) <= M
  <2>1. M \in Nat /\ n \in Nat /\ N = (n + 1) * M /\ Len(plan[i].deps) <= M
    BY LongestList DEF IsPlan
  <2>2. Len(plan[i].deps) \in Nat
    BY DEF IsPlan
  <2> HIDE DEF M, n, N
  <2> QED
    BY <2>1, <2>2
<1> HIDE DEF M, n, N
<1>2. \A k \in 0 .. N : s[k] \in SearchStates(Id)
  BY DEF Searches, N
<1>3. 0 \in Good
  <2>1. s[0].seen = {} /\ s[0].pending = plan[i].deps
    BY DEF Searches
  <2>2. Cardinality({}) = 0
    BY FS_EmptySet
  <2>3. Weight(plan, s[0]) = n * M + Len(plan[i].deps)
    BY <1>1, <2>1, <2>2 DEF Weight, n, M
  <2>4. n * M + M = N /\ n * M \in Int
    BY <1>1
  <2>5. Weight(plan, s[0]) + 0 <= N
    <3> DEFINE W == n * M
    <3>1. /\ Weight(plan, s[0]) = W + Len(plan[i].deps) /\ W + M = N /\ W \in Int
          /\ Len(plan[i].deps) <= M /\ M \in Nat /\ Len(plan[i].deps) \in Nat
      BY <1>1, <2>3, <2>4
    <3> HIDE DEF W
    <3> QED
      BY <3>1
  <2> QED
    BY <2>1, <2>5
<1>4. ASSUME NEW k \in Nat, k \in Good PROVE k + 1 \in Good
  <2> SUFFICES ASSUME k + 1 <= N
               PROVE  /\ s[k + 1].seen \subseteq Ids(plan)
                      /\ s[k + 1].pending = << >> \/ Weight(plan, s[k + 1]) + (k + 1) <= N
    OBVIOUS
  <2>1. k \in 0 .. N /\ k + 1 \in 1 .. N /\ (k + 1) - 1 = k /\ k <= N
    BY <1>1
  <2>2. s[k + 1] = Examine(plan, s[k])
    BY <2>1 DEF Searches, N
  <2>3. s[k].seen \subseteq Ids(plan) /\ (s[k].pending = << >> \/ Weight(plan, s[k]) + k <= N)
    BY <1>4, <2>1
  <2>4. CASE s[k].pending = << >>
    BY <2>2, <2>3, <2>4 DEF Examine
  <2>5. CASE s[k].pending # << >>
    <3>1. /\ s[k + 1].seen \subseteq Ids(plan)
          /\ s[k + 1].pending = << >> \/ Weight(plan, s[k + 1]) + 1 <= Weight(plan, s[k])
      BY <1>2, <2>1, <2>2, <2>3, <2>5, ExamineCosts
    <3>2. \A j \in 0 .. N : s[j].seen \subseteq Ids(plan) => Weight(plan, s[j]) \in Int
      <4> SUFFICES ASSUME NEW j \in 0 .. N, s[j].seen \subseteq Ids(plan)
                   PROVE  Weight(plan, s[j]) \in Int
        OBVIOUS
      <4>1. Len(s[j].pending) \in Nat
        BY <1>2 DEF SearchStates
      <4>2. Cardinality(s[j].seen) \in Nat
        BY DistinctIds, FS_Subset, FS_CardinalityType
      <4>3. (n - Cardinality(s[j].seen)) * M \in Int
        BY <1>1, <4>2
      <4> QED
        BY <4>1, <4>3 DEF Weight, n, M
    <3>3. Weight(plan, s[k]) \in Int /\ Weight(plan, s[k]) + k <= N
      BY <2>1, <2>3, <2>5, <3>2
    <3>4. Weight(plan, s[k + 1]) \in Int
      BY <2>1, <3>1, <3>2
    <3> QED
      BY <1>1, <3>1, <3>3, <3>4
  <2> QED
    BY <2>4, <2>5
<1>5. N \in Good
  <2> HIDE DEF Good
  <2> QED
    BY <1>1, <1>3, <1>4, SetInduction, Zenon
<1>6. ASSUME s[N].pending # << >> PROVE FALSE
  <2>1. s[N].seen \subseteq Ids(plan) /\ Weight(plan, s[N]) + N <= N
    BY <1>1, <1>5, <1>6
  <2>2. s[N] \in SearchStates(Id)
    BY <1>1, <1>2
  <2>3. Len(s[N].pending) \in Nat /\ Len(s[N].pending) > 0
    BY <1>6, <2>2, EmptySeq DEF SearchStates
  <2> DEFINE c == Cardinality(s[N].seen)
             W == (n - c) * M
  <2>4. c \in Nat /\ c <= n
    <3>1. IsFiniteSet(Ids(plan)) /\ Cardinality(Ids(plan)) <= n
      BY DistinctIds DEF n
    <3>2. c \in Nat /\ c <= Cardinality(Ids(plan)) /\ Cardinality(Ids(plan)) \in Nat
      BY <2>1, <3>1, FS_Subset, FS_CardinalityType
    <3> QED
      BY <1>1, <3>1, <3>2
  <2>5. n - c \in Nat
    BY <1>1, <2>4
  <2>6. W \in Nat
    BY <1>1, <2>5
  <2>7. Weight(plan, s[N]) = W + Len(s[N].pending)
    BY DEF Weight, n, M
  <2>8. N \in Nat
    BY <1>1
  <2> HIDE DEF W, c
  <2> QED
    BY <2>1, <2>3, <2>6, <2>7, <2>8
<1> QED
  BY <1>6 DEF N

(* What holds at every turn of the search for task i.                      *)
Searching(plan, i, x) ==
  LET open == x.seen \cup ToSet(x.pending)
      reached == {plan[j].id : j \in Prerequisites(plan, i)}
  IN  /\ open \subseteq reached
      /\ x.found => \E j \in Prerequisites(plan, i) : plan[j].kind = "code"
      /\ ~x.found =>
           /\ ToSet(plan[i].deps) \subseteq open
           /\ \A j \in DOMAIN plan : plan[j].id \in x.seen =>
                ToSet(plan[j].deps) \subseteq open /\ plan[j].kind # "code"

(* A turn preserves what holds at every turn.                              *)
LEMMA ExamineSearches ==
  ASSUME NEW Id, NEW plan, IsPlan(plan, Id), Distinct(plan), Known(plan), NEW i \in DOMAIN plan,
         NEW x \in SearchStates(Id), Searching(plan, i, x)
  PROVE  Searching(plan, i, Examine(plan, x))
<1> DEFINE y == Examine(plan, x)
           R == Prerequisites(plan, i)
           reached == {plan[j].id : j \in R}
           open == x.seen \cup ToSet(x.pending)
<1> SUFFICES ASSUME x.pending # << >> PROVE Searching(plan, i, y)
  BY DEF Examine
<1>1. PICK id \in Id, rest \in Seq(Id) :
         /\ ToSet(x.pending) = ToSet(rest) \cup {id}
         /\ Taken(plan, x, y, id, rest)
  BY ExamineTakes
<1>2. /\ open \subseteq reached
      /\ x.found => \E j \in R : plan[j].kind = "code"
      /\ ~x.found =>
           /\ ToSet(plan[i].deps) \subseteq open
           /\ \A j \in DOMAIN plan : plan[j].id \in x.seen =>
                ToSet(plan[j].deps) \subseteq open /\ plan[j].kind # "code"
  BY DEF Searching
<1>3. R \subseteq DOMAIN plan /\ Closed(plan, R)
  BY PrerequisitesClosed
<1>4. PICK t \in R : plan[t].id = id
  <2>1. id \in open
    BY <1>1
  <2> QED
    BY <1>2, <2>1
<1>5. t \in DOMAIN plan /\ TaskOf(plan, id) = t /\ id \in Ids(plan)
  BY <1>3, <1>4, TaskOfId DEF Ids
<1>6. id \in Code(plan) <=> plan[t].kind = "code"
  BY <1>4, <1>5 DEF Code, Distinct
<1>7. ToSet(<< >>) = {}
  BY DEF ToSet
<1> HIDE DEF y, R, reached, open
<1>8. CASE id \in x.seen /\ y = [x EXCEPT !.pending = rest]
  <2>1. y.seen = x.seen /\ y.pending = rest /\ y.found = x.found
    BY <1>8 DEF SearchStates
  <2>2. y.seen \cup ToSet(y.pending) = open
    BY <1>1, <1>8, <2>1 DEF open
  <2> QED
    BY <1>2, <2>1, <2>2 DEF Searching, R, reached
<1>9. CASE id \in Code(plan) /\ y = [x EXCEPT !.pending = << >>, !.found = TRUE]
  <2>1. y.seen = x.seen /\ y.pending = << >> /\ y.found
    BY <1>9 DEF SearchStates
  <2>2. y.seen \cup ToSet(y.pending) \subseteq reached
    BY <1>2, <1>7, <2>1 DEF open
  <2>3. \E j \in R : plan[j].kind = "code"
    BY <1>4, <1>6, <1>9
  <2> QED
    BY <2>1, <2>2, <2>3 DEF Searching, R, reached
<1>10. CASE /\ id \notin Code(plan)
            /\ y = [x EXCEPT !.pending = rest \o plan[t].deps, !.seen = x.seen \cup {id}]
  <2> DEFINE new == y.seen \cup ToSet(y.pending)
  <2>1. y.seen = x.seen \cup {id} /\ y.pending = rest \o plan[t].deps /\ y.found = x.found
    BY <1>10 DEF SearchStates
  <2>2. plan[t].deps \in Seq(Id)
    BY <1>5 DEF IsPlan
  <2>3. new = open \cup ToSet(plan[t].deps)
    BY <1>1, <2>1, <2>2, ToSetOfConcat DEF open
  <2>4. ToSet(plan[t].deps) \subseteq reached
    <3> SUFFICES ASSUME NEW e \in ToSet(plan[t].deps) PROVE e \in reached
      OBVIOUS
    <3>1. PICK j \in DOMAIN plan : plan[j].id = e
      BY <1>5 DEF Known
    <3>2. j \in R
      BY <1>3, <1>4, <3>1 DEF Closed, DependsOn
    <3> QED
      BY <3>1, <3>2 DEF reached
  <2> HIDE DEF new
  <2>5. new \subseteq reached
    BY <1>2, <2>3, <2>4
  <2>6. ASSUME ~y.found
        PROVE  /\ ToSet(plan[i].deps) \subseteq new
               /\ \A j \in DOMAIN plan : plan[j].id \in y.seen =>
                    ToSet(plan[j].deps) \subseteq new /\ plan[j].kind # "code"
    <3>1. ToSet(plan[i].deps) \subseteq new
      BY <1>2, <2>1, <2>3, <2>6
    <3>2. ASSUME NEW j \in DOMAIN plan, plan[j].id \in y.seen
          PROVE  ToSet(plan[j].deps) \subseteq new /\ plan[j].kind # "code"
      <4>1. CASE plan[j].id = id
        <5>1. j = t
          BY <1>4, <1>5, <4>1 DEF Distinct
        <5> QED
          BY <1>6, <1>10, <2>3, <5>1
      <4>2. CASE plan[j].id # id
        <5>1. plan[j].id \in x.seen
          BY <2>1, <3>2, <4>2
        <5> QED
          BY <1>2, <2>1, <2>3, <2>6, <5>1
      <4> QED
        BY <4>1, <4>2
    <3> QED
      BY <3>1, <3>2
  <2>7. y.found => \E j \in R : plan[j].kind = "code"
    BY <1>2, <2>1
  <2> QED
    BY <2>5, <2>6, <2>7 DEF Searching, new, R, reached
<1> QED
  BY <1>1, <1>5, <1>8, <1>9, <1>10 DEF Taken

(* The search finds a code task exactly if there is one to be found.       *)
LEMMA SearchDecides ==
  ASSUME NEW Id, NEW plan, IsPlan(plan, Id), Distinct(plan), Known(plan), NEW i \in DOMAIN plan
  PROVE  FindsCode(plan, plan[i]) <=> \E j \in Prerequisites(plan, i) : plan[j].kind = "code"
<1> DEFINE N == Turns(plan)
           R == Prerequisites(plan, i)
<1>1. plan # << >> /\ plan[i].deps \in Seq(Id)
  BY DEF IsPlan
<1>2. N \in Nat
  <2>1. N = (Len(plan) + 1) * Longest(plan) /\ Longest(plan) \in Nat
    BY <1>1, LongestList
  <2>2. Len(plan) + 1 \in Nat
    BY DEF IsPlan
  <2> HIDE DEF N
  <2> QED
    BY <2>1, <2>2
<1>3. PICK s : Searches(s, Id, plan, plan[i])
  BY <1>1, <1>2, SearchRuns
<1>4. s[N].pending = << >>
  BY <1>1, <1>3, SearchEnds
<1>5. Searching(plan, i, s[0])
  <2>1. s[0].seen = {} /\ s[0].pending = plan[i].deps /\ ~s[0].found
    BY <1>3 DEF Searches
  <2>2. ToSet(plan[i].deps) \subseteq {plan[j].id : j \in R}
    <3> SUFFICES ASSUME NEW e \in ToSet(plan[i].deps) PROVE e \in {plan[j].id : j \in R}
      OBVIOUS
    <3>1. PICK j \in DOMAIN plan : plan[j].id = e
      BY DEF Known
    <3>2. j \in R
      BY <3>1, PrerequisitesClosed DEF DependsOn
    <3> QED
      BY <3>1, <3>2
  <2> QED
    BY <2>1, <2>2 DEF Searching
<1>6. Searching(plan, i, s[N])
  <2> DEFINE Good == {k \in Nat : k <= N => Searching(plan, i, s[k])}
  <2>1. 0 \in Good
    BY <1>5
  <2>2. ASSUME NEW k \in Nat, k \in Good PROVE k + 1 \in Good
    <3> SUFFICES ASSUME k + 1 <= N PROVE Searching(plan, i, s[k + 1])
      OBVIOUS
    <3>1. k \in 0 .. N /\ k + 1 \in 1 .. N /\ (k + 1) - 1 = k /\ k <= N
      BY <1>2
    <3>2. s[k + 1] = Examine(plan, s[k]) /\ s[k] \in SearchStates(Id)
      BY <1>3, <3>1 DEF Searches
    <3> QED
      BY <2>2, <3>1, <3>2, ExamineSearches
  <2>3. N \in Good
    <3> HIDE DEF Good
    <3> QED
      BY <1>2, <2>1, <2>2, SetInduction, Zenon
  <2> QED
    BY <1>2, <2>3
<1>7. FindsCode(plan, plan[i]) = s[N].found
  BY <1>3 DEF Searches
<1>8. ASSUME ~s[N].found PROVE \A j \in R : plan[j].kind # "code"
  <2> DEFINE S == {j \in DOMAIN plan : plan[j].id \in s[N].seen}
  <2>1. ToSet(s[N].pending) = {}
    BY <1>4 DEF ToSet
  <2>2. /\ ToSet(plan[i].deps) \subseteq s[N].seen
        /\ \A j \in S : ToSet(plan[j].deps) \subseteq s[N].seen /\ plan[j].kind # "code"
    BY <1>6, <1>8, <2>1 DEF Searching
  <2>3. Closed(plan, S) /\ \A k \in DOMAIN plan : DependsOn(plan, i, k) => k \in S
    BY <2>2 DEF Closed, DependsOn
  <2>4. S \in SUBSET DOMAIN plan
    OBVIOUS
  <2>5. R \subseteq S
    <3> HIDE DEF S
    <3> QED
      BY <2>3, <2>4, PrerequisitesClosed
  <2> QED
    BY <2>2, <2>5
<1>9. s[N].found \in BOOLEAN
  BY <1>2, <1>3 DEF Searches, SearchStates
<1> QED
  BY <1>6, <1>7, <1>8, <1>9 DEF Searching

-----------------------------------------------------------------------------
(* Plans: the sort.                                                        *)

(* A set of numbers that is not empty has its least.                       *)
LEMMA MinBounds ==
  ASSUME NEW S \in SUBSET Nat, S # {}
  PROVE  Min(S) \in S /\ \A x \in S : Min(S) <= x
<1>1. PICK m \in S : \A x \in S : <<x, m>> \notin OpToRel(<, Nat)
  BY WFMin, NatLessThanWellFounded
<1>2. ASSUME NEW x \in S PROVE m <= x
  <2>1. ~(x < m) /\ x \in Nat /\ m \in Nat
    BY <1>1 DEF OpToRel
  <2> QED
    BY <2>1
<1>3. \E y \in S : \A x \in S : y =< x
  BY <1>2
<1> QED
  BY <1>3 DEF Min

(* The tasks whose turn it may be after the first k of order: not yet had  *)
(* and with all they depend on had.                                        *)
ReadyAt(plan, order, k) ==
  {i \in DOMAIN plan :
     /\ \A l \in 1 .. k : order[l] # i
     /\ \A j \in DOMAIN plan : DependsOn(plan, i, j) => \E l \in 1 .. k : order[l] = j}

(* The entries of depends_on of a task that are not in the order.          *)
Unmet(plan, order, i) ==
  {d \in DOMAIN plan[i].deps : \A j \in ToSet(order) : plan[j].id # plan[i].deps[d]}

(* The first of those that are ready is taken each time.                   *)
FirstReady(plan, order) ==
  \A k \in DOMAIN order :
    /\ order[k] \in ReadyAt(plan, order, k - 1)
    /\ \A i \in ReadyAt(plan, order, k - 1) : order[k] <= i

(* The states of the sort.                                                 *)
SortStates(plan) == [order: Seq(DOMAIN plan), degree: [DOMAIN plan -> Int]]

(* What holds of them after k turns.                                       *)
Sorting(plan, x, k) ==
  /\ x \in SortStates(plan)
  /\ \A i \in DOMAIN plan : x.degree[i] = Cardinality(Unmet(plan, x.order, i))
  /\ FirstReady(plan, x.order)
  /\ Len(x.order) = k \/ ReadyAt(plan, x.order, Len(x.order)) = {}

(* The entries that are not met can be counted.                            *)
LEMMA UnmetFinite ==
  ASSUME NEW Id, NEW plan, IsPlan(plan, Id), NEW i \in DOMAIN plan, NEW order
  PROVE  IsFiniteSet(Unmet(plan, order, i)) /\ Cardinality(Unmet(plan, order, i)) \in Nat
<1>1. plan[i].deps \in Seq(Id)
  BY DEF IsPlan
<1>2. Len(plan[i].deps) \in Int /\ 1 \in Int /\ DOMAIN plan[i].deps = 1 .. Len(plan[i].deps)
  BY <1>1, LenProperties
<1>3. IsFiniteSet(1 .. Len(plan[i].deps))
  BY <1>2, FS_Interval
<1>4. Unmet(plan, order, i) \in SUBSET (1 .. Len(plan[i].deps))
  BY <1>2 DEF Unmet
<1> QED
  BY <1>3, <1>4, FS_Subset, FS_CardinalityType

(* A task not in the order has degree 0 exactly if it is ready.            *)
LEMMA ReadyByDegree ==
  ASSUME NEW Id, NEW plan, IsPlan(plan, Id), Distinct(plan), Known(plan),
         NEW order \in Seq(DOMAIN plan), NEW i \in DOMAIN plan
  PROVE  Cardinality(Unmet(plan, order, i)) = 0 /\ i \notin ToSet(order) <=>
           i \in ReadyAt(plan, order, Len(order))
<1>1. DOMAIN order = 1 .. Len(order) /\ ToSet(order) \subseteq DOMAIN plan
  BY LenProperties, ElementOfSeq DEF ToSet
<1>2. Cardinality(Unmet(plan, order, i)) = 0 <=> Unmet(plan, order, i) = {}
  BY UnmetFinite, FS_EmptySet
<1>3. Unmet(plan, order, i) = {} <=>
        \A j \in DOMAIN plan : DependsOn(plan, i, j) => j \in ToSet(order)
  <2>1. ASSUME Unmet(plan, order, i) = {}, NEW j \in DOMAIN plan, DependsOn(plan, i, j)
        PROVE  j \in ToSet(order)
    <3>1. PICK d \in DOMAIN plan[i].deps : plan[i].deps[d] = plan[j].id
      BY <2>1 DEF DependsOn, ToSet
    <3>2. PICK l \in ToSet(order) : plan[l].id = plan[i].deps[d]
      BY <2>1 DEF Unmet
    <3> QED
      BY <1>1, <3>1, <3>2 DEF Distinct
  <2>2. ASSUME \A j \in DOMAIN plan : DependsOn(plan, i, j) => j \in ToSet(order),
               NEW d \in Unmet(plan, order, i)
        PROVE  FALSE
    <3>1. d \in DOMAIN plan[i].deps /\ plan[i].deps[d] \in ToSet(plan[i].deps)
      BY DEF Unmet, ToSet
    <3>2. PICK j \in DOMAIN plan : plan[j].id = plan[i].deps[d]
      BY <3>1 DEF Known
    <3>3. j \in ToSet(order)
      BY <2>2, <3>1, <3>2 DEF DependsOn
    <3> QED
      BY <3>2, <3>3 DEF Unmet
  <2> QED
    BY <2>1, <2>2
<1>4. \A j : j \in ToSet(order) <=> \E l \in 1 .. Len(order) : order[l] = j
  BY <1>1 DEF ToSet
<1> QED
  BY <1>2, <1>3, <1>4 DEF ReadyAt

(* What a list is with one more element.                                   *)
LEMMA AppendAfter ==
  ASSUME NEW D, NEW order \in Seq(D), NEW e \in D
  PROVE  /\ Append(order, e) \in Seq(D) /\ Len(Append(order, e)) = Len(order) + 1
         /\ Len(order) \in Nat
         /\ \A l \in 1 .. Len(order) : Append(order, e)[l] = order[l]
         /\ Append(order, e)[Len(order) + 1] = e
         /\ ToSet(Append(order, e)) = ToSet(order) \cup {e}
<1>1. /\ Append(order, e) \in Seq(D) /\ Len(Append(order, e)) = Len(order) + 1
      /\ Len(order) \in Nat
      /\ \A l \in 1 .. Len(order) : Append(order, e)[l] = order[l]
      /\ Append(order, e)[Len(order) + 1] = e
  BY AppendProperties, LenProperties
<1>2. DOMAIN order = 1 .. Len(order) /\ DOMAIN Append(order, e) = 1 .. Len(order) + 1
  BY <1>1, LenProperties
<1>3. 1 .. Len(order) + 1 = (1 .. Len(order)) \cup {Len(order) + 1}
  BY <1>1
<1>4. ToSet(Append(order, e)) = ToSet(order) \cup {e}
  <2> DEFINE a == Append(order, e)
  <2> HIDE DEF a
  <2>1. /\ DOMAIN a = DOMAIN order \cup {Len(order) + 1}
        /\ \A l \in DOMAIN order : a[l] = order[l]
        /\ a[Len(order) + 1] = e
    BY <1>1, <1>2, <1>3 DEF a
  <2>2. ToSet(a) = ToSet(order) \cup {e}
    BY <2>1 DEF ToSet
  <2> QED
    BY <2>2 DEF a
<1> QED
  BY <1>1, <1>4

(* What is ready after k tasks does not depend on those that come later.   *)
LEMMA ReadyOfPrefix ==
  ASSUME NEW plan, NEW order \in Seq(DOMAIN plan), NEW e \in DOMAIN plan, NEW k \in 0 .. Len(order)
  PROVE  ReadyAt(plan, Append(order, e), k) = ReadyAt(plan, order, k)
<1>1. \A l \in 1 .. k : Append(order, e)[l] = order[l]
  BY AppendAfter
<1> DEFINE a == Append(order, e)
<1> HIDE DEF a
<1>2. \A l \in 1 .. k : a[l] = order[l]
  BY <1>1 DEF a
<1>3. ReadyAt(plan, a, k) = ReadyAt(plan, order, k)
  BY <1>2 DEF ReadyAt
<1> QED
  BY <1>3 DEF a

(* A turn of the sort preserves what holds at every turn.                  *)
LEMMA PopSorts ==
  ASSUME NEW Id, NEW plan, IsPlan(plan, Id), Distinct(plan), Known(plan),
         NEW k \in Nat, NEW x, Sorting(plan, x, k)
  PROVE  Sorting(plan, Pop(plan, x), k + 1)
<1> DEFINE order == x.order
           degree == x.degree
           ready == {i \in DOMAIN plan : degree[i] = 0 /\ i \notin ToSet(order)}
           e == Min(ready)
           y == Pop(plan, x)
           n == Len(order)
<1>1. /\ order \in Seq(DOMAIN plan) /\ degree \in [DOMAIN plan -> Int]
      /\ \A i \in DOMAIN plan : degree[i] = Cardinality(Unmet(plan, order, i))
      /\ FirstReady(plan, order)
      /\ n = k \/ ReadyAt(plan, order, n) = {}
      /\ n \in Nat /\ DOMAIN order = 1 .. n
  BY LenProperties DEF Sorting, SortStates
<1>2. ready = ReadyAt(plan, order, n)
  <2>1. ReadyAt(plan, order, n) \subseteq DOMAIN plan
    BY DEF ReadyAt
  <2> HIDE DEF order, degree, n
  <2>2. \A i \in DOMAIN plan : i \in ready <=> i \in ReadyAt(plan, order, n)
    BY <1>1, ReadyByDegree DEF n
  <2> QED
    BY <2>1, <2>2
<1>3. y = IF ready = {} THEN x
          ELSE [order |-> Append(order, e),
                degree |-> [i \in DOMAIN plan |->
                              degree[i] - Occurrences(plan[e].id, plan[i].deps)]]
  BY DEF Pop
<1> HIDE DEF ready, e, y, n
<1>4. CASE ready = {}
  BY <1>1, <1>2, <1>3, <1>4 DEF Sorting, y, n
<1>5. CASE ready # {}
  <2> DEFINE a == Append(order, e)
  <2>1. ready \in SUBSET Nat
    BY DEF ready, IsPlan
  <2>2. e \in ready /\ \A i \in ready : e <= i
    BY <1>5, <2>1, MinBounds DEF e
  <2>3. e \in DOMAIN plan /\ e \notin ToSet(order)
    BY <2>2 DEF ready
  <2>4. y.order = a /\ y.degree = [i \in DOMAIN plan |->
                                     degree[i] - Occurrences(plan[e].id, plan[i].deps)]
    BY <1>3, <1>5
  <2> HIDE DEF order, degree
  <2>5. /\ a \in Seq(DOMAIN plan) /\ Len(a) = n + 1 /\ a[n + 1] = e
        /\ \A l \in 1 .. n : a[l] = order[l]
        /\ ToSet(a) = ToSet(order) \cup {e}
    <3>1. /\ Append(order, e) \in Seq(DOMAIN plan)
          /\ Len(Append(order, e)) = Len(order) + 1
          /\ \A l \in 1 .. Len(order) : Append(order, e)[l] = order[l]
          /\ Append(order, e)[Len(order) + 1] = e
          /\ ToSet(Append(order, e)) = ToSet(order) \cup {e}
      BY <1>1, <2>3, AppendAfter
    <3> QED
      BY <3>1 DEF n
  <2>6. \A l \in 0 .. n : ReadyAt(plan, a, l) = ReadyAt(plan, order, l)
    BY <1>1, <2>3, ReadyOfPrefix DEF n
  <2>7. DOMAIN a = 1 .. n + 1
    BY <2>5, LenProperties
  <2> HIDE DEF a
  <2>8. FirstReady(plan, a)
    <3> SUFFICES ASSUME NEW l \in 1 .. n + 1
                 PROVE  /\ a[l] \in ReadyAt(plan, a, l - 1)
                        /\ \A i \in ReadyAt(plan, a, l - 1) : a[l] <= i
      BY <2>7 DEF FirstReady
    <3>1. l - 1 \in 0 .. n
      BY <1>1
    <3>2. ReadyAt(plan, a, l - 1) = ReadyAt(plan, order, l - 1)
      BY <2>6, <3>1
    <3>3. CASE l = n + 1
      <4>1. l - 1 = n /\ a[l] = e
        BY <1>1, <2>5, <3>3
      <4> QED
        BY <1>2, <2>2, <3>2, <4>1
    <3>4. CASE l # n + 1
      <4>1. l \in 1 .. n
        BY <1>1, <3>4
      <4> QED
        BY <1>1, <2>5, <3>2, <4>1 DEF FirstReady
    <3> QED
      BY <3>3, <3>4
  <2>9. n = k
    BY <1>1, <1>2, <1>5
  <2>10. ASSUME NEW i \in DOMAIN plan
         PROVE  /\ degree[i] - Occurrences(plan[e].id, plan[i].deps) =
                     Cardinality(Unmet(plan, a, i))
                /\ degree[i] - Occurrences(plan[e].id, plan[i].deps) \in Int
    <3> DEFINE U == Unmet(plan, order, i)
               O == {d \in DOMAIN plan[i].deps : plan[i].deps[d] = plan[e].id}
    <3>1. IsFiniteSet(U) /\ Cardinality(U) \in Nat /\ degree[i] = Cardinality(U)
      BY <1>1, UnmetFinite
    <3>2. ToSet(order) \subseteq DOMAIN plan
      BY <1>1, ElementOfSeq DEF ToSet
    <3>3. O \subseteq U
      BY <2>3, <3>2 DEF Unmet, Distinct
    <3>4. Unmet(plan, a, i) = U \ O
      BY <2>5 DEF Unmet
    <3>5. Occurrences(plan[e].id, plan[i].deps) = Cardinality(O)
      BY DEF Occurrences
    <3> HIDE DEF U, O
    <3>6. Cardinality(U \ O) = Cardinality(U) - Cardinality(U \cap O) /\ U \cap O = O
      BY <3>1, <3>3, FS_Difference
    <3>7. Cardinality(O) \in Nat
      BY <3>1, <3>3, FS_Subset, FS_CardinalityType
    <3> QED
      BY <3>1, <3>4, <3>5, <3>6, <3>7
  <2>11. y \in SortStates(plan)
    <3>1. y.degree \in [DOMAIN plan -> Int]
      BY <2>4, <2>10
    <3>2. y.order \in Seq(DOMAIN plan)
      BY <2>4, <2>5
    <3>3. y = [order |-> y.order, degree |-> y.degree]
      BY <1>3, <1>5
    <3> HIDE DEF y
    <3> QED
      BY <3>1, <3>2, <3>3 DEF SortStates
  <2>12. \A i \in DOMAIN plan : y.degree[i] = Cardinality(Unmet(plan, y.order, i))
    BY <2>4, <2>10
  <2> QED
    BY <2>4, <2>5, <2>8, <2>9, <2>11, <2>12 DEF Sorting, y
<1> QED
  BY <1>4, <1>5

(* What is taken off a degree is a number.                                 *)
LEMMA OccurrencesCount ==
  ASSUME NEW Id, NEW deps \in Seq(Id), NEW id
  PROVE  Occurrences(id, deps) \in Nat
<1>1. Len(deps) \in Int /\ 1 \in Int /\ DOMAIN deps = 1 .. Len(deps)
  BY LenProperties
<1>2. IsFiniteSet(1 .. Len(deps))
  BY <1>1, FS_Interval
<1>3. {k \in DOMAIN deps : deps[k] = id} \in SUBSET (1 .. Len(deps))
  BY <1>1
<1> QED
  BY <1>2, <1>3, FS_Subset, FS_CardinalityType DEF Occurrences

(* A turn of the sort keeps to its states.                                 *)
LEMMA PopTyped ==
  ASSUME NEW Id, NEW plan, IsPlan(plan, Id), NEW x \in SortStates(plan)
  PROVE  Pop(plan, x) \in SortStates(plan)
<1> DEFINE ready == {i \in DOMAIN plan : x.degree[i] = 0 /\ i \notin ToSet(x.order)}
           e == Min(ready)
<1>1. x.order \in Seq(DOMAIN plan) /\ x.degree \in [DOMAIN plan -> Int]
  BY DEF SortStates
<1>2. Pop(plan, x) = IF ready = {} THEN x
          ELSE [order |-> Append(x.order, e),
                degree |-> [i \in DOMAIN plan |->
                              x.degree[i] - Occurrences(plan[e].id, plan[i].deps)]]
  BY DEF Pop
<1>3. CASE ready = {}
  BY <1>2, <1>3
<1>4. CASE ready # {}
  <2>1. ready \in SUBSET Nat
    BY DEF IsPlan
  <2>2. e \in ready
    <3> HIDE DEF ready
    <3> QED
      BY <1>4, <2>1, MinBounds
  <2>3. Append(x.order, e) \in Seq(DOMAIN plan)
    BY <1>1, <2>2, AppendProperties
  <2>4. ASSUME NEW i \in DOMAIN plan
        PROVE  x.degree[i] - Occurrences(plan[e].id, plan[i].deps) \in Int
    <3>1. Occurrences(plan[e].id, plan[i].deps) \in Nat
      BY OccurrencesCount DEF IsPlan
    <3> QED
      BY <1>1, <3>1
  <2> HIDE DEF ready, e
  <2> QED
    BY <1>2, <1>4, <2>3, <2>4 DEF SortStates
<1> QED
  BY <1>3, <1>4

(* s has the states of the sort.                                           *)
Sorts(s, plan) ==
  /\ s[0] = [order |-> << >>, degree |-> Indegree(plan)]
  /\ \A k \in 1 .. Len(plan) : s[k] = Pop(plan, s[k - 1])
  /\ OrderOf(plan) = s[Len(plan)].order

(* The sort is defined, for every plan.                                    *)
LEMMA SortRuns ==
  ASSUME NEW Id, NEW plan, IsPlan(plan, Id)
  PROVE  \E s : Sorts(s, plan)
<1> DEFINE n == Len(plan)
           S == SortStates(plan)
           base == [order |-> << >>, degree |-> Indegree(plan)]
           After(s) == Pop(plan, s)
           turn == [k \in 1 .. n |-> [s \in S |-> After(s)]]
           Runs(f) == f = [k \in 0 .. n |-> IF k = 0 THEN base ELSE After(f[k - 1])]
           w == CHOOSE f : Runs(f)
<1>1. \A s \in S : After(s) \in S
  BY PopTyped
<1>2. w = Sort(plan)
  BY DEF Sort
<1>3. base \in S /\ n \in Nat
  <2>1. Indegree(plan) \in [DOMAIN plan -> Int]
    BY DEF Indegree, IsPlan
  <2>2. << >> \in Seq(DOMAIN plan)
    BY EmptySeq
  <2> QED
    BY <2>1, <2>2 DEF SortStates, IsPlan
<1> HIDE DEF S, After, n, base
<1>4. turn \in [1 .. n -> [S -> S]]
  BY <1>1
<1>5. PICK f : Iterates(f, n, S, base, turn)
  <2> HIDE DEF turn
  <2> QED
    BY <1>3, <1>4, LoopExists
<1>6. Runs(f)
  <2>1. ASSUME NEW k \in 1 .. n PROVE turn[k][f[k - 1]] = After(f[k - 1])
    <3>1. f[k - 1] \in S
      <4> HIDE DEF turn
      <4> QED
        BY <1>3, <1>5 DEF Iterates
    <3> QED
      BY <3>1
  <2> HIDE DEF turn
  <2>2. \A k \in 0 .. n : f[k] = IF k = 0 THEN base ELSE After(f[k - 1])
    BY <1>3, <1>5, <2>1 DEF Iterates
  <2>3. f = [k \in 0 .. n |-> f[k]]
    BY <1>5 DEF Iterates
  <2> QED
    BY <2>2, <2>3
<1>7. Runs(w)
  BY <1>6, Zenon
<1> HIDE DEF w
<1>8. w[0] = base
  BY <1>3, <1>7
<1>9. \A k \in 1 .. n : w[k] = After(w[k - 1])
  BY <1>3, <1>7
<1>10. OrderOf(plan) = w[n].order
  BY <1>2 DEF OrderOf, n
<1> QED
  BY <1>8, <1>9, <1>10 DEF Sorts, After, n, base

(* The order takes the first task that is ready each time, and ends with   *)
(* all tasks or when none is ready.                                        *)
LEMMA SortSorts ==
  ASSUME NEW Id, NEW plan, IsPlan(plan, Id), Distinct(plan), Known(plan)
  PROVE  /\ OrderOf(plan) \in Seq(DOMAIN plan)
         /\ FirstReady(plan, OrderOf(plan))
         /\ \/ Len(OrderOf(plan)) = Len(plan)
            \/ ReadyAt(plan, OrderOf(plan), Len(OrderOf(plan))) = {}
<1> DEFINE n == Len(plan)
<1>1. PICK s : Sorts(s, plan)
  BY SortRuns
<1>2. n \in Nat
  BY DEF IsPlan
<1> DEFINE Good == {k \in Nat : k <= n => Sorting(plan, s[k], k)}
<1>3. 0 \in Good
  <2>1. s[0].order = << >> /\ s[0].degree = Indegree(plan)
    BY <1>1 DEF Sorts
  <2>2. << >> \in Seq(DOMAIN plan) /\ Len(<< >>) = 0 /\ DOMAIN << >> = {} /\ ToSet(<< >>) = {}
    BY EmptySeq DEF ToSet
  <2>3. ASSUME NEW i \in DOMAIN plan
        PROVE  /\ Indegree(plan)[i] = Cardinality(Unmet(plan, << >>, i))
               /\ Indegree(plan)[i] \in Int
    <3>1. plan[i].deps \in Seq(Id)
      BY DEF IsPlan
    <3>2. Len(plan[i].deps) \in Nat /\ DOMAIN plan[i].deps = 1 .. Len(plan[i].deps)
      BY <3>1, LenProperties
    <3> DEFINE l == Len(plan[i].deps)
    <3>3. Unmet(plan, << >>, i) = 1 .. l
      BY <2>2, <3>2 DEF Unmet
    <3>4. Indegree(plan)[i] = l
      BY DEF Indegree
    <3> HIDE DEF l
    <3>5. Cardinality(1 .. l) = l /\ l \in Int
      <4>1. 1 \in Int /\ l \in Int /\ (IF 1 > l THEN 0 ELSE l - 1 + 1) = l
        BY <3>2 DEF l
      <4> QED
        BY <4>1, FS_Interval
    <3> QED
      BY <3>3, <3>4, <3>5
  <2>4. s[0] \in SortStates(plan)
    <3>1. Indegree(plan) \in [DOMAIN plan -> Int]
      BY <2>3 DEF Indegree
    <3> QED
      BY <1>1, <2>2, <3>1 DEF Sorts, SortStates
  <2>5. FirstReady(plan, << >>)
    BY <2>2 DEF FirstReady
  <2> QED
    BY <2>1, <2>2, <2>3, <2>4, <2>5 DEF Sorting
<1>4. ASSUME NEW k \in Nat, k \in Good PROVE k + 1 \in Good
  <2> SUFFICES ASSUME k + 1 <= n PROVE Sorting(plan, s[k + 1], k + 1)
    OBVIOUS
  <2>1. k + 1 \in 1 .. n /\ (k + 1) - 1 = k /\ k <= n
    BY <1>2
  <2>2. s[k + 1] = Pop(plan, s[k])
    BY <1>1, <2>1 DEF Sorts
  <2>3. Sorting(plan, s[k], k)
    BY <1>4, <2>1
  <2> QED
    BY <2>2, <2>3, PopSorts
<1>5. Sorting(plan, s[n], n)
  <2>1. Nat \subseteq Good
    <3> HIDE DEF Good
    <3> QED
      BY <1>3, <1>4, SetInduction, Zenon
  <2> QED
    BY <1>2, <2>1
<1>6. OrderOf(plan) = s[n].order
  BY <1>1 DEF Sorts
<1> QED
  BY <1>5, <1>6 DEF Sorting, SortStates

-----------------------------------------------------------------------------
(* What an order of ready tasks is.                                        *)

(* Such an order has no task twice, and no task before what it depends on. *)
LEMMA OrderOnce ==
  ASSUME NEW plan, NEW order \in Seq(DOMAIN plan), FirstReady(plan, order)
  PROVE  /\ \A k, l \in DOMAIN order : k # l => order[k] # order[l]
         /\ \A k, l \in DOMAIN order : DependsOn(plan, order[l], order[k]) => k < l
<1>1. DOMAIN order = 1 .. Len(order) /\ Len(order) \in Nat
  BY LenProperties
<1>2. ASSUME NEW k \in DOMAIN order, NEW l \in DOMAIN order, k < l PROVE order[k] # order[l]
  <2>1. k \in 1 .. l - 1
    BY <1>1, <1>2
  <2> QED
    BY <2>1 DEF FirstReady, ReadyAt
<1>3. \A k, l \in DOMAIN order : k # l => order[k] # order[l]
  BY <1>1, <1>2
<1>4. ASSUME NEW k \in DOMAIN order, NEW l \in DOMAIN order,
             DependsOn(plan, order[l], order[k])
      PROVE  k < l
  <2>1. order[k] \in DOMAIN plan
    BY <1>1, ElementOfSeq
  <2>2. PICK q \in 1 .. l - 1 : order[q] = order[k]
    BY <1>4, <2>1 DEF FirstReady, ReadyAt
  <2>3. q \in DOMAIN order /\ q < l
    BY <1>1
  <2>4. q = k
    BY <1>3, <2>2, <2>3
  <2> QED
    BY <2>3, <2>4
<1> QED
  BY <1>3, <1>4

(* Tasks once each are all tasks exactly if they are as many.              *)
LEMMA OrderComplete ==
  ASSUME NEW Id, NEW plan, IsPlan(plan, Id), NEW order \in Seq(DOMAIN plan),
         \A k, l \in DOMAIN order : k # l => order[k] # order[l]
  PROVE  Len(order) = Len(plan) <=> ToSet(order) = DOMAIN plan
<1> DEFINE m == Len(order)
           n == Len(plan)
<1>1. m \in Nat /\ n \in Nat /\ DOMAIN order = 1 .. m /\ DOMAIN plan = 1 .. n
  BY LenProperties DEF IsPlan
<1>2. order \in [1 .. m -> 1 .. n]
  BY <1>1, LenProperties
<1> HIDE DEF m, n
<1>3. /\ IsFiniteSet(1 .. m) /\ Cardinality(1 .. m) = m
      /\ IsFiniteSet(1 .. n) /\ Cardinality(1 .. n) = n
  <2>1. /\ 1 \in Int /\ m \in Int /\ n \in Int
        /\ (IF 1 > m THEN 0 ELSE m - 1 + 1) = m /\ (IF 1 > n THEN 0 ELSE n - 1 + 1) = n
    BY <1>1
  <2> QED
    BY <2>1, FS_Interval
<1>4. order \in Injection(1 .. m, 1 .. n)
  BY <1>1, <1>2 DEF Injection, IsInjective
<1>5. m = n <=> order \in Surjection(1 .. m, 1 .. n)
  BY <1>3, <1>4, FS_Injection
<1>6. order \in Surjection(1 .. m, 1 .. n) <=> ToSet(order) = 1 .. n
  <2>1. ToSet(order) = {order[k] : k \in 1 .. m} /\ ToSet(order) \subseteq 1 .. n
    BY <1>1, <1>2 DEF ToSet
  <2>2. ToSet(order) = 1 .. n <=> \A t \in 1 .. n : \E k \in 1 .. m : order[k] = t
    BY <2>1
  <2> QED
    BY <1>2, <2>2 DEF Surjection
<1> QED
  BY <1>1, <1>5, <1>6 DEF m, n

-----------------------------------------------------------------------------
(* What the order says of cycles, and of other orders.                     *)

(* An order that respects the dependencies shows that there is no cycle.   *)
LEMMA OrderedIsAcyclic ==
  ASSUME NEW plan, NEW order \in Seq(DOMAIN plan), FirstReady(plan, order),
         ToSet(order) = DOMAIN plan, NEW i \in DOMAIN plan
  PROVE  i \notin Prerequisites(plan, i)
<1>1. DOMAIN order = 1 .. Len(order) /\ Len(order) \in Nat
  BY LenProperties
<1>2. PICK m \in DOMAIN order : order[m] = i
  BY DEF ToSet
<1> DEFINE S == {j \in DOMAIN plan : \E l \in 1 .. m - 1 : order[l] = j}
<1>3. ASSUME NEW l \in DOMAIN order, NEW k \in DOMAIN plan, DependsOn(plan, order[l], k), l <= m
      PROVE  k \in S
  <2>1. PICK q \in DOMAIN order : order[q] = k
    BY DEF ToSet
  <2>2. q < l
    BY <1>3, <2>1, OrderOnce
  <2>3. q \in 1 .. m - 1
    BY <1>1, <1>3, <2>2
  <2> QED
    BY <2>1, <2>3
<1>4. \A k \in DOMAIN plan : DependsOn(plan, i, k) => k \in S
  <2>1. m <= m
    BY <1>1
  <2> QED
    BY <1>2, <1>3, <2>1
<1>5. Closed(plan, S)
  <2> SUFFICES ASSUME NEW j \in S, NEW k \in DOMAIN plan, DependsOn(plan, j, k)
               PROVE  k \in S
    BY DEF Closed
  <2>1. PICK l \in 1 .. m - 1 : order[l] = j
    OBVIOUS
  <2>2. l \in DOMAIN order /\ l <= m
    BY <1>1
  <2> HIDE DEF S
  <2> QED
    BY <1>3, <2>1, <2>2
<1>6. i \notin S
  <2>1. \A l \in 1 .. m - 1 : l \in DOMAIN order /\ l # m
    BY <1>1
  <2> QED
    BY <1>2, <2>1, OrderOnce
<1>7. S \in SUBSET DOMAIN plan
  OBVIOUS
<1> HIDE DEF S
<1> QED
  BY <1>4, <1>5, <1>6, <1>7, PrerequisitesClosed

(* When no task is ready before all are in the order, there is a cycle.    *)
LEMMA StuckIsCyclic ==
  ASSUME NEW Id, NEW plan, IsPlan(plan, Id), NEW order \in Seq(DOMAIN plan),
         ReadyAt(plan, order, Len(order)) = {}, ToSet(order) # DOMAIN plan
  PROVE  \E i \in DOMAIN plan : i \in Prerequisites(plan, i)
<1> DEFINE Rest == DOMAIN plan \ ToSet(order)
           D == DOMAIN plan
           T == {Prerequisites(plan, i) : i \in Rest}
<1>1. ToSet(order) \subseteq D /\ DOMAIN order = 1 .. Len(order)
  BY LenProperties, ElementOfSeq DEF ToSet
<1>2. Rest # {} /\ Rest \subseteq D
  BY <1>1
<1>3. ASSUME NEW i \in Rest PROVE \E j \in Rest : DependsOn(plan, i, j)
  <2>1. i \in D /\ i \notin ReadyAt(plan, order, Len(order))
    OBVIOUS
  <2>2. \A l \in 1 .. Len(order) : order[l] # i
    BY <1>1 DEF ToSet
  <2>3. PICK j \in D : DependsOn(plan, i, j) /\ \A l \in 1 .. Len(order) : order[l] # j
    BY <2>1, <2>2 DEF ReadyAt
  <2>4. j \notin ToSet(order)
    BY <1>1, <2>3 DEF ToSet
  <2> QED
    BY <2>3, <2>4
<1>4. IsFiniteSet(D)
  <2>1. D = 1 .. Len(plan) /\ Len(plan) \in Int /\ 1 \in Int
    BY DEF IsPlan
  <2> QED
    BY <2>1, FS_Interval
<1>5. IsWellFoundedOn(StrictSubsetOrdering(D), SUBSET D)
  <2> HIDE DEF D
  <2> QED
    BY <1>4, FS_StrictSubsetOrderingWellFounded, FS_FiniteSubsetsOfFinite
<1>6. T \subseteq SUBSET D /\ T # {}
  <2>1. \A i \in Rest : Prerequisites(plan, i) \subseteq D
    BY PrerequisitesClosed
  <2> QED
    BY <1>2, <2>1
<1>7. PICK R \in T : \A Q \in T : <<Q, R>> \notin StrictSubsetOrdering(D)
  <2> HIDE DEF T, D
  <2> QED
    BY <1>5, <1>6, WFMin
<1>8. PICK i \in Rest : R = Prerequisites(plan, i)
  OBVIOUS
<1>9. PICK j \in Rest : DependsOn(plan, i, j)
  BY <1>3
<1>10. j \in Prerequisites(plan, i) /\ i \in D /\ j \in D
  BY <1>9, PrerequisitesClosed
<1>11. Prerequisites(plan, j) \subseteq R
  BY <1>8, <1>10, PrerequisitesShrink
<1>12. Prerequisites(plan, j) \in T /\ R \in SUBSET D /\ Prerequisites(plan, j) \in SUBSET D
  BY <1>6
<1>13. Prerequisites(plan, j) = R
  <2> HIDE DEF T, D
  <2> QED
    BY <1>7, <1>11, <1>12 DEF StrictSubsetOrdering
<1> QED
  BY <1>8, <1>10, <1>13

(* No other order that respects the dependencies comes before.             *)
LEMMA OrderIsFirst ==
  ASSUME NEW Id, NEW plan, IsPlan(plan, Id), NEW order \in Seq(DOMAIN plan),
         FirstReady(plan, order), Len(order) = Len(plan),
         NEW p \in [DOMAIN plan -> DOMAIN plan], Linearizes(p, plan)
  PROVE  ~Before(p, order)
<1> DEFINE n == Len(plan)
<1>1. n \in Nat /\ DOMAIN plan = 1 .. n /\ DOMAIN order = 1 .. n
  BY LenProperties DEF IsPlan
<1> HIDE DEF n
<1>2. p \in [1 .. n -> 1 .. n] /\ \A e \in 1 .. n : \E l \in 1 .. n : p[l] = e
  <2>1. p \in [1 .. n -> 1 .. n]
    BY <1>1
  <2>2. ToSet(p) = 1 .. n
    BY <1>1 DEF Linearizes
  <2> QED
    BY <2>1, <2>2 DEF ToSet
<1>3. IsFiniteSet(1 .. n)
  <2>1. n \in Int /\ 1 \in Int
    BY <1>1
  <2> QED
    BY <2>1, FS_Interval
<1>4. p \in Surjection(1 .. n, 1 .. n)
  BY <1>2 DEF Surjection
<1>5. p \in Injection(1 .. n, 1 .. n)
  BY <1>3, <1>4, FS_Surjection
<1>6. \A k, l \in 1 .. n : k # l => p[k] # p[l]
  BY <1>2, <1>5 DEF Injection, IsInjective
<1> SUFFICES ASSUME NEW k \in 1 .. n, p[k] < order[k],
                    \A j \in 1 .. k - 1 : p[j] = order[j]
             PROVE  FALSE
  BY <1>1, <1>2 DEF Before
<1>7. \A l \in 1 .. k - 1 : l \in 1 .. n /\ l # k
  BY <1>1
<1>8. p[k] \in DOMAIN plan /\ \A l \in 1 .. k - 1 : order[l] # p[k]
  BY <1>1, <1>2, <1>6, <1>7
<1>9. ASSUME NEW j \in DOMAIN plan, DependsOn(plan, p[k], j)
      PROVE  \E l \in 1 .. k - 1 : order[l] = j
  <2>1. PICK q \in 1 .. n : p[q] = j
    BY <1>1, <1>2
  <2>2. q < k
    BY <1>2, <1>9, <2>1 DEF Linearizes
  <2>3. q \in 1 .. k - 1
    BY <1>1, <2>2
  <2> QED
    BY <2>1, <2>3
<1>10. p[k] \in ReadyAt(plan, order, k - 1)
  BY <1>8, <1>9 DEF ReadyAt
<1>11. order[k] <= p[k]
  BY <1>1, <1>10 DEF FirstReady
<1>12. order[k] \in Nat /\ p[k] \in Nat
  <2>1. order[k] \in 1 .. n
    <3>1. k \in 1 .. Len(order)
      BY <1>1 DEF n
    <3>2. order[k] \in DOMAIN plan
      BY <3>1, ElementOfSeq
    <3> QED
      BY <1>1, <3>2
  <2>2. p[k] \in 1 .. n
    BY <1>2
  <2>3. \A e \in 1 .. n : e \in Nat
    BY <1>1
  <2> QED
    BY <2>1, <2>2, <2>3
<1> QED
  BY <1>11, <1>12

-----------------------------------------------------------------------------
(* The verdict.                                                            *)

(* The checks before the sort, in words of relations.                      *)
LEMMA WellFormedMeans ==
  ASSUME NEW Id, NEW plan, IsPlan(plan, Id)
  PROVE  WellFormed(plan) <=>
           /\ Distinct(plan) /\ Known(plan)
           /\ \A i \in DOMAIN plan :
                /\ TaskSupported(plan[i])
                /\ ~DependsOn(plan, i, i)
                /\ plan[i].kind = "test" /\ (\E j \in DOMAIN plan : plan[j].kind = "code") =>
                     \E j \in Prerequisites(plan, i) : plan[j].kind = "code"
<1>1. IdsDistinct(plan) <=> Distinct(plan)
  BY DistinctIds
<1>2. (\A i \in DOMAIN plan : DepsKnown(plan, plan[i])) <=>
        Known(plan) /\ \A i \in DOMAIN plan : ~DependsOn(plan, i, i)
  <2>1. ASSUME NEW i \in DOMAIN plan
        PROVE  DepsKnown(plan, plan[i]) <=>
                 /\ \A id \in ToSet(plan[i].deps) : \E j \in DOMAIN plan : plan[j].id = id
                 /\ ~DependsOn(plan, i, i)
    <3> DEFINE deps == ToSet(plan[i].deps)
    <3>1. DepsKnown(plan, plan[i]) <=> deps \subseteq Ids(plan) /\ plan[i].id \notin deps
      BY DEF DepsKnown
    <3>2. deps \subseteq Ids(plan) <=> \A id \in deps : \E j \in DOMAIN plan : plan[j].id = id
      BY DEF Ids
    <3> QED
      BY <3>1, <3>2 DEF DependsOn
  <2> QED
    BY <2>1 DEF Known
<1>3. Code(plan) # {} <=> \E j \in DOMAIN plan : plan[j].kind = "code"
  BY DEF Code
<1>4. ASSUME Distinct(plan), Known(plan), NEW i \in DOMAIN plan
      PROVE  HasPrerequisite(plan, plan[i]) <=>
               (plan[i].kind = "test" /\ (\E j \in DOMAIN plan : plan[j].kind = "code") =>
                  \E j \in Prerequisites(plan, i) : plan[j].kind = "code")
  BY <1>3, <1>4, SearchDecides DEF HasPrerequisite
<1> QED
  BY <1>1, <1>2, <1>4 DEF WellFormed

(* validate_plan accepts the acceptable plans and no other, and orders     *)
(* them by the first order that respects the dependencies, whatever the    *)
(* number of tasks and the ids.                                            *)
THEOREM EveryPlanDecided ==
  ASSUME NEW Id, NEW plan, IsPlan(plan, Id)
  PROVE  DecidedWell(plan, ValidatePlan(plan))
<1> DEFINE order == OrderOf(plan)
           v == ValidatePlan(plan)
           complete == Len(order) = Len(plan)
<1>1. ASSUME Distinct(plan), Known(plan)
      PROVE  /\ order \in Seq(DOMAIN plan)
             /\ FirstReady(plan, order)
             /\ complete <=> ToSet(order) = DOMAIN plan
             /\ complete <=> \A i \in DOMAIN plan : i \notin Prerequisites(plan, i)
  <2> HIDE DEF order
  <2>1. order \in Seq(DOMAIN plan) /\ FirstReady(plan, order)
    BY <1>1, SortSorts DEF order
  <2>2. complete <=> ToSet(order) = DOMAIN plan
    BY <2>1, OrderOnce, OrderComplete
  <2>3. complete \/ ReadyAt(plan, order, Len(order)) = {}
    BY <1>1, SortSorts DEF order
  <2>4. complete => \A i \in DOMAIN plan : i \notin Prerequisites(plan, i)
    BY <2>1, <2>2, OrderedIsAcyclic
  <2>5. ~complete => \E i \in DOMAIN plan : i \in Prerequisites(plan, i)
    BY <2>1, <2>2, <2>3, StuckIsCyclic
  <2> QED
    BY <2>1, <2>2, <2>4, <2>5
<1>2. ASSUME NEW i \in DOMAIN plan, DependsOn(plan, i, i) PROVE i \in Prerequisites(plan, i)
  BY <1>2, PrerequisitesClosed
<1>3. Acceptable(plan) <=>
        /\ Distinct(plan) /\ Known(plan)
        /\ \A i \in DOMAIN plan :
             /\ TaskSupported(plan[i])
             /\ i \notin Prerequisites(plan, i)
             /\ plan[i].kind = "test" /\ (\E j \in DOMAIN plan : plan[j].kind = "code") =>
                  \E j \in Prerequisites(plan, i) : plan[j].kind = "code"
  BY DEF Acceptable, Distinct, Known, TaskSupported, SupportedKinds, SupportedRisks
<1>4. v.accepted <=> WellFormed(plan) /\ complete
  BY DEF ValidatePlan, Rejected
<1>5. v.accepted => v.order = order
  BY DEF ValidatePlan, Rejected
<1> HIDE DEF v, order
<1>6. v.accepted <=> Acceptable(plan)
  BY <1>1, <1>2, <1>3, <1>4, WellFormedMeans
<1>7. ASSUME v.accepted
      PROVE  /\ Linearizes(v.order, plan)
             /\ \A p \in [DOMAIN plan -> DOMAIN plan] :
                  Linearizes(p, plan) => ~Before(p, v.order)
  <2>1. Distinct(plan) /\ Known(plan) /\ complete /\ v.order = order
    BY <1>4, <1>5, <1>7, WellFormedMeans
  <2>2. order \in Seq(DOMAIN plan) /\ FirstReady(plan, order) /\ ToSet(order) = DOMAIN plan
    BY <1>1, <2>1
  <2>3. Linearizes(order, plan)
    BY <2>1, <2>2, OrderOnce DEF Linearizes
  <2> QED
    BY <2>1, <2>2, <2>3, OrderIsFirst
<1> QED
  BY <1>6, <1>7 DEF DecidedWell, v

-----------------------------------------------------------------------------
(* What the execution of plans takes for granted.                          *)

(* The plan as RunLifecycle has it: a task is its position in the order.   *)
KindOf(plan, order) == [t \in DOMAIN order |-> plan[order[t]].kind]

DepsOf(plan, order) ==
  [t \in DOMAIN order |-> {d \in DOMAIN order : DependsOn(plan, order[t], order[d])}]

(* PlanAssumption of RunLifecycle, of n tasks; and no dependency is lost.  *)
Executable(plan, order, n) ==
  /\ KindOf(plan, order) \in [1 .. n -> SupportedKinds]
  /\ DepsOf(plan, order) \in [1 .. n -> SUBSET (1 .. n)]
  /\ \A t \in 1 .. n :
       /\ \A d \in DepsOf(plan, order)[t] : d < t
       /\ ToSet(plan[order[t]].deps) = {plan[order[d]].id : d \in DepsOf(plan, order)[t]}
       /\ \E u \in 1 .. n : order[u] = t

(* A plan that validate_plan accepts is one RunLifecycle can be given: its *)
(* order has every task once, of a kind that the loop knows, after all     *)
(* that it names as a dependency (run_execution_plan).                     *)
THEOREM AcceptedIsExecutable ==
  ASSUME NEW Id, NEW plan, IsPlan(plan, Id), ValidatePlan(plan).accepted
  PROVE  Executable(plan, ValidatePlan(plan).order, Len(plan))
<1> DEFINE v == ValidatePlan(plan)
           order == v.order
           n == Len(plan)
<1>1. Acceptable(plan) /\ Linearizes(order, plan)
  <2>1. DecidedWell(plan, v)
    BY EveryPlanDecided
  <2> HIDE DEF v
  <2> QED
    BY <2>1 DEF DecidedWell, v
<1>2. order \in Seq(DOMAIN plan)
  <2>1. v.order = OrderOf(plan) /\ WellFormed(plan)
    BY DEF ValidatePlan, Rejected
  <2>2. Distinct(plan) /\ Known(plan)
    BY <2>1, WellFormedMeans
  <2>3. OrderOf(plan) \in Seq(DOMAIN plan)
    BY <2>2, SortSorts
  <2> HIDE DEF v
  <2> QED
    BY <2>1, <2>3
<1> HIDE DEF v
<1>3. n \in Nat /\ DOMAIN plan = 1 .. n /\ DOMAIN order = 1 .. n
  <2>1. Len(order) = n
    BY <1>1 DEF Linearizes
  <2>2. DOMAIN order = 1 .. Len(order)
    BY <1>2, LenProperties
  <2> QED
    BY <2>1, <2>2 DEF IsPlan
<1> HIDE DEF order, n
<1>4. \A t \in 1 .. n : order[t] \in 1 .. n
  <2> SUFFICES ASSUME NEW t \in 1 .. n PROVE order[t] \in 1 .. n
    OBVIOUS
  <2>1. t \in 1 .. Len(order)
    BY <1>2, <1>3, LenProperties
  <2>2. order[t] \in DOMAIN plan
    BY <1>2, <2>1, ElementOfSeq
  <2> QED
    BY <1>3, <2>2
<1>5. \A e \in 1 .. n : \E u \in 1 .. n : order[u] = e
  <2>1. ToSet(order) = 1 .. n
    BY <1>1, <1>3 DEF Linearizes
  <2> QED
    BY <1>3, <2>1 DEF ToSet
<1>6. KindOf(plan, order) \in [1 .. n -> SupportedKinds]
  <2>1. \A i \in 1 .. n : plan[i].kind \in SupportedKinds
    BY <1>1, <1>3 DEF Acceptable, SupportedKinds
  <2> QED
    BY <1>3, <1>4, <2>1 DEF KindOf
<1>7. DepsOf(plan, order) \in [1 .. n -> SUBSET (1 .. n)]
  BY <1>3 DEF DepsOf
<1>8. ASSUME NEW t \in 1 .. n
      PROVE  DepsOf(plan, order)[t] = {d \in 1 .. n : DependsOn(plan, order[t], order[d])}
  BY <1>3 DEF DepsOf
<1>9. ASSUME NEW t \in 1 .. n, NEW d \in DepsOf(plan, order)[t] PROVE d < t
  <2>1. d \in 1 .. n /\ DependsOn(plan, order[t], order[d])
    BY <1>8
  <2> QED
    BY <1>1, <1>3, <2>1 DEF Linearizes
<1>10. ASSUME NEW t \in 1 .. n
       PROVE  ToSet(plan[order[t]].deps) = {plan[order[d]].id : d \in DepsOf(plan, order)[t]}
  <2> DEFINE deps == ToSet(plan[order[t]].deps)
             D == DepsOf(plan, order)[t]
  <2>1. ASSUME NEW id \in deps PROVE \E d \in D : plan[order[d]].id = id
    <3>1. order[t] \in DOMAIN plan
      BY <1>3, <1>4
    <3>2. PICK j \in DOMAIN plan : plan[j].id = id
      <4>1. Known(plan)
        BY <1>1 DEF Acceptable, Known
      <4> QED
        BY <3>1, <4>1 DEF Known
    <3>3. PICK d \in 1 .. n : order[d] = j
      BY <1>3, <1>5
    <3>4. DependsOn(plan, order[t], order[d])
      BY <3>2, <3>3 DEF DependsOn
    <3> QED
      BY <1>8, <3>2, <3>3, <3>4
  <2>2. ASSUME NEW d \in D PROVE plan[order[d]].id \in deps
    BY <1>8 DEF DependsOn
  <2> HIDE DEF deps, D
  <2>3. deps = {plan[order[d]].id : d \in D}
    BY <2>1, <2>2
  <2> QED
    BY <2>3 DEF deps, D
<1>11. Executable(plan, order, n)
  BY <1>5, <1>6, <1>7, <1>9, <1>10 DEF Executable
<1> QED
  BY <1>11 DEF order, n, v

-----------------------------------------------------------------------------
(* The plans that are asked about.                                         *)

(* The ids of the plans that are asked about, and those they invent.       *)
PlanIds == {"t1", "t2", "t3", "t4", "t9", ""}

(* The elements of a finite set in some order.                             *)
LEMMA SetToSeqTyped ==
  ASSUME NEW S, IsFiniteSet(S)
  PROVE  SetToSeq(S) \in Seq(S)
<1> DEFINE n == Cardinality(S)
<1>1. n \in Nat /\ ExistsBijection(1 .. n, S)
  BY FS_CardinalityType
<1> HIDE DEF n
<1>2. \E f \in [1 .. n -> S] : IsInjective(f)
  BY <1>1 DEF ExistsBijection, Bijection, Injection
<1>3. SetToSeq(S) \in [1 .. n -> S]
  BY <1>2 DEF SetToSeq, n
<1> HIDE DEF n
<1> DEFINE s == SetToSeq(S)
<1> HIDE DEF s
<1>4. s \in [1 .. n -> S]
  BY <1>3 DEF s
<1>5. s \in Seq(S)
  BY <1>1, <1>4
<1> QED
  BY <1>5 DEF s

(* The names of some tasks are finitely many.                              *)
LEMMA NamesFinite ==
  ASSUME NEW n \in 0 .. 4, NEW S \in SUBSET (1 .. n)
  PROVE  IsFiniteSet({Name(j) : j \in S})
<1>1. IsFiniteSet(1 .. n)
  <2>1. 1 \in Int /\ n \in Int
    OBVIOUS
  <2> QED
    BY <2>1, FS_Interval
<1>2. IsFiniteSet(S)
  BY <1>1, FS_Subset
<1> DEFINE f == [j \in S |-> Name(j)]
           T == {Name(j) : j \in S}
<1>3. f \in Surjection(S, T)
  BY DEF Surjection
<1> HIDE DEF f, T
<1>4. IsFiniteSet(T)
  BY <1>2, <1>3, FS_Surjection
<1> QED
  BY <1>4 DEF T

(* The plans of every graph are plans.                                     *)
LEMMA GraphPlansAre ==
  ASSUME NEW n \in 0 .. 4, NEW kinds, NEW plan \in GraphPlans(n, kinds)
  PROVE  IsPlan(plan, PlanIds)
<1>1. PICK graph \in LooplessGraphs(n), kind \in [1 .. n -> kinds] : plan = GraphPlan(graph, kind)
  BY DEF GraphPlans
<1>0. graph \in [1 .. n -> SUBSET (1 .. n)]
  BY DEF LooplessGraphs
<1>2. DOMAIN plan = 1 .. n /\ n \in Nat
  BY <1>0, <1>1 DEF GraphPlan
<1>3. Len(plan) = n
  BY <1>0, <1>1, <1>2 DEF GraphPlan
<1>4. \A i \in 1 .. n : Name(i) \in PlanIds
  <2> SUFFICES ASSUME NEW i \in 1 .. n PROVE Name(i) \in PlanIds
    OBVIOUS
  <2>1. i = 1 \/ i = 2 \/ i = 3 \/ i = 4
    OBVIOUS
  <2>2. Name(1) = "t1" /\ Name(2) = "t2" /\ Name(3) = "t3" /\ Name(4) = "t4"
    BY DEF Name
  <2> QED
    BY <2>1, <2>2 DEF PlanIds
<1>5. ASSUME NEW i \in 1 .. n
      PROVE  plan[i].id \in PlanIds /\ plan[i].deps \in Seq(PlanIds)
  <2> DEFINE T == {Name(j) : j \in graph[i]}
  <2>1. graph[i] \in SUBSET (1 .. n)
    BY <1>0
  <2>2. IsFiniteSet(T)
    BY <2>1, NamesFinite
  <2>3. T \subseteq PlanIds
    BY <1>4, <2>1
  <2>4. plan[i].id = Name(i) /\ plan[i].deps = SetToSeq(T)
    BY <1>0, <1>1 DEF GraphPlan
  <2> HIDE DEF T
  <2>5. SetToSeq(T) \in Seq(T)
    BY <2>2, SetToSeqTyped
  <2>6. SetToSeq(T) \in Seq(PlanIds)
    BY <2>3, <2>5, SeqMonotonic
  <2> QED
    BY <1>4, <2>4, <2>6
<1> QED
  BY <1>2, <1>3, <1>5 DEF IsPlan

(* So are those with what is not allowed.                                  *)
LEMMA OddPlansAre ==
  ASSUME NEW plan \in OddPlans
  PROVE  IsPlan(plan, PlanIds)
<1> DEFINE Lists == {<< >>, <<"t1">>, <<"t2">>, <<"t1", "t1">>, <<"t9">>, <<"t1", "t2">>}
<1>1. PICK t \in OddTasks, u \in PlainTasks : plan = <<t, u>>
  BY DEF OddPlans
<1>2. \A l \in Lists : l \in Seq(PlanIds)
  <2>1. "t1" \in PlanIds /\ "t2" \in PlanIds /\ "t9" \in PlanIds
    BY DEF PlanIds
  <2> DEFINE t1 == "t1"
             t2 == "t2"
             t9 == "t9"
  <2>2. t1 \in PlanIds /\ t2 \in PlanIds /\ t9 \in PlanIds
    BY <2>1
  <2> HIDE DEF t1, t2, t9
  <2>3. /\ << >> \in Seq(PlanIds) /\ <<t1>> \in Seq(PlanIds) /\ <<t2>> \in Seq(PlanIds)
        /\ <<t1, t1>> \in Seq(PlanIds) /\ <<t9>> \in Seq(PlanIds)
        /\ <<t1, t2>> \in Seq(PlanIds)
    BY <2>2
  <2> QED
    BY <2>3 DEF t1, t2, t9
<1>3. t.id \in PlanIds /\ t.deps \in Lists
  BY DEF OddTasks, PlanIds
<1>4. u.id \in PlanIds /\ u.deps \in Lists
  BY DEF PlainTasks, PlanIds
<1>5. Len(plan) = 2 /\ DOMAIN plan = 1 .. 2 /\ plan[1] = t /\ plan[2] = u
  BY <1>1
<1> HIDE DEF Lists
<1>6. \A i \in 1 .. 2 : plan[i].id \in PlanIds /\ plan[i].deps \in Seq(PlanIds)
  BY <1>2, <1>3, <1>4, <1>5
<1> QED
  BY <1>5, <1>6 DEF IsPlan

(* In every state, a plan has been accepted exactly if it is acceptable,   *)
(* and been given the first order that respects its dependencies           *)
(* (validate_plan).                                                        *)
THEOREM PlansDecided == Spec => []PlanDecided
<1>1. ASSUME Answered PROVE PlanDecided
  <2> SUFFICES ASSUME Asked("plan")
               PROVE  DecidedWell(question.plan, answer[1])
    BY DEF PlanDecided
  <2>1. question.topic = "plan" /\ answer[1] = Answer(question)
    BY <1>1 DEF Answered, Asked
  <2>2. answer[1] = ValidatePlan(question.plan)
    BY <2>1 DEF Answer
  <2>3. \/ question.plan \in GraphPlans(NTasks, {"code", "test"})
        \/ question.plan \in GraphPlans(NTasks - 1, SupportedKinds)
        \/ question.plan \in OddPlans
    BY <1>1, <2>1 DEF Answered, Questions, PlanQuestions, TriageQuestions, EditQuestions
  <2>4. NTasks \in 0 .. 4 /\ NTasks - 1 \in 0 .. 4
    BY NTasksAssumption
  <2>5. IsPlan(question.plan, PlanIds)
    BY <2>3, <2>4, GraphPlansAre, OddPlansAre
  <2> QED
    BY <2>2, <2>5, EveryPlanDecided
<1> QED
  BY <1>1, AnswersFollow, PTL
=============================================================================
