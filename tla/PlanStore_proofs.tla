-------------------------- MODULE PlanStore_proofs --------------------------
(***************************************************************************)
(* Proofs, for every number of clients, sources and attempts, of the       *)
(* properties of PlanProperties: those of concurrent calls, and those of  *)
(* one call at a time.                                                     *)
(***************************************************************************)
EXTENDS PlanProperties, FiniteSetTheorems, TLAPS

-----------------------------------------------------------------------------
(* The parts of the inductive invariant.                                   *)

(* A call that has begun to compile has its attempt and its source.        *)
JobKnown ==
  \A c \in Clients :
    pc[c] \in {"compiling", "number", "link", "save", "fail"} \/ op[c] = "fail" =>
      job[c].id \in Attempts /\ job[c].source \in Sources

Named(m) ==
  /\ m.status = "compiled" <=> m.revision # NoRevision
  /\ m.revision # NoRevision => Exists(m.revision)

NamesKnown == Named(record) /\ \A c \in Clients : Named(mem[c])

(* Also the copies in memory, which may be saved, invalidate only what is  *)
(* damaged.                                                                *)
DamageKnown ==
  /\ record.invalidated \subseteq damaged
  /\ \A c \in Clients : mem[c].invalidated \subseteq damaged

(* What a call takes for the current revision has been in the record, at   *)
(* the latest when its own repair is written.                              *)
ActiveKnown ==
  /\ record.revision # NoRevision => record.revision \in active
  /\ \A c \in Clients :
       /\ pc[c] = "ensure" /\ mem[c].revision # NoRevision => mem[c].revision \in active
       /\ pc[c] = "repair" => current[c] = mem[c].revision
       /\ pc[c] \in Operations /\ current[c] # NoRevision => current[c] \in active
       /\ pc[c] = "read" => asked[c] \in active

IInv == TypeOK /\ JobKnown /\ NamesKnown /\ DamageKnown /\ ActiveKnown

-----------------------------------------------------------------------------
(* An imported plan is a record.                                          *)
LEMMA NewPlanType == NewPlan \in Records
BY DEF NewPlan, Records, NoRevision

(* What the calls make of a record is a record, here an invalidated one.   *)
LEMMA InvalidatedCopy ==
  ASSUME NEW m \in Records, m.revision \in Revisions
  PROVE  /\ Invalidated(m) \in Records
         /\ Invalidated(m).status = "needs_recompile"
         /\ Invalidated(m).revision = NoRevision
         /\ Invalidated(m).invalidated = m.invalidated \cup {m.revision}
BY DEF Invalidated, Records

(* A record that names a new active revision.                             *)
LEMMA NamingCopy ==
  ASSUME NEW m \in Records, NEW n
  PROVE  /\ n \in Revisions => Naming(m, n) \in Records
         /\ Naming(m, n).status = "compiled"
         /\ Naming(m, n).revision = n
         /\ Naming(m, n).invalidated = m.invalidated
BY DEF Naming, Records

(* Restoring makes an existing revision the active one of the copy.       *)
LEMMA RestoredCopy ==
  ASSUME TypeOK, NEW c \in Clients, Restore(c)
  PROVE  \E n \in Revisions, r \in Records :
           /\ Exists(n)
           /\ r.status = "compiled" /\ r.revision = n
           /\ r.invalidated = mem[c].invalidated
           /\ mem' = [mem EXCEPT ![c] = r]
           /\ current' = [current EXCEPT ![c] = n]
<1>1. PICK n \in Matching(mem[c]) :
        Keep(c, Naming(mem[c], n)) /\ current' = [current EXCEPT ![c] = n]
  BY DEF Restore
<1>2. n \in Revisions /\ Exists(n) /\ mem[c] \in Records
  BY DEF Matching, Readable, TypeOK
<1> QED
  BY <1>1, <1>2, NamingCopy DEF Keep

(* A linked revision becomes the active one of the copy.                  *)
LEMMA LinkedCopy ==
  ASSUME TypeOK, NEW c \in Clients, LinkRevision(c)
  PROVE  \E n \in Revisions, r \in Records :
           /\ files' = [files EXCEPT ![n] = [by |-> job[c].id, source |-> job[c].source]]
           /\ r.status = "compiled" /\ r.revision = n
           /\ r.invalidated = mem[c].invalidated
           /\ mem' = [mem EXCEPT ![c] = r]
<1>1. job[c].revision \in Revisions /\ mem[c] \in Records
  BY DEF LinkRevision, Linkable, TypeOK
<1> QED
  BY <1>1, NamingCopy DEF LinkRevision, Keep

(* Adding an attempt keeps the active and the invalidated revisions.      *)
LEMMA AttemptCopy ==
  ASSUME TypeOK, NEW c \in Clients, job[c].id \in Attempts
  PROVE  /\ WithAttempt(c) \in Records
         /\ WithAttempt(c).status = record.status
         /\ WithAttempt(c).revision = record.revision
         /\ WithAttempt(c).invalidated = record.invalidated
BY DEF WithAttempt, TypeOK, Records

(* A failure keeps the active revision or there was none.                 *)
LEMMA FailedCopy ==
  ASSUME TypeOK, NEW c \in Clients
  PROVE  /\ FailedRecord(c) \in Records
         /\ FailedRecord(c).invalidated = mem[c].invalidated
         /\ \/ FailedRecord(c) = mem[c]
            \/ FailedRecord(c).status = "failed" /\ FailedRecord(c).revision = NoRevision
BY DEF FailedRecord, TypeOK, Records, NoRevision

(* Binding keeps the active and the invalidated revisions.                *)
LEMMA BindingCopy ==
  ASSUME TypeOK, NEW c \in Clients
  PROVE  /\ Binding(c) \in Records
         /\ Binding(c).status = record.status
         /\ Binding(c).revision = record.revision
         /\ Binding(c).invalidated = record.invalidated
BY DEF Binding, TypeOK, Records

(* Numbering a job keeps the type of the jobs.                            *)
LEMMA JobRevision ==
  ASSUME NEW S, NEW T, NEW j \in [Clients -> [id: S, source: T, revision: Nat]],
         NEW c \in Clients, NEW n \in Nat
  PROVE  [j EXCEPT ![c].revision = n + 1] \in [Clients -> [id: S, source: T, revision: Nat]]
OBVIOUS

(* Revision numbers are natural numbers.                                  *)
LEMMA UsedType ==
  ASSUME NEW m \in Records
  PROVE  Used(m) \cup {NoRevision} \subseteq Nat
BY AttemptsAssumption DEF Used, Records, Revisions, NoRevision

(* Every step keeps the types.                                             *)
LEMMA TypeStep == ASSUME TypeOK, JobKnown, [Next]_vars PROVE TypeOK'
<1> USE AttemptsAssumption
    DEF TypeOK, Attempts, Revisions, NoRevision, Records, Operations, Labels
<1>1. ASSUME NEW c \in Clients, Call(c) PROVE TypeOK'
  BY <1>1 DEF Call, Request, Goto, Keep, storeVars, pastVars
<1>2. ASSUME NEW c \in Clients, EnsureCurrent(c) PROVE TypeOK'
  BY <1>2 DEF EnsureCurrent, Goto, Keep, storeVars, pastVars
<1>3. ASSUME NEW c \in Clients, Invalidate(c) PROVE TypeOK'
  BY <1>3, InvalidatedCopy DEF Invalidate, Goto, Keep, storeVars, pastVars
<1>4. ASSUME NEW c \in Clients, Restore(c) PROVE TypeOK'
  <2>1. PICK n \in Matching(mem[c]) :
          Keep(c, Naming(mem[c], n)) /\ current' = [current EXCEPT ![c] = n]
    BY <1>4 DEF Restore
  <2>2. n \in Revisions /\ mem[c] \in Records
    BY DEF Matching
  <2>3. Naming(mem[c], n) \in Records
    BY <2>2, NamingCopy
  <2> QED
    BY <1>4, <2>1, <2>2, <2>3 DEF Restore, Goto, Keep, storeVars, pastVars
<1>5. ASSUME NEW c \in Clients, EnsureNone(c) PROVE TypeOK'
  BY <1>5 DEF EnsureNone, Goto, Keep, storeVars, pastVars
<1>6. ASSUME NEW c \in Clients, RepairRecord(c) PROVE TypeOK'
  BY <1>6 DEF RepairRecord, Goto, WriteRecord, Keep, callVars
<1>7. ASSUME NEW c \in Clients, View(c) PROVE TypeOK'
  BY <1>7, NewPlanType DEF View, Return, DropCopy, Keep, storeVars, pastVars, NoJob
<1>8. ASSUME NEW c \in Clients, ReuseRevision(c) PROVE TypeOK'
  BY <1>8, NewPlanType DEF ReuseRevision, Return, DropCopy, Keep, storeVars, pastVars,
     NoJob
<1>9. ASSUME NEW c \in Clients, BeginCompile(c) PROVE TypeOK'
  <2> DEFINE j == [NoJob EXCEPT !.id = started + 1, !.source = source]
  <2>1. started + 1 \in 0 .. MaxAttempts
    BY <1>9 DEF BeginCompile
  <2>2. j \in [id: 0 .. MaxAttempts, source: Sources \cup {None}, revision: Nat]
    BY <2>1 DEF NoJob
  <2>3. job' = [job EXCEPT ![c] = j]
    BY <1>9 DEF BeginCompile
  <2> HIDE DEF j
  <2>4. job' \in [Clients -> [id: 0 .. MaxAttempts, source: Sources \cup {None},
                            revision: Nat]]
    BY <2>2, <2>3
  <2> QED
    BY <1>9, <2>1, <2>4, NewPlanType DEF BeginCompile, Goto, DropCopy, Keep, storeVars
<1>10. ASSUME NEW c \in Clients, CompileSucceeds(c) PROVE TypeOK'
  BY <1>10, AttemptCopy DEF CompileSucceeds, Goto, Keep, storeVars, pastVars, JobKnown
<1>11. ASSUME NEW c \in Clients, CompileFails(c) PROVE TypeOK'
  BY <1>11, AttemptCopy DEF CompileFails, Goto, Keep, storeVars, pastVars, JobKnown
<1>12. ASSUME NEW c \in Clients, RecordFailure(c) PROVE TypeOK'
  BY <1>12, FailedCopy DEF RecordFailure, Goto, Keep, storeVars, pastVars
<1>13. ASSUME NEW c \in Clients, NumberRevision(c) PROVE TypeOK'
  <2>1. Used(mem[c]) \cup {NoRevision} \subseteq Nat
    BY UsedType
  <2>2. PICK n \in Nat : job' = [job EXCEPT ![c].revision = n + 1]
    BY <1>13, <2>1 DEF NumberRevision
  <2>3. job' \in [Clients -> [id: 0 .. MaxAttempts, source: Sources \cup {None},
                            revision: Nat]]
    BY <2>2, JobRevision
  <2> QED
    BY <1>13, <2>3 DEF NumberRevision, Goto, storeVars, pastVars
<1>14. ASSUME NEW c \in Clients, LinkRevision(c) PROVE TypeOK'
  BY <1>14, NamingCopy DEF LinkRevision, Goto, Keep, pastVars, Linkable, JobKnown
<1>15. ASSUME NEW c \in Clients, RevisionTaken(c) PROVE TypeOK'
  BY <1>15, NewPlanType DEF RevisionTaken, Return, DropCopy, Keep, storeVars, pastVars,
     NoJob
<1>16. ASSUME NEW c \in Clients, SaveAttempt(c) PROVE TypeOK'
  <2>1. record' \in Records /\ active' \subseteq Revisions
    BY <1>16 DEF SaveAttempt, WriteRecord
  <2>2. returned' \subseteq Attempts
    BY <1>16 DEF SaveAttempt, JobKnown
  <2>3. /\ pc' \in [Clients -> Labels] /\ op' \in [Clients -> Operations]
        /\ mem' \in [Clients -> Records]
        /\ asked' \in [Clients -> Revisions \cup {NoRevision}]
        /\ current' \in [Clients -> Revisions \cup {NoRevision}]
    BY <1>16, NewPlanType DEF SaveAttempt, Return, DropCopy, Keep
  <2>4. job' \in [Clients -> [id: 0 .. MaxAttempts, source: Sources \cup {None},
                            revision: Nat]]
    BY <1>16 DEF SaveAttempt, Return, NoJob
  <2> QED
    BY <1>16, <2>1, <2>2, <2>3, <2>4 DEF SaveAttempt
<1>17. ASSUME NEW c \in Clients, RefuseStart(c) PROVE TypeOK'
  BY <1>17, NewPlanType, SMTT(30) DEF RefuseStart, Return, DropCopy, Keep, storeVars, pastVars,
     NoJob
<1>18. ASSUME NEW c \in Clients, AcceptStart(c) PROVE TypeOK'
  BY <1>18, NewPlanType DEF AcceptStart, Goto, DropCopy, Keep, storeVars, pastVars
<1>19. ASSUME NEW c \in Clients, StartPlanRun(c) PROVE TypeOK'
  BY <1>19, NewPlanType DEF StartPlanRun, Return, DropCopy, Keep, storeVars, pastVars,
     NoJob
<1>20. ASSUME NEW c \in Clients, CreateEnds(c) PROVE TypeOK'
  BY <1>20, NewPlanType DEF CreateEnds, Return, DropCopy, Keep, storeVars, pastVars,
     NoJob
<1>21. ASSUME NEW c \in Clients, CheckEligibility(c) PROVE TypeOK'
  BY <1>21 DEF CheckEligibility, Goto, Keep, storeVars, pastVars
<1>22. ASSUME NEW c \in Clients, RefuseProject(c) PROVE TypeOK'
  BY <1>22, NewPlanType DEF RefuseProject, Return, DropCopy, Keep, storeVars, pastVars,
     NoJob
<1>23. ASSUME NEW c \in Clients, AcceptProject(c) PROVE TypeOK'
  BY <1>23, NewPlanType DEF AcceptProject, Goto, DropCopy, Keep, storeVars, pastVars
<1>24. ASSUME NEW c \in Clients, BootstrapProject(c) PROVE TypeOK'
  BY <1>24 DEF BootstrapProject, Goto, Keep, callVars, pastVars
<1>25. ASSUME NEW c \in Clients, BootstrapRaises(c) PROVE TypeOK'
  BY <1>25, NewPlanType DEF BootstrapRaises, Return, DropCopy, Keep, storeVars,
     pastVars, NoJob
<1>26. ASSUME NEW c \in Clients, ReloadToBind(c) PROVE TypeOK'
  BY <1>26, BindingCopy DEF ReloadToBind, Goto, Keep, storeVars, pastVars
<1>27. ASSUME NEW c \in Clients, BindProject(c) PROVE TypeOK'
  <2>1. record' \in Records /\ active' \subseteq Revisions
    BY <1>27 DEF BindProject, WriteRecord
  <2>2. /\ pc' \in [Clients -> Labels] /\ op' \in [Clients -> Operations]
        /\ mem' \in [Clients -> Records]
        /\ asked' \in [Clients -> Revisions \cup {NoRevision}]
        /\ current' \in [Clients -> Revisions \cup {NoRevision}]
    BY <1>27, NewPlanType DEF BindProject, Return, DropCopy, Keep
  <2>3. job' \in [Clients -> [id: 0 .. MaxAttempts, source: Sources \cup {None},
                            revision: Nat]]
    BY <1>27 DEF BindProject, Return, NoJob
  <2> QED
    BY <1>27, <2>1, <2>2, <2>2, <2>3 DEF BindProject
<1>28. ASSUME NEW c \in Clients, Abort(c) PROVE TypeOK'
  BY <1>28, NewPlanType DEF Abort, Return, DropCopy, Keep, storeVars, pastVars, NoJob
<1>29. ASSUME NEW n \in Revisions, Damage(n) PROVE TypeOK'
  BY <1>29 DEF Damage, callVars, pastVars
<1>30. CASE EditSource
  BY <1>30 DEF EditSource, storeVars, callVars, pastVars
<1>31. CASE UNCHANGED vars
  BY <1>31 DEF vars, storeVars, callVars, pastVars
<1> QED
  BY <1>1, <1>2, <1>3, <1>4, <1>5, <1>6, <1>7, <1>8, <1>9, <1>10, <1>11, <1>12, <1>13,
     <1>14, <1>15, <1>16, <1>17, <1>18, <1>19, <1>20, <1>21, <1>22, <1>23, <1>24, <1>25,
     <1>26, <1>27, <1>28, <1>29, <1>30, <1>31 DEF Next, Step

(* Every step keeps the rest of the invariant.                             *)
LEMMA InvStep == ASSUME IInv, [Next]_vars PROVE IInv'
<1>0. TypeOK /\ TypeOK'
  BY TypeStep DEF IInv
<1> USE <1>0, AttemptsAssumption
    DEF IInv, TypeOK, Attempts, Revisions, NoRevision, Records, Operations,
        JobKnown, NamesKnown, Named, DamageKnown, ActiveKnown, Exists
<1>1. ASSUME NEW c \in Clients, Call(c) PROVE IInv'
  BY <1>1 DEF Call, Request, Goto, Keep, storeVars, pastVars
<1>2. ASSUME NEW c \in Clients, EnsureCurrent(c) PROVE IInv'
  BY <1>2, SMTT(30) DEF EnsureCurrent, Goto, Keep, storeVars, pastVars, Readable
<1>3. ASSUME NEW c \in Clients, Invalidate(c) PROVE IInv'
  <2> DEFINE r == Invalidated(mem[c])
  <2>1. /\ mem[c].revision \in Revisions /\ mem[c].revision \in damaged
        /\ mem[c] \in Records
    BY <1>3 DEF Invalidate, Readable
  <2>2. /\ r.status = "needs_recompile" /\ r.revision = NoRevision
        /\ r.invalidated = mem[c].invalidated \cup {mem[c].revision}
    BY <2>1, InvalidatedCopy
  <2>3. current' = [current EXCEPT ![c] = NoRevision]
    BY <1>3 DEF Invalidate
  <2>4. mem' = [mem EXCEPT ![c] = r] /\ pc' = [pc EXCEPT ![c] = "repair"]
    BY <1>3 DEF Invalidate, Goto, Keep
  <2>5. UNCHANGED <<record, files, damaged, op, job, active, asked>>
    BY <1>3 DEF Invalidate, storeVars, pastVars
  <2> HIDE DEF r
  <2>6. JobKnown'
    BY <2>1, <2>2, <2>3, <2>4, <2>5
  <2>7. NamesKnown'
    BY <2>1, <2>2, <2>3, <2>4, <2>5
  <2>8. DamageKnown'
    BY <2>1, <2>2, <2>3, <2>4, <2>5
  <2>9. ActiveKnown'
    BY <2>1, <2>2, <2>3, <2>4, <2>5
  <2> QED
    BY <2>6, <2>7, <2>8, <2>9
<1>4. ASSUME NEW c \in Clients, Restore(c) PROVE IInv'
  <2>1. PICK n \in Revisions, r \in Records :
          /\ Exists(n)
          /\ r.status = "compiled" /\ r.revision = n
          /\ r.invalidated = mem[c].invalidated
          /\ mem' = [mem EXCEPT ![c] = r]
          /\ current' = [current EXCEPT ![c] = n]
    BY <1>4, RestoredCopy
  <2>2. pc' = [pc EXCEPT ![c] = "repair"]
    BY <1>4 DEF Restore, Goto
  <2>3. UNCHANGED <<record, files, damaged, op, job, active, asked>>
    BY <1>4 DEF Restore, storeVars, pastVars
  <2>4. JobKnown'
    BY <2>1, <2>2, <2>3
  <2>5. NamesKnown'
    BY <2>1, <2>2, <2>3
  <2>6. DamageKnown'
    BY <2>1, <2>2, <2>3
  <2>7. ActiveKnown'
    BY <2>1, <2>2, <2>3
  <2> QED
    BY <2>4, <2>5, <2>6, <2>7
<1>5. ASSUME NEW c \in Clients, EnsureNone(c) PROVE IInv'
  <2>1. JobKnown'
    BY <1>5, ZenonT(40) DEF EnsureNone, Goto, Keep, storeVars, pastVars
  <2>2. NamesKnown'
    BY <1>5 DEF EnsureNone, Goto, Keep, storeVars, pastVars
  <2>3. DamageKnown'
    BY <1>5 DEF EnsureNone, Goto, Keep, storeVars, pastVars
  <2>4. ActiveKnown'
    BY <1>5, ZenonT(40) DEF EnsureNone, Goto, Keep, storeVars, pastVars
  <2> QED
    BY <2>1, <2>2, <2>3, <2>4
<1>6. ASSUME NEW c \in Clients, RepairRecord(c) PROVE IInv'
  <2>1. JobKnown'
    BY <1>6, ZenonT(40) DEF RepairRecord, Goto, WriteRecord, Keep, callVars
  <2>2. NamesKnown'
    BY <1>6 DEF RepairRecord, Goto, WriteRecord, Keep, callVars
  <2>3. DamageKnown'
    BY <1>6 DEF RepairRecord, Goto, WriteRecord, Keep, callVars
  <2>4. ActiveKnown'
    BY <1>6 DEF RepairRecord, Goto, WriteRecord, Keep, callVars
  <2> QED
    BY <2>1, <2>2, <2>3, <2>4
<1>7. ASSUME NEW c \in Clients, View(c) PROVE IInv'
  BY <1>7 DEF View, Return, DropCopy, Keep, storeVars, pastVars, NewPlan
<1>8. ASSUME NEW c \in Clients, ReuseRevision(c) PROVE IInv'
  BY <1>8 DEF ReuseRevision, Return, DropCopy, Keep, storeVars, pastVars, NewPlan
<1>9. ASSUME NEW c \in Clients, BeginCompile(c) PROVE IInv'
  BY <1>9, SMTT(30) DEF BeginCompile, Goto, DropCopy, Keep, storeVars, NewPlan
<1>10. ASSUME NEW c \in Clients, CompileSucceeds(c) PROVE IInv'
  <2>1. JobKnown'
    BY <1>10, AttemptCopy DEF CompileSucceeds, Goto, Keep, storeVars, pastVars
  <2>2. NamesKnown'
    BY <1>10, AttemptCopy, SMTT(30) DEF CompileSucceeds, Goto, Keep, storeVars, pastVars
  <2>3. DamageKnown'
    BY <1>10, AttemptCopy DEF CompileSucceeds, Goto, Keep, storeVars, pastVars
  <2>4. ActiveKnown'
    BY <1>10, AttemptCopy DEF CompileSucceeds, Goto, Keep, storeVars, pastVars
  <2> QED
    BY <2>1, <2>2, <2>3, <2>4
<1>11. ASSUME NEW c \in Clients, CompileFails(c) PROVE IInv'
  <2>1. JobKnown'
    BY <1>11, AttemptCopy DEF CompileFails, Goto, Keep, storeVars, pastVars
  <2>2. NamesKnown'
    BY <1>11, AttemptCopy DEF CompileFails, Goto, Keep, storeVars, pastVars
  <2>3. DamageKnown'
    BY <1>11, AttemptCopy DEF CompileFails, Goto, Keep, storeVars, pastVars
  <2>4. ActiveKnown'
    BY <1>11, AttemptCopy DEF CompileFails, Goto, Keep, storeVars, pastVars
  <2> QED
    BY <2>1, <2>2, <2>3, <2>4
<1>12. ASSUME NEW c \in Clients, RecordFailure(c) PROVE IInv'
  <2>1. JobKnown'
    BY <1>12, FailedCopy DEF RecordFailure, Goto, Keep, storeVars, pastVars
  <2>2. NamesKnown'
    BY <1>12, FailedCopy, SMTT(30) DEF RecordFailure, Goto, Keep, storeVars, pastVars
  <2>3. DamageKnown'
    BY <1>12, FailedCopy DEF RecordFailure, Goto, Keep, storeVars, pastVars
  <2>4. ActiveKnown'
    BY <1>12, FailedCopy DEF RecordFailure, Goto, Keep, storeVars, pastVars
  <2> QED
    BY <2>1, <2>2, <2>3, <2>4
<1>13. ASSUME NEW c \in Clients, NumberRevision(c) PROVE IInv'
  BY <1>13 DEF NumberRevision, Goto, Keep, storeVars, pastVars
<1>14. ASSUME NEW c \in Clients, LinkRevision(c) PROVE IInv'
  <2>1. PICK n \in Revisions, r \in Records :
          /\ files' = [files EXCEPT ![n] = [by |-> job[c].id, source |-> job[c].source]]
          /\ r.status = "compiled" /\ r.revision = n
          /\ r.invalidated = mem[c].invalidated
          /\ mem' = [mem EXCEPT ![c] = r]
    BY <1>14, LinkedCopy
  <2>2. files'[n] # None /\ \A k \in Revisions \ {n} : files'[k] = files[k]
    BY <1>14, <2>1, NoneAssumption DEF LinkRevision, JobKnown
  <2>3. pc' = [pc EXCEPT ![c] = "save"]
    BY <1>14 DEF LinkRevision, Goto
  <2>4. /\ UNCHANGED <<record, damaged, op, job, active, asked, current>>
        /\ pc[c] = "link"
    BY <1>14 DEF LinkRevision, pastVars
  <2>5. JobKnown'
    BY <2>1, <2>2, <2>3, <2>4
  <2>6. NamesKnown'
    BY <2>1, <2>2, <2>3, <2>4
  <2>7. DamageKnown'
    BY <2>1, <2>2, <2>3, <2>4
  <2>8. ActiveKnown'
    BY <2>1, <2>2, <2>3, <2>4
  <2> QED
    BY <2>5, <2>6, <2>7, <2>8
<1>15. ASSUME NEW c \in Clients, RevisionTaken(c) PROVE IInv'
  BY <1>15 DEF RevisionTaken, Return, DropCopy, Keep, storeVars, pastVars, NewPlan
<1>16. ASSUME NEW c \in Clients, SaveAttempt(c) PROVE IInv'
  <2>1. JobKnown'
    BY <1>16 DEF SaveAttempt, Return, WriteRecord, DropCopy, Keep, NewPlan
  <2>2. NamesKnown'
    BY <1>16 DEF SaveAttempt, Return, WriteRecord, DropCopy, Keep, NewPlan
  <2>3. DamageKnown'
    BY <1>16 DEF SaveAttempt, Return, WriteRecord, DropCopy, Keep, NewPlan
  <2>4. ActiveKnown'
    BY <1>16 DEF SaveAttempt, Return, WriteRecord, DropCopy, Keep, NewPlan
  <2> QED
    BY <2>1, <2>2, <2>3, <2>4
<1>17. ASSUME NEW c \in Clients, RefuseStart(c) PROVE IInv'
  BY <1>17 DEF RefuseStart, Return, DropCopy, Keep, storeVars, pastVars, NewPlan
<1>18. ASSUME NEW c \in Clients, AcceptStart(c) PROVE IInv'
  BY <1>18, SMTT(30) DEF AcceptStart, Goto, DropCopy, Keep, storeVars, pastVars, NewPlan,
     NamesCurrent, Compiled
<1>19. ASSUME NEW c \in Clients, StartPlanRun(c) PROVE IInv'
  BY <1>19 DEF StartPlanRun, Return, DropCopy, Keep, storeVars, pastVars, NewPlan
<1>20. ASSUME NEW c \in Clients, CreateEnds(c) PROVE IInv'
  BY <1>20 DEF CreateEnds, Return, DropCopy, Keep, storeVars, pastVars, NewPlan
<1>21. ASSUME NEW c \in Clients, CheckEligibility(c) PROVE IInv'
  BY <1>21 DEF CheckEligibility, Goto, Keep, storeVars, pastVars
<1>22. ASSUME NEW c \in Clients, RefuseProject(c) PROVE IInv'
  BY <1>22 DEF RefuseProject, Return, DropCopy, Keep, storeVars, pastVars, NewPlan
<1>23. ASSUME NEW c \in Clients, AcceptProject(c) PROVE IInv'
  BY <1>23 DEF AcceptProject, Goto, DropCopy, Keep, storeVars, pastVars, NewPlan
<1>24. ASSUME NEW c \in Clients, BootstrapProject(c) PROVE IInv'
  BY <1>24 DEF BootstrapProject, Goto, Keep, callVars, pastVars
<1>25. ASSUME NEW c \in Clients, BootstrapRaises(c) PROVE IInv'
  BY <1>25 DEF BootstrapRaises, Return, DropCopy, Keep, storeVars, pastVars, NewPlan
<1>26. ASSUME NEW c \in Clients, ReloadToBind(c) PROVE IInv'
  <2>1. JobKnown'
    BY <1>26, BindingCopy DEF ReloadToBind, Goto, Keep, storeVars, pastVars
  <2>2. NamesKnown'
    BY <1>26, BindingCopy DEF ReloadToBind, Goto, Keep, storeVars, pastVars
  <2>3. DamageKnown'
    BY <1>26, BindingCopy DEF ReloadToBind, Goto, Keep, storeVars, pastVars
  <2>4. ActiveKnown'
    BY <1>26, BindingCopy DEF ReloadToBind, Goto, Keep, storeVars, pastVars
  <2> QED
    BY <2>1, <2>2, <2>3, <2>4
<1>27. ASSUME NEW c \in Clients, BindProject(c) PROVE IInv'
  <2>1. JobKnown'
    BY <1>27 DEF BindProject, Return, WriteRecord, DropCopy, Keep, NewPlan
  <2>2. NamesKnown'
    BY <1>27 DEF BindProject, Return, WriteRecord, DropCopy, Keep, NewPlan
  <2>3. DamageKnown'
    BY <1>27 DEF BindProject, Return, WriteRecord, DropCopy, Keep, NewPlan
  <2>4. ActiveKnown'
    BY <1>27 DEF BindProject, Return, WriteRecord, DropCopy, Keep, NewPlan
  <2> QED
    BY <2>1, <2>2, <2>3, <2>4
<1>28. ASSUME NEW c \in Clients, Abort(c) PROVE IInv'
  BY <1>28 DEF Abort, Return, DropCopy, Keep, storeVars, pastVars, NewPlan
<1>29. ASSUME NEW n \in Revisions, Damage(n) PROVE IInv'
  BY <1>29 DEF Damage, callVars, pastVars, Readable
<1>30. CASE EditSource
  BY <1>30 DEF EditSource, storeVars, callVars, pastVars
<1>31. CASE UNCHANGED vars
  BY <1>31 DEF vars, storeVars, callVars, pastVars
<1> QED
  BY <1>1, <1>2, <1>3, <1>4, <1>5, <1>6, <1>7, <1>8, <1>9, <1>10, <1>11, <1>12, <1>13,
     <1>14, <1>15, <1>16, <1>17, <1>18, <1>19, <1>20, <1>21, <1>22, <1>23, <1>24, <1>25,
     <1>26, <1>27, <1>28, <1>29, <1>30, <1>31 DEF Next, Step

(* IInv is an invariant.                                                   *)
LEMMA Inductive == Spec => []IInv
<1>1. Init => IInv
  <2> SUFFICES ASSUME Init PROVE IInv
    OBVIOUS
  <2>1. Cardinality(Clients) \in Nat
    BY ClientsAssumption, FS_CardinalityType
  <2>2. record \in Records /\ mem \in [Clients -> Records]
    BY NewPlanType DEF Init
  <2>3. job \in [Clients -> [id: 0 .. MaxAttempts, source: Sources \cup {None}, revision: Nat]]
    BY AttemptsAssumption DEF Init, NoJob, NoRevision
  <2>4. files \in [Revisions -> [by: Attempts, source: Sources] \cup {None}]
    BY DEF Init
  <2>5. /\ pc \in [Clients -> Labels] /\ op \in [Clients -> Operations]
        /\ asked \in [Clients -> Revisions \cup {NoRevision}]
        /\ current \in [Clients -> Revisions \cup {NoRevision}]
    BY DEF Init, Labels, Operations, NoRevision
  <2>6. width \in Nat /\ started \in 0 .. MaxAttempts
    BY <2>1, AttemptsAssumption DEF Init
  <2>7. TypeOK
    BY <2>2, <2>3, <2>4, <2>5, <2>6 DEF Init, TypeOK
  <2> QED
    BY <2>7 DEF Init, IInv, NewPlan, JobKnown, NamesKnown, Named, DamageKnown,
       ActiveKnown,
           Operations
<1>2. IInv /\ [Next]_vars => IInv'
  BY InvStep
<1> QED
  BY <1>1, <1>2, PTL DEF Spec

-----------------------------------------------------------------------------
(* The record, the revisions and the copies of all calls keep their types. *)
THEOREM PlanTypes == Spec => []TypeOK
<1>1. IInv => TypeOK
  BY DEF IInv
<1> QED
  BY <1>1, Inductive, PTL

(* Compiled means that an existing revision is named, in the record and in *)
(* every copy that a call may still save.                                  *)
THEOREM PlanNamesRevisions == Spec => []NamesWrittenRevisions
<1>1. IInv => NamesWrittenRevisions
  BY DEF IInv, NamesKnown, Named, NamesWrittenRevisions
<1> QED
  BY <1>1, Inductive, PTL

(* No view invalidates a revision that can be read.                        *)
THEOREM PlanInvalidation == Spec => []InvalidatedAreDamaged
<1>1. IInv => InvalidatedAreDamaged
  BY DEF IInv, DamageKnown, InvalidatedAreDamaged
<1> QED
  BY <1>1, Inductive, PTL

(* A run reads only a revision that has been active.                       *)
THEOREM PlanRunsActive == Spec => []RunsWereActive
<1>1. IInv => RunsWereActive
  BY DEF IInv, ActiveKnown, RunsWereActive
<1> QED
  BY <1>1, Inductive, PTL

(* No call changes a revision that has been written.                       *)
THEOREM PlanRevisionsImmutable == Spec => RevisionsImmutable
<1> DEFINE Immutable == \A n \in Revisions : files[n] # None => files'[n] = files[n]
<1>1. IInv /\ [Next]_vars => [Immutable]_vars
  <2> SUFFICES ASSUME TypeOK, Next PROVE Immutable
    BY DEF IInv
  <2>1. CASE \E c \in Clients : LinkRevision(c)
    BY <2>1 DEF LinkRevision, Linkable, Exists, TypeOK
  <2>2. CASE UNCHANGED files
    BY <2>2
  <2>3. (\E c \in Clients : LinkRevision(c)) \/ UNCHANGED files
    BY ZenonT(40) DEF Next, Call, Request, Step, Abort, Damage, EditSource, storeVars,
       EnsureCurrent, Invalidate, Restore, EnsureNone, RepairRecord, View,
       ReuseRevision, BeginCompile, CompileSucceeds, CompileFails, RecordFailure,
       NumberRevision, RevisionTaken, SaveAttempt, RefuseStart, AcceptStart,
       StartPlanRun, CreateEnds, CheckEligibility, RefuseProject, AcceptProject,
       BootstrapProject, BootstrapRaises, ReloadToBind, BindProject
  <2> QED
    BY <2>1, <2>2, <2>3
<1> QED
  BY <1>1, Inductive, PTL DEF Spec, RevisionsImmutable
-----------------------------------------------------------------------------
(* One call at a time.                                                     *)

(* With width 1 one call is active.                                        *)
OneInv ==
  width = 1 => \A c, d \in Clients : pc[c] # "idle" /\ pc[d] # "idle" => c = d

(* The copy a call may still save has every attempt and the binding of the *)
(* record, and a revision that is not an older one.                        *)
Copy(c) ==
  /\ pc[c] \in {"ensure", "repair", "fail", "number", "link", "save", "bind"} =>
       /\ record.attempts \subseteq mem[c].attempts
       /\ record.bound => mem[c].bound
  /\ pc[c] \in {"number", "link", "save", "fail"} \/
       (op[c] = "fail" /\ pc[c] \in {"ensure", "repair"}) =>
       job[c].id \in mem[c].attempts
  /\ pc[c] \in {"ensure", "fail", "number", "bind"} => mem[c].revision = record.revision
  /\ pc[c] = "fail" /\ current[c] = NoRevision => mem[c].revision = NoRevision
  /\ pc[c] = "link" /\ record.revision # NoRevision => job[c].revision > record.revision
  /\ pc[c] \in {"repair", "save"} /\ record.revision \in Revisions \ damaged =>
       mem[c].revision >= record.revision

CopiesInv == width = 1 => returned \subseteq record.attempts /\ \A c \in Clients : Copy(c)

SerialInv == IInv /\ OneInv /\ CopiesInv

(* A call that begins when none may be active beside it is alone.          *)
LEMMA Alone ==
  ASSUME TypeOK, NEW c \in Clients, Call(c), width = 1
  PROVE  \A d \in Clients : pc[d] = "idle"
<1> DEFINE Busy == {d \in Clients : pc[d] # "idle"}
<1>1. IsFiniteSet(Busy)
  BY ClientsAssumption, FS_Subset
<1>2. Cardinality(Busy) \in Nat
  BY <1>1, FS_CardinalityType
<1>3. Cardinality(Busy) = 0
  BY <1>2 DEF Call, Request
<1> QED
  BY <1>1, <1>3, FS_EmptySet

(* Only a call that begins leaves "idle".                                  *)
LEMMA OthersStay ==
  ASSUME TypeOK, NEW c \in Clients, Step(c) \/ Abort(c)
  PROVE  /\ pc[c] # "idle" /\ width' = width
         /\ \A d \in Clients \ {c} : pc'[d] = pc[d]
BY DEF TypeOK, Step, Abort, Goto, Return, pastVars,
   EnsureCurrent, Invalidate, Restore, EnsureNone, RepairRecord, View, ReuseRevision,
   BeginCompile, CompileSucceeds, CompileFails, RecordFailure, NumberRevision,
   LinkRevision, RevisionTaken, SaveAttempt, RefuseStart, AcceptStart, StartPlanRun,
   CreateEnds, CheckEligibility, RefuseProject, AcceptProject, BootstrapProject,
   BootstrapRaises, ReloadToBind, BindProject

(* At most one call stays active.                                          *)
LEMMA OneStep == ASSUME TypeOK, OneInv, [Next]_vars PROVE OneInv'
<1>1. ASSUME NEW c \in Clients, Call(c) PROVE OneInv'
  <2> SUFFICES ASSUME width = 1 PROVE \A d \in Clients \ {c} : pc'[d] = "idle"
    BY <1>1 DEF Call, Request, pastVars, OneInv
  <2>1. \A d \in Clients : pc[d] = "idle"
    BY <1>1, Alone
  <2> QED
    BY <1>1, <2>1 DEF Call, Request, Goto, TypeOK
<1>2. ASSUME NEW c \in Clients, Step(c) \/ Abort(c) PROVE OneInv'
  BY <1>2, OthersStay DEF OneInv
<1>3. CASE (\E n \in Revisions : Damage(n)) \/ EditSource \/ UNCHANGED vars
  BY <1>3 DEF Damage, EditSource, vars, pastVars, OneInv
<1> QED
  BY <1>1, <1>2, <1>3 DEF Next

(* Every step of a call that is alone keeps its copy.                      *)
LEMMA CopyStep ==
  ASSUME IInv, IInv', returned \subseteq record.attempts,
         NEW c \in Clients, Copy(c), Step(c) \/ Abort(c)
  PROVE  returned' \subseteq record'.attempts /\ Copy(c)'
<1> DEFINE Kept == returned' \subseteq record'.attempts /\ Copy(c)'
<1> TypeOK /\ TypeOK' /\ mem[c] \in Records /\ record \in Records
  BY DEF IInv, TypeOK
<1> USE DEF Copy, TypeOK, NoRevision
<1>1. CASE EnsureCurrent(c)
  BY <1>1 DEF EnsureCurrent, Goto, Keep, storeVars, pastVars, Operations
<1>2. CASE Invalidate(c)
  <2> DEFINE r == Invalidated(mem[c])
  <2>1. r.attempts = mem[c].attempts /\ r.bound = mem[c].bound
    BY DEF Invalidated, Records
  <2>2. mem'[c] = r /\ pc'[c] = "repair"
    BY <1>2 DEF Invalidate, Keep, Goto
  <2>3. pc[c] = "ensure" /\ mem[c].revision = record.revision
    BY <1>2 DEF Invalidate
  <2>4. record.revision \notin Revisions \ damaged
    BY <1>2, <2>3 DEF Invalidate, Readable, IInv, NamesKnown, Named
  <2>5. UNCHANGED <<record, returned, damaged, op, job>>
    BY <1>2 DEF Invalidate, storeVars, pastVars
  <2> HIDE DEF r
  <2> QED
    BY <2>1, <2>2, <2>3, <2>4, <2>5
<1>3. CASE Restore(c)
  <2>1. PICK n \in Matching(mem[c]) : Keep(c, Naming(mem[c], n))
    BY <1>3 DEF Restore
  <2>2. Naming(mem[c], n).attempts = mem[c].attempts /\ Naming(mem[c], n).bound = mem[c].bound
    BY DEF Naming, Records
  <2>3. record.revision = NoRevision /\ pc'[c] = "repair"
    BY <1>3 DEF Restore, Goto
  <2> QED
    BY <1>3, <2>1, <2>2, <2>3 DEF Restore, Goto, Keep, storeVars, pastVars, Revisions
<1>4. CASE EnsureNone(c)
  BY <1>4 DEF EnsureNone, Goto, Keep, storeVars, pastVars, Operations
<1>5. CASE RepairRecord(c)
  BY <1>5 DEF RepairRecord, Goto, Keep, storeVars, pastVars, Operations, WriteRecord,
     callVars, IInv, ActiveKnown
<1>6. CASE View(c)
  BY <1>6 DEF View, Return, DropCopy, Keep, storeVars, pastVars
<1>7. CASE ReuseRevision(c)
  BY <1>7 DEF ReuseRevision, Return, DropCopy, Keep, storeVars, pastVars
<1>8. CASE BeginCompile(c)
  BY <1>8 DEF BeginCompile, Goto, Keep, storeVars, pastVars, DropCopy
<1>9. CASE CompileSucceeds(c)
  BY <1>9, AttemptCopy DEF CompileSucceeds, Goto, Keep, storeVars, pastVars,
     WithAttempt, Records
<1>10. CASE CompileFails(c)
  BY <1>10, AttemptCopy DEF CompileFails, Goto, Keep, storeVars, pastVars,
     WithAttempt, Records
<1>11. CASE RecordFailure(c)
  <2> DEFINE r == FailedRecord(c)
  <2>1. /\ r.attempts = mem[c].attempts /\ r.bound = mem[c].bound
        /\ r.revision = mem[c].revision
    BY <1>11 DEF FailedRecord, RecordFailure, Records
  <2>2. mem'[c] = r /\ pc'[c] = "save" /\ pc[c] = "fail"
    BY <1>11 DEF RecordFailure, Keep, Goto
  <2>3. job[c].id \in mem[c].attempts
    BY <1>11 DEF RecordFailure
  <2>4. UNCHANGED <<record, returned, damaged, op, job>>
    BY <1>11 DEF RecordFailure, storeVars, pastVars
  <2> HIDE DEF r
  <2> QED
    BY <2>1, <2>2, <2>3, <2>4, AttemptsAssumption DEF Records, Revisions
<1>12. CASE NumberRevision(c)
  <2>1. PICK n \in Used(mem[c]) \cup {NoRevision} :
          /\ \A k \in Used(mem[c]) : k <= n
          /\ job' = [job EXCEPT ![c].revision = n + 1]
    BY <1>12 DEF NumberRevision
  <2>2. n \in Nat /\ record.revision \in Nat
    <3>1. Used(mem[c]) \cup {NoRevision} \subseteq Nat
      BY UsedType
    <3>2. record.revision \in Nat
      BY AttemptsAssumption DEF Records, Revisions
    <3> QED
      BY <2>1, <3>1, <3>2
  <2>3. record.revision # NoRevision => record.revision <= n
    BY <1>12, <2>1 DEF NumberRevision, Used
  <2>4. job'[c].revision = n + 1 /\ job'[c].id = job[c].id
    BY <2>1
  <2> QED
    BY <1>12, <2>2, <2>3, <2>4 DEF NumberRevision, Goto, storeVars, pastVars
<1>13. CASE LinkRevision(c)
  <2> DEFINE n == job[c].revision
             r == Naming(mem[c], n)
  <2>1. r.attempts = mem[c].attempts /\ r.bound = mem[c].bound /\ r.revision = n
    BY DEF Naming, Records
  <2>2. mem'[c] = r /\ pc'[c] = "save" /\ pc[c] = "link" /\ n \in Revisions
    BY <1>13 DEF LinkRevision, Keep, Goto, Linkable
  <2>3. UNCHANGED <<record, returned, damaged, op, job>>
    BY <1>13 DEF LinkRevision, pastVars
  <2> HIDE DEF r
  <2> QED
    BY <2>1, <2>2, <2>3, AttemptsAssumption DEF Records, Revisions
<1>14. CASE RevisionTaken(c)
  BY <1>14 DEF RevisionTaken, Return, DropCopy, Keep, storeVars, pastVars
<1>15. CASE SaveAttempt(c)
  BY <1>15 DEF SaveAttempt, Return, DropCopy, Keep, WriteRecord
<1>16. CASE RefuseStart(c)
  BY <1>16 DEF RefuseStart, Return, DropCopy, Keep, storeVars, pastVars
<1>17. CASE AcceptStart(c)
  BY <1>17 DEF AcceptStart, Goto, Keep, storeVars, pastVars, DropCopy
<1>18. CASE StartPlanRun(c)
  BY <1>18 DEF StartPlanRun, Return, DropCopy, Keep, storeVars, pastVars
<1>19. CASE CreateEnds(c)
  BY <1>19 DEF CreateEnds, Return, DropCopy, Keep, storeVars, pastVars
<1>20. CASE CheckEligibility(c)
  BY <1>20 DEF CheckEligibility, Goto, Keep, storeVars, pastVars
<1>21. CASE RefuseProject(c)
  BY <1>21 DEF RefuseProject, Return, DropCopy, Keep, storeVars, pastVars
<1>22. CASE AcceptProject(c)
  BY <1>22 DEF AcceptProject, Goto, Keep, storeVars, pastVars, DropCopy
<1>23. CASE BootstrapProject(c)
  BY <1>23 DEF BootstrapProject, Goto, Keep, storeVars, pastVars, callVars
<1>24. CASE BootstrapRaises(c)
  BY <1>24 DEF BootstrapRaises, Return, DropCopy, Keep, storeVars, pastVars
<1>25. CASE ReloadToBind(c)
  <2> DEFINE r == Binding(c)
  <2>1. r.attempts = record.attempts /\ r.bound /\ r.revision = record.revision
    BY DEF Binding, Records
  <2>2. mem'[c] = r /\ pc'[c] = "bind"
    BY <1>25 DEF ReloadToBind, Keep, Goto
  <2>3. UNCHANGED <<record, returned, damaged, op, job>>
    BY <1>25 DEF ReloadToBind, storeVars, pastVars
  <2> HIDE DEF r
  <2> QED
    BY <2>1, <2>2, <2>3
<1>26. CASE BindProject(c)
  BY <1>26 DEF BindProject, Return, DropCopy, Keep, WriteRecord
<1>27. CASE Abort(c)
  BY <1>27 DEF Abort, Return, DropCopy, Keep, storeVars, pastVars
<1> QED
  BY <1>1, <1>2, <1>3, <1>4, <1>5, <1>6, <1>7, <1>8, <1>9, <1>10, <1>11, <1>12, <1>13,
  <1>14, <1>15, <1>16, <1>17, <1>18, <1>19, <1>20, <1>21, <1>22, <1>23, <1>24, <1>25,
  <1>26, <1>27 DEF Step

(* Every step keeps the copies.                                            *)
LEMMA CopiesStep ==
  ASSUME IInv, IInv', OneInv, CopiesInv, [Next]_vars
  PROVE  CopiesInv'
<1>1. ASSUME NEW c \in Clients, Call(c) PROVE CopiesInv'
  <2> SUFFICES ASSUME width = 1
               PROVE  returned' \subseteq record'.attempts /\ \A d \in Clients : Copy(d)'
    BY <1>1 DEF CopiesInv, Call, Request, pastVars
  <2>1. \A d \in Clients : pc[d] = "idle"
    BY <1>1, Alone DEF IInv
  <2>2. /\ pc' = [pc EXCEPT ![c] = "ensure"] /\ mem' = [mem EXCEPT ![c] = record]
        /\ UNCHANGED <<record, returned>>
    BY <1>1 DEF Call, Request, Goto, Keep, storeVars, pastVars
  <2>3. op'[c] # "fail"
    BY <1>1 DEF Call, Request, IInv, TypeOK
  <2>4. returned' \subseteq record'.attempts
    BY <2>2 DEF CopiesInv
  <2>5. Copy(c)'
    BY <2>2, <2>3 DEF Copy, IInv, TypeOK
  <2>6. ASSUME NEW d \in Clients \ {c} PROVE Copy(d)'
    BY <2>1, <2>2 DEF Copy, IInv, TypeOK
  <2> QED
    BY <2>4, <2>5, <2>6
<1>2. ASSUME NEW c \in Clients, Step(c) \/ Abort(c) PROVE CopiesInv'
  <2> SUFFICES ASSUME width = 1
               PROVE  returned' \subseteq record'.attempts /\ \A d \in Clients : Copy(d)'
    BY <1>2, OthersStay DEF CopiesInv, IInv
  <2>1. returned' \subseteq record'.attempts /\ Copy(c)'
    BY <1>2, CopyStep DEF CopiesInv
  <2>2. ASSUME NEW d \in Clients \ {c} PROVE Copy(d)'
    BY <1>2, OthersStay DEF OneInv, Copy, IInv
  <2> QED
    BY <2>1, <2>2
<1>3. CASE \E n \in Revisions : Damage(n)
  BY <1>3 DEF Damage, callVars, pastVars, CopiesInv, Copy
<1>4. CASE EditSource
  BY <1>4 DEF EditSource, callVars, pastVars, CopiesInv, Copy
<1>5. CASE UNCHANGED vars
  BY <1>5 DEF vars, storeVars, callVars, pastVars, CopiesInv, Copy
<1> QED
  BY <1>1, <1>2, <1>3, <1>4, <1>5 DEF Next

(* SerialInv is an invariant.                                              *)
LEMMA SerialInductive == Spec => []SerialInv
<1>1. Init => OneInv /\ CopiesInv
  BY DEF Init, OneInv, CopiesInv, Copy, NewPlan
<1>2. IInv /\ IInv' /\ OneInv /\ CopiesInv /\ [Next]_vars => OneInv' /\ CopiesInv'
  BY OneStep, CopiesStep DEF IInv
<1> QED
  BY <1>1, <1>2, Inductive, PTL DEF Spec, SerialInv

(* A single caller loses no attempt that compile_plan has reported.        *)
THEOREM PlanAttempts == Spec => []AttemptsKept
<1>1. SerialInv => AttemptsKept
  BY DEF SerialInv, CopiesInv, AttemptsKept
<1> QED
  BY <1>1, SerialInductive, PTL

(* A single caller never replaces a good revision by an older one or by    *)
(* none, and never takes a binding back.                                   *)
THEOREM PlanLastGood == Spec => LastGoodKept
<1> DEFINE Better == width = 1 =>
             /\ record.revision \in Revisions \ damaged => record'.revision >= record.revision
             /\ record.bound => record'.bound
<1>1. SerialInv /\ [Next]_vars => [Better]_vars
  <2> SUFFICES ASSUME SerialInv, Next, width = 1 PROVE Better
    OBVIOUS
  <2>1. CASE \E c \in Clients : RepairRecord(c) \/ SaveAttempt(c) \/ BindProject(c)
    BY <2>1, AttemptsAssumption DEF RepairRecord, SaveAttempt, BindProject,
       WriteRecord, SerialInv, CopiesInv,
       Copy, Revisions
  <2>2. CASE UNCHANGED record
    BY <2>2, AttemptsAssumption DEF Revisions
  <2>3. ASSUME NEW c \in Clients, Step(c), ~RepairRecord(c), ~SaveAttempt(c), ~BindProject(c)
        PROVE  UNCHANGED record
    BY <2>3 DEF Step, storeVars,
       EnsureCurrent, Invalidate, Restore, EnsureNone, View, ReuseRevision,
       BeginCompile, CompileSucceeds, CompileFails, RecordFailure, NumberRevision,
       LinkRevision, RevisionTaken, RefuseStart, AcceptStart, StartPlanRun,
       CreateEnds, CheckEligibility, RefuseProject, AcceptProject, BootstrapProject,
       BootstrapRaises, ReloadToBind
  <2>4. ASSUME NEW c \in Clients, Call(c) \/ Abort(c) PROVE UNCHANGED record
    BY <2>4 DEF Call, Request, Abort, storeVars
  <2>5. ASSUME (\E n \in Revisions : Damage(n)) \/ EditSource PROVE UNCHANGED record
    BY <2>5 DEF Damage, EditSource
  <2> QED
    BY <2>1, <2>2, <2>3, <2>4, <2>5 DEF Next
<1> QED
  BY <1>1, SerialInductive, PTL DEF Spec, LastGoodKept
=============================================================================
