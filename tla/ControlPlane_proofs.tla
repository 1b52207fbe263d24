------------------------ MODULE ControlPlane_proofs -------------------------
(***************************************************************************)
(* Proofs, for any number of threads, clients, projects, workspaces, jobs  *)
(* and requests, of the safety properties of ControlProperties.            *)
(***************************************************************************)
EXTENDS ControlProperties, TLAPS

-----------------------------------------------------------------------------
(* The parts of the inductive invariant.                                   *)

(* A thread that is not idle has a job.                                    *)
JobInv == \A t \in Threads : pc[t] # "idle" => job[t] \in Jobs

(* An execution holds the lease of its project.                            *)
LeaseInv ==
  \A t \in Threads : pc[t] \in {"execute", "return"} => lease[job[t].id] = t

(* What a request is about, and when it has a directory open.              *)
RequestInv ==
  \A c \in Clients :
    /\ at[c] \in {"check", "read", "drop"} => want[c] \in Entries
    /\ at[c] \in {"archive", "rename", "delete", "unlink", "rest", "rmdir"} => aim[c] \in Runs
    /\ place[c] # "none" => at[c] \in {"unlink", "rest", "rmdir"}

(* A list has each id once, and each workspace once but for the entries of *)
(* updates that were overtaken.                                            *)
Sound(list) ==
  \A e, f \in list :
    e # f => e.id # f.id /\ (e.root = f.root => e \in raced \/ f \in raced)

(* The file and what is about to replace it are sound, and an update whose *)
(* check has passed may still go on, or it was overtaken.                  *)
IndexInv ==
  /\ Sound(registry)
  /\ \A c \in Clients : Sound(out[c])
  /\ \A c \in Clients : at[c] = "read" => ~Taken(want[c], registry) \/ want[c] \in raced

(* A deletion has left its mark on the directory it has open, and on each  *)
(* that is empty.                                                          *)
TornInv ==
  /\ \A c \in Clients : place[c] # "none" => <<aim[c], place[c]>> \in torn
  /\ \A r \in Runs : runs[r] = "empty" => <<r, "runs">> \in torn
  /\ \A r \in Runs : archive[r] = "empty" => <<r, "archive">> \in torn

IInv == TypeOK /\ JobInv /\ LeaseInv /\ RequestInv /\ IndexInv /\ TornInv

-----------------------------------------------------------------------------
LEMMA InitInv == Init => IInv
<1> SUFFICES ASSUME Init PROVE IInv
  OBVIOUS
<1>1. TypeOK
  BY BoundAssumption, IndexAssumption DEF Init, TypeOK, Contents
<1>2. IndexInv
  BY IndexAssumption DEF Init, IndexInv, Sound
<1> QED
  BY <1>1, <1>2 DEF Init, IInv, JobInv, LeaseInv, RequestInv, TornInv

(* Executions and what surrounds them leave the index, its requests and    *)
(* their history alone.                                                    *)
LEMMA RunStepKeeps ==
  ASSUME RunStep
  PROVE  UNCHANGED <<registry, request, raced, torn, archive>>
BY DEF RunStep, PoolStep, past, pool, files, PostResume, PostApprove, PostStart, Submit, TakeJob,
       FindProject, LoseProject, LoadRun, AcquireLease, LeaseTaken, ReleaseLease, LogEvent,
       Publish, OutsideTakes, OutsideEnds

(* A request of the index leaves the run directories alone, and no request *)
(* reaches the leases and the pool.                                        *)
LEMMA IndexStepKeeps ==
  ASSUME NEW c \in Clients, IndexStep(c)
  PROVE  UNCHANGED <<lease, files, pool, place, torn>>
BY DEF IndexStep, past, CreateProject, MoveProject, DeleteProject, CheckWorkspace, ReplaceEntry,
       DropEntry, SaveIndex

LEMMA CleanupStepKeeps ==
  ASSUME NEW c \in Clients, CleanupStep(c)
  PROVE  UNCHANGED <<registry, lease, home, pool, out, raced>>
BY DEF CleanupStep, past, files, MoveRun, Leaves, PostCleanup, CheckArchive, Archive, OpenRun,
       UnlinkState, UnlinkRest, RemoveDir, DeleteFails

-----------------------------------------------------------------------------
(* Types.                                                                  *)

LEMMA SpendType ==
  ASSUME TypeOK, NEW kind \in {"jobs", "edits", "cleanups"}, Spend(kind)
  PROVE  left' \in [jobs: 0 .. MaxJobs, edits: Nat, cleanups: Nat]
<1>1. left \in [jobs: 0 .. MaxJobs, edits: Nat, cleanups: Nat]
  BY DEF TypeOK
<1>2. CASE kind = "jobs"
  BY <1>1, <1>2, BoundAssumption DEF Spend
<1>3. CASE kind = "edits"
  BY <1>1, <1>3, BoundAssumption DEF Spend
<1>4. CASE kind = "cleanups"
  BY <1>1, <1>4, BoundAssumption DEF Spend
<1> QED
  BY <1>2, <1>3, <1>4

LEMMA SubmitType ==
  ASSUME TypeOK, NEW op \in {"start", "resume"}, NEW id \in Ids, NEW r \in Runs, Submit(op, id, r)
  PROVE  queue' \in Seq(Jobs) /\ left' \in [jobs: 0 .. MaxJobs, edits: Nat, cleanups: Nat]
<1>1. [op |-> op, id |-> id, run |-> r] \in Jobs
  BY DEF Jobs
<1> QED
  BY <1>1, SpendType DEF Submit, TypeOK

LEMMA RunTypes ==
  ASSUME TypeOK, JobInv, RunStep
  PROVE  TypeOK'
<1> USE DEF Goto, EndJob, files, pool, past, request, Contents
<1>1. ASSUME NEW t \in Threads, TakeJob(t) PROVE TypeOK'
  <2>1. Head(queue) \in Jobs /\ Tail(queue) \in Seq(Jobs)
    BY <1>1 DEF TakeJob, TypeOK
  <2>2. job' \in [Threads -> Jobs \cup {None}] /\ queue' \in Seq(Jobs)
    BY <2>1, <1>1 DEF TakeJob, TypeOK
  <2>3. pc' \in [Threads -> {"idle", "job", "load", "lease", "execute", "return"}]
    BY <1>1 DEF TakeJob, TypeOK
  <2>4. UNCHANGED <<registry, lease, files, request, root, past>>
    BY <1>1 DEF TakeJob
  <2> QED
    BY <2>2, <2>3, <2>4 DEF TypeOK
<1>2. ASSUME NEW t \in Threads, FindProject(t) PROVE TypeOK'
  <2>1. root' \in [Threads -> Roots \cup {None}]
    BY <1>2 DEF FindProject, Entries, TypeOK
  <2> QED
    BY <2>1, <1>2 DEF FindProject, TypeOK
<1>3. ASSUME NEW t \in Threads, LoseProject(t) PROVE TypeOK'
  BY <1>3 DEF LoseProject, TypeOK
<1>4. ASSUME NEW t \in Threads, LoadRun(t) PROVE TypeOK'
  BY <1>4 DEF LoadRun, TypeOK
<1>5. ASSUME NEW t \in Threads, AcquireLease(t) PROVE TypeOK'
  <2>1. job[t].id \in Ids /\ job[t].run \in Runs
    BY <1>5 DEF AcquireLease, JobInv, Jobs
  <2>2. lease' \in [Ids -> Threads \cup {None, Outside}]
    BY <2>1, <1>5 DEF AcquireLease, TypeOK
  <2>3. runs' \in [Runs -> Contents] /\ home' \in [Runs -> Ids \cup {None}]
    BY <2>1, <1>5 DEF AcquireLease, Status, TypeOK
  <2>4. pc' \in [Threads -> {"idle", "job", "load", "lease", "execute", "return"}]
    BY <1>5 DEF AcquireLease, TypeOK
  <2>5. UNCHANGED <<registry, archive, request, queue, job, root, past>>
    BY <1>5 DEF AcquireLease
  <2> QED
    BY <2>2, <2>3, <2>4, <2>5 DEF TypeOK
<1>6. ASSUME NEW t \in Threads, LeaseTaken(t) PROVE TypeOK'
  BY <1>6 DEF LeaseTaken, TypeOK
<1>7. ASSUME NEW t \in Threads, ReleaseLease(t) PROVE TypeOK'
  <2>1. job[t].id \in Ids
    BY <1>7 DEF ReleaseLease, JobInv, Jobs
  <2> QED
    BY <2>1, <1>7 DEF ReleaseLease, TypeOK
<1>8. ASSUME NEW t \in Threads, LogEvent(t) PROVE TypeOK'
  BY <1>8 DEF LogEvent, TypeOK
<1>9. ASSUME NEW t \in Threads, NEW s \in Status, Publish(t, s) PROVE TypeOK'
  BY <1>9 DEF Publish, TypeOK
<1>10. ASSUME NEW r \in Runs, NEW id \in Ids, PostResume(r, id) PROVE TypeOK'
  BY <1>10, SubmitType DEF PostResume, Submit, TypeOK
<1>11. ASSUME NEW r \in Runs, NEW id \in Ids, PostApprove(r, id) PROVE TypeOK'
  BY <1>11 DEF PostApprove, Status, TypeOK
<1>12. ASSUME NEW id \in Ids, PostStart(id) PROVE TypeOK'
  <2>1. left.jobs \in Runs
    BY <1>12, BoundAssumption DEF PostStart, Submit, Spend, TypeOK, Runs
  <2> QED
    BY <2>1, <1>12, SubmitType DEF PostStart, Submit, TypeOK
<1>13. ASSUME NEW id \in Ids, OutsideTakes(id) PROVE TypeOK'
  BY <1>13 DEF OutsideTakes, TypeOK
<1>14. ASSUME NEW id \in Ids, OutsideEnds(id) PROVE TypeOK'
  BY <1>14 DEF OutsideEnds, TypeOK
<1> QED
  BY <1>1, <1>2, <1>3, <1>4, <1>5, <1>6, <1>7, <1>8, <1>9, <1>10, <1>11, <1>12, <1>13, <1>14
     DEF RunStep, PoolStep

LEMMA IndexTypes ==
  ASSUME TypeOK, RequestInv, NEW c \in Clients, IndexStep(c)
  PROVE  TypeOK'
<1> USE DEF Begin, Continue, Answer
<1>1. UNCHANGED <<lease, files, pool, place, torn>>
  BY IndexStepKeeps
<1>2. ASSUME registry' \in SUBSET Entries, at' \in [Clients -> {"idle", "check", "read", "drop",
               "save", "archive", "rename", "delete", "unlink", "rest", "rmdir"}],
             want' \in [Clients -> Entries \cup {NoEntry}], out' \in [Clients -> SUBSET Entries],
             aim' \in [Clients -> Runs \cup {None}], raced' \in SUBSET Entries,
             left' \in [jobs: 0 .. MaxJobs, edits: Nat, cleanups: Nat]
      PROVE  TypeOK'
  BY <1>1, <1>2 DEF TypeOK, files, pool
<1>3. ASSUME NEW e \in Entries, CreateProject(c, e) PROVE TypeOK'
  BY <1>2, <1>3, SpendType DEF CreateProject, TypeOK
<1>4. ASSUME NEW e \in Entries, MoveProject(c, e) PROVE TypeOK'
  BY <1>2, <1>4, SpendType DEF MoveProject, TypeOK
<1>5. ASSUME NEW e \in Entries, DeleteProject(c, e) PROVE TypeOK'
  BY <1>2, <1>5, SpendType DEF DeleteProject, TypeOK
<1>6. CASE CheckWorkspace(c)
  BY <1>2, <1>6 DEF CheckWorkspace, TypeOK, past
<1>7. CASE ReplaceEntry(c)
  <2>1. Replaced(want[c], registry) \in SUBSET Entries
    BY <1>7 DEF ReplaceEntry, RequestInv, Replaced, TypeOK
  <2> QED
    BY <1>2, <2>1, <1>7 DEF ReplaceEntry, TypeOK, past
<1>8. CASE DropEntry(c)
  <2>1. Without(want[c].id, registry) \in SUBSET Entries
    BY DEF Without, TypeOK
  <2> QED
    BY <1>2, <2>1, <1>8 DEF DropEntry, TypeOK, past
<1>9. CASE SaveIndex(c)
  <2>1. raced' \in SUBSET Entries
    BY <1>9 DEF SaveIndex, RequestInv, TypeOK
  <2> QED
    BY <1>2, <2>1, <1>9 DEF SaveIndex, TypeOK
<1> QED
  BY <1>3, <1>4, <1>5, <1>6, <1>7, <1>8, <1>9 DEF IndexStep

LEMMA CleanupTypes ==
  ASSUME TypeOK, RequestInv, NEW c \in Clients, CleanupStep(c)
  PROVE  TypeOK'
<1> USE DEF Begin, Continue, Answer, Contents
<1>1. UNCHANGED <<registry, lease, home, pool, out, raced>>
  BY CleanupStepKeeps
<1>2. ASSUME runs' \in [Runs -> Contents], archive' \in [Runs -> Contents],
             at' \in [Clients -> {"idle", "check", "read", "drop", "save", "archive", "rename",
                                  "delete", "unlink", "rest", "rmdir"}],
             want' \in [Clients -> Entries \cup {NoEntry}], aim' \in [Clients -> Runs \cup {None}],
             place' \in [Clients -> Places \cup {"none"}], torn' \in SUBSET (Runs \X Places),
             left' \in [jobs: 0 .. MaxJobs, edits: Nat, cleanups: Nat]
      PROVE  TypeOK'
  BY <1>1, <1>2 DEF TypeOK, pool
<1>3. ASSUME NEW r \in Runs, NEW id \in Ids, NEW op \in {"archive", "delete"}, PostCleanup(c, r, id, op)
      PROVE  TypeOK'
  BY <1>2, <1>3, SpendType DEF PostCleanup, TypeOK, files
<1>4. CASE CheckArchive(c)
  BY <1>2, <1>4 DEF CheckArchive, TypeOK, files, past
<1>5. CASE Archive(c)
  <2>1. aim[c] \in Runs
    BY <1>5 DEF Archive, RequestInv
  <2>2. CASE MoveRun(aim[c])
    <3>1. runs' \in [Runs -> Contents] /\ archive' \in [Runs -> Contents]
      BY <2>1, <2>2 DEF MoveRun, TypeOK
    <3>2. place' \in [Clients -> Places \cup {"none"}] /\ torn' \in SUBSET (Runs \X Places)
      BY <2>1, <2>2 DEF MoveRun, TypeOK, Places
    <3> QED
      BY <1>2, <3>1, <3>2, <1>5 DEF Archive, TypeOK
  <2>3. CASE UNCHANGED <<runs, archive, place, torn>>
    BY <1>2, <2>3, <1>5 DEF Archive, TypeOK
  <2> QED
    BY <2>2, <2>3, <1>5 DEF Archive
<1>6. CASE OpenRun(c)
  <2>1. torn' \in SUBSET (Runs \X Places) /\ place' \in [Clients -> Places \cup {"none"}]
    BY <1>6 DEF OpenRun, RequestInv, TypeOK, Places
  <2>2. /\ at' \in [Clients -> {"idle", "check", "read", "drop", "save", "archive", "rename",
                              "delete", "unlink", "rest", "rmdir"}]
        /\ want' \in [Clients -> Entries \cup {NoEntry}]
        /\ aim' \in [Clients -> Runs \cup {None}]
    <3>1. CASE Answer(c)
      BY <3>1 DEF TypeOK
    <3>2. CASE Continue(c, "unlink") /\ UNCHANGED <<want, aim>>
      BY <3>2 DEF TypeOK
    <3> QED
      BY <1>6, <3>1, <3>2 DEF OpenRun
  <2>3. UNCHANGED <<runs, archive, left>>
    BY <1>6 DEF OpenRun, files
  <2> QED
    BY <1>2, <2>1, <2>2, <2>3 DEF TypeOK
<1>7. CASE UnlinkState(c)
  BY <1>2, <1>7 DEF UnlinkState, Leaves, TypeOK, past
<1>8. CASE UnlinkRest(c)
  BY <1>2, <1>8 DEF UnlinkRest, Leaves, TypeOK, past
<1>9. CASE RemoveDir(c)
  <2>1. runs' \in [Runs -> Contents] /\ archive' \in [Runs -> Contents] /\ torn' \in SUBSET (Runs \X Places)
    BY <1>9 DEF RemoveDir, TypeOK
  <2>2. place' \in [Clients -> Places \cup {"none"}]
    BY <1>9 DEF RemoveDir, TypeOK
  <2> QED
    BY <1>2, <2>1, <2>2, <1>9 DEF RemoveDir, TypeOK
<1>10. CASE DeleteFails(c)
  BY <1>2, <1>10 DEF DeleteFails, TypeOK, files, past
<1> QED
  BY <1>3, <1>4, <1>5, <1>6, <1>7, <1>8, <1>9, <1>10 DEF CleanupStep

LEMMA TypeStep ==
  ASSUME TypeOK, JobInv, RequestInv, Next \/ UNCHANGED vars
  PROVE  TypeOK'
<1>1. CASE RunStep
  BY <1>1, RunTypes
<1>2. CASE \E c \in Clients : IndexStep(c) \/ CleanupStep(c)
  BY <1>2, IndexTypes, CleanupTypes
<1>3. CASE UNCHANGED vars
  BY <1>3 DEF vars, files, request, pool, past, TypeOK
<1> QED
  BY <1>1, <1>2, <1>3 DEF Next

-----------------------------------------------------------------------------
(* Jobs and leases.                                                        *)

LEMMA JobStep ==
  ASSUME TypeOK, JobInv, Next \/ UNCHANGED vars
  PROVE  JobInv'
<1> USE DEF JobInv, Goto, EndJob, pool
<1>1. ASSUME NEW t \in Threads, TakeJob(t) PROVE JobInv'
  <2>1. Head(queue) \in Jobs
    BY <1>1 DEF TakeJob, TypeOK
  <2> QED
    BY <2>1, <1>1 DEF TakeJob, TypeOK
<1>2. ASSUME NEW t \in Threads, FindProject(t) PROVE JobInv'
  BY <1>2 DEF FindProject
<1>3. ASSUME NEW t \in Threads, LoseProject(t) \/ LeaseTaken(t) \/ ReleaseLease(t) PROVE JobInv'
  BY <1>3 DEF LoseProject, LeaseTaken, ReleaseLease, TypeOK
<1>4. ASSUME NEW t \in Threads, LoadRun(t) PROVE JobInv'
  BY <1>4 DEF LoadRun, TypeOK
<1>5. ASSUME NEW t \in Threads, AcquireLease(t) PROVE JobInv'
  BY <1>5 DEF AcquireLease
<1>6. ASSUME NEW t \in Threads, NEW s \in Status, Publish(t, s) PROVE JobInv'
  BY <1>6 DEF Publish
<1>7. ASSUME NEW t \in Threads, LogEvent(t) PROVE JobInv'
  BY <1>7 DEF LogEvent
<1>8. ASSUME NEW r \in Runs, NEW id \in Ids, PostResume(r, id) \/ PostApprove(r, id) PROVE JobInv'
  BY <1>8 DEF PostResume, PostApprove, Submit
<1>9. ASSUME NEW id \in Ids, PostStart(id) \/ OutsideTakes(id) \/ OutsideEnds(id) PROVE JobInv'
  BY <1>9 DEF PostStart, Submit, OutsideTakes, OutsideEnds
<1>10. CASE \E c \in Clients : IndexStep(c) \/ CleanupStep(c)
  BY <1>10, IndexStepKeeps, CleanupStepKeeps
<1>11. CASE UNCHANGED vars
  BY <1>11 DEF vars
<1> HIDE DEF JobInv, Goto, EndJob, pool
<1> QED
  BY <1>1, <1>2, <1>3, <1>4, <1>5, <1>6, <1>7, <1>8, <1>9, <1>10, <1>11
     DEF Next, RunStep, PoolStep

LEMMA LeaseStep ==
  ASSUME TypeOK, JobInv, LeaseInv, Next \/ UNCHANGED vars
  PROVE  LeaseInv'
<1> USE DEF LeaseInv, Goto, EndJob, pool
<1>1. ASSUME NEW t \in Threads, TakeJob(t) \/ LoseProject(t) \/ LeaseTaken(t) PROVE LeaseInv'
  BY <1>1 DEF TakeJob, LoseProject, LeaseTaken, TypeOK
<1>2. ASSUME NEW t \in Threads, FindProject(t) PROVE LeaseInv'
  BY <1>2 DEF FindProject, TypeOK
<1>3. ASSUME NEW t \in Threads, LoadRun(t) PROVE LeaseInv'
  BY <1>3 DEF LoadRun, TypeOK
<1>4. ASSUME NEW t \in Threads, AcquireLease(t) PROVE LeaseInv'
  <2>1. pc' = [pc EXCEPT ![t] = "execute"] /\ job' = job
    BY <1>4 DEF AcquireLease
  <2>2. job[t].id \in Ids /\ lease' = [lease EXCEPT ![job[t].id] = t]
    BY <1>4 DEF AcquireLease, JobInv, Jobs
  <2>3. lease[job[t].id] = None /\ \A v \in Threads : v # None
    BY <1>4, OwnersAssumption DEF AcquireLease, LeaseFree
  <2> QED
    BY <2>1, <2>2, <2>3 DEF TypeOK
<1>5. ASSUME NEW t \in Threads, ReleaseLease(t) PROVE LeaseInv'
  <2>1. pc' = [pc EXCEPT ![t] = "idle"] /\ job' = [job EXCEPT ![t] = None]
    BY <1>5 DEF ReleaseLease
  <2>2. lease' = [lease EXCEPT ![job[t].id] = None] /\ lease[job[t].id] = t
    BY <1>5 DEF ReleaseLease
  <2> QED
    BY <2>1, <2>2 DEF TypeOK
<1>6. ASSUME NEW t \in Threads, NEW s \in Status, Publish(t, s) PROVE LeaseInv'
  BY <1>6 DEF Publish, TypeOK
<1>7. ASSUME NEW t \in Threads, LogEvent(t) PROVE LeaseInv'
  BY <1>7 DEF LogEvent
<1>8. ASSUME NEW r \in Runs, NEW id \in Ids, PostResume(r, id) \/ PostApprove(r, id) PROVE LeaseInv'
  BY <1>8 DEF PostResume, PostApprove, Submit
<1>9. ASSUME NEW id \in Ids, PostStart(id) PROVE LeaseInv'
  BY <1>9 DEF PostStart, Submit
<1>10. ASSUME NEW id \in Ids, OutsideTakes(id) PROVE LeaseInv'
  BY <1>10, OwnersAssumption DEF OutsideTakes, TypeOK, JobInv, Jobs
<1>11. ASSUME NEW id \in Ids, OutsideEnds(id) PROVE LeaseInv'
  BY <1>11, OwnersAssumption DEF OutsideEnds, TypeOK, JobInv, Jobs
<1>12. CASE \E c \in Clients : IndexStep(c) \/ CleanupStep(c)
  BY <1>12, IndexStepKeeps, CleanupStepKeeps
<1>13. CASE UNCHANGED vars
  BY <1>13 DEF vars
<1> HIDE DEF LeaseInv, Goto, EndJob, pool
<1> QED
  BY <1>1, <1>2, <1>3, <1>4, <1>5, <1>6, <1>7, <1>8, <1>9, <1>10, <1>11, <1>12, <1>13
     DEF Next, RunStep, PoolStep

-----------------------------------------------------------------------------
(* Requests.                                                               *)

LEMMA RequestStep ==
  ASSUME TypeOK, RequestInv, Next \/ UNCHANGED vars
  PROVE  RequestInv'
<1> USE DEF RequestInv, Begin, Continue, Answer, request, past
<1>1. CASE RunStep
  BY <1>1, RunStepKeeps
<1>2. ASSUME NEW c \in Clients, NEW e \in Entries,
             CreateProject(c, e) \/ MoveProject(c, e) \/ DeleteProject(c, e)
      PROVE  RequestInv'
  BY <1>2 DEF CreateProject, MoveProject, DeleteProject, TypeOK
<1>3. ASSUME NEW c \in Clients, CheckWorkspace(c) PROVE RequestInv'
  BY <1>3 DEF CheckWorkspace, TypeOK
<1>4. ASSUME NEW c \in Clients, ReplaceEntry(c) \/ DropEntry(c) PROVE RequestInv'
  BY <1>4 DEF ReplaceEntry, DropEntry, TypeOK
<1>5. ASSUME NEW c \in Clients, SaveIndex(c) PROVE RequestInv'
  BY <1>5 DEF SaveIndex, TypeOK
<1>6. ASSUME NEW c \in Clients, NEW r \in Runs, NEW id \in Ids, NEW op \in {"archive", "delete"},
             PostCleanup(c, r, id, op)
      PROVE  RequestInv'
  BY <1>6 DEF PostCleanup, TypeOK
<1>7. ASSUME NEW c \in Clients, CheckArchive(c) PROVE RequestInv'
  BY <1>7 DEF CheckArchive, TypeOK
<1>8. ASSUME NEW c \in Clients, Archive(c) PROVE RequestInv'
  <2>1. \A d \in Clients : place'[d] # "none" => place[d] # "none"
    BY <1>8 DEF Archive, MoveRun
  <2>2. place[c] = "none"
    BY <1>8 DEF Archive
  <2> QED
    BY <2>1, <2>2, <1>8 DEF Archive, TypeOK
<1>9. ASSUME NEW c \in Clients, OpenRun(c) PROVE RequestInv'
  BY <1>9 DEF OpenRun, TypeOK
<1>10. ASSUME NEW c \in Clients, UnlinkState(c) \/ UnlinkRest(c) PROVE RequestInv'
  BY <1>10 DEF UnlinkState, UnlinkRest, TypeOK
<1>11. ASSUME NEW c \in Clients, RemoveDir(c) PROVE RequestInv'
  <2>1. place'[c] = "none" /\ \A d \in Clients : place'[d] # "none" => place[d] # "none"
    BY <1>11 DEF RemoveDir, TypeOK
  <2> QED
    BY <2>1, <1>11 DEF RemoveDir, TypeOK
<1>12. ASSUME NEW c \in Clients, DeleteFails(c) PROVE RequestInv'
  BY <1>12 DEF DeleteFails, TypeOK
<1>13. CASE UNCHANGED vars
  BY <1>13 DEF vars
<1> HIDE DEF RequestInv, Begin, Continue, Answer, request, past
<1> QED
  BY <1>1, <1>2, <1>3, <1>4, <1>5, <1>6, <1>7, <1>8, <1>9, <1>10, <1>11, <1>12, <1>13
     DEF Next, IndexStep, CleanupStep

-----------------------------------------------------------------------------
(* The index.                                                              *)

(* An entry that is not taken joins a sound list.                          *)
LEMMA RegistrableSound ==
  ASSUME NEW list, Sound(list), NEW e \in Entries, Registrable(e, list)
  PROVE  Sound(list \cup {e})
BY DEF Sound, Registrable, Registered, Taken

LEMMA ReplacedSound ==
  ASSUME NEW list, Sound(list), NEW e \in Entries, ~Taken(e, list) \/ e \in raced
  PROVE  Sound(Replaced(e, list))
<1> SUFFICES ASSUME NEW f \in Replaced(e, list), NEW g \in Replaced(e, list), f # g
             PROVE  f.id # g.id /\ (f.root = g.root => f \in raced \/ g \in raced)
  BY DEF Sound
<1>1. (f = e \/ (f \in list /\ f.id # e.id)) /\ (g = e \/ (g \in list /\ g.id # e.id))
  BY DEF Replaced
<1>2. CASE f \in list /\ g \in list /\ f.id # e.id /\ g.id # e.id
  BY <1>2 DEF Sound
<1>3. CASE f = e \/ g = e
  BY <1>1, <1>3 DEF Taken
<1> QED
  BY <1>1, <1>2, <1>3

LEMMA SubsetSound ==
  ASSUME NEW list, Sound(list), NEW part \in SUBSET list
  PROVE  Sound(part)
BY DEF Sound

LEMMA IndexStepInv ==
  ASSUME TypeOK, RequestInv, IndexInv, Next \/ UNCHANGED vars
  PROVE  IndexInv'
<1>1. ASSUME UNCHANGED <<registry, out, raced>>,
             \A c \in Clients :
               at'[c] = "read" => at[c] = "read" /\ want'[c] = want[c]
      PROVE  IndexInv'
  BY <1>1 DEF IndexInv, Sound
<1>2. CASE RunStep
  BY <1>1, <1>2, RunStepKeeps DEF request
<1>3. ASSUME NEW c \in Clients, NEW e \in Entries, CreateProject(c, e) PROVE IndexInv'
  <2>1. Sound(registry \cup {e})
    BY <1>3, RegistrableSound DEF CreateProject, IndexInv
  <2>2. UNCHANGED <<registry, raced>> /\ out' = [out EXCEPT ![c] = registry \cup {e}]
    BY <1>3 DEF CreateProject
  <2>3. \A d \in Clients : at'[d] = "read" => at[d] = "read" /\ want'[d] = want[d]
    BY <1>3 DEF CreateProject, Begin, TypeOK
  <2>4. \A d \in Clients : Sound(out'[d])
    BY <2>1, <2>2 DEF IndexInv, TypeOK
  <2> QED
    BY <2>2, <2>3, <2>4 DEF IndexInv, Sound
<1>4. ASSUME NEW c \in Clients, NEW e \in Entries, MoveProject(c, e) \/ DeleteProject(c, e)
      PROVE  IndexInv'
  BY <1>1, <1>4 DEF MoveProject, DeleteProject, Begin, TypeOK
<1>5. ASSUME NEW c \in Clients, CheckWorkspace(c) PROVE IndexInv'
  <2>1. UNCHANGED <<registry, out, raced>>
    BY <1>5 DEF CheckWorkspace, past
  <2>2. \A d \in Clients : at'[d] = "read" => ~Taken(want'[d], registry) \/ want'[d] \in raced
    BY <1>5 DEF CheckWorkspace, Continue, Answer, IndexInv, TypeOK
  <2> QED
    BY <2>1, <2>2 DEF IndexInv, Sound
<1>6. ASSUME NEW c \in Clients, ReplaceEntry(c) PROVE IndexInv'
  <2>1. Sound(Replaced(want[c], registry))
    BY <1>6, ReplacedSound DEF ReplaceEntry, IndexInv, RequestInv
  <2>2. UNCHANGED <<registry, raced>> /\ out' = [out EXCEPT ![c] = Replaced(want[c], registry)]
    BY <1>6 DEF ReplaceEntry, past
  <2>3. \A d \in Clients : at'[d] = "read" => at[d] = "read" /\ want'[d] = want[d]
    BY <1>6 DEF ReplaceEntry, Continue, TypeOK
  <2>4. \A d \in Clients : Sound(out'[d])
    BY <2>1, <2>2 DEF IndexInv, TypeOK
  <2> QED
    BY <2>2, <2>3, <2>4 DEF IndexInv, Sound
<1>7. ASSUME NEW c \in Clients, DropEntry(c) PROVE IndexInv'
  <2>1. Sound(Without(want[c].id, registry))
    BY SubsetSound DEF Without, IndexInv
  <2>2. UNCHANGED <<registry, raced>> /\ out' = [out EXCEPT ![c] = Without(want[c].id, registry)]
    BY <1>7 DEF DropEntry, past
  <2>3. \A d \in Clients : at'[d] = "read" => at[d] = "read" /\ want'[d] = want[d]
    BY <1>7 DEF DropEntry, Continue, TypeOK
  <2>4. \A d \in Clients : Sound(out'[d])
    BY <2>1, <2>2 DEF IndexInv, TypeOK
  <2> QED
    BY <2>2, <2>3, <2>4 DEF IndexInv, Sound
<1>8. ASSUME NEW c \in Clients, SaveIndex(c) PROVE IndexInv'
  <2>1. registry' = out[c] /\ out' = [out EXCEPT ![c] = {}] /\ raced \subseteq raced'
    BY <1>8 DEF SaveIndex
  <2>2. Sound(registry') /\ \A d \in Clients : Sound(out'[d])
    BY <2>1 DEF IndexInv, Sound, TypeOK
  <2>3. (Sound(registry))' /\ \A d \in Clients : (Sound(out[d]))'
    BY <2>1, <2>2 DEF Sound
  <2>4. ASSUME NEW d \in Clients, at'[d] = "read"
        PROVE  ~Taken(want'[d], registry') \/ want'[d] \in raced'
    <3>1. at[d] = "read" /\ want'[d] = want[d]
      BY <1>8, <2>4 DEF SaveIndex, Answer, Continue, TypeOK
    <3>2. Taken(want[d], out[c]) => want[d] \in raced'
      BY <1>8, <3>1 DEF SaveIndex
    <3> QED
      BY <2>1, <3>1, <3>2
  <2>5. \A d \in Clients : at'[d] = "read" => (~Taken(want[d], registry) \/ want[d] \in raced)'
    BY <2>4 DEF Taken
  <2> QED
    BY <2>3, <2>5 DEF IndexInv
<1>9. ASSUME NEW c \in Clients, CleanupStep(c) PROVE IndexInv'
  <2>1. \A d \in Clients : at'[d] = "read" => at[d] = "read" /\ want'[d] = want[d]
    BY <1>9 DEF CleanupStep, PostCleanup, CheckArchive, Archive, OpenRun, UnlinkState, UnlinkRest,
                RemoveDir, DeleteFails, Begin, Continue, Answer, TypeOK
  <2> QED
    BY <1>1, <1>9, <2>1, CleanupStepKeeps
<1>10. CASE UNCHANGED vars
  BY <1>1, <1>10 DEF vars, request, past
<1> QED
  BY <1>2, <1>3, <1>4, <1>5, <1>6, <1>7, <1>8, <1>9, <1>10 DEF Next, IndexStep

-----------------------------------------------------------------------------
(* The marks deletions leave.                                              *)

(* What a deletion does to the directory it has open.                      *)
LEMMA UnlinkTorn ==
  ASSUME TypeOK, RequestInv, TornInv, NEW c \in Clients,
         at[c] \in {"unlink", "rest"}, NEW contents \in {"bare", "empty"},
         Leaves(c, contents) \/ UNCHANGED <<runs, archive>>,
         UNCHANGED <<aim, place, torn>>
  PROVE  TornInv'
<1>1. aim[c] \in Runs
  BY DEF RequestInv
<1>2. \A r \in Runs : runs'[r] = "empty" => <<r, "runs">> \in torn
  BY <1>1 DEF Leaves, TornInv, TypeOK
<1>3. \A r \in Runs : archive'[r] = "empty" => <<r, "archive">> \in torn
  BY <1>1 DEF Leaves, TornInv, TypeOK
<1> QED
  BY <1>2, <1>3 DEF TornInv

(* A directory takes its mark and its descriptors with it.                 *)
LEMMA MoveTorn ==
  ASSUME TypeOK, TornInv, NEW s \in Runs, MoveRun(s)
  PROVE  /\ \A d \in Clients : place'[d] # "none" => <<aim[d], place'[d]>> \in torn'
         /\ \A r \in Runs : runs'[r] = "empty" => <<r, "runs">> \in torn'
         /\ \A r \in Runs : archive'[r] = "empty" => <<r, "archive">> \in torn'
<1>1. \A r \in Runs, p \in Places : r # s /\ <<r, p>> \in torn => <<r, p>> \in torn'
  BY DEF MoveRun
<1>2. <<s, "runs">> \in torn => <<s, "archive">> \in torn'
  BY DEF MoveRun
<1>3. ASSUME NEW d \in Clients, place'[d] # "none" PROVE <<aim[d], place'[d]>> \in torn'
  <2>1. CASE aim[d] = s
    BY <1>2, <1>3, <2>1 DEF MoveRun, TornInv
  <2>2. CASE aim[d] # s
    <3>1. place'[d] = place[d] /\ <<aim[d], place[d]>> \in torn
      BY <1>3, <2>2 DEF MoveRun, TornInv
    <3> QED
      BY <3>1, <2>2 DEF MoveRun
  <2> QED
    BY <2>1, <2>2
<1>4. ASSUME NEW r \in Runs, runs'[r] = "empty" PROVE <<r, "runs">> \in torn'
  BY <1>1, <1>4 DEF MoveRun, TornInv, TypeOK, Places
<1>5. ASSUME NEW r \in Runs, archive'[r] = "empty" PROVE <<r, "archive">> \in torn'
  BY <1>1, <1>2, <1>5 DEF MoveRun, TornInv, TypeOK, Places
<1> QED
  BY <1>3, <1>4, <1>5

LEMMA TornStep ==
  ASSUME TypeOK, RequestInv, JobInv, TornInv, Next \/ UNCHANGED vars
  PROVE  TornInv'
<1> USE DEF Continue, Answer
<1>1. ASSUME UNCHANGED <<archive, torn>>,
             \A d \in Clients : place'[d] # "none" => place'[d] = place[d] /\ aim'[d] = aim[d],
             \A r \in Runs : runs'[r] = "empty" => runs[r] = "empty"
      PROVE  TornInv'
  BY <1>1 DEF TornInv
<1>2. CASE RunStep
  <2>1. \A r \in Runs : runs'[r] = "empty" => runs[r] = "empty"
    <3>1. ASSUME NEW q \in Runs, NEW contents, contents # "empty",
                 runs' = [runs EXCEPT ![q] = contents]
          PROVE  \A r \in Runs : runs'[r] = "empty" => runs[r] = "empty"
      BY <3>1 DEF TypeOK
    <3>2. ASSUME NEW t \in Threads, PoolStep(t)
          PROVE  \A r \in Runs : runs'[r] = "empty" => runs[r] = "empty"
      <4>1. CASE AcquireLease(t)
        <5>1. job[t].run \in Runs
          BY <4>1 DEF AcquireLease, JobInv, Jobs
        <5> QED
          BY <3>1, <4>1, <5>1 DEF AcquireLease
      <4>2. CASE ~AcquireLease(t)
        BY <3>2, <4>2 DEF PoolStep, files, TakeJob, FindProject, LoseProject, LoadRun, LeaseTaken,
                          ReleaseLease
      <4> QED
        BY <4>1, <4>2
    <3>3. ASSUME NEW t \in Threads, NEW s \in Status, Publish(t, s)
          PROVE  \A r \in Runs : runs'[r] = "empty" => runs[r] = "empty"
      <4>1. job[t].run \in Runs
        BY <3>3 DEF Publish, JobInv, Jobs
      <4> QED
        BY <3>1, <3>3, <4>1 DEF Publish, Status
    <3>4. ASSUME NEW t \in Threads, LogEvent(t)
          PROVE  \A r \in Runs : runs'[r] = "empty" => runs[r] = "empty"
      <4>1. job[t].run \in Runs
        BY <3>4 DEF LogEvent, JobInv, Jobs
      <4> QED
        BY <3>1, <3>4, <4>1 DEF LogEvent
    <3>5. ASSUME NEW r \in Runs, NEW id \in Ids, PostResume(r, id) \/ PostApprove(r, id)
          PROVE  \A q \in Runs : runs'[q] = "empty" => runs[q] = "empty"
      BY <3>1, <3>5 DEF PostResume, PostApprove, Submit, files
    <3>6. ASSUME NEW id \in Ids, PostStart(id) \/ OutsideTakes(id) \/ OutsideEnds(id)
          PROVE  \A q \in Runs : runs'[q] = "empty" => runs[q] = "empty"
      BY <3>6 DEF PostStart, Submit, OutsideTakes, OutsideEnds, files
    <3> QED
      BY <1>2, <3>2, <3>3, <3>4, <3>5, <3>6 DEF RunStep
  <2> QED
    BY <1>1, <1>2, <2>1, RunStepKeeps DEF request
<1>3. ASSUME NEW c \in Clients, IndexStep(c) PROVE TornInv'
  <2>1. UNCHANGED <<archive, torn, runs, place>>
    BY <1>3, IndexStepKeeps DEF files
  <2>2. place[c] = "none" /\ \A d \in Clients : d # c => aim'[d] = aim[d]
    BY <1>3 DEF IndexStep, CreateProject, MoveProject, DeleteProject, CheckWorkspace, ReplaceEntry,
                DropEntry, SaveIndex, Begin, RequestInv, TypeOK
  <2> QED
    BY <1>1, <2>1, <2>2
<1>4. ASSUME NEW c \in Clients, NEW r \in Runs, NEW id \in Ids, NEW op \in {"archive", "delete"},
             PostCleanup(c, r, id, op)
      PROVE  TornInv'
  BY <1>1, <1>4 DEF PostCleanup, Begin, files, RequestInv, TypeOK
<1>5. ASSUME NEW c \in Clients, CheckArchive(c) PROVE TornInv'
  BY <1>1, <1>5 DEF CheckArchive, files, past, RequestInv, TypeOK
<1>6. ASSUME NEW c \in Clients, Archive(c) PROVE TornInv'
  <2>1. aim[c] \in Runs /\ place[c] = "none" /\ \A d \in Clients : d # c => aim'[d] = aim[d]
    BY <1>6 DEF Archive, RequestInv, TypeOK
  <2>2. CASE MoveRun(aim[c])
    <3>1. place'[c] = "none"
      BY <2>1, <2>2 DEF MoveRun
    <3> QED
      BY <2>1, <2>2, <3>1, MoveTorn DEF TornInv
  <2>3. CASE UNCHANGED <<runs, archive, place, torn>>
    BY <1>1, <2>1, <2>3
  <2> QED
    BY <2>2, <2>3, <1>6 DEF Archive
<1>7. ASSUME NEW c \in Clients, OpenRun(c) PROVE TornInv'
  <2>1. CASE runs[aim[c]] = "gone"
    BY <1>1, <1>7, <2>1 DEF OpenRun, files, RequestInv, TypeOK
  <2>2. CASE runs[aim[c]] # "gone"
    BY <1>7, <2>2 DEF OpenRun, files, TornInv, TypeOK
  <2> QED
    BY <2>1, <2>2
<1>8. ASSUME NEW c \in Clients, UnlinkState(c) PROVE TornInv'
  BY <1>8, UnlinkTorn DEF UnlinkState, past
<1>9. ASSUME NEW c \in Clients, UnlinkRest(c) PROVE TornInv'
  BY <1>9, UnlinkTorn DEF UnlinkRest, past
<1>10. ASSUME NEW c \in Clients, RemoveDir(c) PROVE TornInv'
  <2>1. aim[c] \in Runs /\ \A d \in Clients : d # c => aim'[d] = aim[d]
    BY <1>10 DEF RemoveDir, RequestInv, TypeOK
  <2>2. CASE runs[aim[c]] = "empty"
    <3>1. /\ runs' = [runs EXCEPT ![aim[c]] = "gone"] /\ archive' = archive
          /\ torn' = torn \ {<<aim[c], "runs">>}
      BY <1>10, <2>2 DEF RemoveDir
    <3>2. ASSUME NEW d \in Clients, place'[d] # "none"
          PROVE  /\ d # c /\ place'[d] = place[d]
                 /\ ~(aim[d] = aim[c] /\ place[d] = "runs")
      BY <1>10, <2>2, <3>2 DEF RemoveDir
    <3>3. \A d \in Clients : place'[d] # "none" => <<aim'[d], place'[d]>> \in torn'
      BY <2>1, <3>1, <3>2 DEF TornInv
    <3>4. \A r \in Runs : runs'[r] = "empty" => <<r, "runs">> \in torn'
      BY <2>1, <3>1 DEF TornInv, TypeOK
    <3>5. \A r \in Runs : archive'[r] = "empty" => <<r, "archive">> \in torn'
      BY <3>1 DEF TornInv
    <3> QED
      BY <3>3, <3>4, <3>5 DEF TornInv
  <2>3. CASE runs[aim[c]] # "empty"
    BY <1>1, <1>10, <2>1, <2>3 DEF RemoveDir, TypeOK
  <2> QED
    BY <2>2, <2>3
<1>11. ASSUME NEW c \in Clients, DeleteFails(c) PROVE TornInv'
  BY <1>1, <1>11 DEF DeleteFails, files, past, TypeOK
<1>12. CASE UNCHANGED vars
  BY <1>1, <1>12 DEF vars, files, request, past
<1> HIDE DEF Continue, Answer
<1> QED
  BY <1>2, <1>3, <1>4, <1>5, <1>6, <1>7, <1>8, <1>9, <1>10, <1>11, <1>12 DEF Next, CleanupStep

-----------------------------------------------------------------------------
(* The theorems.                                                           *)

LEMMA Invariance == Spec => []IInv
<1>1. Init => IInv
  BY InitInv
<1>2. IInv /\ [Next]_vars => IInv'
  <2> SUFFICES ASSUME IInv, [Next]_vars PROVE IInv'
    OBVIOUS
  <2>1. TypeOK' /\ JobInv' /\ LeaseInv' /\ RequestInv'
    BY TypeStep, JobStep, LeaseStep, RequestStep DEF IInv
  <2>2. IndexInv' /\ TornInv'
    BY IndexStepInv, TornStep DEF IInv
  <2> QED
    BY <2>1, <2>2 DEF IInv
<1> QED
  BY <1>1, <1>2, PTL DEF Spec

(* The index, the leases, the directories of runs, the requests, the queue *)
(* and the threads keep their types.                                       *)
THEOREM ControlTypes == Spec => []TypeOK
<1>1. IInv => TypeOK
  BY DEF IInv
<1> QED
  BY <1>1, Invariance, PTL

(* Two executions share a workspace only after the project of one of them  *)
(* has left it in the index, or has come into it by an update that another *)
(* save had overtaken: any other two entries of the index that have one    *)
(* workspace are one entry, and one project has one lease.                 *)
THEOREM ControlWorkspaces == Spec => []SharedOnlyByMove
<1>1. IInv => SharedOnlyByMove
  <2> SUFFICES ASSUME IInv,
                      NEW t \in Threads, NEW v \in Threads, t # v,
                      pc[t] \in {"execute", "return"}, pc[v] \in {"execute", "return"},
                      root[t] = root[v],
                      [id |-> job[t].id, root |-> root[t]] \in registry \ raced,
                      [id |-> job[v].id, root |-> root[v]] \in registry \ raced
               PROVE  FALSE
    BY DEF SharedOnlyByMove
  <2>1. [id |-> job[t].id, root |-> root[t]] = [id |-> job[v].id, root |-> root[v]]
    BY DEF IInv, IndexInv, Sound
  <2>2. job[t].id = job[v].id
    BY <2>1
  <2> QED
    BY <2>2 DEF IInv, LeaseInv
<1> QED
  BY <1>1, Invariance, PTL

(* A run that is in the archive is changed only by a deletion that had its *)
(* directory open before the rename, which empties it, and only an empty   *)
(* directory is replaced by another rename.                                *)
THEOREM ControlArchive == Spec => ArchiveFrozen
<1> DEFINE Frozen ==
      \A r \in Runs : archive[r] \notin {"gone", archive'[r]} =>
        /\ <<r, "archive">> \in torn
        /\ archive[r] = "empty" \/ archive'[r] \in {"bare", "empty"}
<1>1. IInv /\ [Next]_vars => [Frozen]_vars
  <2> SUFFICES ASSUME IInv, Next \/ UNCHANGED vars,
                      NEW r \in Runs, archive[r] # "gone", archive'[r] # archive[r]
               PROVE  /\ <<r, "archive">> \in torn
                      /\ archive[r] = "empty" \/ archive'[r] \in {"bare", "empty"}
    OBVIOUS
  <2>1. PICK c \in Clients : CleanupStep(c)
    BY RunStepKeeps, IndexStepKeeps DEF Next, vars, files
  <2>2. CASE Archive(c)
    BY <2>2 DEF Archive, MoveRun, IInv, TypeOK, TornInv
  <2>3. CASE UnlinkState(c) \/ UnlinkRest(c)
    <3>1. place[c] = "archive" /\ aim[c] = r /\ archive'[r] \in {"bare", "empty"}
      BY <2>3 DEF UnlinkState, UnlinkRest, Leaves, IInv, TypeOK
    <3> QED
      BY <3>1 DEF IInv, TornInv
  <2>4. CASE ~(Archive(c) \/ UnlinkState(c) \/ UnlinkRest(c))
    BY <2>1, <2>4 DEF CleanupStep, PostCleanup, CheckArchive, OpenRun, RemoveDir, DeleteFails, files
  <2> QED
    BY <2>2, <2>3, <2>4
<1> QED
  BY <1>1, Invariance, PTL DEF Spec, ArchiveFrozen
=============================================================================
