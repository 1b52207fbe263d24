---------------------------- MODULE ControlPlane -----------------------------
(***************************************************************************)
(* The control server: its pool of threads (control_api/server.py), the    *)
(* operations it offers on runs (services/control_application.py), the     *)
(* cleanup of runs (services/run_history.py), and how they meet the index  *)
(* of projects, the execution leases and the executions.                   *)
(*                                                                         *)
(* A request is checked and, if it starts or resumes a run, put in the     *)
(* queue of the pool; nobody waits for the outcome of the job.  The lease  *)
(* of a project is a file in its runs directory, which belongs to the id   *)
(* of the project and not to its workspace.  Of an execution only the      *)
(* status it publishes matters here, and that its trajectory creates the   *)
(* directory of the run when it is not there; its steps are RunLifecycle's.*)
(* Outside stands for a command line that executes, or was killed.         *)
(*                                                                         *)
(* A request that changes the index or cleans up a run takes several steps *)
(* in its own thread, a Client, and takes no lock: two updates of the      *)
(* index, or an archive and a deletion of one run, can be under way at     *)
(* once.  A deletion works through a descriptor of the directory, which it *)
(* keeps when the directory is renamed.                                    *)
(*                                                                         *)
(* A definition named Seeded... is the one after it with a bug.            *)
(***************************************************************************)
EXTENDS ProjectIndex, Naturals, Sequences

CONSTANTS
  Threads,
  Clients,    \* threads of requests
  Ids,
  Roots,
  None,
  Outside,
  MaxJobs,    \* how many jobs a behaviour submits at most
  Indexes,    \* the indexes a behaviour may begin with
  Budgets     \* how many jobs it may submit, how many requests may change the
              \* index and how many may clean up a run

ASSUME BoundAssumption ==
  MaxJobs \in Nat /\ Budgets \subseteq [jobs: 0 .. MaxJobs, edits: Nat, cleanups: Nat]

ASSUME OwnersAssumption == None # Outside /\ {None, Outside} \cap Threads = {}

(* PENDING and RUNNING, WAITING_APPROVAL, PASSED and FAILED.               *)
Status == {"resumable", "waiting", "terminal"}
Entries == [id: Ids, root: Roots]
NoEntry == [id |-> None, root |-> None]

(* They are such as calls made one at a time leave.                        *)
ASSUME IndexAssumption ==
  /\ Indexes \subseteq SUBSET Entries
  /\ \A list \in Indexes : \A e, f \in list : e.id = f.id \/ e.root = f.root => e = f

(* A run has the number of the job that started it, which counts down.     *)
Runs == 1 .. MaxJobs
Places == {"runs", "archive"}
Jobs == [op: {"start", "resume"}, id: Ids, run: Runs]

VARIABLES
  registry,  \* the index of projects
  lease,     \* lease[i]: who created the lease file of project i
  runs,      \* runs[r]: the status in state.json of run r; a directory that has
             \* no state.json is "bare" or "empty", and without one it is "gone"
  archive,   \* archive[r]: the same below .archive
  home,      \* home[r]: the project in whose directories run r is
  at,        \* at[c]: where the request of client c is
  want,      \* want[c]: the entry it puts into the index
  out,       \* out[c]: the list it is about to save
  aim,       \* aim[c]: the run it cleans up
  place,     \* place[c]: where the directory is that it has opened
  queue,     \* the jobs submitted to the pool and not taken
  job,       \* job[t]: the job thread t has
  pc,        \* pc[t]: where it is
  root,      \* root[t]: the workspace it works in
  left,      \* what is left of the budget of this behaviour
  raced,     \* history: entries whose workspace was taken behind their check
  torn       \* history: the directories a deletion has opened

files == <<runs, archive, home>>
request == <<at, want, out, aim, place>>
pool == <<queue, job, pc, root>>
past == <<left, raced, torn>>
vars == <<registry, lease, files, request, pool, past>>

Contents == Status \cup {"bare", "empty", "gone"}

TypeOK ==
  /\ registry \in SUBSET Entries
  /\ lease \in [Ids -> Threads \cup {None, Outside}]
  /\ runs \in [Runs -> Contents]
  /\ archive \in [Runs -> Contents]
  /\ home \in [Runs -> Ids \cup {None}]
  /\ at \in [Clients -> {"idle", "check", "read", "drop", "save", "archive", "rename",
                         "delete", "unlink", "rest", "rmdir"}]
  /\ want \in [Clients -> Entries \cup {NoEntry}]
  /\ out \in [Clients -> SUBSET Entries]
  /\ aim \in [Clients -> Runs \cup {None}]
  /\ place \in [Clients -> Places \cup {"none"}]
  /\ queue \in Seq(Jobs)
  /\ job \in [Threads -> Jobs \cup {None}]
  /\ pc \in [Threads -> {"idle", "job", "load", "lease", "execute", "return"}]
  /\ root \in [Threads -> Roots \cup {None}]
  /\ left \in [jobs: 0 .. MaxJobs, edits: Nat, cleanups: Nat]
  /\ raced \in SUBSET Entries
  /\ torn \in SUBSET (Runs \X Places)

Init ==
  /\ registry \in Indexes
  /\ lease = [i \in Ids |-> None]
  /\ runs = [r \in Runs |-> "gone"]
  /\ archive = [r \in Runs |-> "gone"]
  /\ home = [r \in Runs |-> None]
  /\ at = [c \in Clients |-> "idle"]
  /\ want = [c \in Clients |-> NoEntry]
  /\ out = [c \in Clients |-> {}]
  /\ aim = [c \in Clients |-> None]
  /\ place = [c \in Clients |-> "none"]
  /\ queue = << >>
  /\ job = [t \in Threads |-> None]
  /\ pc = [t \in Threads |-> "idle"]
  /\ root = [t \in Threads |-> None]
  /\ left \in Budgets
  /\ raced = {}
  /\ torn = {}

-----------------------------------------------------------------------------
(* The request of a client.                                                *)

Begin(c, label, e, r) ==
  /\ at[c] = "idle"
  /\ at' = [at EXCEPT ![c] = label]
  /\ want' = [want EXCEPT ![c] = e]
  /\ aim' = [aim EXCEPT ![c] = r]

Spend(kind) == left[kind] > 0 /\ left' = [left EXCEPT ![kind] = @ - 1]

Continue(c, label) == at' = [at EXCEPT ![c] = label]

(* The request is answered, with or without an error.                      *)
Answer(c) ==
  /\ Continue(c, "idle")
  /\ want' = [want EXCEPT ![c] = NoEntry]
  /\ aim' = [aim EXCEPT ![c] = None]

-----------------------------------------------------------------------------
(* The index.                                                              *)

(* register: both checks and the new list use one reading (79-82, 102).    *)
CreateProject(c, e) ==
  /\ Registrable(e, registry)
  /\ Begin(c, "save", NoEntry, None)
  /\ Spend("edits")
  /\ out' = [out EXCEPT ![c] = registry \cup {e}]
  /\ UNCHANGED <<registry, lease, files, place, pool, raced, torn>>

(* update: the project (149), in its workspace or in a new one.            *)
MoveProject(c, e) ==
  /\ Registered(e.id, registry)
  /\ Begin(c, "check", e, None)
  /\ Spend("edits")
  /\ UNCHANGED <<registry, lease, files, out, place, pool, raced, torn>>

SeededUnchecked(c) ==
  /\ at[c] = "check"
  /\ Continue(c, "read")
  /\ UNCHANGED <<registry, lease, files, want, aim, out, place, pool, past>>

(* The workspace is compared with a second reading (150-152).              *)
CheckWorkspace(c) ==
  /\ at[c] = "check"
  /\ IF Taken(want[c], registry)
       THEN Answer(c)
       ELSE Continue(c, "read") /\ UNCHANGED <<want, aim>>
  /\ UNCHANGED <<registry, lease, files, out, place, pool, past>>

(* The entry replaces the one of its id in a third reading (171).          *)
ReplaceEntry(c) ==
  /\ at[c] = "read"
  /\ out' = [out EXCEPT ![c] = Replaced(want[c], registry)]
  /\ want' = [want EXCEPT ![c] = NoEntry]
  /\ Continue(c, "save")
  /\ UNCHANGED <<registry, lease, files, aim, place, pool, past>>

(* delete: the project (176), and the list without it from a second reading*)
(* (177).                                                                  *)
DeleteProject(c, e) ==
  /\ e \in registry
  /\ Begin(c, "drop", e, None)
  /\ Spend("edits")
  /\ UNCHANGED <<registry, lease, files, out, place, pool, raced, torn>>

DropEntry(c) ==
  /\ at[c] = "drop"
  /\ out' = [out EXCEPT ![c] = Without(want[c].id, registry)]
  /\ want' = [want EXCEPT ![c] = NoEntry]
  /\ Continue(c, "save")
  /\ UNCHANGED <<registry, lease, files, aim, place, pool, past>>

(* _save replaces the file.  An update that has made its check and whose   *)
(* workspace belongs to another project in the new list is overtaken.      *)
SaveIndex(c) ==
  /\ at[c] = "save"
  /\ registry' = out[c]
  /\ out' = [out EXCEPT ![c] = {}]
  /\ raced' = raced \cup {want[d] : d \in {d \in Clients : at[d] = "read" /\ Taken(want[d], out[c])}}
  /\ Answer(c)
  /\ UNCHANGED <<lease, files, place, pool, left, torn>>

-----------------------------------------------------------------------------
(* Requests that submit a job.                                             *)

Submit(op, id, r) ==
  /\ Spend("jobs")
  /\ queue' = Append(queue, [op |-> op, id |-> id, run |-> r])
  /\ UNCHANGED <<registry, lease, files, request, job, pc, root, raced, torn>>

(* assert_execution_available.                                             *)
Available(id) == lease[id] = None

PostStart(id) ==
  /\ Registered(id, registry)
  /\ Available(id)
  /\ Submit("start", id, left.jobs)

Found(r, id) == Registered(id, registry) /\ home[r] = id /\ runs[r] \in Status

PostResume(r, id) ==
  /\ Found(r, id)
  /\ runs[r] = "resumable"
  /\ Available(id)
  /\ Submit("resume", id, r)

PostApprove(r, id) ==
  /\ Found(r, id)
  /\ runs[r] = "waiting"
  /\ runs' = [runs EXCEPT ![r] = "resumable"]
  /\ UNCHANGED <<registry, lease, archive, home, request, pool, past>>

-----------------------------------------------------------------------------
(* The threads of the pool.                                                *)

Goto(t, label) == pc' = [pc EXCEPT ![t] = label]

TakeJob(t) ==
  /\ pc[t] = "idle"
  /\ queue # << >>
  /\ job' = [job EXCEPT ![t] = Head(queue)]
  /\ queue' = Tail(queue)
  /\ Goto(t, "job")
  /\ UNCHANGED <<registry, lease, files, request, root, past>>

(* The job is over; what it raised goes to a future nobody reads.          *)
EndJob(t) ==
  /\ job' = [job EXCEPT ![t] = None]
  /\ root' = [root EXCEPT ![t] = None]
  /\ Goto(t, "idle")

(* The project is looked up again, for its workspace and directories.      *)
FindProject(t) ==
  /\ pc[t] = "job"
  /\ \E e \in registry : e.id = job[t].id /\ root' = [root EXCEPT ![t] = e.root]
  /\ Goto(t, IF job[t].op = "start" THEN "lease" ELSE "load")
  /\ UNCHANGED <<registry, lease, files, request, queue, job, past>>

LoseProject(t) ==
  /\ pc[t] = "job"
  /\ ~Registered(job[t].id, registry)
  /\ EndJob(t)
  /\ UNCHANGED <<registry, lease, files, request, queue, past>>

LoadRun(t) ==
  /\ pc[t] = "load"
  /\ IF runs[job[t].run] = "resumable"
       THEN Goto(t, "lease") /\ UNCHANGED <<job, root>>
       ELSE EndJob(t)
  /\ UNCHANGED <<registry, lease, files, request, queue, past>>

SeededLeaseIgnored(id) == TRUE

(* os.open(O_CREAT | O_EXCL) of the lease file.                            *)
LeaseFree(id) == lease[id] = None

AcquireLease(t) ==
  /\ pc[t] = "lease"
  /\ LeaseFree(job[t].id)
  /\ lease' = [lease EXCEPT ![job[t].id] = t]
  /\ IF job[t].op = "start"
       THEN /\ runs' = [runs EXCEPT ![job[t].run] = "resumable"]
            /\ home' = [home EXCEPT ![job[t].run] = job[t].id]
       ELSE UNCHANGED <<runs, home>>
  /\ Goto(t, "execute")
  /\ UNCHANGED <<registry, archive, request, queue, job, root, past>>

SeededWaitsForLease(t) == FALSE /\ UNCHANGED vars

(* ExecutionLeaseError: the job does not wait for the lease.               *)
LeaseTaken(t) ==
  /\ pc[t] = "lease"
  /\ ~LeaseFree(job[t].id)
  /\ EndJob(t)
  /\ UNCHANGED <<registry, lease, files, request, queue, past>>

(* A save of the record, which raises without the directory of the run; at *)
(* an approval gate the execution is over.                                 *)
Publish(t, s) ==
  /\ pc[t] = "execute"
  /\ runs[job[t].run] # "gone"
  /\ runs' = [runs EXCEPT ![job[t].run] = s]
  /\ Goto(t, IF s = "waiting" THEN "return" ELSE "execute")
  /\ UNCHANGED <<registry, lease, archive, home, request, queue, job, root, past>>

(* append_trajectory_event: path.parent.mkdir(parents=True, exist_ok=True) *)
LogEvent(t) ==
  /\ pc[t] = "execute"
  /\ runs[job[t].run] \in {"empty", "gone"}
  /\ runs' = [runs EXCEPT ![job[t].run] = "bare"]
  /\ UNCHANGED <<registry, lease, archive, home, request, pool, past>>

(* The execution returns or raises, and the finally clause gives the lease *)
(* back.                                                                   *)
ReleaseLease(t) ==
  /\ pc[t] \in {"execute", "return"}
  /\ lease' = [lease EXCEPT ![job[t].id] = None]
  /\ EndJob(t)
  /\ UNCHANGED <<registry, files, request, queue, past>>

(* A command line takes the lease of a project, and may never give it back.*)
OutsideTakes(id) ==
  /\ lease[id] = None
  /\ lease' = [lease EXCEPT ![id] = Outside]
  /\ UNCHANGED <<registry, files, request, pool, past>>

OutsideEnds(id) ==
  /\ lease[id] = Outside
  /\ lease' = [lease EXCEPT ![id] = None]
  /\ UNCHANGED <<registry, files, request, pool, past>>

-----------------------------------------------------------------------------
(* The cleanup of runs, without a lease.                                   *)

(* _run_path, _entry and _assert_eligible, for op "archive" or "delete".   *)
PostCleanup(c, r, id, op) ==
  /\ Found(r, id)
  /\ runs[r] = "terminal"
  /\ Begin(c, op, NoEntry, r)
  /\ Spend("cleanups")
  /\ UNCHANGED <<registry, lease, files, out, place, pool, raced, torn>>

(* destination.exists() (80).                                              *)
CheckArchive(c) ==
  /\ at[c] = "archive"
  /\ IF archive[aim[c]] = "gone"
       THEN Continue(c, "rename") /\ UNCHANGED <<want, aim>>
       ELSE Answer(c)
  /\ UNCHANGED <<registry, lease, files, out, place, pool, past>>

(* The run goes into the archive, and with it its open descriptors.        *)
MoveRun(r) ==
  /\ archive' = [archive EXCEPT ![r] = runs[r]]
  /\ runs' = [runs EXCEPT ![r] = "gone"]
  /\ place' = [d \in Clients |->
                 IF aim[d] = r /\ place[d] = "runs" THEN "archive"
                 ELSE IF aim[d] = r THEN "none"
                 ELSE place[d]]
  /\ torn' = (torn \ ({r} \X Places)) \cup
               (IF <<r, "runs">> \in torn THEN {<<r, "archive">>} ELSE {})

SeededOverwritesArchive(c) ==
  /\ at[c] = "rename"
  /\ IF runs[aim[c]] # "gone" THEN MoveRun(aim[c]) ELSE UNCHANGED <<runs, archive, place, torn>>
  /\ Answer(c)
  /\ UNCHANGED <<registry, lease, home, out, pool, left, raced>>

(* source.rename(destination) (82) fails without a source, and replaces an *)
(* empty directory only.                                                   *)
Archive(c) ==
  /\ at[c] = "rename"
  /\ IF runs[aim[c]] # "gone" /\ archive[aim[c]] \in {"empty", "gone"}
       THEN MoveRun(aim[c])
       ELSE UNCHANGED <<runs, archive, place, torn>>
  /\ Answer(c)
  /\ UNCHANGED <<registry, lease, home, out, pool, left, raced>>

(* shutil.rmtree (95) opens the directory that has the path of the run and *)
(* lists it.                                                               *)
OpenRun(c) ==
  /\ at[c] = "delete"
  /\ IF runs[aim[c]] = "gone"
       THEN Answer(c) /\ UNCHANGED <<place, torn>>
       ELSE /\ Continue(c, "unlink")
            /\ place' = [place EXCEPT ![c] = "runs"]
            /\ torn' = torn \cup {<<aim[c], "runs">>}
            /\ UNCHANGED <<want, aim>>
  /\ UNCHANGED <<registry, lease, files, out, pool, left, raced>>

(* What it has opened, wherever that is by now, gets these contents.       *)
Leaves(c, contents) ==
  /\ runs' = IF place[c] = "runs" THEN [runs EXCEPT ![aim[c]] = contents] ELSE runs
  /\ archive' = IF place[c] = "archive" THEN [archive EXCEPT ![aim[c]] = contents] ELSE archive

Opened(c) ==
  IF place[c] = "runs" THEN runs[aim[c]]
  ELSE IF place[c] = "archive" THEN archive[aim[c]]
  ELSE "gone"

(* It unlinks state.json, before or after the other entries.               *)
UnlinkState(c) ==
  /\ at[c] = "unlink"
  /\ IF Opened(c) \in Status
       THEN \E contents \in {"bare", "empty"} : Leaves(c, contents)
       ELSE UNCHANGED <<runs, archive>>
  /\ Continue(c, "rest")
  /\ UNCHANGED <<registry, lease, home, want, out, aim, place, pool, past>>

(* It unlinks the other entries; a state.json that was saved since stays.  *)
UnlinkRest(c) ==
  /\ at[c] = "rest"
  /\ IF Opened(c) = "bare" THEN Leaves(c, "empty") ELSE UNCHANGED <<runs, archive>>
  /\ Continue(c, "rmdir")
  /\ UNCHANGED <<registry, lease, home, want, out, aim, place, pool, past>>

(* os.rmdir of the path, where another directory may be by now.            *)
RemoveDir(c) ==
  /\ at[c] = "rmdir"
  /\ IF runs[aim[c]] = "empty"
       THEN /\ runs' = [runs EXCEPT ![aim[c]] = "gone"]
            /\ place' = [d \in Clients |->
                           IF d = c \/ (aim[d] = aim[c] /\ place[d] = "runs") THEN "none"
                           ELSE place[d]]
            /\ torn' = torn \ {<<aim[c], "runs">>}
       ELSE place' = [place EXCEPT ![c] = "none"] /\ UNCHANGED <<runs, torn>>
  /\ Answer(c)
  /\ UNCHANGED <<registry, lease, archive, home, out, pool, left, raced>>

(* An unlink raises, for example of a file another deletion has removed.   *)
DeleteFails(c) ==
  /\ at[c] \in {"unlink", "rest"}
  /\ place' = [place EXCEPT ![c] = "none"]
  /\ Answer(c)
  /\ UNCHANGED <<registry, lease, files, out, pool, past>>

-----------------------------------------------------------------------------

IndexStep(c) ==
  \/ \E e \in Entries : CreateProject(c, e) \/ MoveProject(c, e) \/ DeleteProject(c, e)
  \/ CheckWorkspace(c) \/ ReplaceEntry(c) \/ DropEntry(c) \/ SaveIndex(c)

CleanupStep(c) ==
  \/ \E r \in Runs, id \in Ids, op \in {"archive", "delete"} : PostCleanup(c, r, id, op)
  \/ CheckArchive(c) \/ Archive(c)
  \/ OpenRun(c) \/ UnlinkState(c) \/ UnlinkRest(c) \/ RemoveDir(c) \/ DeleteFails(c)

PoolStep(t) ==
  \/ TakeJob(t) \/ FindProject(t) \/ LoseProject(t) \/ LoadRun(t)
  \/ AcquireLease(t) \/ LeaseTaken(t) \/ ReleaseLease(t)

RunStep ==
  \/ \E t \in Threads : PoolStep(t) \/ LogEvent(t) \/ \E s \in Status : Publish(t, s)
  \/ \E r \in Runs, id \in Ids : PostResume(r, id) \/ PostApprove(r, id)
  \/ \E id \in Ids : PostStart(id) \/ OutsideTakes(id) \/ OutsideEnds(id)

Next == RunStep \/ \E c \in Clients : IndexStep(c) \/ CleanupStep(c)

Spec == Init /\ [][Next]_vars

(* The threads of the pool are scheduled, and an execution has finitely    *)
(* many tasks and attempts; no request and no command line has to come.    *)
FairSpec == Spec /\ \A t \in Threads : WF_vars(PoolStep(t))
=============================================================================
