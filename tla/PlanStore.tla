----------------------------- MODULE PlanStore ------------------------------
(***************************************************************************)
(* The stored plans of ControlApplication (control_application.py): one    *)
(* plan, its record file, the numbered files of its compiled revisions and *)
(* the calls that read and write them.  No lock is taken: a call loads the *)
(* record, works on its copy and may save the copy later.  Plans share     *)
(* nothing but the registry, so one plan shows what a call can do.         *)
(*                                                                         *)
(* A revision is named by its number and knows the attempt and the source  *)
(* it was compiled from.  The fields of a record that are copied from its  *)
(* revision (path, digests, time) always agree with it and are left out,   *)
(* and so are issues, assumptions and errors.  FAILED and REJECTED are     *)
(* treated alike.  Plans stored before there were revisions are left out.  *)
(***************************************************************************)
EXTENDS Naturals, FiniteSets

CONSTANTS
  Clients,       \* threads of the control server
  None,
  Sources,       \* the texts the Markdown file of the plan can have
  MaxAttempts    \* how many compilations a behaviour starts

ASSUME ClientsAssumption == IsFiniteSet(Clients) /\ Clients # {}
ASSUME SourcesAssumption == Sources # {}
ASSUME NoneAssumption == None \notin Sources /\ None \notin [by: Nat, source: Sources]
ASSUME AttemptsAssumption == MaxAttempts \in Nat

VARIABLES
  record,     \* <plan>.record.json
  files,      \* files[n]: <plan>.revisions/n.json
  damaged,    \* revisions that _read_compiled_revision rejects
  source,     \* <plan>.md
  created,    \* the workspace of the ProjectSpec exists and is registered
  pc,
  op,         \* op[c]: the operation client c performs
  mem,        \* mem[c]: its copy of the record
  asked,      \* asked[c]: the revision its request names
  current,    \* current[c]: the revision _ensure_compiled_revision returned
  job,        \* job[c]: the compilation it performs
  width,      \* how many calls are ever active at once
  started,    \* compilations so far
  returned,   \* history: the attempts whose compile_plan returned
  active      \* history: the revisions that were ever in the record

storeVars == <<record, files, damaged, source, created>>
callVars == <<op, mem, asked, current, job>>
pastVars == <<width, started, returned, active>>
vars == <<storeVars, pc, callVars, pastVars>>

Attempts == 1 .. MaxAttempts
(* An attempt writes at most one revision.                                 *)
Revisions == 1 .. MaxAttempts
NoRevision == 0
NoJob == [id |-> 0, source |-> None, revision |-> NoRevision]

Records == [status: {"imported", "compiled", "failed", "needs_recompile"},
            revision: Revisions \cup {NoRevision},
            attempts: SUBSET Attempts,
            invalidated: SUBSET Revisions,
            bound: BOOLEAN]

Operations == {"view", "compile", "fail", "start", "create", "eligible"}
Labels == Operations \cup
  {"idle", "ensure", "repair", "compiling", "number", "link", "save", "read", "bootstrap",
   "rebind", "bind"}

TypeOK ==
  /\ record \in Records
  /\ files \in [Revisions -> [by: Attempts, source: Sources] \cup {None}]
  /\ damaged \subseteq Revisions
  /\ source \in Sources /\ created \in BOOLEAN
  /\ pc \in [Clients -> Labels] /\ op \in [Clients -> Operations]
  /\ mem \in [Clients -> Records]
  /\ asked \in [Clients -> Revisions \cup {NoRevision}]
  /\ current \in [Clients -> Revisions \cup {NoRevision}]
  /\ job \in [Clients -> [id: 0 .. MaxAttempts, source: Sources \cup {None},
                          revision: Nat]]
  /\ width \in Nat /\ started \in 0 .. MaxAttempts
  /\ returned \subseteq Attempts /\ active \subseteq Revisions

(* import_plan.                                                            *)
NewPlan == [status |-> "imported", revision |-> NoRevision, attempts |-> {},
            invalidated |-> {}, bound |-> FALSE]

Init ==
  /\ record = NewPlan
  /\ files = [n \in Revisions |-> None]
  /\ damaged = {}
  /\ source \in Sources
  /\ created = FALSE
  /\ pc = [c \in Clients |-> "idle"]
  /\ op = [c \in Clients |-> "view"]
  /\ mem = [c \in Clients |-> NewPlan]
  /\ asked = [c \in Clients |-> NoRevision]
  /\ current = [c \in Clients |-> NoRevision]
  /\ job = [c \in Clients |-> NoJob]
  /\ width \in 1 .. Cardinality(Clients)
  /\ started = 0 /\ returned = {} /\ active = {}

-----------------------------------------------------------------------------
Goto(c, label) == pc' = [pc EXCEPT ![c] = label]
Keep(c, m) == mem' = [mem EXCEPT ![c] = m]

(* What the rest of the call does not read again.                          *)
DropCopy(c) ==
  /\ Keep(c, NewPlan)
  /\ current' = [current EXCEPT ![c] = NoRevision]

(* The call returns or raises.                                             *)
Return(c) ==
  /\ pc' = [pc EXCEPT ![c] = "idle"]
  /\ op' = [op EXCEPT ![c] = "view"]
  /\ DropCopy(c)
  /\ asked' = [asked EXCEPT ![c] = NoRevision]
  /\ job' = [job EXCEPT ![c] = NoJob]

(* _write_plan_record: the whole record replaces the file.                 *)
WriteRecord(m) ==
  /\ record' = m
  /\ active' = active \cup ({m.revision} \ {NoRevision})

Exists(n) == n \in Revisions /\ files[n] # None

SeededOtherSource(n) == Exists(n) /\ n \notin damaged /\ files[n].source = source

Readable(n) == Exists(n) /\ n \notin damaged

SeededInvalidatesCleared(m) ==
  [m EXCEPT !.status = "needs_recompile", !.revision = NoRevision,
            !.invalidated = @ \cup {NoRevision}]

(* _invalidate_compiled_revision.                                          *)
Invalidated(m) ==
  [m EXCEPT !.status = "needs_recompile", !.revision = NoRevision,
            !.invalidated = @ \cup {m.revision}]

(* Revision n becomes the active one.                                      *)
Naming(m, n) == [m EXCEPT !.status = "compiled", !.revision = n]

-----------------------------------------------------------------------------
(* A request: get_plan or list_plans, compile_plan, start_plan_run or      *)
(* create_project_from_plan.  Each begins with _load_plan and then         *)
(* _ensure_compiled_revision, and goes on at the label of its operation.   *)

Request(c, o, n) ==
  /\ pc[c] = "idle"
  /\ Cardinality({d \in Clients : pc[d] # "idle"}) < width
  /\ IF o \in {"start", "create"} THEN n \in Revisions ELSE n = NoRevision
  /\ op' = [op EXCEPT ![c] = o]
  /\ asked' = [asked EXCEPT ![c] = n]
  /\ Keep(c, record)
  /\ Goto(c, "ensure")
  /\ UNCHANGED <<storeVars, current, job, pastVars>>

EnsureCurrent(c) ==
  /\ pc[c] = "ensure"
  /\ mem[c].revision # NoRevision /\ Readable(mem[c].revision)
  /\ current' = [current EXCEPT ![c] = mem[c].revision]
  /\ Goto(c, op[c])
  /\ UNCHANGED <<storeVars, op, mem, asked, job, pastVars>>

Invalidate(c) ==
  /\ pc[c] = "ensure"
  /\ mem[c].revision # NoRevision /\ ~Readable(mem[c].revision)
  /\ Keep(c, Invalidated(mem[c]))
  /\ current' = [current EXCEPT ![c] = NoRevision]
  /\ Goto(c, "repair")
  /\ UNCHANGED <<storeVars, op, asked, job, pastVars>>

(* The revisions a failed record can be restored from.                     *)
Matching(m) ==
  {n \in Revisions : m.status = "failed" /\ Readable(n) /\ files[n].source = source}

Restore(c) ==
  /\ pc[c] = "ensure"
  /\ mem[c].revision = NoRevision
  /\ \E n \in Matching(mem[c]) :
       /\ \A k \in Matching(mem[c]) : k <= n
       /\ Keep(c, Naming(mem[c], n))
       /\ current' = [current EXCEPT ![c] = n]
  /\ Goto(c, "repair")
  /\ UNCHANGED <<storeVars, op, asked, job, pastVars>>

EnsureNone(c) ==
  /\ pc[c] = "ensure"
  /\ mem[c].revision = NoRevision /\ Matching(mem[c]) = {}
  /\ current' = [current EXCEPT ![c] = NoRevision]
  /\ Goto(c, op[c])
  /\ UNCHANGED <<storeVars, op, mem, asked, job, pastVars>>

(* Reading a plan may write its record.                                    *)
RepairRecord(c) ==
  /\ pc[c] = "repair"
  /\ WriteRecord(mem[c])
  /\ Goto(c, op[c])
  /\ UNCHANGED <<files, damaged, source, created, callVars, width, started, returned>>

View(c) ==
  /\ pc[c] = "view"
  /\ Return(c)
  /\ UNCHANGED <<storeVars, pastVars>>

Compiled(c) == mem[c].status = "compiled" /\ current[c] # NoRevision

-----------------------------------------------------------------------------
(* compile_plan.                                                           *)

(* Not forced, and the revision was compiled from this source.             *)
ReuseRevision(c) ==
  /\ pc[c] = "compile"
  /\ Compiled(c) /\ files[current[c]].source = source
  /\ Return(c)
  /\ UNCHANGED <<storeVars, pastVars>>

(* Forced, or there is nothing to reuse.                                   *)
BeginCompile(c) ==
  /\ pc[c] = "compile"
  /\ started < MaxAttempts
  /\ started' = started + 1
  /\ job' = [job EXCEPT ![c] = [NoJob EXCEPT !.id = started + 1, !.source = source]]
  /\ DropCopy(c)
  /\ Goto(c, "compiling")
  /\ UNCHANGED <<storeVars, op, asked, width, returned, active>>

SeededAttemptsAnew(c) == [record EXCEPT !.attempts = {job[c].id}]

(* The record is loaded again, and this attempt is added to it.            *)
WithAttempt(c) == [record EXCEPT !.attempts = @ \cup {job[c].id}]

CompileSucceeds(c) ==
  /\ pc[c] = "compiling"
  /\ Keep(c, WithAttempt(c))
  /\ Goto(c, "number")
  /\ UNCHANGED <<storeVars, op, asked, current, job, pastVars>>

(* FAILED or REJECTED, among them a model server that is busy.             *)
CompileFails(c) ==
  /\ pc[c] = "compiling"
  /\ Keep(c, WithAttempt(c))
  /\ op' = [op EXCEPT ![c] = "fail"]
  /\ Goto(c, "ensure")
  /\ UNCHANGED <<storeVars, asked, current, job, pastVars>>

SeededAlwaysFailed(c) == [mem[c] EXCEPT !.status = "failed", !.revision = NoRevision]

(* A failure leaves a good revision active.                                *)
FailedRecord(c) ==
  IF current[c] # NoRevision THEN mem[c]
  ELSE [mem[c] EXCEPT !.status = "failed", !.revision = NoRevision]

RecordFailure(c) ==
  /\ pc[c] = "fail"
  /\ Keep(c, FailedRecord(c))
  /\ Goto(c, "save")
  /\ UNCHANGED <<storeVars, op, asked, current, job, pastVars>>

(* The numbers _next_compiled_revision knows to be used.                   *)
Used(m) == ({m.revision} \ {NoRevision}) \cup m.invalidated \cup {n \in Revisions : Exists(n)}

NumberRevision(c) ==
  /\ pc[c] = "number"
  /\ \E n \in Used(mem[c]) \cup {NoRevision} :
       /\ \A k \in Used(mem[c]) : k <= n
       /\ job' = [job EXCEPT ![c].revision = n + 1]
  /\ Goto(c, "link")
  /\ UNCHANGED <<storeVars, op, mem, asked, current, pastVars>>

SeededReplaces(n) == n \in Revisions

(* os.link creates the file or raises.                                     *)
Linkable(n) == n \in Revisions /\ ~Exists(n)

SeededNotWritten(c) ==
  /\ pc[c] = "link"
  /\ Linkable(job[c].revision)
  /\ Keep(c, Naming(mem[c], job[c].revision))
  /\ Goto(c, "save")
  /\ UNCHANGED <<storeVars, op, asked, current, job, pastVars>>

LinkRevision(c) ==
  LET n == job[c].revision IN
  /\ pc[c] = "link"
  /\ Linkable(n)
  /\ files' = [files EXCEPT ![n] = [by |-> job[c].id, source |-> job[c].source]]
  /\ Keep(c, Naming(mem[c], n))
  /\ Goto(c, "save")
  /\ UNCHANGED <<record, damaged, source, created, op, asked, current, job, pastVars>>

(* "Compiled plan revision already exists": the attempt is not recorded.   *)
RevisionTaken(c) ==
  /\ pc[c] = "link"
  /\ ~Linkable(job[c].revision)
  /\ Return(c)
  /\ UNCHANGED <<storeVars, pastVars>>

SaveAttempt(c) ==
  /\ pc[c] = "save"
  /\ WriteRecord(mem[c])
  /\ returned' = returned \cup {job[c].id}
  /\ Return(c)
  /\ UNCHANGED <<files, damaged, source, created, width, started>>

-----------------------------------------------------------------------------
(* start_plan_run.                                                         *)

SeededAnyRevision(c) == Compiled(c)

NamesCurrent(c) == Compiled(c) /\ asked[c] = current[c]

RefuseStart(c) ==
  /\ pc[c] = "start"
  /\ ~NamesCurrent(c)
  /\ Return(c)
  /\ UNCHANGED <<storeVars, pastVars>>

AcceptStart(c) ==
  /\ pc[c] = "start"
  /\ NamesCurrent(c)
  /\ DropCopy(c)
  /\ Goto(c, "read")
  /\ UNCHANGED <<storeVars, op, asked, job, pastVars>>

(* The revision the request names is read and handed to a run, which is    *)
(* RunLifecycle's, or cannot be read.                                      *)
StartPlanRun(c) ==
  /\ pc[c] = "read"
  /\ Return(c)
  /\ UNCHANGED <<storeVars, pastVars>>

-----------------------------------------------------------------------------
(* create_project_from_plan.                                               *)

(* A stale revision is refused, and a bound plan returns its project.      *)
CreateEnds(c) ==
  /\ pc[c] = "create"
  /\ Compiled(c) /\ (asked[c] # current[c] \/ mem[c].bound)
  /\ Return(c)
  /\ UNCHANGED <<storeVars, pastVars>>

(* project_creation_eligibility loads the record again.                    *)
CheckEligibility(c) ==
  /\ pc[c] = "create"
  /\ ~Compiled(c) \/ (asked[c] = current[c] /\ ~mem[c].bound)
  /\ Keep(c, record)
  /\ op' = [op EXCEPT ![c] = "eligible"]
  /\ Goto(c, "ensure")
  /\ UNCHANGED <<storeVars, asked, current, job, pastVars>>

Eligible(c) == NamesCurrent(c) /\ files[current[c]].source = source /\ ~created

RefuseProject(c) ==
  /\ pc[c] = "eligible"
  /\ ~Eligible(c)
  /\ Return(c)
  /\ UNCHANGED <<storeVars, pastVars>>

AcceptProject(c) ==
  /\ pc[c] = "eligible"
  /\ Eligible(c)
  /\ DropCopy(c)
  /\ Goto(c, "bootstrap")
  /\ UNCHANGED <<storeVars, op, asked, job, pastVars>>

(* bootstrap_python makes and registers an empty or missing workspace.     *)
BootstrapProject(c) ==
  /\ pc[c] = "bootstrap"
  /\ Readable(asked[c]) /\ ~created
  /\ created' = TRUE
  /\ Goto(c, "rebind")
  /\ UNCHANGED <<record, files, damaged, source, callVars, pastVars>>

BootstrapRaises(c) ==
  /\ pc[c] = "bootstrap"
  /\ ~Readable(asked[c]) \/ created
  /\ Return(c)
  /\ UNCHANGED <<storeVars, pastVars>>

Binding(c) == [record EXCEPT !.bound = TRUE]

ReloadToBind(c) ==
  /\ pc[c] = "rebind"
  /\ Keep(c, Binding(c))
  /\ Goto(c, "bind")
  /\ UNCHANGED <<storeVars, op, asked, current, job, pastVars>>

BindProject(c) ==
  /\ pc[c] = "bind"
  /\ WriteRecord(mem[c])
  /\ Return(c)
  /\ UNCHANGED <<files, damaged, source, created, width, started, returned>>

-----------------------------------------------------------------------------
(* The environment.                                                        *)

(* The server stops, or a file operation raises, in the middle of a call.  *)
Abort(c) ==
  /\ pc[c] # "idle"
  /\ Return(c)
  /\ UNCHANGED <<storeVars, pastVars>>

(* A revision no longer validates, as after a change of the plan schema.   *)
Damage(n) ==
  /\ Readable(n)
  /\ damaged' = damaged \cup {n}
  /\ UNCHANGED <<record, files, source, created, pc, callVars, pastVars>>

(* Somebody edits the Markdown file.                                       *)
EditSource ==
  /\ source' \in Sources \ {source}
  /\ UNCHANGED <<record, files, damaged, created, pc, callVars, pastVars>>

-----------------------------------------------------------------------------
Call(c) ==
  \E o \in {"view", "compile", "start", "create"}, n \in Revisions \cup {NoRevision} :
    Request(c, o, n)

Step(c) ==
  \/ EnsureCurrent(c) \/ Invalidate(c) \/ Restore(c) \/ EnsureNone(c) \/ RepairRecord(c)
  \/ View(c)
  \/ ReuseRevision(c) \/ BeginCompile(c) \/ CompileSucceeds(c) \/ CompileFails(c)
  \/ RecordFailure(c) \/ NumberRevision(c) \/ LinkRevision(c) \/ RevisionTaken(c)
  \/ SaveAttempt(c)
  \/ RefuseStart(c) \/ AcceptStart(c) \/ StartPlanRun(c)
  \/ CreateEnds(c) \/ CheckEligibility(c) \/ RefuseProject(c) \/ AcceptProject(c)
  \/ BootstrapProject(c) \/ BootstrapRaises(c) \/ ReloadToBind(c) \/ BindProject(c)

Next ==
  \/ \E c \in Clients : Call(c) \/ Step(c) \/ Abort(c)
  \/ \E n \in Revisions : Damage(n)
  \/ EditSource

Spec == Init /\ [][Next]_vars
=============================================================================
