---------------------------- MODULE ModelServer -----------------------------
(***************************************************************************)
(* The local model and its lock (adapters/llama_server.py, with the guard  *)
(* of services/resource_guard.py).                                         *)
(*                                                                         *)
(* An owner is one "with LlamaServer(...)" block, in a thread of the       *)
(* control server or in a process of its own.  Owners share an flock, the  *)
(* text in the locked file, and the process table of the machine, in which *)
(* a pid is reused once its process is gone; a process is identified by    *)
(* its pid and its creation time, here the number of its birth.            *)
(*                                                                         *)
(* The death of the process of an owner releases its flock (the kernel     *)
(* closes the file) and does not touch the model it started.  Whether a    *)
(* signal ends a process in time, a model becomes ready or memory suffices *)
(* is a choice; a zombie nobody has waited for counts as a process that no *)
(* signal ends.  The few bytes of metadata are taken to be written         *)
(* without an I/O error.                                                   *)
(*                                                                         *)
(* A definition named Seeded... is the one after it with a bug.            *)
(***************************************************************************)
EXTENDS Naturals

CONSTANTS
  Owners,
  NoOwner,
  Pids,
  NoPid,
  MaxBirths,    \* how many processes, ours and others', a behaviour has
  MaxCrashes    \* how many owners die

ASSUME OwnersAssumption == NoOwner \notin Owners
ASSUME PidsAssumption == NoPid \notin Pids
ASSUME BoundsAssumption == MaxBirths \in Nat /\ MaxCrashes \in Nat

(* A model Workestra started, a llama process of somebody else, any other  *)
(* program.                                                                *)
Kinds == {"model", "llama", "other"}
IsLlama(kind) == kind \in {"model", "llama"}

Births == 1 .. MaxBirths
Process == [birth: Births, kind: Kinds]
Free == [birth |-> 0, kind |-> "none"]
Identity == [pid: Pids, birth: Births]
Nobody == [pid |-> NoPid, birth |-> 0]

VARIABLES
  holder,     \* who holds the flock
  meta,       \* the process the locked file names
  proc,       \* proc[p]: the process table
  pc,         \* pc[o]: where owner o is
  child,      \* child[o]: the process self.process stands for
  born,       \* births so far
  crashes,    \* history: deaths of owners so far
  untracked,  \* history: models whose owner died before it recorded them, and
              \* those a cleanup took for another program
  signalled   \* history: what processes were, when they were signalled

vars == <<holder, meta, proc, pc, child, born, crashes, untracked, signalled>>

Starting == {"clean", "signal", "guard", "spawn"}
Owning == {"record", "loading", "serving", "stopping", "truncate"}
Leaving == {"unlock", "giveUp"}
Labels == {"idle", "locking", "waiting"} \cup Starting \cup Owning \cup Leaving

TypeOK ==
  /\ holder \in Owners \cup {NoOwner}
  /\ meta \in Identity \cup {Nobody}
  /\ proc \in [Pids -> Process \cup {Free}]
  /\ pc \in [Owners -> Labels]
  /\ child \in [Owners -> Identity \cup {Nobody}]
  /\ born \in 0 .. MaxBirths
  /\ crashes \in 0 .. MaxCrashes
  /\ untracked \in SUBSET Births
  /\ signalled \in SUBSET [kind: Kinds, inUse: BOOLEAN]

Init ==
  /\ holder = NoOwner
  /\ meta = Nobody
  /\ proc = [p \in Pids |-> Free]
  /\ pc = [o \in Owners |-> "idle"]
  /\ child = [o \in Owners |-> Nobody]
  /\ born = 0
  /\ crashes = 0
  /\ untracked = {}
  /\ signalled = {}

-----------------------------------------------------------------------------

Goto(o, label) == pc' = [pc EXCEPT ![o] = label]

machine == <<proc, born>>
history == <<crashes, untracked, signalled>>

Live(p) == proc[p] # Free

SeededPidIsEnough(id) == id # Nobody /\ Live(id.pid)

(* psutil.Process(pid) exists and create_time() is the recorded one.       *)
SameProcess(id) == id # Nobody /\ Live(id.pid) /\ proc[id.pid].birth = id.birth

LlamaRunning == \E p \in Pids : IsLlama(proc[p].kind)

(* Some owner other than o runs the process it has started.                *)
InUse(o, id) ==
  \E v \in Owners \ {o} : child[v] = id /\ pc[v] \in {"record", "loading", "serving"}

Signal(o, id) ==
  signalled' = signalled \cup {[kind |-> proc[id.pid].kind, inUse |-> InUse(o, id)]}

Ends(p) == proc' = [proc EXCEPT ![p] = Free]

-----------------------------------------------------------------------------
(* start(): the lock, the stale process, the guard, the new process.       *)

Start(o) ==
  /\ pc[o] = "idle"
  /\ Goto(o, "locking")
  /\ UNCHANGED <<holder, meta, child, machine, history>>

SeededLockIgnored(o) == TRUE

LockFree(o) == holder = NoOwner

TakeLock(o) ==
  /\ pc[o] = "locking"
  /\ LockFree(o)
  /\ holder' = o
  /\ Goto(o, "clean")
  /\ UNCHANGED <<meta, child, machine, history>>

(* LlamaServerBusyError at the deadline; stop() has nothing to undo.       *)
LockTimeout(o) ==
  /\ pc[o] = "locking"
  /\ holder # NoOwner
  /\ Goto(o, "idle")
  /\ UNCHANGED <<holder, meta, child, machine, history>>

(* Metadata that names no process, or one that is gone, or whose pid has   *)
(* been reused, is cleared; and so it is when the command line shows       *)
(* another executable (a link or a relative path that resolves otherwise   *)
(* by now), though the process lives.                                      *)
Examine(o) ==
  /\ pc[o] = "clean"
  /\ \/ /\ SameProcess(meta)
        /\ Goto(o, "signal")
        /\ UNCHANGED <<meta, untracked>>
     \/ /\ Goto(o, "guard")
        /\ meta' = Nobody
        /\ untracked' = untracked \cup (IF SameProcess(meta) THEN {meta.birth} ELSE {})
  /\ UNCHANGED <<holder, child, machine, crashes, signalled>>

(* terminate() and, after stop_timeout, kill(); psutil signals only the    *)
(* process the handle was made for.                                        *)
StaleEnds(o) ==
  /\ pc[o] = "signal"
  /\ SameProcess(meta)
  /\ Signal(o, meta)
  /\ Ends(meta.pid)
  /\ meta' = Nobody
  /\ Goto(o, "guard")
  /\ UNCHANGED <<holder, child, born, crashes, untracked>>

SeededForgetsStuck(o) ==
  /\ pc[o] = "signal"
  /\ SameProcess(meta)
  /\ Signal(o, meta)
  /\ meta' = Nobody
  /\ Goto(o, "guard")
  /\ UNCHANGED <<holder, child, machine, crashes, untracked>>

(* TimeoutExpired after kill(): the metadata stays.                        *)
StaleStuck(o) ==
  /\ pc[o] = "signal"
  /\ SameProcess(meta)
  /\ Signal(o, meta)
  /\ Goto(o, "guard")
  /\ UNCHANGED <<holder, meta, child, machine, crashes, untracked>>

(* The process is gone between the checks and the signal: NoSuchProcess is *)
(* not among the exceptions the cleanup handles, and start() fails.        *)
StaleVanished(o) ==
  /\ pc[o] = "signal"
  /\ ~SameProcess(meta)
  /\ Goto(o, "giveUp")
  /\ UNCHANGED <<holder, meta, child, machine, history>>

SeededGuardOff == TRUE

SafeToStart == ~LlamaRunning

PassGuard(o) ==
  /\ pc[o] = "guard"
  /\ SafeToStart
  /\ Goto(o, "spawn")
  /\ UNCHANGED <<holder, meta, child, machine, history>>

(* Another llama process, or not enough RAM or VRAM.                       *)
Refuse(o) ==
  /\ pc[o] = "guard"
  /\ Goto(o, "giveUp")
  /\ UNCHANGED <<holder, meta, child, machine, history>>

(* No binary, no model file, or Popen raises.                              *)
SpawnFails(o) ==
  /\ pc[o] = "spawn"
  /\ Goto(o, "unlock")
  /\ UNCHANGED <<holder, meta, child, machine, history>>

Begin(p, kind) ==
  /\ born < MaxBirths
  /\ ~Live(p)
  /\ born' = born + 1
  /\ proc' = [proc EXCEPT ![p] = [birth |-> born + 1, kind |-> kind]]

Spawn(o) ==
  /\ pc[o] = "spawn"
  /\ \E p \in Pids :
       /\ Begin(p, "model")
       /\ child' = [child EXCEPT ![o] = [pid |-> p, birth |-> born + 1]]
  /\ Goto(o, "record")
  /\ UNCHANGED <<holder, meta, history>>

SeededNoCreationTime(o) ==
  /\ pc[o] = "record"
  /\ meta' = [child[o] EXCEPT !.birth = 0]
  /\ Goto(o, "loading")
  /\ UNCHANGED <<holder, child, machine, history>>

Record(o) ==
  /\ pc[o] = "record"
  /\ meta' = child[o]
  /\ Goto(o, "loading")
  /\ UNCHANGED <<holder, child, machine, history>>

Ready(o) ==
  /\ pc[o] = "loading"
  /\ SameProcess(child[o])
  /\ Goto(o, "serving")
  /\ UNCHANGED <<holder, meta, child, machine, history>>

(* The process has exited, or start_timeout has passed.                    *)
LoadFails(o) ==
  /\ pc[o] = "loading"
  /\ Goto(o, "stopping")
  /\ UNCHANGED <<holder, meta, child, machine, history>>

-----------------------------------------------------------------------------
(* The body of the with block.                                             *)

Replies == {"text", "empty", "malformed", "httpError", "unreachable"}

(* Empty content is an answer unless the caller requires content.          *)
Answered(reply, requireContent) ==
  reply = "text" \/ (reply = "empty" /\ ~requireContent)

(* What chat() raises leaves the block through __exit__.                   *)
Chat(o, reply, requireContent) ==
  /\ pc[o] = "serving"
  /\ ~SameProcess(child[o]) => reply = "unreachable"
  /\ Goto(o, IF Answered(reply, requireContent) THEN "serving" ELSE "stopping")
  /\ UNCHANGED <<holder, meta, child, machine, history>>

EndBody(o) ==
  /\ pc[o] = "serving"
  /\ Goto(o, "stopping")
  /\ UNCHANGED <<holder, meta, child, machine, history>>

-----------------------------------------------------------------------------
(* stop(): the process, the metadata, the lock, and only then the wait for *)
(* its memory.                                                             *)

AlreadyExited(o) ==
  /\ pc[o] = "stopping"
  /\ ~SameProcess(child[o])
  /\ Goto(o, "truncate")
  /\ UNCHANGED <<holder, meta, child, machine, history>>

ChildEnds(o) ==
  /\ pc[o] = "stopping"
  /\ SameProcess(child[o])
  /\ Signal(o, child[o])
  /\ Ends(child[o].pid)
  /\ Goto(o, "truncate")
  /\ UNCHANGED <<holder, meta, child, born, crashes, untracked>>

(* Still exiting after kill(): LlamaServerBusyError, and the metadata is   *)
(* left for the next owner.                                                *)
ChildStuck(o) ==
  /\ pc[o] = "stopping"
  /\ SameProcess(child[o])
  /\ Signal(o, child[o])
  /\ child' = [child EXCEPT ![o] = Nobody]
  /\ Goto(o, "giveUp")
  /\ UNCHANGED <<holder, meta, machine, crashes, untracked>>

Truncate(o) ==
  /\ pc[o] = "truncate"
  /\ meta' = Nobody
  /\ child' = [child EXCEPT ![o] = Nobody]
  /\ Goto(o, "unlock")
  /\ UNCHANGED <<holder, machine, history>>

SeededKeepsLock(o) ==
  /\ pc[o] \in Leaving
  /\ holder' = IF pc[o] = "unlock" THEN NoOwner ELSE holder
  /\ Goto(o, IF pc[o] = "unlock" THEN "waiting" ELSE "idle")
  /\ UNCHANGED <<meta, child, machine, history>>

(* The finally clause.  Only a stop that had a baseline and met no stuck   *)
(* process goes on to wait_for_model_release.                              *)
Unlock(o) ==
  /\ pc[o] \in Leaving
  /\ holder' = NoOwner
  /\ Goto(o, IF pc[o] = "unlock" THEN "waiting" ELSE "idle")
  /\ UNCHANGED <<meta, child, machine, history>>

(* It returns when no llama process is left and memory is back, and raises *)
(* at the deadline, also when the process it sees is the next owner's.     *)
EndWait(o) ==
  /\ pc[o] = "waiting"
  /\ Goto(o, "idle")
  /\ UNCHANGED <<holder, meta, child, machine, history>>

-----------------------------------------------------------------------------
(* The machine.                                                            *)

(* The process of the owner is killed at any point of its life.            *)
Crash(o) ==
  /\ pc[o] # "idle"
  /\ crashes < MaxCrashes
  /\ crashes' = crashes + 1
  /\ holder' = IF holder = o THEN NoOwner ELSE holder
  /\ untracked' = IF pc[o] = "record" /\ SameProcess(child[o])
                    THEN untracked \cup {child[o].birth} ELSE untracked
  /\ child' = [child EXCEPT ![o] = Nobody]
  /\ Goto(o, "idle")
  /\ UNCHANGED <<meta, machine, signalled>>

Exits(p) ==
  /\ Live(p)
  /\ Ends(p)
  /\ UNCHANGED <<holder, meta, pc, child, born, history>>

(* The kernel keeps the pid of a child until its parent has waited for it. *)
ForeignStarts(p, kind) ==
  /\ \A o \in Owners : child[o].pid # p
  /\ Begin(p, kind)
  /\ UNCHANGED <<holder, meta, pc, child, history>>

-----------------------------------------------------------------------------

OwnerStep(o) ==
  \/ TakeLock(o) \/ LockTimeout(o)
  \/ Examine(o) \/ StaleEnds(o) \/ StaleStuck(o) \/ StaleVanished(o)
  \/ PassGuard(o) \/ Refuse(o) \/ SpawnFails(o) \/ Spawn(o)
  \/ Record(o) \/ Ready(o) \/ LoadFails(o)
  \/ \E reply \in Replies, require \in BOOLEAN : Chat(o, reply, require)
  \/ EndBody(o)
  \/ AlreadyExited(o) \/ ChildEnds(o) \/ ChildStuck(o)
  \/ Truncate(o) \/ Unlock(o) \/ EndWait(o)

Next ==
  \/ \E o \in Owners : Start(o) \/ OwnerStep(o) \/ Crash(o)
  \/ \E p \in Pids : Exits(p)
  \/ \E p \in Pids : \E kind \in {"llama", "other"} : ForeignStarts(p, kind)

Spec == Init /\ [][Next]_vars

(* Every wait of start() and stop() has a deadline and the body of a block *)
(* makes finitely many calls of chat, each with a timeout; nothing has to  *)
(* start, exit or crash.                                                   *)
FairSpec == Spec /\ \A o \in Owners : WF_vars(OwnerStep(o))
=============================================================================
