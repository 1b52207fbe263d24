-------------------------- MODULE ProjectRegistry ---------------------------
(***************************************************************************)
(* The index of projects (services/project_registry.py) and the creation   *)
(* of a Python workspace in front of a registration                        *)
(* (services/project_bootstrap.py).                                        *)
(*                                                                         *)
(* A caller is a request thread of the control server or a command line.   *)
(* The index is one JSON file.  Every call reads it, some more than once,  *)
(* and replaces it as a whole (a temporary file and a rename), without a   *)
(* lock.  An entry is its id and its workspace; name, verifier and the     *)
(* control directories are payload.  A bootstrap works in a directory that *)
(* other callers may be working in too.                                    *)
(*                                                                         *)
(* made[r][i] is who made item i of directory r; what a cleanup deletes    *)
(* goes in one step.                                                       *)
(*                                                                         *)
(* A definition named Seeded... is the one after it with a bug, as in      *)
(* ProjectIndex.                                                           *)
(***************************************************************************)
EXTENDS ProjectIndex, Naturals, FiniteSets

CONSTANTS
  Callers,
  Ids,
  Roots,
  User,      \* who made what was there before
  Nobody

ASSUME FiniteAssumption == IsFiniteSet(Callers)

ASSUME MakersAssumption == Nobody # User /\ {Nobody, User} \cap Callers = {}

(* What a bootstrap creates with open("x"), and what its commands create;  *)
(* uv.lock stands for .venv too, which uv sync adds to it.                 *)
Files == {"pyproject.toml", ".gitignore", "tests/test_bootstrap.py"}
Results == {".git", "uv.lock"}
Items == Files \cup Results

Entries == [id: Ids, root: Roots]
NoEntry == [id |-> Nobody, root |-> Nobody]

VARIABLES
  registry,  \* the entries in the file
  there,     \* the directories that exist
  made,      \* their items
  pc,        \* pc[c]: where call c is
  want,      \* want[c]: the entry the call is about
  out,       \* out[c]: the list the call is about to save
  missing,   \* missing[c]: root_was_missing
  width,     \* history: how many calls are ever active at once
  given,     \* history: the items users had made at the start
  settled    \* history: settled[c]: entries in the file since c began

dirs == <<there, made>>
call == <<want, out, missing>>
vars == <<registry, dirs, pc, call, width, given, settled>>

Making == {"file1", "file2", "file3", "git", "uv", "commit"}
Labels == {"idle", "register", "check", "read", "drop", "bootId", "bootRoot",
           "look", "target", "cleanup", "save"} \cup Making

NoItems == [i \in Items |-> Nobody]

TypeOK ==
  /\ registry \in SUBSET Entries
  /\ there \in SUBSET Roots
  /\ made \in [Roots -> [Items -> Callers \cup {User, Nobody}]]
  /\ pc \in [Callers -> Labels]
  /\ want \in [Callers -> Entries \cup {NoEntry}]
  /\ out \in [Callers -> SUBSET Entries]
  /\ missing \in [Callers -> BOOLEAN]
  /\ width \in Nat
  /\ given \in [Roots -> SUBSET Items]
  /\ settled \in [Callers -> SUBSET Entries]

(* Directories may be missing, empty, or a repository of the user.         *)
Init ==
  /\ registry = {}
  /\ there \in SUBSET Roots
  /\ given \in [Roots -> {{}, {".git"}}]
  /\ \A r \in Roots \ there : given[r] = {}
  /\ made = [r \in Roots |-> [i \in Items |-> IF i \in given[r] THEN User ELSE Nobody]]
  /\ pc = [c \in Callers |-> "idle"]
  /\ want = [c \in Callers |-> NoEntry]
  /\ out = [c \in Callers |-> {}]
  /\ missing = [c \in Callers |-> FALSE]
  /\ width \in 1 .. Cardinality(Callers)
  /\ settled = [c \in Callers |-> {}]

-----------------------------------------------------------------------------

Goto(c, label) == pc' = [pc EXCEPT ![c] = label]

past == <<width, given>>

(* A request arrives.                                                      *)
Begin(c, e, label) ==
  /\ pc[c] = "idle"
  /\ Cardinality({d \in Callers : pc[d] # "idle"}) < width
  /\ want' = [want EXCEPT ![c] = e]
  /\ settled' = [settled EXCEPT ![c] = registry]
  /\ Goto(c, label)
  /\ UNCHANGED <<registry, dirs, out, missing, past>>

(* The call is over, with or without an exception.                         *)
Return(c) ==
  /\ Goto(c, "idle")
  /\ want' = [want EXCEPT ![c] = NoEntry]
  /\ missing' = [missing EXCEPT ![c] = FALSE]
  /\ settled' = [settled EXCEPT ![c] = {}]

-----------------------------------------------------------------------------
(* register, update and delete, up to the save.                            *)

BeginRegister(c, e) == Begin(c, e, "register")

Register(c) ==
  /\ pc[c] = "register"
  /\ IF want[c].root \in there /\ Registrable(want[c], registry)
       THEN /\ out' = [out EXCEPT ![c] = registry \cup {want[c]}]
            /\ Goto(c, "save")
            /\ UNCHANGED <<want, missing, settled>>
       ELSE Return(c) /\ UNCHANGED out
  /\ UNCHANGED <<registry, dirs, past>>

(* update: the project (149), in the workspace it has or in a new one.     *)
BeginUpdate(c, e, moves) ==
  /\ \E old \in registry :
       old.id = e.id /\ (IF moves THEN e.root \in there ELSE e.root = old.root)
  /\ Begin(c, e, "check")

(* The workspace is compared with a second reading (150-152).              *)
CheckWorkspace(c) ==
  /\ pc[c] = "check"
  /\ IF Taken(want[c], registry)
       THEN Return(c)
       ELSE Goto(c, "read") /\ UNCHANGED <<want, missing, settled>>
  /\ UNCHANGED <<registry, dirs, out, past>>

(* The entry replaces the one of its id in a third reading (171).          *)
Replace(c) ==
  /\ pc[c] = "read"
  /\ out' = [out EXCEPT ![c] = Replaced(want[c], registry)]
  /\ Goto(c, "save")
  /\ UNCHANGED <<registry, dirs, want, missing, past, settled>>

BeginDelete(c, e) == e \in registry /\ Begin(c, e, "drop")

SeededDropsWorkspace(c) ==
  /\ pc[c] = "drop"
  /\ out' = [out EXCEPT ![c] = {e \in registry : e.root # want[c].root}]
  /\ Goto(c, "save")
  /\ UNCHANGED <<registry, dirs, want, missing, past, settled>>

Drop(c) ==
  /\ pc[c] = "drop"
  /\ out' = [out EXCEPT ![c] = Without(want[c].id, registry)]
  /\ Goto(c, "save")
  /\ UNCHANGED <<registry, dirs, want, missing, past, settled>>

(* _save; what the other calls can still count on shrinks to what it wrote.*)
Save(c) ==
  /\ pc[c] = "save"
  /\ registry' = out[c]
  /\ out' = [out EXCEPT ![c] = {}]
  /\ want' = [want EXCEPT ![c] = NoEntry]
  /\ missing' = [missing EXCEPT ![c] = FALSE]
  /\ settled' = [d \in Callers |-> IF d = c THEN {} ELSE settled[d] \cap out[c]]
  /\ Goto(c, "idle")
  /\ UNCHANGED <<dirs, past>>

-----------------------------------------------------------------------------
(* bootstrap_python, up to its register.                                   *)

BeginBootstrap(c, e) == Begin(c, e, "bootId")

BootstrapId(c) ==
  /\ pc[c] = "bootId"
  /\ IF Registered(want[c].id, registry)
       THEN Return(c)
       ELSE Goto(c, "bootRoot") /\ UNCHANGED <<want, missing, settled>>
  /\ UNCHANGED <<registry, dirs, out, past>>

BootstrapRoot(c) ==
  /\ pc[c] = "bootRoot"
  /\ IF \E e \in registry : e.root = want[c].root
       THEN Return(c)
       ELSE Goto(c, "look") /\ UNCHANGED <<want, missing, settled>>
  /\ UNCHANGED <<registry, dirs, out, past>>

Look(c) ==
  /\ pc[c] = "look"
  /\ missing' = [missing EXCEPT ![c] = want[c].root \notin there]
  /\ Goto(c, "target")
  /\ UNCHANGED <<registry, dirs, want, out, past, settled>>

SeededEmptyEnough(r) == \A i \in Files : made[r][i] = Nobody

Empty(r) == made[r] = NoItems

(* The target must be empty or is created.                                 *)
Target(c) ==
  /\ pc[c] = "target"
  /\ IF want[c].root \notin there \/ Empty(want[c].root)
       THEN /\ there' = there \cup {want[c].root}
            /\ Goto(c, "file1")
            /\ UNCHANGED <<want, missing, settled>>
       ELSE Return(c) /\ UNCHANGED there
  /\ UNCHANGED <<registry, made, out, past>>

Put(c, item) ==
  made' = [made EXCEPT ![want[c].root][item] = IF @ = Nobody THEN c ELSE @]

(* open("x"), after a mkdir that may bring the directory back.             *)
CreateFile(c, from, file, to) ==
  /\ pc[c] = from
  /\ there' = there \cup {want[c].root}
  /\ IF made[want[c].root][file] = Nobody
       THEN Put(c, file) /\ Goto(c, to)
       ELSE Goto(c, "cleanup") /\ UNCHANGED made
  /\ UNCHANGED <<registry, call, past, settled>>

RunCommand(c, from, result, to) ==
  /\ pc[c] = from
  /\ want[c].root \in there
  /\ Put(c, result)
  /\ Goto(c, to)
  /\ UNCHANGED <<registry, there, call, past, settled>>

(* git add names the files and uv.lock, git commit needs a repository.     *)
Commit(c) ==
  /\ pc[c] = "commit"
  /\ \A i \in Items : made[want[c].root][i] # Nobody
  /\ Goto(c, "register")
  /\ UNCHANGED <<registry, dirs, call, past, settled>>

(* A write or a command fails.                                             *)
MakingFails(c) ==
  /\ pc[c] \in Making
  /\ Goto(c, "cleanup")
  /\ UNCHANGED <<registry, dirs, call, past, settled>>

Make(c) ==
  \/ CreateFile(c, "file1", "pyproject.toml", "file2")
  \/ CreateFile(c, "file2", ".gitignore", "file3")
  \/ CreateFile(c, "file3", "tests/test_bootstrap.py", "git")
  \/ RunCommand(c, "git", ".git", "uv")
  \/ RunCommand(c, "uv", "uv.lock", "commit")
  \/ Commit(c)
  \/ MakingFails(c)

SeededKeepsResults(c) ==
  /\ pc[c] = "cleanup"
  /\ made' = [made EXCEPT ![want[c].root] =
                [i \in Items |-> IF i \in Files THEN Nobody ELSE @[i]]]
  /\ UNCHANGED there
  /\ Return(c)
  /\ UNCHANGED <<registry, out, past>>

(* _cleanup_failed_bootstrap: by name, whoever has made it.                *)
Cleanup(c) ==
  /\ pc[c] = "cleanup"
  /\ made' = [made EXCEPT ![want[c].root] = NoItems]
  /\ there' = IF missing[c] THEN there \ {want[c].root} ELSE there
  /\ Return(c)
  /\ UNCHANGED <<registry, out, past>>

-----------------------------------------------------------------------------

Step(c) ==
  \/ Register(c) \/ CheckWorkspace(c) \/ Replace(c) \/ Drop(c) \/ Save(c)
  \/ BootstrapId(c) \/ BootstrapRoot(c) \/ Look(c) \/ Target(c)
  \/ Make(c) \/ Cleanup(c)

Next ==
  \E c \in Callers :
    \/ Step(c)
    \/ \E e \in Entries :
         \/ BeginRegister(c, e) \/ BeginDelete(c, e) \/ BeginBootstrap(c, e)
         \/ \E moves \in BOOLEAN : BeginUpdate(c, e, moves)

Spec == Init /\ [][Next]_vars
=============================================================================
