------------------------- MODULE ModelServer_proofs -------------------------
(***************************************************************************)
(* Proofs, for any number of owners, pids, processes and crashes, of the   *)
(* safety properties of ModelProperties, and that the protocol implements  *)
(* ModelSlot.                                                              *)
(***************************************************************************)
EXTENDS ModelProperties, TLAPS

Held == Starting \cup Owning \cup Leaving

-----------------------------------------------------------------------------
(* The parts of the inductive invariant.                                   *)

(* An owner is between TakeLock and Unlock exactly when it has the lock.   *)
LockInv == \A o \in Owners : pc[o] \in Held <=> holder = o

(* Births are numbered.                                                    *)
BirthInv ==
  /\ \A p \in Pids : proc[p].birth <= born
  /\ \A p, q \in Pids : Live(p) /\ Live(q) /\ proc[p].birth = proc[q].birth => p = q

(* id is nobody, or names a model of ours for as long as that model lives. *)
NamesModel(id) ==
  id # Nobody => /\ id.birth <= born
                 /\ \A p \in Pids : Live(p) /\ proc[p].birth = id.birth
                                    => p = id.pid /\ proc[p].kind = "model"

IdInv == NamesModel(meta) /\ \A o \in Owners : NamesModel(child[o])

ChildInv == \A o \in Owners : child[o] # Nobody <=> pc[o] \in Owning

OneModel == \A p, q \in Pids : proc[p].kind = "model" /\ proc[q].kind = "model" => p = q

(* In the turn of an owner no model lives but the one it has started.      *)
TurnInv ==
  \A o \in Owners :
    /\ pc[o] \in Owning => \A p \in Pids : proc[p].kind = "model" =>
                             child[o] = [pid |-> p, birth |-> proc[p].birth]
    /\ pc[o] = "spawn" => \A p \in Pids : proc[p].kind # "model"
    /\ pc[o] \in {"loading", "serving", "stopping"} => meta = child[o]
    /\ pc[o] = "truncate" => ~SameProcess(child[o])

Rest == LockInv /\ BirthInv /\ IdInv /\ ChildInv /\ OneModel /\ TurnInv
        /\ StrayModelIsKnown /\ OnlyStaleModelsSignalled
IInv == TypeOK /\ Rest

-----------------------------------------------------------------------------
(* A signal.                                                               *)

LEMMA SignalType ==
  ASSUME TypeOK, NEW o \in Owners, NEW id \in Identity, SameProcess(id), Signal(o, id)
  PROVE  signalled' \in SUBSET [kind: Kinds, inUse: BOOLEAN]
<1>1. proc[id.pid] \in Process
  BY DEF TypeOK, SameProcess, Live, Identity
<1>2. InUse(o, id) \in BOOLEAN
  BY DEF InUse
<1> QED
  BY <1>1, <1>2 DEF TypeOK, Signal, Process

LEMMA SignalOwn ==
  ASSUME TypeOK, Rest, NEW o \in Owners, NEW id \in Identity, SameProcess(id),
         NamesModel(id), holder = o, Signal(o, id)
  PROVE  OnlyStaleModelsSignalled'
<1>1. proc[id.pid].kind = "model"
  BY DEF NamesModel, SameProcess, Identity
<1>2. \A v \in Owners \ {o} : pc[v] \notin {"record", "loading", "serving"}
  BY DEF Rest, LockInv, Held, Owning
<1>3. ~InUse(o, id)
  BY <1>2 DEF InUse
<1>4. signalled' = signalled \cup {[kind |-> "model", inUse |-> FALSE]}
  <2>1. InUse(o, id) = FALSE
    BY <1>3 DEF InUse
  <2> QED
    BY <1>1, <2>1 DEF Signal
<1> QED
  BY <1>4 DEF Rest, OnlyStaleModelsSignalled

(* What the cleanup or the stop of an owner signals.                       *)
LEMMA SignalTargets ==
  ASSUME TypeOK, Rest, NEW o \in Owners
  PROVE  /\ pc[o] \in Held => holder = o
         /\ SameProcess(meta) => meta \in Identity /\ NamesModel(meta)
         /\ SameProcess(child[o]) => child[o] \in Identity /\ NamesModel(child[o])
BY DEF TypeOK, Rest, LockInv, IdInv, SameProcess

-----------------------------------------------------------------------------
(* Each part of the invariant, action by action.                           *)

(* Every step keeps the types.                                             *)
LEMMA TypeStep ==
  ASSUME TypeOK, [Next]_vars
  PROVE  TypeOK'
<1> USE OwnersAssumption, PidsAssumption, BoundsAssumption DEF TypeOK,
    Goto, machine, history, Labels, Starting, Owning, Leaving, Identity,
    Nobody, Process, Free, Births, Kinds, Live, SameProcess
<1>1. ASSUME NEW o \in Owners, Start(o) PROVE TypeOK'
  BY <1>1 DEF Start
<1>2. ASSUME NEW o \in Owners, TakeLock(o) PROVE TypeOK'
  BY <1>2 DEF TakeLock, LockFree
<1>3. ASSUME NEW o \in Owners, LockTimeout(o) PROVE TypeOK'
  BY <1>3 DEF LockTimeout
<1>4. ASSUME NEW o \in Owners, Examine(o) PROVE TypeOK'
  BY <1>4 DEF Examine
<1>5. ASSUME NEW o \in Owners, StaleEnds(o) PROVE TypeOK'
  <2>1. signalled' \in SUBSET [kind: Kinds, inUse: BOOLEAN]
    BY <1>5, SignalType DEF StaleEnds
  <2> QED
    BY <1>5, <2>1 DEF StaleEnds, Ends
<1>6. ASSUME NEW o \in Owners, StaleStuck(o) PROVE TypeOK'
  <2>1. signalled' \in SUBSET [kind: Kinds, inUse: BOOLEAN]
    BY <1>6, SignalType DEF StaleStuck
  <2> QED
    BY <1>6, <2>1 DEF StaleStuck
<1>7. ASSUME NEW o \in Owners, StaleVanished(o) PROVE TypeOK'
  BY <1>7 DEF StaleVanished
<1>8. ASSUME NEW o \in Owners, PassGuard(o) PROVE TypeOK'
  BY <1>8 DEF PassGuard, SafeToStart, LlamaRunning, IsLlama
<1>9. ASSUME NEW o \in Owners, Refuse(o) PROVE TypeOK'
  BY <1>9 DEF Refuse
<1>10. ASSUME NEW o \in Owners, SpawnFails(o) PROVE TypeOK'
  BY <1>10 DEF SpawnFails
<1>11. ASSUME NEW o \in Owners, Spawn(o) PROVE TypeOK'
  BY <1>11 DEF Spawn, Begin
<1>12. ASSUME NEW o \in Owners, Record(o) PROVE TypeOK'
  BY <1>12 DEF Record
<1>13. ASSUME NEW o \in Owners, Ready(o) PROVE TypeOK'
  BY <1>13 DEF Ready
<1>14. ASSUME NEW o \in Owners, LoadFails(o) PROVE TypeOK'
  BY <1>14 DEF LoadFails
<1>15. ASSUME NEW o \in Owners, NEW reply \in Replies, NEW require \in BOOLEAN, Chat(o, reply, require)
       PROVE  TypeOK'
  BY <1>15 DEF Chat
<1>16. ASSUME NEW o \in Owners, EndBody(o) PROVE TypeOK'
  BY <1>16 DEF EndBody
<1>17. ASSUME NEW o \in Owners, AlreadyExited(o) PROVE TypeOK'
  BY <1>17 DEF AlreadyExited
<1>18. ASSUME NEW o \in Owners, ChildEnds(o) PROVE TypeOK'
  <2>1. signalled' \in SUBSET [kind: Kinds, inUse: BOOLEAN]
    BY <1>18, SignalType DEF ChildEnds
  <2> QED
    BY <1>18, <2>1 DEF ChildEnds, Ends
<1>19. ASSUME NEW o \in Owners, ChildStuck(o) PROVE TypeOK'
  <2>1. signalled' \in SUBSET [kind: Kinds, inUse: BOOLEAN]
    BY <1>19, SignalType DEF ChildStuck
  <2> QED
    BY <1>19, <2>1 DEF ChildStuck
<1>20. ASSUME NEW o \in Owners, Truncate(o) PROVE TypeOK'
  BY <1>20 DEF Truncate
<1>21. ASSUME NEW o \in Owners, Unlock(o) PROVE TypeOK'
  BY <1>21 DEF Unlock
<1>22. ASSUME NEW o \in Owners, EndWait(o) PROVE TypeOK'
  BY <1>22 DEF EndWait
<1>23. ASSUME NEW o \in Owners, Crash(o) PROVE TypeOK'
  <2>1. untracked' \in SUBSET Births
    BY <1>23 DEF Crash
  <2>2. child' \in [Owners -> Identity \cup {Nobody}] /\ pc' \in [Owners -> Labels]
    BY <1>23 DEF Crash
  <2>3. holder' \in Owners \cup {NoOwner} /\ crashes' \in 0 .. MaxCrashes
    BY <1>23 DEF Crash
  <2> QED
    BY <1>23, <2>1, <2>2, <2>3 DEF Crash
<1>24. ASSUME NEW p \in Pids, Exits(p) PROVE TypeOK'
  BY <1>24 DEF Exits, Ends
<1>25. ASSUME NEW p \in Pids, NEW kind \in {"llama", "other"}, ForeignStarts(p, kind)
       PROVE  TypeOK'
  BY <1>25 DEF ForeignStarts, Begin
<1>26. ASSUME UNCHANGED vars PROVE TypeOK'
  BY <1>26 DEF vars
<1> HIDE DEF TypeOK, Goto, machine, history, Labels, Starting, Owning,
    Leaving, Identity, Nobody, Process, Free, Births, Kinds, Live,
    SameProcess
<1> QED
  BY <1>1, <1>2, <1>3, <1>4, <1>5, <1>6, <1>7, <1>8, <1>9, <1>10, <1>11,
     <1>12, <1>13, <1>14, <1>15, <1>16, <1>17, <1>18, <1>19, <1>20,
     <1>21, <1>22, <1>23, <1>24, <1>25, <1>26 DEF Next, OwnerStep

(* Only TakeLock enters the critical section, and only when it is free.    *)
LEMMA LockStep ==
  ASSUME TypeOK, LockInv, [Next]_vars
  PROVE  LockInv'
<1> USE OwnersAssumption DEF TypeOK, LockInv, Goto, machine, history,
    Labels, Held, Starting, Owning, Leaving
<1>1. ASSUME NEW o \in Owners, Start(o) PROVE LockInv'
  BY <1>1 DEF Start
<1>2. ASSUME NEW o \in Owners, TakeLock(o) PROVE LockInv'
  BY <1>2 DEF TakeLock, LockFree
<1>3. ASSUME NEW o \in Owners, LockTimeout(o) PROVE LockInv'
  BY <1>3 DEF LockTimeout
<1>4. ASSUME NEW o \in Owners, Examine(o) PROVE LockInv'
  BY <1>4 DEF Examine
<1>5. ASSUME NEW o \in Owners, StaleEnds(o) PROVE LockInv'
  BY <1>5 DEF StaleEnds, Ends
<1>6. ASSUME NEW o \in Owners, StaleStuck(o) PROVE LockInv'
  BY <1>6 DEF StaleStuck
<1>7. ASSUME NEW o \in Owners, StaleVanished(o) PROVE LockInv'
  BY <1>7 DEF StaleVanished
<1>8. ASSUME NEW o \in Owners, PassGuard(o) PROVE LockInv'
  BY <1>8 DEF PassGuard, SafeToStart, LlamaRunning, IsLlama
<1>9. ASSUME NEW o \in Owners, Refuse(o) PROVE LockInv'
  BY <1>9 DEF Refuse
<1>10. ASSUME NEW o \in Owners, SpawnFails(o) PROVE LockInv'
  BY <1>10 DEF SpawnFails
<1>11. ASSUME NEW o \in Owners, Spawn(o) PROVE LockInv'
  BY <1>11 DEF Spawn, Begin
<1>12. ASSUME NEW o \in Owners, Record(o) PROVE LockInv'
  BY <1>12 DEF Record
<1>13. ASSUME NEW o \in Owners, Ready(o) PROVE LockInv'
  BY <1>13 DEF Ready
<1>14. ASSUME NEW o \in Owners, LoadFails(o) PROVE LockInv'
  BY <1>14 DEF LoadFails
<1>15. ASSUME NEW o \in Owners, NEW reply \in Replies, NEW require \in BOOLEAN, Chat(o, reply, require)
       PROVE  LockInv'
  BY <1>15 DEF Chat
<1>16. ASSUME NEW o \in Owners, EndBody(o) PROVE LockInv'
  BY <1>16 DEF EndBody
<1>17. ASSUME NEW o \in Owners, AlreadyExited(o) PROVE LockInv'
  BY <1>17 DEF AlreadyExited
<1>18. ASSUME NEW o \in Owners, ChildEnds(o) PROVE LockInv'
  BY <1>18 DEF ChildEnds, Ends
<1>19. ASSUME NEW o \in Owners, ChildStuck(o) PROVE LockInv'
  BY <1>19 DEF ChildStuck
<1>20. ASSUME NEW o \in Owners, Truncate(o) PROVE LockInv'
  BY <1>20 DEF Truncate
<1>21. ASSUME NEW o \in Owners, Unlock(o) PROVE LockInv'
  BY <1>21 DEF Unlock
<1>22. ASSUME NEW o \in Owners, EndWait(o) PROVE LockInv'
  BY <1>22 DEF EndWait
<1>23. ASSUME NEW o \in Owners, Crash(o) PROVE LockInv'
  BY <1>23 DEF Crash
<1>24. ASSUME NEW p \in Pids, Exits(p) PROVE LockInv'
  BY <1>24 DEF Exits, Ends
<1>25. ASSUME NEW p \in Pids, NEW kind \in {"llama", "other"}, ForeignStarts(p, kind)
       PROVE  LockInv'
  BY <1>25 DEF ForeignStarts, Begin
<1>26. ASSUME UNCHANGED vars PROVE LockInv'
  BY <1>26 DEF vars
<1> HIDE DEF TypeOK, LockInv, Goto, machine, history, Labels, Held,
    Starting, Owning, Leaving
<1> QED
  BY <1>1, <1>2, <1>3, <1>4, <1>5, <1>6, <1>7, <1>8, <1>9, <1>10, <1>11,
     <1>12, <1>13, <1>14, <1>15, <1>16, <1>17, <1>18, <1>19, <1>20,
     <1>21, <1>22, <1>23, <1>24, <1>25, <1>26 DEF Next, OwnerStep

(* Births are taken from a counter.                                        *)
LEMMA BirthStep ==
  ASSUME TypeOK, BirthInv, [Next]_vars
  PROVE  BirthInv'
<1> USE BoundsAssumption DEF TypeOK, BirthInv, Live, Free, Process,
    Births, Goto, machine, history
<1>1. ASSUME NEW o \in Owners, Start(o) PROVE BirthInv'
  BY <1>1 DEF Start
<1>2. ASSUME NEW o \in Owners, TakeLock(o) PROVE BirthInv'
  BY <1>2 DEF TakeLock, LockFree
<1>3. ASSUME NEW o \in Owners, LockTimeout(o) PROVE BirthInv'
  BY <1>3 DEF LockTimeout
<1>4. ASSUME NEW o \in Owners, Examine(o) PROVE BirthInv'
  BY <1>4 DEF Examine
<1>5. ASSUME NEW o \in Owners, StaleEnds(o) PROVE BirthInv'
  BY <1>5 DEF StaleEnds, Ends
<1>6. ASSUME NEW o \in Owners, StaleStuck(o) PROVE BirthInv'
  BY <1>6 DEF StaleStuck
<1>7. ASSUME NEW o \in Owners, StaleVanished(o) PROVE BirthInv'
  BY <1>7 DEF StaleVanished
<1>8. ASSUME NEW o \in Owners, PassGuard(o) PROVE BirthInv'
  BY <1>8 DEF PassGuard, SafeToStart, LlamaRunning, IsLlama
<1>9. ASSUME NEW o \in Owners, Refuse(o) PROVE BirthInv'
  BY <1>9 DEF Refuse
<1>10. ASSUME NEW o \in Owners, SpawnFails(o) PROVE BirthInv'
  BY <1>10 DEF SpawnFails
<1>11. ASSUME NEW o \in Owners, Spawn(o) PROVE BirthInv'
  BY <1>11 DEF Spawn, Begin
<1>12. ASSUME NEW o \in Owners, Record(o) PROVE BirthInv'
  BY <1>12 DEF Record
<1>13. ASSUME NEW o \in Owners, Ready(o) PROVE BirthInv'
  BY <1>13 DEF Ready
<1>14. ASSUME NEW o \in Owners, LoadFails(o) PROVE BirthInv'
  BY <1>14 DEF LoadFails
<1>15. ASSUME NEW o \in Owners, NEW reply \in Replies, NEW require \in BOOLEAN, Chat(o, reply, require)
       PROVE  BirthInv'
  BY <1>15 DEF Chat
<1>16. ASSUME NEW o \in Owners, EndBody(o) PROVE BirthInv'
  BY <1>16 DEF EndBody
<1>17. ASSUME NEW o \in Owners, AlreadyExited(o) PROVE BirthInv'
  BY <1>17 DEF AlreadyExited
<1>18. ASSUME NEW o \in Owners, ChildEnds(o) PROVE BirthInv'
  BY <1>18 DEF ChildEnds, Ends
<1>19. ASSUME NEW o \in Owners, ChildStuck(o) PROVE BirthInv'
  BY <1>19 DEF ChildStuck
<1>20. ASSUME NEW o \in Owners, Truncate(o) PROVE BirthInv'
  BY <1>20 DEF Truncate
<1>21. ASSUME NEW o \in Owners, Unlock(o) PROVE BirthInv'
  BY <1>21 DEF Unlock
<1>22. ASSUME NEW o \in Owners, EndWait(o) PROVE BirthInv'
  BY <1>22 DEF EndWait
<1>23. ASSUME NEW o \in Owners, Crash(o) PROVE BirthInv'
  BY <1>23 DEF Crash
<1>24. ASSUME NEW p \in Pids, Exits(p) PROVE BirthInv'
  BY <1>24 DEF Exits, Ends
<1>25. ASSUME NEW p \in Pids, NEW kind \in {"llama", "other"}, ForeignStarts(p, kind)
       PROVE  BirthInv'
  BY <1>25 DEF ForeignStarts, Begin
<1>26. ASSUME UNCHANGED vars PROVE BirthInv'
  BY <1>26 DEF vars
<1> HIDE DEF TypeOK, BirthInv, Live, Free, Process, Births, Goto,
    machine, history
<1> QED
  BY <1>1, <1>2, <1>3, <1>4, <1>5, <1>6, <1>7, <1>8, <1>9, <1>10, <1>11,
     <1>12, <1>13, <1>14, <1>15, <1>16, <1>17, <1>18, <1>19, <1>20,
     <1>21, <1>22, <1>23, <1>24, <1>25, <1>26 DEF Next, OwnerStep

(* A model begins only in Spawn, when there is none.                       *)
LEMMA OneStep ==
  ASSUME TypeOK, Rest, [Next]_vars
  PROVE  OneModel'
<1> USE DEF TypeOK, Rest, OneModel, TurnInv, Live, Free, Goto, machine,
    history
<1>1. ASSUME NEW o \in Owners, Start(o) PROVE OneModel'
  BY <1>1 DEF Start
<1>2. ASSUME NEW o \in Owners, TakeLock(o) PROVE OneModel'
  BY <1>2 DEF TakeLock, LockFree
<1>3. ASSUME NEW o \in Owners, LockTimeout(o) PROVE OneModel'
  BY <1>3 DEF LockTimeout
<1>4. ASSUME NEW o \in Owners, Examine(o) PROVE OneModel'
  BY <1>4 DEF Examine
<1>5. ASSUME NEW o \in Owners, StaleEnds(o) PROVE OneModel'
  BY <1>5 DEF StaleEnds, Ends
<1>6. ASSUME NEW o \in Owners, StaleStuck(o) PROVE OneModel'
  BY <1>6 DEF StaleStuck
<1>7. ASSUME NEW o \in Owners, StaleVanished(o) PROVE OneModel'
  BY <1>7 DEF StaleVanished
<1>8. ASSUME NEW o \in Owners, PassGuard(o) PROVE OneModel'
  BY <1>8 DEF PassGuard, SafeToStart, LlamaRunning, IsLlama
<1>9. ASSUME NEW o \in Owners, Refuse(o) PROVE OneModel'
  BY <1>9 DEF Refuse
<1>10. ASSUME NEW o \in Owners, SpawnFails(o) PROVE OneModel'
  BY <1>10 DEF SpawnFails
<1>11. ASSUME NEW o \in Owners, Spawn(o) PROVE OneModel'
  BY <1>11 DEF Spawn, Begin
<1>12. ASSUME NEW o \in Owners, Record(o) PROVE OneModel'
  BY <1>12 DEF Record
<1>13. ASSUME NEW o \in Owners, Ready(o) PROVE OneModel'
  BY <1>13 DEF Ready
<1>14. ASSUME NEW o \in Owners, LoadFails(o) PROVE OneModel'
  BY <1>14 DEF LoadFails
<1>15. ASSUME NEW o \in Owners, NEW reply \in Replies, NEW require \in BOOLEAN, Chat(o, reply, require)
       PROVE  OneModel'
  BY <1>15 DEF Chat
<1>16. ASSUME NEW o \in Owners, EndBody(o) PROVE OneModel'
  BY <1>16 DEF EndBody
<1>17. ASSUME NEW o \in Owners, AlreadyExited(o) PROVE OneModel'
  BY <1>17 DEF AlreadyExited
<1>18. ASSUME NEW o \in Owners, ChildEnds(o) PROVE OneModel'
  BY <1>18 DEF ChildEnds, Ends
<1>19. ASSUME NEW o \in Owners, ChildStuck(o) PROVE OneModel'
  BY <1>19 DEF ChildStuck
<1>20. ASSUME NEW o \in Owners, Truncate(o) PROVE OneModel'
  BY <1>20 DEF Truncate
<1>21. ASSUME NEW o \in Owners, Unlock(o) PROVE OneModel'
  BY <1>21 DEF Unlock
<1>22. ASSUME NEW o \in Owners, EndWait(o) PROVE OneModel'
  BY <1>22 DEF EndWait
<1>23. ASSUME NEW o \in Owners, Crash(o) PROVE OneModel'
  BY <1>23 DEF Crash
<1>24. ASSUME NEW p \in Pids, Exits(p) PROVE OneModel'
  BY <1>24 DEF Exits, Ends
<1>25. ASSUME NEW p \in Pids, NEW kind \in {"llama", "other"}, ForeignStarts(p, kind)
       PROVE  OneModel'
  BY <1>25 DEF ForeignStarts, Begin
<1>26. ASSUME UNCHANGED vars PROVE OneModel'
  BY <1>26 DEF vars
<1> HIDE DEF TypeOK, Rest, OneModel, TurnInv, Live, Free, Goto, machine,
    history
<1> QED
  BY <1>1, <1>2, <1>3, <1>4, <1>5, <1>6, <1>7, <1>8, <1>9, <1>10, <1>11,
     <1>12, <1>13, <1>14, <1>15, <1>16, <1>17, <1>18, <1>19, <1>20,
     <1>21, <1>22, <1>23, <1>24, <1>25, <1>26 DEF Next, OwnerStep

(* An owner has a process in hand between Spawn and Truncate.              *)
LEMMA ChildStep ==
  ASSUME TypeOK, Rest, [Next]_vars
  PROVE  ChildInv'
<1> USE PidsAssumption DEF TypeOK, Rest, ChildInv, Goto, machine,
    history, Labels, Starting, Owning, Leaving, Nobody, Identity, Births
<1>1. ASSUME NEW o \in Owners, Start(o) PROVE ChildInv'
  BY <1>1 DEF Start
<1>2. ASSUME NEW o \in Owners, TakeLock(o) PROVE ChildInv'
  BY <1>2 DEF TakeLock, LockFree
<1>3. ASSUME NEW o \in Owners, LockTimeout(o) PROVE ChildInv'
  BY <1>3 DEF LockTimeout
<1>4. ASSUME NEW o \in Owners, Examine(o) PROVE ChildInv'
  BY <1>4 DEF Examine
<1>5. ASSUME NEW o \in Owners, StaleEnds(o) PROVE ChildInv'
  BY <1>5 DEF StaleEnds, Ends
<1>6. ASSUME NEW o \in Owners, StaleStuck(o) PROVE ChildInv'
  BY <1>6 DEF StaleStuck
<1>7. ASSUME NEW o \in Owners, StaleVanished(o) PROVE ChildInv'
  BY <1>7 DEF StaleVanished
<1>8. ASSUME NEW o \in Owners, PassGuard(o) PROVE ChildInv'
  BY <1>8 DEF PassGuard, SafeToStart, LlamaRunning, IsLlama
<1>9. ASSUME NEW o \in Owners, Refuse(o) PROVE ChildInv'
  BY <1>9 DEF Refuse
<1>10. ASSUME NEW o \in Owners, SpawnFails(o) PROVE ChildInv'
  BY <1>10 DEF SpawnFails
<1>11. ASSUME NEW o \in Owners, Spawn(o) PROVE ChildInv'
  BY <1>11 DEF Spawn, Begin
<1>12. ASSUME NEW o \in Owners, Record(o) PROVE ChildInv'
  BY <1>12 DEF Record
<1>13. ASSUME NEW o \in Owners, Ready(o) PROVE ChildInv'
  BY <1>13 DEF Ready
<1>14. ASSUME NEW o \in Owners, LoadFails(o) PROVE ChildInv'
  BY <1>14 DEF LoadFails
<1>15. ASSUME NEW o \in Owners, NEW reply \in Replies, NEW require \in BOOLEAN, Chat(o, reply, require)
       PROVE  ChildInv'
  BY <1>15 DEF Chat
<1>16. ASSUME NEW o \in Owners, EndBody(o) PROVE ChildInv'
  BY <1>16 DEF EndBody
<1>17. ASSUME NEW o \in Owners, AlreadyExited(o) PROVE ChildInv'
  BY <1>17 DEF AlreadyExited
<1>18. ASSUME NEW o \in Owners, ChildEnds(o) PROVE ChildInv'
  BY <1>18 DEF ChildEnds, Ends
<1>19. ASSUME NEW o \in Owners, ChildStuck(o) PROVE ChildInv'
  BY <1>19 DEF ChildStuck
<1>20. ASSUME NEW o \in Owners, Truncate(o) PROVE ChildInv'
  BY <1>20 DEF Truncate
<1>21. ASSUME NEW o \in Owners, Unlock(o) PROVE ChildInv'
  BY <1>21 DEF Unlock
<1>22. ASSUME NEW o \in Owners, EndWait(o) PROVE ChildInv'
  BY <1>22 DEF EndWait
<1>23. ASSUME NEW o \in Owners, Crash(o) PROVE ChildInv'
  BY <1>23 DEF Crash
<1>24. ASSUME NEW p \in Pids, Exits(p) PROVE ChildInv'
  BY <1>24 DEF Exits, Ends
<1>25. ASSUME NEW p \in Pids, NEW kind \in {"llama", "other"}, ForeignStarts(p, kind)
       PROVE  ChildInv'
  BY <1>25 DEF ForeignStarts, Begin
<1>26. ASSUME UNCHANGED vars PROVE ChildInv'
  BY <1>26 DEF vars
<1> HIDE DEF TypeOK, Rest, ChildInv, Goto, machine, history, Labels,
    Starting, Owning, Leaving, Nobody, Identity, Births
<1> QED
  BY <1>1, <1>2, <1>3, <1>4, <1>5, <1>6, <1>7, <1>8, <1>9, <1>10, <1>11,
     <1>12, <1>13, <1>14, <1>15, <1>16, <1>17, <1>18, <1>19, <1>20,
     <1>21, <1>22, <1>23, <1>24, <1>25, <1>26 DEF Next, OwnerStep

(* A birth that is recorded or in hand never belongs to another process.   *)
LEMMA IdStep ==
  ASSUME TypeOK, Rest, [Next]_vars
  PROVE  IdInv'
<1> USE PidsAssumption, BoundsAssumption DEF TypeOK, Rest, IdInv,
    NamesModel, BirthInv, Live, Free, Process, Goto, machine, history,
    Nobody, Identity, Births
<1>1. ASSUME NEW o \in Owners, Start(o) PROVE IdInv'
  BY <1>1 DEF Start
<1>2. ASSUME NEW o \in Owners, TakeLock(o) PROVE IdInv'
  BY <1>2 DEF TakeLock, LockFree
<1>3. ASSUME NEW o \in Owners, LockTimeout(o) PROVE IdInv'
  BY <1>3 DEF LockTimeout
<1>4. ASSUME NEW o \in Owners, Examine(o) PROVE IdInv'
  BY <1>4 DEF Examine
<1>5. ASSUME NEW o \in Owners, StaleEnds(o) PROVE IdInv'
  BY <1>5 DEF StaleEnds, Ends
<1>6. ASSUME NEW o \in Owners, StaleStuck(o) PROVE IdInv'
  BY <1>6 DEF StaleStuck
<1>7. ASSUME NEW o \in Owners, StaleVanished(o) PROVE IdInv'
  BY <1>7 DEF StaleVanished
<1>8. ASSUME NEW o \in Owners, PassGuard(o) PROVE IdInv'
  BY <1>8 DEF PassGuard, SafeToStart, LlamaRunning, IsLlama
<1>9. ASSUME NEW o \in Owners, Refuse(o) PROVE IdInv'
  BY <1>9 DEF Refuse
<1>10. ASSUME NEW o \in Owners, SpawnFails(o) PROVE IdInv'
  BY <1>10 DEF SpawnFails
<1>11. ASSUME NEW o \in Owners, Spawn(o) PROVE IdInv'
  BY <1>11 DEF Spawn, Begin
<1>12. ASSUME NEW o \in Owners, Record(o) PROVE IdInv'
  BY <1>12 DEF Record
<1>13. ASSUME NEW o \in Owners, Ready(o) PROVE IdInv'
  BY <1>13 DEF Ready
<1>14. ASSUME NEW o \in Owners, LoadFails(o) PROVE IdInv'
  BY <1>14 DEF LoadFails
<1>15. ASSUME NEW o \in Owners, NEW reply \in Replies, NEW require \in BOOLEAN, Chat(o, reply, require)
       PROVE  IdInv'
  BY <1>15 DEF Chat
<1>16. ASSUME NEW o \in Owners, EndBody(o) PROVE IdInv'
  BY <1>16 DEF EndBody
<1>17. ASSUME NEW o \in Owners, AlreadyExited(o) PROVE IdInv'
  BY <1>17 DEF AlreadyExited
<1>18. ASSUME NEW o \in Owners, ChildEnds(o) PROVE IdInv'
  BY <1>18 DEF ChildEnds, Ends
<1>19. ASSUME NEW o \in Owners, ChildStuck(o) PROVE IdInv'
  BY <1>19 DEF ChildStuck
<1>20. ASSUME NEW o \in Owners, Truncate(o) PROVE IdInv'
  BY <1>20 DEF Truncate
<1>21. ASSUME NEW o \in Owners, Unlock(o) PROVE IdInv'
  BY <1>21 DEF Unlock
<1>22. ASSUME NEW o \in Owners, EndWait(o) PROVE IdInv'
  BY <1>22 DEF EndWait
<1>23. ASSUME NEW o \in Owners, Crash(o) PROVE IdInv'
  BY <1>23 DEF Crash
<1>24. ASSUME NEW p \in Pids, Exits(p) PROVE IdInv'
  BY <1>24 DEF Exits, Ends
<1>25. ASSUME NEW p \in Pids, NEW kind \in {"llama", "other"}, ForeignStarts(p, kind)
       PROVE  IdInv'
  BY <1>25 DEF ForeignStarts, Begin
<1>26. ASSUME UNCHANGED vars PROVE IdInv'
  BY <1>26 DEF vars
<1> HIDE DEF TypeOK, Rest, IdInv, NamesModel, BirthInv, Live, Free,
    Process, Goto, machine, history, Nobody, Identity, Births
<1> QED
  BY <1>1, <1>2, <1>3, <1>4, <1>5, <1>6, <1>7, <1>8, <1>9, <1>10, <1>11,
     <1>12, <1>13, <1>14, <1>15, <1>16, <1>17, <1>18, <1>19, <1>20,
     <1>21, <1>22, <1>23, <1>24, <1>25, <1>26 DEF Next, OwnerStep

(* The other owners are outside while one has its turn.                    *)
LEMMA TurnStep ==
  ASSUME TypeOK, Rest, [Next]_vars
  PROVE  TurnInv'
<1> USE PidsAssumption, OwnersAssumption DEF TypeOK, Rest, TurnInv,
    LockInv, ChildInv, IdInv, NamesModel, Held, Starting, Owning,
    Leaving, SameProcess, Live, Free, Goto, machine, history, Nobody,
    Identity, Births, Process, IsLlama, LlamaRunning
<1>1. ASSUME NEW o \in Owners, Start(o) PROVE TurnInv'
  BY <1>1 DEF Start
<1>2. ASSUME NEW o \in Owners, TakeLock(o) PROVE TurnInv'
  BY <1>2 DEF TakeLock, LockFree
<1>3. ASSUME NEW o \in Owners, LockTimeout(o) PROVE TurnInv'
  BY <1>3 DEF LockTimeout
<1>4. ASSUME NEW o \in Owners, Examine(o) PROVE TurnInv'
  BY <1>4 DEF Examine
<1>5. ASSUME NEW o \in Owners, StaleEnds(o) PROVE TurnInv'
  BY <1>5 DEF StaleEnds, Ends
<1>6. ASSUME NEW o \in Owners, StaleStuck(o) PROVE TurnInv'
  BY <1>6 DEF StaleStuck
<1>7. ASSUME NEW o \in Owners, StaleVanished(o) PROVE TurnInv'
  BY <1>7 DEF StaleVanished
<1>8. ASSUME NEW o \in Owners, PassGuard(o) PROVE TurnInv'
  BY <1>8 DEF PassGuard, SafeToStart, LlamaRunning, IsLlama
<1>9. ASSUME NEW o \in Owners, Refuse(o) PROVE TurnInv'
  BY <1>9 DEF Refuse
<1>10. ASSUME NEW o \in Owners, SpawnFails(o) PROVE TurnInv'
  BY <1>10 DEF SpawnFails
<1>11. ASSUME NEW o \in Owners, Spawn(o) PROVE TurnInv'
  BY <1>11 DEF Spawn, Begin
<1>12. ASSUME NEW o \in Owners, Record(o) PROVE TurnInv'
  BY <1>12 DEF Record
<1>13. ASSUME NEW o \in Owners, Ready(o) PROVE TurnInv'
  BY <1>13 DEF Ready
<1>14. ASSUME NEW o \in Owners, LoadFails(o) PROVE TurnInv'
  BY <1>14 DEF LoadFails
<1>15. ASSUME NEW o \in Owners, NEW reply \in Replies, NEW require \in BOOLEAN, Chat(o, reply, require)
       PROVE  TurnInv'
  BY <1>15 DEF Chat
<1>16. ASSUME NEW o \in Owners, EndBody(o) PROVE TurnInv'
  BY <1>16 DEF EndBody
<1>17. ASSUME NEW o \in Owners, AlreadyExited(o) PROVE TurnInv'
  BY <1>17 DEF AlreadyExited
<1>18. ASSUME NEW o \in Owners, ChildEnds(o) PROVE TurnInv'
  BY <1>18 DEF ChildEnds, Ends
<1>19. ASSUME NEW o \in Owners, ChildStuck(o) PROVE TurnInv'
  BY <1>19 DEF ChildStuck
<1>20. ASSUME NEW o \in Owners, Truncate(o) PROVE TurnInv'
  BY <1>20 DEF Truncate
<1>21. ASSUME NEW o \in Owners, Unlock(o) PROVE TurnInv'
  BY <1>21 DEF Unlock
<1>22. ASSUME NEW o \in Owners, EndWait(o) PROVE TurnInv'
  BY <1>22 DEF EndWait
<1>23. ASSUME NEW o \in Owners, Crash(o) PROVE TurnInv'
  BY <1>23 DEF Crash
<1>24. ASSUME NEW p \in Pids, Exits(p) PROVE TurnInv'
  BY <1>24 DEF Exits, Ends
<1>25. ASSUME NEW p \in Pids, NEW kind \in {"llama", "other"}, ForeignStarts(p, kind)
       PROVE  TurnInv'
  BY <1>25 DEF ForeignStarts, Begin
<1>26. ASSUME UNCHANGED vars PROVE TurnInv'
  BY <1>26 DEF vars
<1> HIDE DEF TypeOK, Rest, TurnInv, LockInv, ChildInv, IdInv, NamesModel,
    Held, Starting, Owning, Leaving, SameProcess, Live, Free, Goto,
    machine, history, Nobody, Identity, Births, Process, IsLlama,
    LlamaRunning
<1> QED
  BY <1>1, <1>2, <1>3, <1>4, <1>5, <1>6, <1>7, <1>8, <1>9, <1>10, <1>11,
     <1>12, <1>13, <1>14, <1>15, <1>16, <1>17, <1>18, <1>19, <1>20,
     <1>21, <1>22, <1>23, <1>24, <1>25, <1>26 DEF Next, OwnerStep

(* A model is recorded before its owner can lose it, or untracked.         *)
LEMMA StrayStep ==
  ASSUME TypeOK, Rest, [Next]_vars
  PROVE  StrayModelIsKnown'
<1> USE PidsAssumption, OwnersAssumption DEF StrayModelIsKnown, TypeOK,
    Rest, TurnInv, LockInv, ChildInv, IdInv, NamesModel, Held, Starting,
    Owning, Leaving, SameProcess, Live, Free, Goto, machine, history,
    Nobody, Identity, Births, Process
<1>1. ASSUME NEW o \in Owners, Start(o) PROVE StrayModelIsKnown'
  BY <1>1 DEF Start
<1>2. ASSUME NEW o \in Owners, TakeLock(o) PROVE StrayModelIsKnown'
  BY <1>2 DEF TakeLock, LockFree
<1>3. ASSUME NEW o \in Owners, LockTimeout(o) PROVE StrayModelIsKnown'
  BY <1>3 DEF LockTimeout
<1>4. ASSUME NEW o \in Owners, Examine(o) PROVE StrayModelIsKnown'
  BY <1>4 DEF Examine
<1>5. ASSUME NEW o \in Owners, StaleEnds(o) PROVE StrayModelIsKnown'
  BY <1>5 DEF StaleEnds, Ends
<1>6. ASSUME NEW o \in Owners, StaleStuck(o) PROVE StrayModelIsKnown'
  BY <1>6 DEF StaleStuck
<1>7. ASSUME NEW o \in Owners, StaleVanished(o) PROVE StrayModelIsKnown'
  BY <1>7 DEF StaleVanished
<1>8. ASSUME NEW o \in Owners, PassGuard(o) PROVE StrayModelIsKnown'
  BY <1>8 DEF PassGuard, SafeToStart, LlamaRunning, IsLlama
<1>9. ASSUME NEW o \in Owners, Refuse(o) PROVE StrayModelIsKnown'
  BY <1>9 DEF Refuse
<1>10. ASSUME NEW o \in Owners, SpawnFails(o) PROVE StrayModelIsKnown'
  BY <1>10 DEF SpawnFails
<1>11. ASSUME NEW o \in Owners, Spawn(o) PROVE StrayModelIsKnown'
  BY <1>11 DEF Spawn, Begin
<1>12. ASSUME NEW o \in Owners, Record(o) PROVE StrayModelIsKnown'
  BY <1>12 DEF Record
<1>13. ASSUME NEW o \in Owners, Ready(o) PROVE StrayModelIsKnown'
  BY <1>13 DEF Ready
<1>14. ASSUME NEW o \in Owners, LoadFails(o) PROVE StrayModelIsKnown'
  BY <1>14 DEF LoadFails
<1>15. ASSUME NEW o \in Owners, NEW reply \in Replies, NEW require \in BOOLEAN, Chat(o, reply, require)
       PROVE  StrayModelIsKnown'
  BY <1>15 DEF Chat
<1>16. ASSUME NEW o \in Owners, EndBody(o) PROVE StrayModelIsKnown'
  BY <1>16 DEF EndBody
<1>17. ASSUME NEW o \in Owners, AlreadyExited(o) PROVE StrayModelIsKnown'
  BY <1>17 DEF AlreadyExited
<1>18. ASSUME NEW o \in Owners, ChildEnds(o) PROVE StrayModelIsKnown'
  BY <1>18 DEF ChildEnds, Ends
<1>19. ASSUME NEW o \in Owners, ChildStuck(o) PROVE StrayModelIsKnown'
  BY <1>19 DEF ChildStuck
<1>20. ASSUME NEW o \in Owners, Truncate(o) PROVE StrayModelIsKnown'
  BY <1>20 DEF Truncate
<1>21. ASSUME NEW o \in Owners, Unlock(o) PROVE StrayModelIsKnown'
  BY <1>21 DEF Unlock
<1>22. ASSUME NEW o \in Owners, EndWait(o) PROVE StrayModelIsKnown'
  BY <1>22 DEF EndWait
<1>23. ASSUME NEW o \in Owners, Crash(o) PROVE StrayModelIsKnown'
  BY <1>23 DEF Crash
<1>24. ASSUME NEW p \in Pids, Exits(p) PROVE StrayModelIsKnown'
  BY <1>24 DEF Exits, Ends
<1>25. ASSUME NEW p \in Pids, NEW kind \in {"llama", "other"}, ForeignStarts(p, kind)
       PROVE  StrayModelIsKnown'
  BY <1>25 DEF ForeignStarts, Begin
<1>26. ASSUME UNCHANGED vars PROVE StrayModelIsKnown'
  BY <1>26 DEF vars
<1> HIDE DEF StrayModelIsKnown, TypeOK, Rest, TurnInv, LockInv, ChildInv,
    IdInv, NamesModel, Held, Starting, Owning, Leaving, SameProcess,
    Live, Free, Goto, machine, history, Nobody, Identity, Births, Process
<1> QED
  BY <1>1, <1>2, <1>3, <1>4, <1>5, <1>6, <1>7, <1>8, <1>9, <1>10, <1>11,
     <1>12, <1>13, <1>14, <1>15, <1>16, <1>17, <1>18, <1>19, <1>20,
     <1>21, <1>22, <1>23, <1>24, <1>25, <1>26 DEF Next, OwnerStep

(* Signals go to the process the owner has identified.                     *)
LEMMA SignalStep ==
  ASSUME TypeOK, Rest, OnlyStaleModelsSignalled, [Next]_vars
  PROVE  OnlyStaleModelsSignalled'
<1> USE DEF OnlyStaleModelsSignalled, Goto, machine, history
<1>1. ASSUME NEW o \in Owners, Start(o) PROVE OnlyStaleModelsSignalled'
  BY <1>1 DEF Start
<1>2. ASSUME NEW o \in Owners, TakeLock(o) PROVE OnlyStaleModelsSignalled'
  BY <1>2 DEF TakeLock, LockFree
<1>3. ASSUME NEW o \in Owners, LockTimeout(o) PROVE OnlyStaleModelsSignalled'
  BY <1>3 DEF LockTimeout
<1>4. ASSUME NEW o \in Owners, Examine(o) PROVE OnlyStaleModelsSignalled'
  BY <1>4 DEF Examine
<1>5. ASSUME NEW o \in Owners, StaleEnds(o) PROVE OnlyStaleModelsSignalled'
  BY <1>5, SignalOwn, SignalTargets DEF StaleEnds, Held, Starting, Owning
<1>6. ASSUME NEW o \in Owners, StaleStuck(o) PROVE OnlyStaleModelsSignalled'
  BY <1>6, SignalOwn, SignalTargets DEF StaleStuck, Held, Starting, Owning
<1>7. ASSUME NEW o \in Owners, StaleVanished(o) PROVE OnlyStaleModelsSignalled'
  BY <1>7 DEF StaleVanished
<1>8. ASSUME NEW o \in Owners, PassGuard(o) PROVE OnlyStaleModelsSignalled'
  BY <1>8 DEF PassGuard, SafeToStart, LlamaRunning, IsLlama
<1>9. ASSUME NEW o \in Owners, Refuse(o) PROVE OnlyStaleModelsSignalled'
  BY <1>9 DEF Refuse
<1>10. ASSUME NEW o \in Owners, SpawnFails(o) PROVE OnlyStaleModelsSignalled'
  BY <1>10 DEF SpawnFails
<1>11. ASSUME NEW o \in Owners, Spawn(o) PROVE OnlyStaleModelsSignalled'
  BY <1>11 DEF Spawn, Begin
<1>12. ASSUME NEW o \in Owners, Record(o) PROVE OnlyStaleModelsSignalled'
  BY <1>12 DEF Record
<1>13. ASSUME NEW o \in Owners, Ready(o) PROVE OnlyStaleModelsSignalled'
  BY <1>13 DEF Ready
<1>14. ASSUME NEW o \in Owners, LoadFails(o) PROVE OnlyStaleModelsSignalled'
  BY <1>14 DEF LoadFails
<1>15. ASSUME NEW o \in Owners, NEW reply \in Replies, NEW require \in BOOLEAN, Chat(o, reply, require)
       PROVE  OnlyStaleModelsSignalled'
  BY <1>15 DEF Chat
<1>16. ASSUME NEW o \in Owners, EndBody(o) PROVE OnlyStaleModelsSignalled'
  BY <1>16 DEF EndBody
<1>17. ASSUME NEW o \in Owners, AlreadyExited(o) PROVE OnlyStaleModelsSignalled'
  BY <1>17 DEF AlreadyExited
<1>18. ASSUME NEW o \in Owners, ChildEnds(o) PROVE OnlyStaleModelsSignalled'
  BY <1>18, SignalOwn, SignalTargets DEF ChildEnds, Held, Starting, Owning
<1>19. ASSUME NEW o \in Owners, ChildStuck(o) PROVE OnlyStaleModelsSignalled'
  BY <1>19, SignalOwn, SignalTargets DEF ChildStuck, Held, Starting, Owning
<1>20. ASSUME NEW o \in Owners, Truncate(o) PROVE OnlyStaleModelsSignalled'
  BY <1>20 DEF Truncate
<1>21. ASSUME NEW o \in Owners, Unlock(o) PROVE OnlyStaleModelsSignalled'
  BY <1>21 DEF Unlock
<1>22. ASSUME NEW o \in Owners, EndWait(o) PROVE OnlyStaleModelsSignalled'
  BY <1>22 DEF EndWait
<1>23. ASSUME NEW o \in Owners, Crash(o) PROVE OnlyStaleModelsSignalled'
  BY <1>23 DEF Crash
<1>24. ASSUME NEW p \in Pids, Exits(p) PROVE OnlyStaleModelsSignalled'
  BY <1>24 DEF Exits, Ends
<1>25. ASSUME NEW p \in Pids, NEW kind \in {"llama", "other"}, ForeignStarts(p, kind)
       PROVE  OnlyStaleModelsSignalled'
  BY <1>25 DEF ForeignStarts, Begin
<1>26. ASSUME UNCHANGED vars PROVE OnlyStaleModelsSignalled'
  BY <1>26 DEF vars
<1> HIDE DEF OnlyStaleModelsSignalled, Goto, machine, history
<1> QED
  BY <1>1, <1>2, <1>3, <1>4, <1>5, <1>6, <1>7, <1>8, <1>9, <1>10, <1>11,
     <1>12, <1>13, <1>14, <1>15, <1>16, <1>17, <1>18, <1>19, <1>20,
     <1>21, <1>22, <1>23, <1>24, <1>25, <1>26 DEF Next, OwnerStep

-----------------------------------------------------------------------------
(* The theorems.                                                           *)

LEMMA InitInv == ASSUME Init PROVE IInv
<1> USE OwnersAssumption, PidsAssumption, BoundsAssumption DEF Init, Free, Nobody
<1>1. TypeOK
  BY DEF TypeOK, Labels
<1>2. LockInv /\ ChildInv
  BY DEF LockInv, ChildInv, Held, Starting, Owning, Leaving
<1>3. BirthInv /\ IdInv /\ OneModel
  BY DEF BirthInv, IdInv, NamesModel, OneModel, Live
<1>4. TurnInv /\ StrayModelIsKnown /\ OnlyStaleModelsSignalled
  BY DEF TurnInv, StrayModelIsKnown, OnlyStaleModelsSignalled, Owning
<1> QED
  BY <1>1, <1>2, <1>3, <1>4 DEF IInv, Rest

LEMMA InvStep == ASSUME IInv, [Next]_vars PROVE IInv'
<1>1. TypeOK /\ Rest /\ LockInv /\ BirthInv /\ OnlyStaleModelsSignalled
  BY DEF IInv, Rest
<1>2. TypeOK' /\ LockInv' /\ BirthInv'
  BY <1>1, TypeStep, LockStep, BirthStep
<1>3. OneModel' /\ ChildInv' /\ IdInv' /\ TurnInv'
  BY <1>1, OneStep, ChildStep, IdStep, TurnStep
<1>4. StrayModelIsKnown' /\ OnlyStaleModelsSignalled'
  BY <1>1, StrayStep, SignalStep
<1> QED
  BY <1>2, <1>3, <1>4 DEF IInv, Rest

THEOREM Invariance == Spec => []IInv
<1>1. Init => IInv
  BY InitInv
<1>2. IInv /\ [Next]_vars => IInv'
  BY InvStep
<1> QED
  BY <1>1, <1>2, PTL DEF Spec

(* The variables keep their types.                                         *)
THEOREM ModelTypeCorrect == Spec => []TypeOK
<1>1. IInv => TypeOK
  BY DEF IInv
<1> QED
  BY <1>1, Invariance, PTL

(* However many owners start, crash or fail to stop, at most one model of  *)
(* Workestra is alive.                                                     *)
THEOREM ModelsRunSequentially == Spec => []AtMostOneModel
<1>1. ASSUME IInv PROVE AtMostOneModel
  <2> SUFFICES ASSUME NEW a \in LiveModels, NEW b \in LiveModels PROVE a = b
    BY DEF AtMostOneModel
  <2>1. PICK p \in Pids : proc[p] = [birth |-> a, kind |-> "model"]
    BY DEF LiveModels
  <2>2. PICK q \in Pids : proc[q] = [birth |-> b, kind |-> "model"]
    BY DEF LiveModels
  <2>3. p = q
    BY <1>1, <2>1, <2>2 DEF IInv, Rest, OneModel
  <2> QED
    BY <2>1, <2>2, <2>3
<1> QED
  BY <1>1, Invariance, PTL

(* A reused pid is never signalled, nor a model in use.                    *)
THEOREM OnlyStaleReaped == Spec => []OnlyStaleModelsSignalled
<1>1. IInv => OnlyStaleModelsSignalled
  BY DEF IInv, Rest
<1> QED
  BY <1>1, Invariance, PTL

(* A model that outlives its owner is named by the lock file, unless its   *)
(* owner died before it wrote the metadata.                                *)
THEOREM StraysAreKnown == Spec => []StrayModelIsKnown
<1>1. IInv => StrayModelIsKnown
  BY DEF IInv, Rest
<1> QED
  BY <1>1, Invariance, PTL

-----------------------------------------------------------------------------
(* The protocol implements ModelSlot.                                      *)

LEMMA SlotInit == ASSUME Init PROVE Slot!Init
BY DEF Init, Slot!Init, LiveModels, Free, Births

(* What the process table does to the live models.                         *)
LEMMA ModelsKept ==
  ASSUME UNCHANGED proc
  PROVE  LiveModels' = LiveModels
BY DEF LiveModels

LEMMA ModelEnds ==
  ASSUME TypeOK, OneModel, NEW p \in Pids, Live(p), Ends(p)
  PROVE  LiveModels' = LiveModels \/ (LiveModels # {} /\ LiveModels' = {})
<1>1. proc' = [proc EXCEPT ![p] = Free] /\ proc[p] \in Process
  BY DEF Ends, TypeOK, Live
<1>2. CASE proc[p].kind = "model"
  <2>1. LiveModels' = {}
    BY <1>1, <1>2 DEF LiveModels, OneModel, Free, TypeOK, Births
  <2>2. proc[p].birth \in LiveModels
    BY <1>1, <1>2 DEF LiveModels, Process
  <2> QED
    BY <2>1, <2>2
<1>3. CASE proc[p].kind # "model"
  BY <1>1, <1>3 DEF LiveModels, Free, TypeOK
<1> QED
  BY <1>2, <1>3

LEMMA ForeignKept ==
  ASSUME TypeOK, NEW p \in Pids, NEW kind \in {"llama", "other"}, Begin(p, kind)
  PROVE  LiveModels' = LiveModels
BY DEF TypeOK, Begin, LiveModels, Live, Free, Births

LEMMA SpawnLaunches ==
  ASSUME IInv, NEW o \in Owners, Spawn(o)
  PROVE  Slot!Launch
<1>1. LiveModels = {}
  BY DEF IInv, Rest, TurnInv, Spawn, LiveModels
<1>2. holder = o /\ holder' = holder
  BY DEF IInv, Rest, LockInv, Held, Starting, Spawn
<1>3. PICK p \in Pids : Begin(p, "model")
  BY DEF Spawn
<1>4. born + 1 \in Births
  BY <1>3, BoundsAssumption DEF IInv, TypeOK, Begin, Births
<1>5. LiveModels' = {born + 1}
  <2>1. proc' = [proc EXCEPT ![p] = [birth |-> born + 1, kind |-> "model"]]
    BY <1>3 DEF Begin
  <2>2. \A q \in Pids \ {p} : proc'[q].kind # "model"
    BY <2>1 DEF IInv, TypeOK, Rest, TurnInv, Spawn
  <2>3. proc'[p] = [birth |-> born + 1, kind |-> "model"]
    BY <2>1 DEF IInv, TypeOK
  <2> QED
    BY <1>4, <2>2, <2>3 DEF LiveModels
<1> QED
  BY <1>1, <1>2, <1>4, <1>5 DEF Slot!Launch

LEMMA SlotStep == ASSUME IInv, [Next]_vars PROVE [Slot!Next]_(Slot!slotVars)
<1>0. TypeOK /\ OneModel /\ LockInv
  BY DEF IInv, Rest
<1> USE OwnersAssumption DEF Goto, machine, history, Slot!Next, Slot!slotVars
<1>1. ASSUME NEW o \in Owners, Start(o) PROVE [Slot!Next]_(Slot!slotVars)
  BY <1>1, ModelsKept DEF Start
<1>2. ASSUME NEW o \in Owners, TakeLock(o) PROVE [Slot!Next]_(Slot!slotVars)
  BY <1>2, ModelsKept DEF TakeLock, LockFree, Slot!Take
<1>3. ASSUME NEW o \in Owners, LockTimeout(o) PROVE [Slot!Next]_(Slot!slotVars)
  BY <1>3, ModelsKept DEF LockTimeout
<1>4. ASSUME NEW o \in Owners, Examine(o) PROVE [Slot!Next]_(Slot!slotVars)
  BY <1>4, ModelsKept DEF Examine
<1>5. ASSUME NEW o \in Owners, StaleEnds(o) PROVE [Slot!Next]_(Slot!slotVars)
  <2>1. meta.pid \in Pids /\ Live(meta.pid) /\ Ends(meta.pid)
    BY <1>5, <1>0 DEF StaleEnds, SameProcess, TypeOK, Identity
  <2> QED
    BY <1>5, <2>1, <1>0, ModelEnds DEF StaleEnds, Slot!Exit
<1>6. ASSUME NEW o \in Owners, StaleStuck(o) PROVE [Slot!Next]_(Slot!slotVars)
  BY <1>6, ModelsKept DEF StaleStuck
<1>7. ASSUME NEW o \in Owners, StaleVanished(o) PROVE [Slot!Next]_(Slot!slotVars)
  BY <1>7, ModelsKept DEF StaleVanished
<1>8. ASSUME NEW o \in Owners, PassGuard(o) PROVE [Slot!Next]_(Slot!slotVars)
  BY <1>8, ModelsKept DEF PassGuard
<1>9. ASSUME NEW o \in Owners, Refuse(o) PROVE [Slot!Next]_(Slot!slotVars)
  BY <1>9, ModelsKept DEF Refuse
<1>10. ASSUME NEW o \in Owners, SpawnFails(o) PROVE [Slot!Next]_(Slot!slotVars)
  BY <1>10, ModelsKept DEF SpawnFails
<1>11. ASSUME NEW o \in Owners, Spawn(o) PROVE [Slot!Next]_(Slot!slotVars)
  BY <1>11, SpawnLaunches
<1>12. ASSUME NEW o \in Owners, Record(o) PROVE [Slot!Next]_(Slot!slotVars)
  BY <1>12, ModelsKept DEF Record
<1>13. ASSUME NEW o \in Owners, Ready(o) PROVE [Slot!Next]_(Slot!slotVars)
  BY <1>13, ModelsKept DEF Ready
<1>14. ASSUME NEW o \in Owners, LoadFails(o) PROVE [Slot!Next]_(Slot!slotVars)
  BY <1>14, ModelsKept DEF LoadFails
<1>15. ASSUME NEW o \in Owners, NEW reply \in Replies, NEW require \in BOOLEAN, Chat(o, reply, require)
       PROVE  [Slot!Next]_(Slot!slotVars)
  BY <1>15, ModelsKept DEF Chat
<1>16. ASSUME NEW o \in Owners, EndBody(o) PROVE [Slot!Next]_(Slot!slotVars)
  BY <1>16, ModelsKept DEF EndBody
<1>17. ASSUME NEW o \in Owners, AlreadyExited(o) PROVE [Slot!Next]_(Slot!slotVars)
  BY <1>17, ModelsKept DEF AlreadyExited
<1>18. ASSUME NEW o \in Owners, ChildEnds(o) PROVE [Slot!Next]_(Slot!slotVars)
  <2>1. child[o].pid \in Pids /\ Live(child[o].pid) /\ Ends(child[o].pid)
    BY <1>18, <1>0 DEF ChildEnds, SameProcess, TypeOK, Identity
  <2> QED
    BY <1>18, <2>1, <1>0, ModelEnds DEF ChildEnds, Slot!Exit
<1>19. ASSUME NEW o \in Owners, ChildStuck(o) PROVE [Slot!Next]_(Slot!slotVars)
  BY <1>19, ModelsKept DEF ChildStuck
<1>20. ASSUME NEW o \in Owners, Truncate(o) PROVE [Slot!Next]_(Slot!slotVars)
  BY <1>20, ModelsKept DEF Truncate
<1>21. ASSUME NEW o \in Owners, Unlock(o) PROVE [Slot!Next]_(Slot!slotVars)
  <2>1. holder = o
    BY <1>21, <1>0 DEF Unlock, LockInv, Held
  <2> QED
    BY <1>21, <2>1, ModelsKept DEF Unlock, Slot!Give
<1>22. ASSUME NEW o \in Owners, EndWait(o) PROVE [Slot!Next]_(Slot!slotVars)
  BY <1>22, ModelsKept DEF EndWait
<1>23. ASSUME NEW o \in Owners, Crash(o) PROVE [Slot!Next]_(Slot!slotVars)
  BY <1>23, ModelsKept DEF Crash, Slot!Give
<1>24. ASSUME NEW p \in Pids, Exits(p) PROVE [Slot!Next]_(Slot!slotVars)
  BY <1>24, <1>0, ModelEnds DEF Exits, Slot!Exit
<1>25. ASSUME NEW p \in Pids, NEW kind \in {"llama", "other"}, ForeignStarts(p, kind)
       PROVE  [Slot!Next]_(Slot!slotVars)
  BY <1>25, <1>0, ForeignKept DEF ForeignStarts
<1>26. ASSUME UNCHANGED vars PROVE [Slot!Next]_(Slot!slotVars)
  BY <1>26, ModelsKept DEF vars
<1> QED
  BY <1>1, <1>2, <1>3, <1>4, <1>5, <1>6, <1>7, <1>8, <1>9, <1>10, <1>11,
     <1>12, <1>13, <1>14, <1>15, <1>16, <1>17, <1>18, <1>19, <1>20,
     <1>21, <1>22, <1>23, <1>24, <1>25, <1>26 DEF Next, OwnerStep

(* Owners take turns, and every launch is made in the owner's turn with no *)
(* other model alive.                                                      *)
THEOREM ImplementsSlot == Spec => SlotSpec
<1>1. Init => Slot!Init
  BY SlotInit
<1>2. IInv /\ [Next]_vars => [Slot!Next]_(Slot!slotVars)
  BY SlotStep
<1> QED
  BY <1>1, <1>2, Invariance, PTL DEF Spec, SlotSpec, Slot!Spec
=============================================================================
