------------------------ MODULE ProjectRegistry_proofs -----------------------
(***************************************************************************)
(* Proofs, for any number of callers, ids and workspaces, of the safety    *)
(* properties of RegistryProperties.                                       *)
(***************************************************************************)
EXTENDS RegistryProperties, FiniteSetTheorems, TLAPS

-----------------------------------------------------------------------------
(* The parts of the inductive invariant.                                   *)

Unfinished == Making \cup {"cleanup"}

(* A call is about an entry.                                               *)
WantInv == \A c \in Callers : pc[c] # "idle" => want[c] \in Entries

(* With width 1 one call is active.                                        *)
OneInv ==
  width = 1 => \A c, d \in Callers : pc[c] # "idle" /\ pc[d] # "idle" => c = d

IdsUnique(list) == \A e, f \in list : e.id = f.id => e = f

RootsUnique(list) == \A e, f \in list : e.root = f.root => e = f

(* What is in the file and what a call is about to save has unique ids.    *)
IdsInv == IdsUnique(registry) /\ \A c \in Callers : IdsUnique(out[c])

(* Its workspaces are unique if nobody saves between check and reading.    *)
RootsInv ==
  width = 1 =>
    /\ RootsUnique(registry)
    /\ \A c \in Callers :
         /\ RootsUnique(out[c])
         /\ pc[c] = "read" => ~Taken(want[c], registry)

(* A list about to be saved has what is settled, but for the own entry.    *)
SettledInv ==
  \A c \in Callers :
    /\ settled[c] \subseteq registry
    /\ pc[c] = "save" => \A e \in settled[c] : e.id # want[c].id => e \in out[c]

(* Bootstraps work where users have nothing; no directory, no items.       *)
GivenInv ==
  /\ \A r \in Roots : \A i \in given[r] : made[r][i] = User
  /\ \A r \in Roots : r \notin there => made[r] = NoItems
  /\ \A c \in Callers : pc[c] \in Unfinished => given[want[c].root] = {}

(* One call at a time, a bootstrap makes all that is in its directory.     *)
WorkInv ==
  width = 1 =>
    \A c \in Callers :
      pc[c] \in Making => \A i \in Items : made[want[c].root][i] \in {Nobody, c}

(* The second half of BootstrapClean.                                      *)
MadeInv ==
  width = 1 =>
    \A c \in Callers : \A r \in Roots :
      (\E i \in Items : made[r][i] = c) =>
        (\A i \in Items : made[r][i] = c) \/ (pc[c] \in Unfinished /\ want[c].root = r)

IInv ==
  /\ TypeOK /\ WantInv /\ OneInv
  /\ IdsInv /\ RootsInv /\ SettledInv
  /\ GivenInv /\ WorkInv /\ MadeInv

-----------------------------------------------------------------------------
(* The operators of ProjectIndex.                                          *)

LEMMA RegistrableKeepsUnique ==
  ASSUME NEW list, NEW e, Registrable(e, list)
  PROVE  /\ IdsUnique(list) => IdsUnique(list \cup {e})
         /\ RootsUnique(list) => RootsUnique(list \cup {e})
BY DEF Registrable, Registered, Taken, IdsUnique, RootsUnique

LEMMA ReplacedKeepsUnique ==
  ASSUME NEW list, NEW e
  PROVE  /\ IdsUnique(list) => IdsUnique(Replaced(e, list))
         /\ RootsUnique(list) /\ ~Taken(e, list) => RootsUnique(Replaced(e, list))
         /\ \A f \in list : f.id # e.id => f \in Replaced(e, list)
BY DEF Replaced, Taken, IdsUnique, RootsUnique

LEMMA WithoutKeepsUnique ==
  ASSUME NEW list, NEW id
  PROVE  /\ IdsUnique(list) => IdsUnique(Without(id, list))
         /\ RootsUnique(list) => RootsUnique(Without(id, list))
         /\ \A f \in list : f.id # id => f \in Without(id, list)
BY DEF Without, IdsUnique, RootsUnique

-----------------------------------------------------------------------------
(* Every step is one of these.                                             *)

LEMMA NextCases ==
  ASSUME Next \/ UNCHANGED vars
  PROVE  \/ \E c \in Callers :
            \/ \E e \in Entries, label \in {"register", "check", "drop", "bootId"} :
                Begin(c, e, label)
            \/ Register(c) \/ CheckWorkspace(c) \/ Replace(c) \/ Drop(c) \/ Save(c)
            \/ BootstrapId(c) \/ BootstrapRoot(c) \/ Look(c) \/ Target(c)
            \/ \E from \in Making, file \in Items, to \in Making :
                CreateFile(c, from, file, to)
            \/ \E from \in Making, result \in Items, to \in Making :
                RunCommand(c, from, result, to)
            \/ Commit(c) \/ MakingFails(c) \/ Cleanup(c)
         \/ UNCHANGED vars
<1>1. ASSUME NEW c \in Callers, Make(c)
      PROVE  \/ \E from \in Making, file \in Items, to \in Making :
                  CreateFile(c, from, file, to)
             \/ \E from \in Making, result \in Items, to \in Making :
                  RunCommand(c, from, result, to)
             \/ Commit(c) \/ MakingFails(c)
  BY <1>1 DEF Make, Making, Items, Files, Results
<1> QED
  BY <1>1 DEF Next, Step, BeginRegister, BeginUpdate, BeginDelete, BeginBootstrap

-----------------------------------------------------------------------------
(* What the larger steps do, variable by variable.                         *)

LEMMA MakeFacts ==
  ASSUME TypeOK, WantInv, NEW c \in Callers, NEW from \in Making, NEW item \in Items,
         NEW to \in Making, CreateFile(c, from, item, to) \/ RunCommand(c, from, item, to)
  PROVE  /\ pc[c] = from /\ pc' \in [Callers -> Labels]
         /\ pc'[c] \in Unfinished /\ \A d \in Callers \ {c} : pc'[d] = pc[d]
         /\ want[c].root \in Roots
         /\ there' \in SUBSET Roots /\ there \subseteq there' /\ want[c].root \in there'
         /\ made' \in [Roots -> [Items -> Callers \cup {User, Nobody}]]
         /\ \A r \in Roots : r # want[c].root => made'[r] = made[r]
         /\ \A r \in Roots, i \in Items :
              \/ made'[r][i] = made[r][i]
              \/ made[r][i] = Nobody /\ made'[r][i] = c /\ r = want[c].root
         /\ UNCHANGED <<registry, want, out, missing, width, given, settled>>
<1> DEFINE root == want[c].root
<1>1. from # "idle" /\ pc[c] = from
  BY DEF CreateFile, RunCommand, Making
<1>2. root \in Roots
  BY <1>1 DEF WantInv, Entries
<1>3. \E label \in Unfinished : pc' = [pc EXCEPT ![c] = label]
  BY DEF CreateFile, RunCommand, Goto, Unfinished
<1>4. /\ pc' \in [Callers -> Labels] /\ pc'[c] \in Unfinished
      /\ \A d \in Callers \ {c} : pc'[d] = pc[d]
  BY <1>3 DEF TypeOK, Unfinished, Labels
<1>5. there' \in SUBSET Roots /\ there \subseteq there' /\ root \in there'
  BY <1>2 DEF CreateFile, RunCommand, TypeOK
<1>6. CASE Put(c, item)
  <2> DEFINE new == [made[root] EXCEPT ![item] = IF made[root][item] = Nobody THEN c ELSE made[root][item]]
  <2>1. made' = [made EXCEPT ![root] = new]
    BY <1>6 DEF Put
  <2>2. new \in [Items -> Callers \cup {User, Nobody}]
    BY <1>2 DEF TypeOK
  <2>3. \A i \in Items : new[i] = made[root][i] \/ (made[root][i] = Nobody /\ new[i] = c)
    BY <1>2 DEF TypeOK
  <2>4. /\ made' \in [Roots -> [Items -> Callers \cup {User, Nobody}]]
        /\ \A r \in Roots : made'[r] = IF r = root THEN new ELSE made[r]
    <3> HIDE DEF new, root
    <3> QED
      BY <2>1, <2>2, <1>2 DEF TypeOK
  <2>5. \A r \in Roots, i \in Items :
          made'[r][i] = made[r][i] \/ (made[r][i] = Nobody /\ made'[r][i] = c /\ r = root)
    <3> HIDE DEF new, root
    <3> QED
      BY <2>3, <2>4
  <2>6. UNCHANGED <<registry, want, out, missing, width, given, settled>>
    BY DEF CreateFile, RunCommand, call, past
  <2> QED
    BY <1>1, <1>2, <1>4, <1>5, <2>4, <2>5, <2>6
<1>7. CASE UNCHANGED made
  <2>1. UNCHANGED <<registry, want, out, missing, width, given, settled>>
    BY DEF CreateFile, RunCommand, call, past
  <2> QED
    BY <1>1, <1>2, <1>4, <1>5, <1>7, <2>1 DEF TypeOK
<1> QED
  BY <1>6, <1>7 DEF CreateFile, RunCommand

LEMMA CleanupFacts ==
  ASSUME TypeOK, WantInv, NEW c \in Callers, Cleanup(c)
  PROVE  /\ pc[c] = "cleanup" /\ pc' = [pc EXCEPT ![c] = "idle"]
         /\ want[c].root \in Roots
         /\ there' = there \/ there' = there \ {want[c].root}
         /\ \A r \in Roots : made'[r] = IF r = want[c].root THEN NoItems ELSE made[r]
         /\ want' = [want EXCEPT ![c] = NoEntry]
         /\ UNCHANGED <<width, given>>
<1>1. want[c].root \in Roots
  BY DEF Cleanup, WantInv, Entries
<1> QED
  BY <1>1 DEF Cleanup, Return, Goto, past, TypeOK

LEMMA BeginFacts ==
  ASSUME NEW c \in Callers, NEW e \in Entries,
         NEW label \in {"register", "check", "drop", "bootId"}, Begin(c, e, label)
  PROVE  /\ pc[c] = "idle" /\ pc' = [pc EXCEPT ![c] = label]
         /\ want' = [want EXCEPT ![c] = e]
         /\ settled' = [settled EXCEPT ![c] = registry]
         /\ UNCHANGED <<registry, there, made, out, missing, width, given>>
BY DEF Begin, Goto, dirs, past

LEMMA RegisterFacts ==
  ASSUME NEW c \in Callers, Register(c)
  PROVE  /\ pc[c] = "register" /\ UNCHANGED <<registry, there, made, width, given>>
         /\ \/ /\ Registrable(want[c], registry)
               /\ out' = [out EXCEPT ![c] = registry \cup {want[c]}]
               /\ pc' = [pc EXCEPT ![c] = "save"]
               /\ UNCHANGED <<want, missing, settled>>
            \/ /\ pc' = [pc EXCEPT ![c] = "idle"]
               /\ want' = [want EXCEPT ![c] = NoEntry]
               /\ missing' = [missing EXCEPT ![c] = FALSE]
               /\ settled' = [settled EXCEPT ![c] = {}]
               /\ UNCHANGED out
BY DEF Register, Return, Goto, dirs, past

-----------------------------------------------------------------------------
(* The invariant holds initially and each step keeps each part.            *)

LEMMA InitInv == Init => IInv
<1> SUFFICES ASSUME Init PROVE IInv
  OBVIOUS
<1>1. \A r \in Roots : given[r] \in SUBSET Items
  BY DEF Init, Items, Results
<1>2. made \in [Roots -> [Items -> Callers \cup {User, Nobody}]]
  BY DEF Init
<1>3. width \in Nat
  <2>1. Cardinality(Callers) \in Nat
    BY FiniteAssumption, FS_CardinalityType
  <2> QED
    BY <2>1 DEF Init
<1>4. TypeOK
  BY <1>1, <1>2, <1>3 DEF Init, TypeOK, Labels, Items, Results
<1>5. GivenInv
  <2>1. \A r \in Roots : \A i \in given[r] : made[r][i] = User
    BY <1>1 DEF Init
  <2>2. \A r \in Roots : r \notin there => made[r] = NoItems
    BY DEF Init, NoItems
  <2> QED
    BY <2>1, <2>2 DEF Init, GivenInv, Unfinished, Making
<1>6. MadeInv
  BY MakersAssumption DEF Init, MadeInv
<1> QED
  BY <1>4, <1>5, <1>6 DEF Init, IInv, WantInv, OneInv, IdsInv, IdsUnique, RootsInv, RootsUnique,
     SettledInv, WorkInv, Making

(* Types.                                                                  *)
LEMMA TypeStep ==
  ASSUME TypeOK, WantInv, Next \/ UNCHANGED vars
  PROVE  TypeOK'
<1> USE DEF Goto, Return, dirs, call, past, TypeOK, Labels, Making
<1>1. ASSUME NEW c \in Callers, NEW e \in Entries,
              NEW label \in {"register", "check", "drop", "bootId"}, Begin(c, e, label)
       PROVE  TypeOK'
  <2>1. pc' \in [Callers -> Labels] /\ want' \in [Callers -> Entries \cup {NoEntry}]
    BY <1>1, BeginFacts, SMTT(30)
  <2>2. settled' \in [Callers -> SUBSET Entries]
    BY <1>1, BeginFacts
  <2>3. UNCHANGED <<registry, there, made, out, missing, width, given>>
    BY <1>1, BeginFacts
  <2> QED
    BY <2>1, <2>2, <2>3
<1>2. ASSUME NEW c \in Callers, Register(c) PROVE TypeOK'
  <2>1. want[c] \in Entries
    BY <1>2, RegisterFacts DEF WantInv
  <2>2. registry \cup {want[c]} \in SUBSET Entries
    BY <2>1
  <2>3. out' \in [Callers -> SUBSET Entries]
    BY <1>2, <2>2, RegisterFacts
  <2>4. want' \in [Callers -> Entries \cup {NoEntry}]
    BY <1>2, RegisterFacts
  <2>5. settled' \in [Callers -> SUBSET Entries] /\ missing' \in [Callers -> BOOLEAN]
    BY <1>2, RegisterFacts
  <2> QED
    BY <1>2, <2>3, <2>4, <2>5, RegisterFacts
<1>3. ASSUME NEW c \in Callers, CheckWorkspace(c) PROVE TypeOK'
  BY <1>3 DEF CheckWorkspace
<1>4. ASSUME NEW c \in Callers, Replace(c) PROVE TypeOK'
  BY <1>4 DEF Replace, Replaced, WantInv
<1>5. ASSUME NEW c \in Callers, Drop(c) PROVE TypeOK'
  BY <1>5 DEF Drop, Without
<1>6. ASSUME NEW c \in Callers, Save(c) PROVE TypeOK'
  BY <1>6 DEF Save
<1>7. ASSUME NEW c \in Callers, BootstrapId(c) PROVE TypeOK'
  BY <1>7 DEF BootstrapId
<1>8. ASSUME NEW c \in Callers, BootstrapRoot(c) PROVE TypeOK'
  BY <1>8 DEF BootstrapRoot
<1>9. ASSUME NEW c \in Callers, Look(c) PROVE TypeOK'
  BY <1>9 DEF Look
<1>10. ASSUME NEW c \in Callers, Target(c) PROVE TypeOK'
  BY <1>10, ZenonT(40) DEF Target, WantInv, Entries
<1>11. ASSUME NEW c \in Callers, NEW from \in Making, NEW file \in Items,
              NEW to \in Making, CreateFile(c, from, file, to)
       PROVE  TypeOK'
  BY <1>11, MakeFacts DEF Unfinished
<1>12. ASSUME NEW c \in Callers, NEW from \in Making, NEW result \in Items,
              NEW to \in Making, RunCommand(c, from, result, to)
       PROVE  TypeOK'
  BY <1>12, MakeFacts DEF Unfinished
<1>13. ASSUME NEW c \in Callers, Commit(c) PROVE TypeOK'
  BY <1>13 DEF Commit
<1>14. ASSUME NEW c \in Callers, MakingFails(c) PROVE TypeOK'
  BY <1>14 DEF MakingFails
<1>15. ASSUME NEW c \in Callers, Cleanup(c) PROVE TypeOK'
  BY <1>15  DEF Cleanup, WantInv, Entries, NoItems
<1>16. ASSUME UNCHANGED vars PROVE TypeOK'
  BY <1>16 DEF vars
<1> HIDE DEF Goto, Return, dirs, call, past, TypeOK, Labels, Making
<1> QED
  BY <1>1, <1>2, <1>3, <1>4, <1>5, <1>6, <1>7, <1>8, <1>9, <1>10, <1>11,
     <1>12, <1>13, <1>14, <1>15, <1>16, NextCases

(* Calls are about entries.                                                *)
LEMMA WantStep ==
  ASSUME TypeOK, WantInv, Next \/ UNCHANGED vars
  PROVE  WantInv'
<1> USE DEF Goto, Return, dirs, call, past, WantInv, TypeOK
<1>1. ASSUME NEW c \in Callers, NEW e \in Entries,
              NEW label \in {"register", "check", "drop", "bootId"}, Begin(c, e, label)
       PROVE  WantInv'
  BY <1>1, BeginFacts
<1>2. ASSUME NEW c \in Callers, Register(c) PROVE WantInv'
  BY <1>2, RegisterFacts
<1>3. ASSUME NEW c \in Callers, CheckWorkspace(c) PROVE WantInv'
  BY <1>3 DEF CheckWorkspace
<1>4. ASSUME NEW c \in Callers, Replace(c) PROVE WantInv'
  BY <1>4 DEF Replace
<1>5. ASSUME NEW c \in Callers, Drop(c) PROVE WantInv'
  BY <1>5 DEF Drop
<1>6. ASSUME NEW c \in Callers, Save(c) PROVE WantInv'
  BY <1>6 DEF Save
<1>7. ASSUME NEW c \in Callers, BootstrapId(c) PROVE WantInv'
  BY <1>7 DEF BootstrapId
<1>8. ASSUME NEW c \in Callers, BootstrapRoot(c) PROVE WantInv'
  BY <1>8 DEF BootstrapRoot
<1>9. ASSUME NEW c \in Callers, Look(c) PROVE WantInv'
  BY <1>9 DEF Look
<1>10. ASSUME NEW c \in Callers, Target(c) PROVE WantInv'
  BY <1>10 DEF Target
<1>11. ASSUME NEW c \in Callers, NEW from \in Making, NEW file \in Items,
              NEW to \in Making, CreateFile(c, from, file, to)
       PROVE  WantInv'
  BY <1>11, MakeFacts DEF Making, Unfinished
<1>12. ASSUME NEW c \in Callers, NEW from \in Making, NEW result \in Items,
              NEW to \in Making, RunCommand(c, from, result, to)
       PROVE  WantInv'
  BY <1>12, MakeFacts DEF Making, Unfinished
<1>13. ASSUME NEW c \in Callers, Commit(c) PROVE WantInv'
  BY <1>13 DEF Commit
<1>14. ASSUME NEW c \in Callers, MakingFails(c) PROVE WantInv'
  BY <1>14 DEF MakingFails, Making
<1>15. ASSUME NEW c \in Callers, Cleanup(c) PROVE WantInv'
  BY <1>15 DEF Cleanup
<1>16. ASSUME UNCHANGED vars PROVE WantInv'
  BY <1>16 DEF vars
<1> HIDE DEF Goto, Return, dirs, call, past, WantInv, TypeOK
<1> QED
  BY <1>1, <1>2, <1>3, <1>4, <1>5, <1>6, <1>7, <1>8, <1>9, <1>10, <1>11,
     <1>12, <1>13, <1>14, <1>15, <1>16, NextCases

(* One call with width 1.                                                  *)
LEMMA OneStep ==
  ASSUME TypeOK, WantInv, OneInv, Next \/ UNCHANGED vars
  PROVE  OneInv'
<1> USE DEF Goto, Return, dirs, call, past, OneInv, TypeOK
<1>1. ASSUME NEW c \in Callers, NEW e \in Entries,
              NEW label \in {"register", "check", "drop", "bootId"}, Begin(c, e, label)
       PROVE  OneInv'
  <2> SUFFICES ASSUME width = 1, NEW d \in Callers, pc[d] # "idle" PROVE FALSE
    BY <1>1, BeginFacts
  <2> DEFINE Active == {a \in Callers : pc[a] # "idle"}
  <2>1. IsFiniteSet(Active)
    BY FiniteAssumption, FS_Subset
  <2>2. Cardinality(Active) \in Nat
    BY <2>1, FS_CardinalityType
  <2>3. Cardinality(Active) = 0
    BY <1>1, <2>2 DEF Begin
  <2>4. Active = {}
    BY <2>1, <2>3, FS_EmptySet
  <2> QED
    BY <2>4
<1>2. ASSUME NEW c \in Callers, Register(c) PROVE OneInv'
  BY <1>2, RegisterFacts
<1>3. ASSUME NEW c \in Callers, CheckWorkspace(c) PROVE OneInv'
  BY <1>3 DEF CheckWorkspace
<1>4. ASSUME NEW c \in Callers, Replace(c) PROVE OneInv'
  BY <1>4 DEF Replace
<1>5. ASSUME NEW c \in Callers, Drop(c) PROVE OneInv'
  BY <1>5 DEF Drop
<1>6. ASSUME NEW c \in Callers, Save(c) PROVE OneInv'
  BY <1>6 DEF Save
<1>7. ASSUME NEW c \in Callers, BootstrapId(c) PROVE OneInv'
  BY <1>7 DEF BootstrapId
<1>8. ASSUME NEW c \in Callers, BootstrapRoot(c) PROVE OneInv'
  BY <1>8 DEF BootstrapRoot
<1>9. ASSUME NEW c \in Callers, Look(c) PROVE OneInv'
  BY <1>9 DEF Look
<1>10. ASSUME NEW c \in Callers, Target(c) PROVE OneInv'
  BY <1>10 DEF Target
<1>11. ASSUME NEW c \in Callers, NEW from \in Making, NEW file \in Items,
              NEW to \in Making, CreateFile(c, from, file, to)
       PROVE  OneInv'
  BY <1>11, MakeFacts, SMTT(30) DEF Making, Unfinished
<1>12. ASSUME NEW c \in Callers, NEW from \in Making, NEW result \in Items,
              NEW to \in Making, RunCommand(c, from, result, to)
       PROVE  OneInv'
  BY <1>12, MakeFacts, SMTT(30) DEF Making, Unfinished
<1>13. ASSUME NEW c \in Callers, Commit(c) PROVE OneInv'
  BY <1>13 DEF Commit
<1>14. ASSUME NEW c \in Callers, MakingFails(c) PROVE OneInv'
  BY <1>14 DEF MakingFails, Making
<1>15. ASSUME NEW c \in Callers, Cleanup(c) PROVE OneInv'
  BY <1>15 DEF Cleanup
<1>16. ASSUME UNCHANGED vars PROVE OneInv'
  BY <1>16 DEF vars
<1> HIDE DEF Goto, Return, dirs, call, past, OneInv, TypeOK
<1> QED
  BY <1>1, <1>2, <1>3, <1>4, <1>5, <1>6, <1>7, <1>8, <1>9, <1>10, <1>11,
     <1>12, <1>13, <1>14, <1>15, <1>16, NextCases

(* Ids.                                                                    *)
LEMMA IdsStep ==
  ASSUME TypeOK, WantInv, IdsInv, Next \/ UNCHANGED vars
  PROVE  IdsInv'
<1> USE DEF Goto, Return, dirs, call, past, IdsInv, TypeOK
<1>1. ASSUME NEW c \in Callers, NEW e \in Entries,
              NEW label \in {"register", "check", "drop", "bootId"}, Begin(c, e, label)
       PROVE  IdsInv'
  BY <1>1, BeginFacts
<1>2. ASSUME NEW c \in Callers, Register(c) PROVE IdsInv'
  BY <1>2, RegisterFacts, RegistrableKeepsUnique DEF Register
<1>3. ASSUME NEW c \in Callers, CheckWorkspace(c) PROVE IdsInv'
  BY <1>3 DEF CheckWorkspace
<1>4. ASSUME NEW c \in Callers, Replace(c) PROVE IdsInv'
  BY <1>4, ReplacedKeepsUnique DEF Replace
<1>5. ASSUME NEW c \in Callers, Drop(c) PROVE IdsInv'
  BY <1>5, WithoutKeepsUnique DEF Drop
<1>6. ASSUME NEW c \in Callers, Save(c) PROVE IdsInv'
  BY <1>6 DEF Save, IdsUnique
<1>7. ASSUME NEW c \in Callers, BootstrapId(c) PROVE IdsInv'
  BY <1>7 DEF BootstrapId
<1>8. ASSUME NEW c \in Callers, BootstrapRoot(c) PROVE IdsInv'
  BY <1>8 DEF BootstrapRoot
<1>9. ASSUME NEW c \in Callers, Look(c) PROVE IdsInv'
  BY <1>9 DEF Look
<1>10. ASSUME NEW c \in Callers, Target(c) PROVE IdsInv'
  BY <1>10 DEF Target
<1>11. ASSUME NEW c \in Callers, NEW from \in Making, NEW file \in Items,
              NEW to \in Making, CreateFile(c, from, file, to)
       PROVE  IdsInv'
  BY <1>11, MakeFacts DEF Making, Unfinished
<1>12. ASSUME NEW c \in Callers, NEW from \in Making, NEW result \in Items,
              NEW to \in Making, RunCommand(c, from, result, to)
       PROVE  IdsInv'
  BY <1>12, MakeFacts DEF Making, Unfinished
<1>13. ASSUME NEW c \in Callers, Commit(c) PROVE IdsInv'
  BY <1>13 DEF Commit
<1>14. ASSUME NEW c \in Callers, MakingFails(c) PROVE IdsInv'
  BY <1>14 DEF MakingFails
<1>15. ASSUME NEW c \in Callers, Cleanup(c) PROVE IdsInv'
  BY <1>15 DEF Cleanup
<1>16. ASSUME UNCHANGED vars PROVE IdsInv'
  BY <1>16 DEF vars
<1> HIDE DEF Goto, Return, dirs, call, past, IdsInv, TypeOK
<1> QED
  BY <1>1, <1>2, <1>3, <1>4, <1>5, <1>6, <1>7, <1>8, <1>9, <1>10, <1>11,
     <1>12, <1>13, <1>14, <1>15, <1>16, NextCases

(* Workspaces.                                                             *)
LEMMA RootsStep ==
  ASSUME TypeOK, WantInv, OneInv, RootsInv, Next \/ UNCHANGED vars
  PROVE  RootsInv'
<1> USE DEF Goto, Return, dirs, call, past, RootsInv, TypeOK
<1>1. ASSUME NEW c \in Callers, NEW e \in Entries,
              NEW label \in {"register", "check", "drop", "bootId"}, Begin(c, e, label)
       PROVE  RootsInv'
  BY <1>1, BeginFacts
<1>2. ASSUME NEW c \in Callers, Register(c) PROVE RootsInv'
  <2>1. RootsUnique(registry) => RootsUnique(registry \cup {want[c]}) \/ ~Registrable(want[c], registry)
    BY RegistrableKeepsUnique
  <2>2. RootsUnique({})
    BY DEF RootsUnique
  <2>3. \A d \in Callers : pc'[d] = "read" => pc[d] = "read" /\ want'[d] = want[d]
    BY <1>2, RegisterFacts
  <2>4. width = 1 => \A d \in Callers : RootsUnique(out'[d])
    BY <1>2, <2>1, RegisterFacts, ZenonT(40)
  <2> QED
    BY <1>2, <2>3, <2>4, RegisterFacts
<1>3. ASSUME NEW c \in Callers, CheckWorkspace(c) PROVE RootsInv'
  BY <1>3 DEF CheckWorkspace
<1>4. ASSUME NEW c \in Callers, Replace(c) PROVE RootsInv'
  BY <1>4, ReplacedKeepsUnique DEF Replace
<1>5. ASSUME NEW c \in Callers, Drop(c) PROVE RootsInv'
  BY <1>5, WithoutKeepsUnique DEF Drop
<1>6. ASSUME NEW c \in Callers, Save(c) PROVE RootsInv'
  <2> SUFFICES ASSUME width = 1 PROVE RootsInv'
    BY <1>6 DEF Save
  <2>1. \A d \in Callers : d # c => pc[d] = "idle"
    BY <1>6 DEF Save, OneInv
  <2>2. \A d \in Callers : pc'[d] = "idle"
    BY <1>6, <2>1 DEF Save
  <2>3. RootsUnique(registry') /\ \A d \in Callers : RootsUnique(out'[d])
    BY <1>6 DEF Save, RootsUnique
  <2> QED
    BY <2>2, <2>3
<1>7. ASSUME NEW c \in Callers, BootstrapId(c) PROVE RootsInv'
  BY <1>7 DEF BootstrapId
<1>8. ASSUME NEW c \in Callers, BootstrapRoot(c) PROVE RootsInv'
  BY <1>8 DEF BootstrapRoot
<1>9. ASSUME NEW c \in Callers, Look(c) PROVE RootsInv'
  BY <1>9 DEF Look
<1>10. ASSUME NEW c \in Callers, Target(c) PROVE RootsInv'
  BY <1>10 DEF Target
<1>11. ASSUME NEW c \in Callers, NEW from \in Making, NEW file \in Items,
              NEW to \in Making, CreateFile(c, from, file, to)
       PROVE  RootsInv'
  BY <1>11, MakeFacts, SMTT(30) DEF Making, Unfinished
<1>12. ASSUME NEW c \in Callers, NEW from \in Making, NEW result \in Items,
              NEW to \in Making, RunCommand(c, from, result, to)
       PROVE  RootsInv'
  BY <1>12, MakeFacts, SMTT(30) DEF Making, Unfinished
<1>13. ASSUME NEW c \in Callers, Commit(c) PROVE RootsInv'
  BY <1>13 DEF Commit
<1>14. ASSUME NEW c \in Callers, MakingFails(c) PROVE RootsInv'
  BY <1>14 DEF MakingFails, Making
<1>15. ASSUME NEW c \in Callers, Cleanup(c) PROVE RootsInv'
  BY <1>15 DEF Cleanup
<1>16. ASSUME UNCHANGED vars PROVE RootsInv'
  BY <1>16 DEF vars
<1> HIDE DEF Goto, Return, dirs, call, past, RootsInv, TypeOK
<1> QED
  BY <1>1, <1>2, <1>3, <1>4, <1>5, <1>6, <1>7, <1>8, <1>9, <1>10, <1>11,
     <1>12, <1>13, <1>14, <1>15, <1>16, NextCases

(* What is settled.                                                        *)
LEMMA SettledStep ==
  ASSUME TypeOK, WantInv, SettledInv, Next \/ UNCHANGED vars
  PROVE  SettledInv'
<1> USE DEF Goto, Return, dirs, call, past, SettledInv, TypeOK
<1>1. ASSUME NEW c \in Callers, NEW e \in Entries,
              NEW label \in {"register", "check", "drop", "bootId"}, Begin(c, e, label)
       PROVE  SettledInv'
  BY <1>1, BeginFacts
<1>2. ASSUME NEW c \in Callers, Register(c) PROVE SettledInv'
  BY <1>2, RegisterFacts DEF Registrable
<1>3. ASSUME NEW c \in Callers, CheckWorkspace(c) PROVE SettledInv'
  BY <1>3 DEF CheckWorkspace
<1>4. ASSUME NEW c \in Callers, Replace(c) PROVE SettledInv'
  BY <1>4, ReplacedKeepsUnique DEF Replace
<1>5. ASSUME NEW c \in Callers, Drop(c) PROVE SettledInv'
  BY <1>5, WithoutKeepsUnique DEF Drop
<1>6. ASSUME NEW c \in Callers, Save(c) PROVE SettledInv'
  BY <1>6 DEF Save
<1>7. ASSUME NEW c \in Callers, BootstrapId(c) PROVE SettledInv'
  BY <1>7 DEF BootstrapId
<1>8. ASSUME NEW c \in Callers, BootstrapRoot(c) PROVE SettledInv'
  BY <1>8 DEF BootstrapRoot
<1>9. ASSUME NEW c \in Callers, Look(c) PROVE SettledInv'
  BY <1>9 DEF Look
<1>10. ASSUME NEW c \in Callers, Target(c) PROVE SettledInv'
  BY <1>10 DEF Target
<1>11. ASSUME NEW c \in Callers, NEW from \in Making, NEW file \in Items,
              NEW to \in Making, CreateFile(c, from, file, to)
       PROVE  SettledInv'
  <2> DEFINE At == pc[c] \in Making /\ pc'[c] \in Unfinished
  <2>0. At
    BY <1>11, MakeFacts
  <2>1. pc[c] # "save" /\ pc'[c] # "save"
    BY <2>0 DEF Making, Unfinished
  <2>2. \A d \in Callers : pc'[d] = "save" => pc[d] = "save"
    BY <1>11, <2>1, MakeFacts
  <2> QED
    BY <1>11, <2>2, MakeFacts
<1>12. ASSUME NEW c \in Callers, NEW from \in Making, NEW result \in Items,
              NEW to \in Making, RunCommand(c, from, result, to)
       PROVE  SettledInv'
  <2> DEFINE At == pc[c] \in Making /\ pc'[c] \in Unfinished
  <2>0. At
    BY <1>12, MakeFacts
  <2>1. pc[c] # "save" /\ pc'[c] # "save"
    BY <2>0 DEF Making, Unfinished
  <2>2. \A d \in Callers : pc'[d] = "save" => pc[d] = "save"
    BY <1>12, <2>1, MakeFacts
  <2> QED
    BY <1>12, <2>2, MakeFacts
<1>13. ASSUME NEW c \in Callers, Commit(c) PROVE SettledInv'
  BY <1>13 DEF Commit
<1>14. ASSUME NEW c \in Callers, MakingFails(c) PROVE SettledInv'
  BY <1>14 DEF MakingFails, Making
<1>15. ASSUME NEW c \in Callers, Cleanup(c) PROVE SettledInv'
  BY <1>15 DEF Cleanup
<1>16. ASSUME UNCHANGED vars PROVE SettledInv'
  BY <1>16 DEF vars
<1> HIDE DEF Goto, Return, dirs, call, past, SettledInv, TypeOK
<1> QED
  BY <1>1, <1>2, <1>3, <1>4, <1>5, <1>6, <1>7, <1>8, <1>9, <1>10, <1>11,
     <1>12, <1>13, <1>14, <1>15, <1>16, NextCases

(* Items of users.                                                         *)
LEMMA GivenStep ==
  ASSUME TypeOK, WantInv, GivenInv, Next \/ UNCHANGED vars
  PROVE  GivenInv'
<1> USE DEF Goto, Return, dirs, call, past, GivenInv
<1>1. ASSUME NEW c \in Callers, NEW e \in Entries,
              NEW label \in {"register", "check", "drop", "bootId"}, Begin(c, e, label)
       PROVE  GivenInv'
  <2>1. \A d \in Callers :
          pc'[d] \in Unfinished => pc[d] \in Unfinished /\ want'[d] = want[d]
    BY <1>1, BeginFacts DEF TypeOK, Unfinished, Making
  <2> QED
    BY <1>1, <2>1, BeginFacts
<1>2. ASSUME NEW c \in Callers, Register(c) PROVE GivenInv'
  <2>1. \A d \in Callers :
          pc'[d] \in Unfinished => pc[d] \in Unfinished /\ want'[d] = want[d]
    BY <1>2, RegisterFacts DEF TypeOK, Unfinished, Making
  <2> QED
    BY <1>2, <2>1, RegisterFacts
<1>3. ASSUME NEW c \in Callers, CheckWorkspace(c) PROVE GivenInv'
  <2>1. \A d \in Callers :
          pc'[d] \in Unfinished => pc[d] \in Unfinished /\ want'[d] = want[d]
    BY <1>3 DEF CheckWorkspace, TypeOK, Unfinished, Making
  <2> QED
    BY <1>3, <2>1 DEF CheckWorkspace
<1>4. ASSUME NEW c \in Callers, Replace(c) PROVE GivenInv'
  <2>1. \A d \in Callers :
          pc'[d] \in Unfinished => pc[d] \in Unfinished /\ want'[d] = want[d]
    BY <1>4 DEF Replace, TypeOK, Unfinished, Making
  <2> QED
    BY <1>4, <2>1 DEF Replace
<1>5. ASSUME NEW c \in Callers, Drop(c) PROVE GivenInv'
  <2>1. \A d \in Callers :
          pc'[d] \in Unfinished => pc[d] \in Unfinished /\ want'[d] = want[d]
    BY <1>5 DEF Drop, TypeOK, Unfinished, Making
  <2> QED
    BY <1>5, <2>1 DEF Drop
<1>6. ASSUME NEW c \in Callers, Save(c) PROVE GivenInv'
  <2>1. \A d \in Callers :
          pc'[d] \in Unfinished => pc[d] \in Unfinished /\ want'[d] = want[d]
    BY <1>6 DEF Save, TypeOK, Unfinished, Making
  <2> QED
    BY <1>6, <2>1 DEF Save
<1>7. ASSUME NEW c \in Callers, BootstrapId(c) PROVE GivenInv'
  <2>1. \A d \in Callers :
          pc'[d] \in Unfinished => pc[d] \in Unfinished /\ want'[d] = want[d]
    BY <1>7 DEF BootstrapId, TypeOK, Unfinished, Making
  <2> QED
    BY <1>7, <2>1 DEF BootstrapId
<1>8. ASSUME NEW c \in Callers, BootstrapRoot(c) PROVE GivenInv'
  <2>1. \A d \in Callers :
          pc'[d] \in Unfinished => pc[d] \in Unfinished /\ want'[d] = want[d]
    BY <1>8 DEF BootstrapRoot, TypeOK, Unfinished, Making
  <2> QED
    BY <1>8, <2>1 DEF BootstrapRoot
<1>9. ASSUME NEW c \in Callers, Look(c) PROVE GivenInv'
  <2>1. \A d \in Callers :
          pc'[d] \in Unfinished => pc[d] \in Unfinished /\ want'[d] = want[d]
    BY <1>9 DEF Look, TypeOK, Unfinished, Making
  <2> QED
    BY <1>9, <2>1 DEF Look
<1>10. ASSUME NEW c \in Callers, Target(c) PROVE GivenInv'
  <2>1. pc[c] = "target" /\ want[c].root \in Roots
    BY <1>10 DEF Target, WantInv, Entries
  <2>2. CASE want[c].root \notin there \/ Empty(want[c].root)
    <3>1. made[want[c].root] = NoItems
      BY <2>1, <2>2 DEF Empty
    <3>2. \A i \in Items : made[want[c].root][i] = Nobody
      BY <3>1 DEF NoItems
    <3>3. given[want[c].root] = {}
      BY <2>1, <3>2, MakersAssumption DEF TypeOK
    <3>4. there' = there \cup {want[c].root} /\ pc' = [pc EXCEPT ![c] = "file1"]
      BY <1>10, <2>2 DEF Target
    <3>5. UNCHANGED <<made, given, want>>
      BY <1>10, <2>2 DEF Target
    <3>6. \A d \in Callers : pc'[d] \in Unfinished => given[want[d].root] = {}
      BY <3>3, <3>4 DEF TypeOK
    <3> QED
      BY <3>4, <3>5, <3>6
  <2>3. CASE ~(want[c].root \notin there \/ Empty(want[c].root))
    <3>1. \A d \in Callers :
            pc'[d] \in Unfinished => pc[d] \in Unfinished /\ want'[d] = want[d]
      BY <1>10, <2>3 DEF Target, TypeOK, Unfinished, Making
    <3>2. UNCHANGED <<made, given, there>>
      BY <1>10, <2>3 DEF Target
    <3> QED
      BY <3>1, <3>2
  <2> QED
    BY <2>2, <2>3
<1>11. ASSUME NEW c \in Callers, NEW from \in Making, NEW file \in Items,
              NEW to \in Making, CreateFile(c, from, file, to)
       PROVE  GivenInv'
  <2>1. \A r \in Roots : \A i \in given[r] : made'[r][i] = User
    BY <1>11, MakeFacts, MakersAssumption DEF TypeOK
  <2>2. \A r \in Roots : r \notin there' => made'[r] = NoItems
    BY <1>11, MakeFacts
  <2>3. \A d \in Callers : pc'[d] \in Unfinished => pc[d] \in Unfinished
    BY <1>11, MakeFacts DEF Unfinished
  <2>4. UNCHANGED <<given, want>>
    BY <1>11, MakeFacts
  <2> HIDE DEF TypeOK
  <2> QED
    BY <2>1, <2>2, <2>3, <2>4
<1>12. ASSUME NEW c \in Callers, NEW from \in Making, NEW result \in Items,
              NEW to \in Making, RunCommand(c, from, result, to)
       PROVE  GivenInv'
  <2>1. \A r \in Roots : \A i \in given[r] : made'[r][i] = User
    BY <1>12, MakeFacts, MakersAssumption DEF TypeOK
  <2>2. \A r \in Roots : r \notin there' => made'[r] = NoItems
    BY <1>12, MakeFacts
  <2>3. \A d \in Callers : pc'[d] \in Unfinished => pc[d] \in Unfinished
    BY <1>12, MakeFacts DEF Unfinished
  <2>4. UNCHANGED <<given, want>>
    BY <1>12, MakeFacts
  <2> HIDE DEF TypeOK
  <2> QED
    BY <2>1, <2>2, <2>3, <2>4
<1>13. ASSUME NEW c \in Callers, Commit(c) PROVE GivenInv'
  BY <1>13 DEF Commit, TypeOK, Unfinished, Making
<1>14. ASSUME NEW c \in Callers, MakingFails(c) PROVE GivenInv'
  BY <1>14 DEF MakingFails, TypeOK, Unfinished, Making
<1>15. ASSUME NEW c \in Callers, Cleanup(c) PROVE GivenInv'
  BY <1>15 DEF Cleanup, TypeOK, Unfinished, Making
<1>16. ASSUME UNCHANGED vars PROVE GivenInv'
  BY <1>16 DEF vars
<1> HIDE DEF Goto, Return, dirs, call, past, GivenInv
<1> QED
  BY <1>1, <1>2, <1>3, <1>4, <1>5, <1>6, <1>7, <1>8, <1>9, <1>10, <1>11,
     <1>12, <1>13, <1>14, <1>15, <1>16, NextCases

(* The directory of a bootstrap.                                           *)
LEMMA WorkStep ==
  ASSUME TypeOK, WantInv, OneInv, GivenInv, WorkInv, Next \/ UNCHANGED vars
  PROVE  WorkInv'
<1> USE DEF Goto, Return, dirs, call, past, WorkInv, TypeOK, Making
<1>1. ASSUME NEW c \in Callers, NEW e \in Entries,
              NEW label \in {"register", "check", "drop", "bootId"}, Begin(c, e, label)
       PROVE  WorkInv'
  BY <1>1, BeginFacts
<1>2. ASSUME NEW c \in Callers, Register(c) PROVE WorkInv'
  BY <1>2, RegisterFacts
<1>3. ASSUME NEW c \in Callers, CheckWorkspace(c) PROVE WorkInv'
  BY <1>3 DEF CheckWorkspace
<1>4. ASSUME NEW c \in Callers, Replace(c) PROVE WorkInv'
  BY <1>4 DEF Replace
<1>5. ASSUME NEW c \in Callers, Drop(c) PROVE WorkInv'
  BY <1>5 DEF Drop
<1>6. ASSUME NEW c \in Callers, Save(c) PROVE WorkInv'
  BY <1>6 DEF Save
<1>7. ASSUME NEW c \in Callers, BootstrapId(c) PROVE WorkInv'
  BY <1>7 DEF BootstrapId
<1>8. ASSUME NEW c \in Callers, BootstrapRoot(c) PROVE WorkInv'
  BY <1>8 DEF BootstrapRoot
<1>9. ASSUME NEW c \in Callers, Look(c) PROVE WorkInv'
  BY <1>9 DEF Look
<1>10. ASSUME NEW c \in Callers, Target(c) PROVE WorkInv'
  <2>1. pc[c] = "target" /\ want[c].root \in Roots
    BY <1>10 DEF Target, WantInv, Entries
  <2>2. \A d \in Callers : width = 1 /\ d # c => pc[d] = "idle" /\ pc'[d] = "idle"
    BY <1>10, <2>1 DEF Target, OneInv
  <2>3. UNCHANGED <<made, width>>
    BY <1>10 DEF Target
  <2>4. pc'[c] \in Making => want'[c] = want[c] /\ made[want[c].root] = NoItems
    BY <1>10, <2>1 DEF Target, GivenInv, Empty
  <2> QED
    BY <2>2, <2>3, <2>4 DEF NoItems
<1>11. ASSUME NEW c \in Callers, NEW from \in Making, NEW file \in Items,
              NEW to \in Making, CreateFile(c, from, file, to)
       PROVE  WorkInv'
  <2> SUFFICES ASSUME width = 1 PROVE WorkInv'
    BY <1>11, MakeFacts
  <2>1. \A d \in Callers : d # c => pc'[d] = "idle"
    BY <1>11, MakeFacts DEF OneInv
  <2>2. \A i \in Items : made[want[c].root][i] \in {Nobody, c}
    BY <1>11, MakeFacts
  <2>3. \A i \in Items : made'[want[c].root][i] \in {Nobody, c}
    BY <1>11, <2>2, MakeFacts
  <2> QED
    BY <1>11, <2>1, <2>3, MakeFacts
<1>12. ASSUME NEW c \in Callers, NEW from \in Making, NEW result \in Items,
              NEW to \in Making, RunCommand(c, from, result, to)
       PROVE  WorkInv'
  <2> SUFFICES ASSUME width = 1 PROVE WorkInv'
    BY <1>12, MakeFacts
  <2>1. \A d \in Callers : d # c => pc'[d] = "idle"
    BY <1>12, MakeFacts DEF OneInv
  <2>2. \A i \in Items : made[want[c].root][i] \in {Nobody, c}
    BY <1>12, MakeFacts
  <2>3. \A i \in Items : made'[want[c].root][i] \in {Nobody, c}
    BY <1>12, <2>2, MakeFacts
  <2> QED
    BY <1>12, <2>1, <2>3, MakeFacts
<1>13. ASSUME NEW c \in Callers, Commit(c) PROVE WorkInv'
  BY <1>13 DEF Commit
<1>14. ASSUME NEW c \in Callers, MakingFails(c) PROVE WorkInv'
  BY <1>14 DEF MakingFails
<1>15. ASSUME NEW c \in Callers, Cleanup(c) PROVE WorkInv'
  <2>1. width' = 1 => \A d \in Callers : pc'[d] = "idle"
    BY <1>15, CleanupFacts DEF OneInv
  <2> QED
    BY <2>1
<1>16. ASSUME UNCHANGED vars PROVE WorkInv'
  BY <1>16 DEF vars
<1> HIDE DEF Goto, Return, dirs, call, past, WorkInv, TypeOK, Making
<1> QED
  BY <1>1, <1>2, <1>3, <1>4, <1>5, <1>6, <1>7, <1>8, <1>9, <1>10, <1>11,
     <1>12, <1>13, <1>14, <1>15, <1>16, NextCases

(* What bootstraps leave.                                                  *)
LEMMA MadeStep ==
  ASSUME TypeOK, WantInv, OneInv, GivenInv, WorkInv, MadeInv, Next \/ UNCHANGED vars
  PROVE  MadeInv'
<1> USE DEF Goto, Return, dirs, call, past, MadeInv, TypeOK, Unfinished,
     Making
<1>1. ASSUME NEW c \in Callers, NEW e \in Entries,
              NEW label \in {"register", "check", "drop", "bootId"}, Begin(c, e, label)
       PROVE  MadeInv'
  <2>1. \A d \in Callers : d # c => pc'[d] = pc[d] /\ want'[d] = want[d]
    BY <1>1, BeginFacts
  <2>2. pc[c] = "idle" /\ UNCHANGED <<made, width>>
    BY <1>1, BeginFacts
  <2> QED
    BY <2>1, <2>2
<1>2. ASSUME NEW c \in Callers, Register(c) PROVE MadeInv'
  BY <1>2, RegisterFacts
<1>3. ASSUME NEW c \in Callers, CheckWorkspace(c) PROVE MadeInv'
  BY <1>3 DEF CheckWorkspace
<1>4. ASSUME NEW c \in Callers, Replace(c) PROVE MadeInv'
  BY <1>4 DEF Replace
<1>5. ASSUME NEW c \in Callers, Drop(c) PROVE MadeInv'
  BY <1>5 DEF Drop
<1>6. ASSUME NEW c \in Callers, Save(c) PROVE MadeInv'
  BY <1>6 DEF Save
<1>7. ASSUME NEW c \in Callers, BootstrapId(c) PROVE MadeInv'
  BY <1>7, SMTT(30) DEF BootstrapId
<1>8. ASSUME NEW c \in Callers, BootstrapRoot(c) PROVE MadeInv'
  BY <1>8 DEF BootstrapRoot
<1>9. ASSUME NEW c \in Callers, Look(c) PROVE MadeInv'
  BY <1>9 DEF Look
<1>10. ASSUME NEW c \in Callers, Target(c) PROVE MadeInv'
  BY <1>10, SMTT(30) DEF Target
<1>11. ASSUME NEW c \in Callers, NEW from \in Making, NEW file \in Items,
              NEW to \in Making, CreateFile(c, from, file, to)
       PROVE  MadeInv'
  <2> SUFFICES ASSUME width = 1, NEW d \in Callers, NEW r \in Roots, NEW i \in Items,
                      made'[r][i] = d
               PROVE  \/ \A j \in Items : made'[r][j] = d
                      \/ pc'[d] \in Unfinished /\ want'[d].root = r
    BY <1>11, MakeFacts
  <2>1. CASE r # want[c].root
    <3>1. made'[r] = made[r] /\ want'[d] = want[d]
      BY <1>11, <2>1, MakeFacts
    <3>2. (\A j \in Items : made[r][j] = d) \/ (pc[d] \in Unfinished /\ want[d].root = r)
      BY <3>1
    <3>3. pc[d] \in Unfinished => pc'[d] \in Unfinished
      BY <1>11, MakeFacts
    <3> QED
      BY <3>1, <3>2, <3>3
  <2>2. CASE r = want[c].root
    <3>1. made[r][i] \in {Nobody, c}
      BY <1>11, <2>2, MakeFacts DEF WorkInv
    <3>2. d = c
      BY <1>11, <3>1, <2>2, MakeFacts, MakersAssumption
    <3> QED
      BY <1>11, <3>2, <2>2, MakeFacts
  <2> QED
    BY <2>1, <2>2
<1>12. ASSUME NEW c \in Callers, NEW from \in Making, NEW result \in Items,
              NEW to \in Making, RunCommand(c, from, result, to)
       PROVE  MadeInv'
  <2> SUFFICES ASSUME width = 1, NEW d \in Callers, NEW r \in Roots, NEW i \in Items,
                      made'[r][i] = d
               PROVE  \/ \A j \in Items : made'[r][j] = d
                      \/ pc'[d] \in Unfinished /\ want'[d].root = r
    BY <1>12, MakeFacts
  <2>1. CASE r # want[c].root
    <3>1. made'[r] = made[r] /\ want'[d] = want[d]
      BY <1>12, <2>1, MakeFacts
    <3>2. (\A j \in Items : made[r][j] = d) \/ (pc[d] \in Unfinished /\ want[d].root = r)
      BY <3>1
    <3>3. pc[d] \in Unfinished => pc'[d] \in Unfinished
      BY <1>12, MakeFacts
    <3> QED
      BY <3>1, <3>2, <3>3
  <2>2. CASE r = want[c].root
    <3>1. made[r][i] \in {Nobody, c}
      BY <1>12, <2>2, MakeFacts DEF WorkInv
    <3>2. d = c
      BY <1>12, <3>1, <2>2, MakeFacts, MakersAssumption
    <3> QED
      BY <1>12, <3>2, <2>2, MakeFacts
  <2> QED
    BY <2>1, <2>2
<1>13. ASSUME NEW c \in Callers, Commit(c) PROVE MadeInv'
  <2>1. pc[c] = "commit" /\ pc' = [pc EXCEPT ![c] = "register"]
    BY <1>13 DEF Commit
  <2>2. UNCHANGED <<made, want, width>> /\ \A i \in Items : made[want[c].root][i] # Nobody
    BY <1>13 DEF Commit
  <2>3. width = 1 => \A i \in Items : made[want[c].root][i] = c
    BY <2>1, <2>2 DEF WorkInv, Making
  <2>4. \A d \in Callers : d # c => pc'[d] = pc[d]
    BY <2>1 DEF TypeOK
  <2> QED
    BY <2>2, <2>3, <2>4
<1>14. ASSUME NEW c \in Callers, MakingFails(c) PROVE MadeInv'
  BY <1>14 DEF MakingFails
<1>15. ASSUME NEW c \in Callers, Cleanup(c) PROVE MadeInv'
  <2> SUFFICES ASSUME width = 1, NEW d \in Callers, NEW r \in Roots, NEW i \in Items,
                      made'[r][i] = d
               PROVE  \/ \A j \in Items : made'[r][j] = d
                      \/ pc'[d] \in Unfinished /\ want'[d].root = r
    BY <1>15, CleanupFacts
  <2>1. r # want[c].root
    BY <1>15, CleanupFacts, MakersAssumption DEF NoItems
  <2>2. made'[r] = made[r]
    BY <1>15, <2>1, CleanupFacts
  <2>3. d # c => pc'[d] = pc[d] /\ want'[d] = want[d]
    BY <1>15, CleanupFacts DEF TypeOK
  <2>4. d = c => \A j \in Items : made[r][j] = d
    BY <2>1, <2>2
  <2> QED
    BY <2>2, <2>3, <2>4
<1>16. ASSUME UNCHANGED vars PROVE MadeInv'
  BY <1>16 DEF vars
<1> HIDE DEF Goto, Return, dirs, call, past, MadeInv, TypeOK, Unfinished,
     Making
<1> QED
  BY <1>1, <1>2, <1>3, <1>4, <1>5, <1>6, <1>7, <1>8, <1>9, <1>10, <1>11,
     <1>12, <1>13, <1>14, <1>15, <1>16, NextCases

-----------------------------------------------------------------------------
(* The theorems.                                                           *)

LEMMA Invariance == Spec => []IInv
<1>1. Init => IInv
  BY InitInv
<1>2. IInv /\ [Next]_vars => IInv'
  <2> SUFFICES ASSUME IInv, [Next]_vars PROVE IInv'
    OBVIOUS
  <2>1. TypeOK' /\ WantInv' /\ OneInv' /\ IdsInv' /\ RootsInv'
    BY TypeStep, WantStep, OneStep, IdsStep, RootsStep DEF IInv
  <2>2. SettledInv' /\ GivenInv' /\ WorkInv' /\ MadeInv'
    BY SettledStep, GivenStep, WorkStep, MadeStep DEF IInv
  <2> QED
    BY <2>1, <2>2 DEF IInv
<1> QED
  BY <1>1, <1>2, PTL DEF Spec

(* The index, the directories and the calls keep their types.              *)
THEOREM RegistryTypes == Spec => []TypeOK
<1>1. IInv => TypeOK
  BY DEF IInv
<1> QED
  BY <1>1, Invariance, PTL

(* No interleaving of the readings and saves of the calls puts an id in    *)
(* the file twice; without interleaving no workspace either.               *)
THEOREM RegistryUnique == Spec => []IndexUnique
<1>1. IInv => IndexUnique
  BY DEF IInv, IndexUnique, IdsInv, IdsUnique, RootsInv, RootsUnique
<1> QED
  BY <1>1, Invariance, PTL

(* A bootstrap loses nothing of a user, and alone leaves all or nothing.   *)
THEOREM RegistryBootstrap == Spec => []BootstrapClean
<1>1. IInv => BootstrapClean
  BY DEF IInv, BootstrapClean, GivenInv, MadeInv, Unfinished
<1> QED
  BY <1>1, Invariance, PTL

(* A call in front of its save goes on with the save.                      *)
LEMMA OnlySaveSaves ==
  ASSUME TypeOK, WantInv, NEW d \in Callers, pc[d] = "save", pc'[d] = "idle", Next \/ UNCHANGED vars
  PROVE  Save(d)
<1> USE DEF Goto, Return, dirs, call, past, TypeOK
<1>1. ASSUME NEW c \in Callers, NEW e \in Entries,
              NEW label \in {"register", "check", "drop", "bootId"}, Begin(c, e, label)
       PROVE  Save(d)
  BY <1>1, BeginFacts
<1>2. ASSUME NEW c \in Callers, Register(c) PROVE Save(d)
  BY <1>2, RegisterFacts
<1>3. ASSUME NEW c \in Callers, CheckWorkspace(c) PROVE Save(d)
  BY <1>3 DEF CheckWorkspace
<1>4. ASSUME NEW c \in Callers, Replace(c) PROVE Save(d)
  BY <1>4 DEF Replace
<1>5. ASSUME NEW c \in Callers, Drop(c) PROVE Save(d)
  BY <1>5 DEF Drop
<1>6. ASSUME NEW c \in Callers, Save(c) PROVE Save(d)
  <2>1. pc' = [pc EXCEPT ![c] = "idle"]
    BY <1>6 DEF Save
  <2> QED
    BY <1>6, <2>1
<1>7. ASSUME NEW c \in Callers, BootstrapId(c) PROVE Save(d)
  BY <1>7 DEF BootstrapId
<1>8. ASSUME NEW c \in Callers, BootstrapRoot(c) PROVE Save(d)
  BY <1>8 DEF BootstrapRoot
<1>9. ASSUME NEW c \in Callers, Look(c) PROVE Save(d)
  BY <1>9 DEF Look
<1>10. ASSUME NEW c \in Callers, Target(c) PROVE Save(d)
  BY <1>10 DEF Target
<1>11. ASSUME NEW c \in Callers, NEW from \in Making, NEW file \in Items,
              NEW to \in Making, CreateFile(c, from, file, to)
       PROVE  Save(d)
  <2>1. pc[c] \in Making /\ pc'[c] \in Unfinished /\ \A a \in Callers \ {c} : pc'[a] = pc[a]
    BY <1>11, MakeFacts
  <2> QED
    BY <2>1 DEF Making, Unfinished
<1>12. ASSUME NEW c \in Callers, NEW from \in Making, NEW result \in Items,
              NEW to \in Making, RunCommand(c, from, result, to)
       PROVE  Save(d)
  <2>1. pc[c] \in Making /\ pc'[c] \in Unfinished /\ \A a \in Callers \ {c} : pc'[a] = pc[a]
    BY <1>12, MakeFacts
  <2> QED
    BY <2>1 DEF Making, Unfinished
<1>13. ASSUME NEW c \in Callers, Commit(c) PROVE Save(d)
  BY <1>13 DEF Commit
<1>14. ASSUME NEW c \in Callers, MakingFails(c) PROVE Save(d)
  BY <1>14 DEF MakingFails, Making
<1>15. ASSUME NEW c \in Callers, Cleanup(c) PROVE Save(d)
  BY <1>15 DEF Cleanup
<1>16. ASSUME UNCHANGED vars PROVE Save(d)
  BY <1>16 DEF vars
<1> HIDE DEF Goto, Return, dirs, call, past, TypeOK
<1> QED
  BY <1>1, <1>2, <1>3, <1>4, <1>5, <1>6, <1>7, <1>8, <1>9, <1>10, <1>11,
     <1>12, <1>13, <1>14, <1>15, <1>16, NextCases

(* A save drops nothing of what was in the file all along but its own      *)
(* entry.                                                                  *)
THEOREM RegistrySettled == Spec => SettledKept
<1> DEFINE Kept ==
      \A c \in Callers :
        pc[c] = "save" /\ pc'[c] = "idle" =>
          \A e \in settled[c] : e.id # want[c].id => e \in registry'
<1>1. IInv /\ [Next]_vars => [Kept]_vars
  <2> SUFFICES ASSUME IInv, Next \/ UNCHANGED vars,
                      NEW c \in Callers, pc[c] = "save", pc'[c] = "idle"
               PROVE  \A e \in settled[c] : e.id # want[c].id => e \in registry'
    OBVIOUS
  <2>1. Save(c)
    BY OnlySaveSaves DEF IInv
  <2> QED
    BY <2>1 DEF Save, IInv, SettledInv
<1> QED
  BY <1>1, Invariance, PTL DEF Spec, SettledKept
=============================================================================
