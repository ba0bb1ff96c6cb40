------------------------- MODULE OperationLockProofs --------------------------
(***************************************************************************)
(* Type correctness of OperationLock, that whatever mutates has the lock,  *)
(* and that the lock is never taken for nothing, for any number of         *)
(* commands, connections, operators, children and files.                   *)
(*                                                                         *)
(* The argument rests on who may have a descriptor of which file: an actor *)
(* has one of its own file and of no other, a child that has begun to run  *)
(* has one of the file it keeps, and it keeps a file only if it mutates.   *)
(* A file that is locked therefore stays open while a mutating child of    *)
(* its command lives, whatever becomes of the command.                     *)
(***************************************************************************)
EXTENDS OperationLock, TLAPS

\* Each actor under way has opened a file, and no two share one.
FilesInv ==
  /\ \A a \in Actors : pc[a] = "idle" <=> file[a] = None
  /\ \A a \in Actors : file[a] # None => ProcessOf(a) \in open[file[a]]
  /\ \A a, b \in Actors : file[a] # None /\ file[a] = file[b] => a = b

\* The lock is on a file that is open, and is its actor's if an actor opened it.
LockedInv ==
  /\ locked # None => open[locked] # {}
  /\ \A a \in Actors :
       file[a] # None => (locked = file[a] <=> pc[a] \in {"locked", "critical", "closing"})

\* While a command runs its process tells children which descriptor to keep.
RegisteredInv ==
  \A a \in Actors \ Operators : pc[a] = "critical" => fd[ProcessOf(a)] = file[a]

\* A mutating child was started under the lock and keeps it.
MutatingInv ==
  \A c \in Children :
    child[c].step # "none" /\ child[c].mutating =>
      /\ child[c].owner # None
      /\ child[c].keep = child[c].owner
      /\ locked = child[c].owner
      /\ c \in open[child[c].owner]

\* A descriptor belongs to an actor's own file or to a child that may have it.
DescriptorsInv ==
  \A f \in Files : \A p \in open[f] :
    IF p \in Children
    THEN \/ child[p].step = "forked"
         \/ child[p].step = "running" /\ child[p].keep = f
    ELSE \E a \in Actors : ProcessOf(a) = p /\ file[a] = f

KeepInv == \A c \in Children : child[c].keep # None => child[c].mutating

Inv ==
  /\ TypeOK /\ FilesInv /\ LockedInv /\ RegisteredInv
  /\ MutatingInv /\ DescriptorsInv /\ KeepInv
-------------------------------------------------------------------------------
\* An actor's process is never a child, and two actors share one only if both
\* are threads of the daemon.
LEMMA ProcessLemma ==
  \A a \in Actors : ProcessOf(a) \in Processes /\ ProcessOf(a) \notin Children
BY ApartAssumption DEF ProcessOf, Processes, Actors

\* No process holds anything at first.
LEMMA InitInv == Init => Inv
BY ApartAssumption DEF Init, Inv, TypeOK, FilesInv, LockedInv, RegisteredInv,
  MutatingInv, DescriptorsInv, KeepInv, NoChild, Processes
-------------------------------------------------------------------------------
\* Opening the lock file keeps it.
LEMMA OpenKeepsInv ==
  ASSUME Inv, NEW a \in Actors, Open(a)
  PROVE  Inv'
<1>1. TypeOK'
  BY ApartAssumption, ProcessLemma DEF Inv, Open, Descriptors, TypeOK, Processes
<1>2. FilesInv'
  BY ApartAssumption, ProcessLemma DEF Inv, Open, Descriptors, TypeOK, FilesInv, LockedInv
<1>3. LockedInv'
  BY ApartAssumption, ProcessLemma DEF Inv, Open, Descriptors, TypeOK, FilesInv, LockedInv, MutatingInv
<1>4. RegisteredInv'
  BY ApartAssumption, ProcessLemma DEF Inv, Open, Descriptors, TypeOK, FilesInv, LockedInv, RegisteredInv
<1>5. MutatingInv'
  BY ApartAssumption, ProcessLemma DEF Inv, Open, Descriptors, TypeOK, FilesInv, LockedInv, RegisteredInv, MutatingInv
<1>6. DescriptorsInv'
  BY ApartAssumption, ProcessLemma DEF Inv, Open, Descriptors, TypeOK, FilesInv, MutatingInv, DescriptorsInv
<1>7. KeepInv'
  BY ApartAssumption, ProcessLemma DEF Inv, Open, Descriptors, TypeOK, KeepInv
<1>. QED  BY <1>1, <1>2, <1>3, <1>4, <1>5, <1>6, <1>7 DEF Inv

\* Taking the lock keeps it.
LEMMA LockKeepsInv ==
  ASSUME Inv, NEW a \in Actors, Lock(a)
  PROVE  Inv'
<1>1. TypeOK'
  BY ApartAssumption, ProcessLemma DEF Inv, Lock, TypeOK, Processes
<1>2. FilesInv'
  BY ApartAssumption, ProcessLemma DEF Inv, Lock, TypeOK, FilesInv, LockedInv
<1>3. LockedInv'
  BY ApartAssumption, ProcessLemma DEF Inv, Lock, TypeOK, FilesInv, LockedInv, MutatingInv
<1>4. RegisteredInv'
  BY ApartAssumption, ProcessLemma DEF Inv, Lock, TypeOK, FilesInv, LockedInv, RegisteredInv
<1>5. MutatingInv'
  BY ApartAssumption, ProcessLemma DEF Inv, Lock, TypeOK, FilesInv, LockedInv, RegisteredInv, MutatingInv
<1>6. DescriptorsInv'
  BY ApartAssumption, ProcessLemma DEF Inv, Lock, TypeOK, FilesInv, MutatingInv, DescriptorsInv
<1>7. KeepInv'
  BY ApartAssumption, ProcessLemma DEF Inv, Lock, TypeOK, KeepInv
<1>. QED  BY <1>1, <1>2, <1>3, <1>4, <1>5, <1>6, <1>7 DEF Inv

\* Being refused keeps it.
LEMMA RefuseKeepsInv ==
  ASSUME Inv, NEW a \in Actors, Refuse(a)
  PROVE  Inv'
<1>1. TypeOK'
  BY ApartAssumption, ProcessLemma DEF Inv, Refuse, Descriptors, TypeOK, Processes
<1>2. FilesInv'
  BY ApartAssumption, ProcessLemma DEF Inv, Refuse, Descriptors, TypeOK, FilesInv, LockedInv
<1>3. LockedInv'
  BY ApartAssumption, ProcessLemma DEF Inv, Refuse, Descriptors, TypeOK, FilesInv, LockedInv, MutatingInv
<1>4. RegisteredInv'
  BY ApartAssumption, ProcessLemma DEF Inv, Refuse, Descriptors, TypeOK, FilesInv, LockedInv, RegisteredInv
<1>5. MutatingInv'
  BY ApartAssumption, ProcessLemma DEF Inv, Refuse, Descriptors, TypeOK, FilesInv, LockedInv, RegisteredInv, MutatingInv
<1>6. DescriptorsInv'
  BY ApartAssumption, ProcessLemma DEF Inv, Refuse, Descriptors, TypeOK, FilesInv, MutatingInv, DescriptorsInv
<1>7. KeepInv'
  BY ApartAssumption, ProcessLemma DEF Inv, Refuse, Descriptors, TypeOK, KeepInv
<1>. QED  BY <1>1, <1>2, <1>3, <1>4, <1>5, <1>6, <1>7 DEF Inv

\* Recording the owner keeps it.
LEMMA OwnKeepsInv ==
  ASSUME Inv, NEW a \in Actors, Own(a)
  PROVE  Inv'
<1>1. TypeOK'
  BY ApartAssumption, ProcessLemma DEF Inv, Own, TypeOK, Processes
<1>2. FilesInv'
  BY ApartAssumption, ProcessLemma DEF Inv, Own, TypeOK, FilesInv, LockedInv
<1>3. LockedInv'
  BY ApartAssumption, ProcessLemma DEF Inv, Own, TypeOK, FilesInv, LockedInv, MutatingInv
<1>4. RegisteredInv'
  BY ApartAssumption, ProcessLemma DEF Inv, Own, TypeOK, FilesInv, LockedInv, RegisteredInv
<1>5. MutatingInv'
  BY ApartAssumption, ProcessLemma DEF Inv, Own, TypeOK, FilesInv, LockedInv, RegisteredInv, MutatingInv
<1>6. DescriptorsInv'
  BY ApartAssumption, ProcessLemma DEF Inv, Own, TypeOK, FilesInv, MutatingInv, DescriptorsInv
<1>7. KeepInv'
  BY ApartAssumption, ProcessLemma DEF Inv, Own, TypeOK, KeepInv
<1>. QED  BY <1>1, <1>2, <1>3, <1>4, <1>5, <1>6, <1>7 DEF Inv

\* Dropping a descriptor keeps it.
LEMMA DropKeepsInv ==
  ASSUME Inv, NEW a \in Actors, Drop(a)
  PROVE  Inv'
<1>1. TypeOK'
  BY ApartAssumption, ProcessLemma DEF Inv, Drop, Descriptors, TypeOK, Processes
<1>2. FilesInv'
  BY ApartAssumption, ProcessLemma DEF Inv, Drop, Descriptors, TypeOK, FilesInv, LockedInv
<1>3. LockedInv'
  BY ApartAssumption, ProcessLemma DEF Inv, Drop, Descriptors, TypeOK, FilesInv, LockedInv, MutatingInv
<1>4. RegisteredInv'
  BY ApartAssumption, ProcessLemma DEF Inv, Drop, Descriptors, TypeOK, FilesInv, LockedInv, RegisteredInv
<1>5. MutatingInv'
  BY ApartAssumption, ProcessLemma DEF Inv, Drop, Descriptors, TypeOK, FilesInv, LockedInv, RegisteredInv, MutatingInv
<1>6. DescriptorsInv'
  BY ApartAssumption, ProcessLemma DEF Inv, Drop, Descriptors, TypeOK, FilesInv, MutatingInv, DescriptorsInv
<1>7. KeepInv'
  BY ApartAssumption, ProcessLemma DEF Inv, Drop, Descriptors, TypeOK, KeepInv
<1>. QED  BY <1>1, <1>2, <1>3, <1>4, <1>5, <1>6, <1>7 DEF Inv

\* Starting a child keeps it.
LEMMA ForkKeepsInv ==
  ASSUME Inv, NEW a \in Actors, NEW c \in Children, NEW mutating \in BOOLEAN,
         Fork(a, c, mutating)
  PROVE  Inv'
<1>1. TypeOK'
  BY ApartAssumption, ProcessLemma DEF Inv, Fork, Keep, TypeOK, Processes
<1>2. FilesInv'
  BY ApartAssumption, ProcessLemma DEF Inv, Fork, Keep, TypeOK, FilesInv, LockedInv
<1>3. LockedInv'
  BY ApartAssumption, ProcessLemma DEF Inv, Fork, Keep, TypeOK, FilesInv, LockedInv, MutatingInv
<1>4. RegisteredInv'
  BY ApartAssumption, ProcessLemma DEF Inv, Fork, Keep, TypeOK, FilesInv, LockedInv, RegisteredInv
<1>5. MutatingInv'
  BY ApartAssumption, ProcessLemma DEF Inv, Fork, Keep, TypeOK, FilesInv, LockedInv, RegisteredInv, MutatingInv
<1>6. DescriptorsInv'
  BY ApartAssumption, ProcessLemma DEF Inv, Fork, Keep, TypeOK, FilesInv, MutatingInv, DescriptorsInv
<1>7. KeepInv'
  BY ApartAssumption, ProcessLemma DEF Inv, Fork, Keep, TypeOK, KeepInv
<1>. QED  BY <1>1, <1>2, <1>3, <1>4, <1>5, <1>6, <1>7 DEF Inv

-------------------------------------------------------------------------------
\* What is left when a process closes descriptors of its own: an actor's file
\* stays open unless the process is the actor's, and a child's likewise.
LEMMA ClosingLemma ==
  ASSUME Inv, NEW q, NEW o \in [Files -> SUBSET Processes], Descriptors(o),
         \A f \in Files : open[f] \ {q} \subseteq o[f] /\ o[f] \subseteq open[f]
  PROVE  /\ \A a \in Actors : ProcessOf(a) # q /\ file[a] # None
              => ProcessOf(a) \in open'[file[a]] /\ (locked' = file[a] <=> locked = file[a])
         /\ \A f \in Files, p \in Processes : p \in open'[f] /\ locked = f => locked' = f
         /\ locked' # None => open'[locked'] # {} /\ locked' = locked
         /\ \A f \in Files : open'[f] \subseteq open[f]
         /\ open' \in [Files -> SUBSET Processes] /\ locked' \in Files \cup {None}
<1>1. open' = o /\ locked' = IF locked # None /\ o[locked] = {} THEN None ELSE locked
  BY DEF Descriptors
<1>2. locked \in Files \cup {None} /\ \A a \in Actors : file[a] \in Files \cup {None}
  BY DEF Inv, TypeOK
<1>3. ASSUME NEW a \in Actors, ProcessOf(a) # q, file[a] # None
      PROVE  ProcessOf(a) \in open'[file[a]]
  <2>1. ProcessOf(a) \in open[file[a]] /\ file[a] \in Files
    BY <1>2, <1>3 DEF Inv, FilesInv
  <2>. QED  BY <1>1, <1>3, <2>1
<1>4. \A f \in Files, p \in Processes : p \in open'[f] /\ locked = f => locked' = f
  BY <1>1
<1>5. locked' # None => open'[locked'] # {} /\ locked' = locked
  BY <1>1
<1>6. ASSUME NEW a \in Actors, ProcessOf(a) # q, file[a] # None
      PROVE  locked' = file[a] <=> locked = file[a]
  BY <1>2, <1>3, <1>4, <1>5, <1>6, ProcessLemma
<1>. QED  BY <1>1, <1>2, <1>3, <1>4, <1>5, <1>6

\* A child that execs closes what it does not keep.
LEMMA ExecKeepsInv ==
  ASSUME Inv, NEW c \in Children, Exec(c)
  PROVE  Inv'
<1>. DEFINE o == [f \in Files |-> IF f = child[c].keep THEN open[f] ELSE open[f] \ {c}]
<1>1. /\ o \in [Files -> SUBSET Processes] /\ Descriptors(o)
      /\ \A f \in Files : open[f] \ {c} \subseteq o[f] /\ o[f] \subseteq open[f]
  BY DEF Inv, TypeOK, Exec
<1>2. /\ UNCHANGED <<pc, file, fd>> /\ child' = [child EXCEPT ![c].step = "running"]
      /\ child[c].step = "forked"
  BY DEF Exec
<1>. HIDE DEF o
<1>3. TypeOK'
  BY DEF Inv, TypeOK, Exec, Descriptors
<1>4. FilesInv'
  BY <1>1, <1>2, ClosingLemma, ProcessLemma DEF Inv, FilesInv
<1>5. LockedInv'
  BY <1>1, <1>2, ClosingLemma, ProcessLemma, SMTT(30) DEF Inv, LockedInv
<1>6. RegisteredInv'
  BY <1>2 DEF Inv, RegisteredInv
<1>7. MutatingInv'
  <2>. SUFFICES ASSUME NEW d \in Children, child'[d].step # "none", child'[d].mutating
                PROVE  /\ child'[d].owner # None
                       /\ child'[d].keep = child'[d].owner
                       /\ locked' = child'[d].owner
                       /\ d \in open'[child'[d].owner]
    BY DEF MutatingInv
  <2>1. /\ child[d].step # "none" /\ child[d].mutating
        /\ child'[d].owner = child[d].owner /\ child'[d].keep = child[d].keep
    BY <1>2 DEF Inv, TypeOK
  <2>2. /\ child[d].owner \in Files /\ child[d].owner # None /\ child[d].keep = child[d].owner
        /\ locked = child[d].owner /\ d \in open[child[d].owner]
    BY <2>1 DEF Inv, TypeOK, MutatingInv
  <2>3. d \in open'[child[d].owner]
    <3>1. CASE d = c
      BY <3>1, <2>2 DEF Exec, Descriptors
    <3>2. CASE d # c
      BY <3>2, <2>2, <1>1 DEF Descriptors
    <3>. QED  BY <3>1, <3>2
  <2>4. locked' = child[d].owner
    BY <1>1, <2>2, <2>3, ClosingLemma DEF Processes
  <2>. QED  BY <2>1, <2>2, <2>3, <2>4
<1>8. DescriptorsInv'
  BY <1>2, ApartAssumption DEF Inv, Exec, Descriptors, TypeOK, DescriptorsInv
<1>9. KeepInv'
  BY <1>2 DEF Inv, TypeOK, KeepInv
<1>. QED  BY <1>3, <1>4, <1>5, <1>6, <1>7, <1>8, <1>9 DEF Inv

\* A child that ends closes everything.
LEMMA EndKeepsInv ==
  ASSUME Inv, NEW c \in Children, End(c)
  PROVE  Inv'
<1>. DEFINE o == Without({c})
<1>1. /\ o \in [Files -> SUBSET Processes] /\ Descriptors(o)
      /\ \A f \in Files : open[f] \ {c} \subseteq o[f] /\ o[f] \subseteq open[f]
  BY DEF Inv, TypeOK, End, Without
<1>2. /\ UNCHANGED <<pc, file, fd>> /\ child' = [child EXCEPT ![c] = NoChild]
  BY DEF End
<1>3. \A f \in Files : open'[f] = open[f] \ {c}
  BY DEF End, Descriptors, Without
<1>. HIDE DEF o
<1>4. TypeOK'
  BY <1>1, <1>2, ClosingLemma DEF Inv, TypeOK, NoChild
<1>5. FilesInv'
  BY <1>1, <1>2, ClosingLemma, ProcessLemma DEF Inv, FilesInv
<1>6. LockedInv'
  BY <1>1, <1>2, ClosingLemma, ProcessLemma DEF Inv, LockedInv
<1>7. RegisteredInv'
  BY <1>2 DEF Inv, RegisteredInv
<1>8. MutatingInv'
  <2>. SUFFICES ASSUME NEW d \in Children, child'[d].step # "none", child'[d].mutating
                PROVE  /\ child'[d].owner # None
                       /\ child'[d].keep = child'[d].owner
                       /\ locked' = child'[d].owner
                       /\ d \in open'[child'[d].owner]
    BY DEF MutatingInv
  <2>1. d # c /\ child'[d] = child[d]
    BY <1>2 DEF Inv, TypeOK, NoChild
  <2>2. /\ child[d].owner \in Files /\ child[d].owner # None /\ child[d].keep = child[d].owner
        /\ locked = child[d].owner /\ d \in open[child[d].owner]
    BY <2>1 DEF Inv, TypeOK, MutatingInv
  <2>3. d \in open'[child[d].owner]
    BY <1>3, <2>1, <2>2
  <2>4. locked' = child[d].owner
    BY <1>1, <2>2, <2>3, ClosingLemma DEF Processes
  <2>. QED  BY <2>1, <2>2, <2>3, <2>4
<1>9. DescriptorsInv'
  BY <1>2, <1>3, ApartAssumption DEF Inv, TypeOK, DescriptorsInv
<1>10. KeepInv'
  BY <1>2 DEF Inv, TypeOK, KeepInv, NoChild
<1>. QED  BY <1>4, <1>5, <1>6, <1>7, <1>8, <1>9, <1>10 DEF Inv

\* A process that is killed closes everything; its children keep theirs.
LEMMA KillKeepsInv ==
  ASSUME Inv, NEW p \in Processes, Kill(p)
  PROVE  Inv'
<1>. DEFINE o == Without({p})
<1>1. /\ o \in [Files -> SUBSET Processes] /\ Descriptors(o)
      /\ \A f \in Files : open[f] \ {p} \subseteq o[f] /\ o[f] \subseteq open[f]
  BY DEF Inv, TypeOK, Kill, Without
<1>2. /\ p \notin Children /\ fd' = [fd EXCEPT ![p] = None]
      /\ pc' = [a \in Actors |-> IF ProcessOf(a) = p THEN "idle" ELSE pc[a]]
      /\ file' = [a \in Actors |-> IF ProcessOf(a) = p THEN None ELSE file[a]]
  BY DEF Kill
<1>3. \A f \in Files : open'[f] = open[f] \ {p}
  BY DEF Kill, Descriptors, Without
<1>4. \A c \in Children : /\ child'[c].step = child[c].step /\ child'[c].keep = child[c].keep
                          /\ child'[c].mutating = child[c].mutating
                          /\ child'[c].owner = child[c].owner
  BY DEF Kill, Inv, TypeOK
<1>. HIDE DEF o
<1>5. TypeOK'
  <2>1. child' \in [Children -> [step : {"none", "forked", "running"}, of : Actors \cup {None},
                                 mutating : BOOLEAN, keep : Files \cup {None},
                                 owner : Files \cup {None}]]
    BY SMTT(30) DEF Kill, Inv, TypeOK
  <2>. QED  BY <1>1, <1>2, <2>1, ClosingLemma DEF Inv, TypeOK
<1>6. FilesInv'
  BY <1>1, <1>2, ClosingLemma DEF Inv, FilesInv
<1>7. LockedInv'
  BY <1>1, <1>2, ClosingLemma DEF Inv, LockedInv
<1>8. RegisteredInv'
  BY <1>2, ProcessLemma DEF Inv, RegisteredInv, TypeOK
<1>9. MutatingInv'
  <2>. SUFFICES ASSUME NEW d \in Children, child'[d].step # "none", child'[d].mutating
                PROVE  /\ child'[d].owner # None
                       /\ child'[d].keep = child'[d].owner
                       /\ locked' = child'[d].owner
                       /\ d \in open'[child'[d].owner]
    BY DEF MutatingInv
  <2>1. /\ child[d].owner \in Files /\ child[d].owner # None /\ child[d].keep = child[d].owner
        /\ locked = child[d].owner /\ d \in open[child[d].owner]
    BY <1>4 DEF Inv, TypeOK, MutatingInv
  <2>2. d \in open'[child[d].owner]
    BY <1>2, <1>3, <2>1
  <2>3. locked' = child[d].owner
    BY <1>1, <2>1, <2>2, ClosingLemma DEF Processes
  <2>. QED  BY <1>4, <2>1, <2>2, <2>3
<1>10. DescriptorsInv'
  BY <1>2, <1>3, <1>4, ApartAssumption DEF Inv, TypeOK, DescriptorsInv
<1>11. KeepInv'
  BY <1>4 DEF Inv, KeepInv
<1>. QED  BY <1>5, <1>6, <1>7, <1>8, <1>9, <1>10, <1>11 DEF Inv
-------------------------------------------------------------------------------
\* Every step keeps the invariant.
LEMMA NextKeepsInv == Inv /\ [Next]_vars => Inv'
<1>. SUFFICES ASSUME Inv, [Next]_vars PROVE Inv'
  OBVIOUS
<1>1. ASSUME NEW a \in Actors, Open(a) \/ Operate(a) PROVE Inv'
  BY <1>1, OpenKeepsInv, LockKeepsInv, RefuseKeepsInv, OwnKeepsInv, DropKeepsInv DEF Operate
<1>2. ASSUME NEW a \in Actors, NEW c \in Children, NEW mutating \in BOOLEAN,
             Fork(a, c, mutating)
      PROVE  Inv'
  BY <1>2, ForkKeepsInv
<1>3. ASSUME NEW c \in Children, Exec(c) \/ End(c) PROVE Inv'
  BY <1>3, ExecKeepsInv, EndKeepsInv
<1>4. ASSUME NEW p \in Processes, Kill(p) PROVE Inv'
  BY <1>4, KillKeepsInv
<1>5. CASE UNCHANGED vars
  BY <1>5 DEF vars, Inv, TypeOK, FilesInv, LockedInv, RegisteredInv, MutatingInv,
    DescriptorsInv, KeepInv
<1>. QED  BY <1>1, <1>2, <1>3, <1>4, <1>5 DEF Next

\* The invariant holds throughout.
LEMMA Invariance == Spec => []Inv
BY InitInv, NextKeepsInv, PTL DEF Spec

\* Every state is of the declared shape: what OPERATION_LOCK_FD and a child's
\* descriptor name is always a file (state.rs, own and retain_operation_lock).
THEOREM TypeCorrect == Spec => []TypeOK
<1>1. Inv => TypeOK
  BY DEF Inv
<1>. QED  BY <1>1, Invariance, PTL

\* A command under way and every mutating process it started have the lock,
\* after the death of the agent too (state.rs, retain_operation_lock).
THEOREM MutationIsOwned == Spec => []MutatorsHoldTheLock
<1>1. Inv => MutatorsHoldTheLock
  BY DEF Inv, FilesInv, LockedInv, MutatingInv, MutatorsHoldTheLock
<1>. QED  BY <1>1, Invariance, PTL

\* The lock is taken only while a command or a mutating process runs, or a
\* process has yet to exec: nobody is answered busy because of a probe that
\* outlived its command (state.rs, OperationLock's drop and close-on-exec).
THEOREM LockIsJustified == Spec => []BusyIsJustified
<1>1. ASSUME Inv PROVE BusyIsJustified
  <2>. SUFFICES ASSUME locked # None
                PROVE  \/ \E a \in Actors : pc[a] \in {"locked", "critical", "closing"}
                       \/ \E c \in Children :
                            \/ child[c].step = "forked"
                            \/ child[c].step = "running" /\ child[c].mutating
    BY DEF BusyIsJustified
  <2>1. locked \in Files /\ open[locked] # {}
    BY <1>1 DEF Inv, TypeOK, LockedInv
  <2>2. PICK p \in open[locked] : TRUE
    BY <2>1
  <2>3. CASE p \in Children
    BY <1>1, <2>1, <2>2, <2>3, ApartAssumption DEF Inv, DescriptorsInv, KeepInv
  <2>4. CASE p \notin Children
    <3>1. PICK a \in Actors : file[a] = locked
      BY <1>1, <2>1, <2>2, <2>4 DEF Inv, DescriptorsInv
    <3>. QED  BY <1>1, <2>1, <3>1, ApartAssumption DEF Inv, LockedInv
  <2>. QED  BY <2>3, <2>4
<1>. QED  BY <1>1, Invariance, PTL
===============================================================================
