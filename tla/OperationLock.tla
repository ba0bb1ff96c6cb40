---------------------------- MODULE OperationLock -----------------------------
(***************************************************************************)
(* operation.lock, which keeps apart everything that mutates an image: the *)
(* agent's command line, the threads of its socket daemon, and             *)
(* carbideos-ops (agent/src/state.rs, api.rs, system.rs).                  *)
(*                                                                         *)
(* The lock is flock(2)'s.  It belongs to an open file, not to a process:  *)
(* it falls when the last descriptor of that file is closed, and a child   *)
(* inherits the descriptors of its parent until it execs.  The agent uses  *)
(* this to make a trusted child hold the lock after the agent has died,    *)
(* and has to make sure that no other child does.                          *)
(***************************************************************************)
EXTENDS FiniteSets

CONSTANTS
  Cli,        \* processes of the agent's command line
  Threads,    \* threads of the socket daemon, one per connection
  Operators,  \* processes of carbideos-ops reboot and poweroff
  Daemon,     \* the process of the socket daemon
  Children,   \* processes they may start
  Files,      \* open files of operation.lock
  None

Actors == Cli \cup Threads \cup Operators
Processes == Cli \cup Operators \cup Children \cup {Daemon}

ASSUME ApartAssumption ==
  /\ Cli \cap Threads = {} /\ Cli \cap Operators = {} /\ Threads \cap Operators = {}
  /\ Actors \cap Children = {} /\ Daemon \notin Actors \cup Children
  /\ None \notin Files \cup Actors

VARIABLES
  pc,      \* what each actor is doing
  file,    \* OperationLock.file of each actor
  open,    \* the processes that have a descriptor of each file
  locked,  \* the file that has the lock
  fd,      \* OPERATION_LOCK_FD of each process
  child    \* the child processes

vars == <<pc, file, open, locked, fd, child>>

ProcessOf(a) == IF a \in Threads THEN Daemon ELSE a

NoChild == [step |-> "none", of |-> None, mutating |-> FALSE, keep |-> None, owner |-> None]

Init ==
  /\ pc = [a \in Actors |-> "idle"]
  /\ file = [a \in Actors |-> None]
  /\ open = [f \in Files |-> {}]
  /\ locked = None
  /\ fd = [p \in Processes |-> None]
  /\ child = [c \in Children |-> NoChild]

\* An actor waits for the child it has started.
Ready(a) == \A c \in Children : child[c].of # a

\* The lock falls with the last descriptor of its file.
Descriptors(o) ==
  /\ open' = o
  /\ locked' = IF locked # None /\ o[locked] = {} THEN None ELSE locked

Without(P) == [f \in Files |-> open[f] \ P]

\* open_at
Open(a) ==
  /\ pc[a] = "idle" /\ Ready(a)
  /\ \E f \in Files :
       /\ open[f] = {}
       /\ Descriptors([open EXCEPT ![f] = {ProcessOf(a)}])
       /\ file' = [file EXCEPT ![a] = f]
  /\ pc' = [pc EXCEPT ![a] = "opened"]
  /\ UNCHANGED <<fd, child>>

\* acquire waits for the lock, try_acquire and `flock -n` take it if it is free.
Lock(a) ==
  /\ pc[a] = "opened" /\ locked = None
  /\ locked' = file[a]
  /\ pc' = [pc EXCEPT ![a] = "locked"]
  /\ UNCHANGED <<file, open, fd, child>>

Refuse(a) ==
  /\ pc[a] = "opened" /\ a \notin Cli /\ locked # None
  /\ pc' = [pc EXCEPT ![a] = "idle"]
  /\ file' = [file EXCEPT ![a] = None]
  /\ Descriptors([open EXCEPT ![file[a]] = @ \ {ProcessOf(a)}])
  /\ UNCHANGED <<fd, child>>

\* Slip: the process is remembered instead of its descriptor.
OwnProcess(a) ==
  /\ pc[a] = "locked"
  /\ fd' = [fd EXCEPT ![ProcessOf(a)] = ProcessOf(a)]
  /\ pc' = [pc EXCEPT ![a] = "critical"]
  /\ UNCHANGED <<file, open, locked, child>>

\* own: children are told from now on which descriptor to keep.
Own(a) ==
  /\ pc[a] = "locked"
  /\ fd' = IF a \in Operators THEN fd ELSE [fd EXCEPT ![ProcessOf(a)] = file[a]]
  /\ pc' = [pc EXCEPT ![a] = "critical"]
  /\ UNCHANGED <<file, open, locked, child>>

\* Slip: dropping the lock closes the file and then forgets its number.
ForgetClosed(a) ==
  /\ \/ pc[a] = "critical" /\ Ready(a)
        /\ pc' = [pc EXCEPT ![a] = "closing"]
        /\ Descriptors([open EXCEPT ![file[a]] = @ \ {ProcessOf(a)}])
        /\ UNCHANGED <<fd, file>>
     \/ pc[a] = "closing"
        /\ fd' = [fd EXCEPT ![ProcessOf(a)] = IF @ = file[a] THEN None ELSE @]
        /\ file' = [file EXCEPT ![a] = None]
        /\ pc' = [pc EXCEPT ![a] = "idle"]
        /\ UNCHANGED <<open, locked>>
  /\ UNCHANGED child

\* Slip: the number is forgotten, and the file left open.
Leak(a) ==
  /\ pc[a] = "critical" /\ Ready(a)
  /\ fd' = [fd EXCEPT ![ProcessOf(a)] = IF @ = file[a] THEN None ELSE @]
  /\ file' = [file EXCEPT ![a] = None]
  /\ pc' = [pc EXCEPT ![a] = "idle"]
  /\ UNCHANGED <<open, locked, child>>

\* drop forgets the descriptor's number before the file is closed.
Drop(a) ==
  /\ \/ pc[a] = "critical" /\ Ready(a)
        /\ pc' = [pc EXCEPT ![a] = "closing"]
        /\ fd' = [fd EXCEPT ![ProcessOf(a)] = IF @ = file[a] THEN None ELSE @]
        /\ UNCHANGED <<open, locked, file>>
     \/ pc[a] = "closing"
        /\ Descriptors([open EXCEPT ![file[a]] = @ \ {ProcessOf(a)}])
        /\ file' = [file EXCEPT ![a] = None]
        /\ pc' = [pc EXCEPT ![a] = "idle"]
        /\ UNCHANGED fd
  /\ UNCHANGED child

\* Slip: every subprocess is started like a mutating one.
KeepAlways(a, mutating) == fd[ProcessOf(a)]

\* retain_operation_lock, which run_mutating calls and run and probe do not.  The
\* shell leaves its descriptor 9 to everything it starts.
Keep(a, mutating) ==
  IF a \in Operators THEN file[a] ELSE IF mutating THEN fd[ProcessOf(a)] ELSE None

\* A command mutates only while it has the lock.  A connection that only asks
\* starts a process without it.  All that carbideos-ops starts under the lock is
\* part of its operation.
Fork(a, c, mutating) ==
  /\ child[c].step = "none" /\ Ready(a)
  /\ pc[a] = "critical" \/ (a \in Threads /\ pc[a] = "idle" /\ ~mutating)
  /\ a \in Operators => mutating
  /\ child' = [child EXCEPT ![c] =
                 [step |-> "forked", of |-> a, mutating |-> mutating,
                  keep |-> Keep(a, mutating), owner |-> file[a]]]
  /\ open' = [f \in Files |-> open[f] \cup IF ProcessOf(a) \in open[f] THEN {c} ELSE {}]
  /\ UNCHANGED <<pc, file, locked, fd>>

\* Close-on-exec closes what is not kept.
Exec(c) ==
  /\ child[c].step = "forked"
  /\ child' = [child EXCEPT ![c].step = "running"]
  /\ Descriptors([f \in Files |-> IF f = child[c].keep THEN open[f] ELSE open[f] \ {c}])
  /\ UNCHANGED <<pc, file, fd>>

End(c) ==
  /\ child[c].step = "running"
  /\ child' = [child EXCEPT ![c] = NoChild]
  /\ Descriptors(Without({c}))
  /\ UNCHANGED <<pc, file, fd>>

\* A process dies at any point; its children live on.
Kill(p) ==
  /\ p \notin Children /\ \E a \in Actors : ProcessOf(a) = p /\ (pc[a] # "idle" \/ ~Ready(a))
  /\ pc' = [a \in Actors |-> IF ProcessOf(a) = p THEN "idle" ELSE pc[a]]
  /\ file' = [a \in Actors |-> IF ProcessOf(a) = p THEN None ELSE file[a]]
  /\ fd' = [fd EXCEPT ![p] = None]
  /\ child' = [c \in Children |->
                 IF child[c].of # None /\ ProcessOf(child[c].of) = p
                 THEN [child[c] EXCEPT !.of = None] ELSE child[c]]
  /\ Descriptors(Without({p}))

Operate(a) == Lock(a) \/ Refuse(a) \/ Own(a) \/ Drop(a)

Next ==
  \/ \E a \in Actors : Open(a) \/ Operate(a)
  \/ \E a \in Actors, c \in Children, mutating \in BOOLEAN : Fork(a, c, mutating)
  \/ \E c \in Children : Exec(c) \/ End(c)
  \/ \E p \in Processes : Kill(p)

Spec == Init /\ [][Next]_vars

\* Processes run, and those that are started end.  A command starts processes
\* again and again, but not for ever.
FairSpec ==
  /\ Spec
  /\ \A a \in Actors : SF_vars(Drop(a)) /\ WF_vars(Own(a))
  /\ \A c \in Children : WF_vars(Exec(c) \/ End(c))
-------------------------------------------------------------------------------
\* Every variable stays within its shape: what OPERATION_LOCK_FD and a child's
\* descriptor name is always a file.
TypeOK ==
  /\ pc \in [Actors -> {"idle", "opened", "locked", "critical", "closing"}]
  /\ file \in [Actors -> Files \cup {None}]
  /\ open \in [Files -> SUBSET Processes]
  /\ locked \in Files \cup {None}
  /\ fd \in [Processes -> Files \cup {None}]
  /\ child \in [Children -> [step : {"none", "forked", "running"}, of : Actors \cup {None},
                             mutating : BOOLEAN, keep : Files \cup {None},
                             owner : Files \cup {None}]]

\* "Cross-process ownership of every image or lifecycle mutation": a command
\* under way, and any mutating process started by one, has the lock, even after
\* the agent that started it has died.
MutatorsHoldTheLock ==
  /\ \A a \in Actors : pc[a] = "critical" => locked = file[a]
  /\ \A c \in Children :
       child[c].step # "none" /\ child[c].mutating => locked = child[c].owner

\* api.rs answers busy with "another privileged operation is in flight", which it
\* does when the lock is taken: then a command or a mutating process runs, or a
\* process has yet to exec.  "Read-only commands and extension-provided health
\* probes" that outlive their command keep nobody out.
BusyIsJustified ==
  locked # None =>
    \/ \E a \in Actors : pc[a] \in {"locked", "critical", "closing"}
    \/ \E c \in Children :
         \/ child[c].step = "forked"
         \/ child[c].step = "running" /\ child[c].mutating

\* Every command gives the lock back, and no process that is left over keeps it:
\* dropping OperationLock closes its file, and children end.
LockComesFree == locked # None ~> locked = None
===============================================================================
