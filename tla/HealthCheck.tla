------------------------------ MODULE HealthCheck ------------------------------
(***************************************************************************)
(* How carbide-agent finds out whether an image works: wait_until_ready,   *)
(* probe and soak (agent/src/system.rs), and the swap they follow in an    *)
(* activation and in a recovery (agent/src/main.rs).                       *)
(*                                                                         *)
(* The agent asks `systemctl` from time to time.  Between two questions    *)
(* the service may become ready, fail, exit or be started again, by        *)
(* systemd or by somebody else.  A swap changes the files of a service     *)
(* that runs on until it is stopped.                                       *)
(***************************************************************************)
EXTENDS Naturals

CONSTANTS
  StartAttempts, ReadyTimeout, Interval, Soak,  \* of the ruleset, times in polls
  None

ASSUME RulesetAssumption ==
  /\ StartAttempts \in Nat \ {0}
  /\ ReadyTimeout \in Nat /\ Interval \in Nat /\ Soak \in Nat
ASSUME NoneAssumption == None \notin {"outgoing", "incoming"}

VARIABLES
  \* The service, as systemd knows it.
  image,    \* what is merged: the image to go or the one to come
  unit,     \* ActiveState
  process,  \* the image its process was started from, or None
  queued,   \* a start job waits
  \* The agent.
  op,       \* what the check is for: an activation, a recovery or the gate
  ruled,    \* whether the image to go has a usable ruleset
  pc, attempt,
  left,     \* time to the deadline
  nap,      \* time left to sleep
  asked,    \* what a probe is for: readiness, a round of the soak, or its end
  \* History.
  seen,      \* the image of the process that was last found active
  blind,     \* the service was not stopped, or was started again, before the swap
  fell,      \* it went down during the soak and nobody started it again
  justified  \* attempts in which it failed or ran out of time

service == <<image, unit, process, queued>>
timers == <<left, nap>>
agent == <<op, ruled, pc, attempt, asked>>
history == <<seen, blind, fell, justified>>
vars == <<service, timers, agent, history>>

Up == {"activating", "active"}
Down == {"inactive", "failed"}

Goes(step) == pc' = step /\ UNCHANGED <<op, ruled, attempt, asked>>
Probes(why) == pc' = "probe" /\ asked' = why /\ UNCHANGED <<op, ruled, attempt>>

Init ==
  /\ op \in {"activate", "recover", "gate"} /\ ruled \in BOOLEAN
  /\ image = IF op = "gate" THEN "incoming" ELSE "outgoing"
  /\ unit \in Up \cup Down /\ queued \in BOOLEAN
  /\ process = IF unit \in Up THEN image ELSE None
  /\ pc = IF op = "gate" THEN "reset" ELSE "stop"
  /\ attempt = 1 /\ left = 0 /\ nap = 0 /\ asked = "ready"
  /\ seen = None /\ blind = FALSE /\ fell = FALSE /\ justified = {}
--------------------------------------------------------------------------------
(***************************************************************************)
(* systemd and the service.                                                *)
(***************************************************************************)
Tick ==
  /\ left > 0 \/ nap > 0
  /\ left' = IF left > 0 THEN left - 1 ELSE 0
  /\ nap' = IF nap > 0 THEN nap - 1 ELSE 0
  /\ UNCHANGED <<service, agent, history>>

StartsAgain ==
  /\ unit' = "activating" /\ process' = image
  /\ UNCHANGED image

\* A start job does nothing to a unit that is up.
JobRuns ==
  /\ queued /\ queued' = FALSE
  /\ IF unit \in Down
     THEN StartsAgain /\ fell' = FALSE
     ELSE UNCHANGED <<image, unit, process, fell>>
  /\ UNCHANGED <<timers, agent, seen, blind, justified>>

Readies ==
  /\ unit = "activating" /\ unit' = "active"
  /\ UNCHANGED <<image, process, queued, timers, agent, history>>

Attempting == pc \in {"start", "active", "failed", "wait", "last"}
Soaking == pc \in {"round", "nap"} \/ (pc = "probe" /\ asked = "round")

\* The service fails or exits.
GoesDown ==
  /\ unit \in Up /\ unit' \in Down /\ process' = None
  /\ fell' = (fell \/ (Soaking /\ left > 0))
  /\ justified' = IF Attempting /\ unit' = "failed" THEN justified \cup {attempt} ELSE justified
  /\ UNCHANGED <<image, queued, timers, agent, seen, blind>>

\* Restart=
Restarts ==
  /\ unit \in Up /\ StartsAgain
  /\ UNCHANGED <<queued, timers, agent, history>>

\* Another unit, a socket or an operator.
OthersStart ==
  /\ ~queued /\ queued' = TRUE
  /\ blind' = (blind \/ pc = "refresh")
  /\ UNCHANGED <<image, unit, process, timers, agent, seen, fell, justified>>
--------------------------------------------------------------------------------
(***************************************************************************)
(* The swap, in an activation or a recovery.                               *)
(***************************************************************************)
\* stop_unit: a stop cancels a start job, and leaves a failure to be seen.
Stopped ==
  /\ unit' = IF unit = "failed" THEN "failed" ELSE "inactive"
  /\ process' = None /\ queued' = FALSE
  /\ UNCHANGED image

\* Slip: the unit is left running, to be replaced when the new image starts.
StopNothing ==
  /\ pc = "stop" /\ Goes("refresh")
  /\ UNCHANGED <<service, timers, history>>

\* The unit is stopped if the image to go says which.  An activation insists, a
\* recovery goes on.
Stop ==
  /\ pc = "stop"
  /\ \/ /\ ruled /\ Stopped /\ Goes("refresh")
        /\ UNCHANGED blind
     \/ /\ ruled /\ op = "activate" /\ Goes("rejected")
        /\ UNCHANGED <<service, blind>>
     \/ /\ ~ruled \/ op = "recover"
        /\ Goes("refresh") /\ blind' = (unit \in Up \/ queued)
        /\ UNCHANGED service
  /\ UNCHANGED <<timers, seen, fell, justified>>

\* install_active, systemd-sysext refresh, daemon-reload and the new ruleset.
Refresh ==
  /\ pc = "refresh"
  /\ \/ image' = "incoming" /\ Goes("reset")
     \/ image' \in {image, "incoming"} /\ Goes("rejected")
  /\ UNCHANGED <<unit, process, queued, timers, history>>
--------------------------------------------------------------------------------
(***************************************************************************)
(* wait_until_ready.                                                       *)
(***************************************************************************)
\* Slip: a failure that is already known is left standing.
ResetNothing ==
  /\ pc = "reset" /\ Goes("start")
  /\ UNCHANGED <<service, timers, history>>

\* start_unit: reset-failed, whose own failure would be that of the start.
Reset ==
  /\ pc = "reset" /\ Goes("start")
  /\ unit' = IF unit = "failed" THEN "inactive" ELSE unit
  /\ UNCHANGED <<image, process, queued, timers, history>>

\* start_unit: --no-block.
Start ==
  /\ pc = "start"
  /\ \/ queued' = TRUE /\ left' = ReadyTimeout /\ Goes("active")
     \/ Goes("rejected") /\ UNCHANGED <<queued, left>>
  /\ UNCHANGED <<image, unit, process, nap, history>>

Ready == IF op = "activate" THEN Goes("soak") ELSE Probes("ready")

\* The head of the loop and unit_is_active.  Here and below a systemctl that does
\* not run is a no.
AskActive ==
  /\ pc = "active"
  /\ \/ left = 0 /\ Goes("last") /\ justified' = justified \cup {attempt} /\ UNCHANGED seen
     \/ left > 0 /\ unit = "active" /\ Ready /\ seen' = process /\ UNCHANGED justified
     \/ left > 0 /\ Goes("failed") /\ UNCHANGED <<seen, justified>>
  /\ UNCHANGED <<service, timers, blind, fell>>

AskFailed ==
  /\ pc = "failed"
  /\ \/ unit = "failed" /\ Goes("last") /\ UNCHANGED nap
     \/ Goes("wait") /\ nap' = 1
  /\ UNCHANGED <<service, left, history>>

Wait ==
  /\ pc = "wait" /\ nap = 0
  /\ Goes("active")
  /\ UNCHANGED <<service, timers, history>>

\* Slip: one attempt more than the ruleset permits.
AskLastOnceMore ==
  /\ pc = "last"
  /\ \/ unit = "active" /\ Ready /\ seen' = process
     \/ Goes(IF attempt <= StartAttempts THEN "again" ELSE "given up") /\ UNCHANGED seen
  /\ UNCHANGED <<service, timers, blind, fell, justified>>

\* The look after the loop.
AskLast ==
  /\ pc = "last"
  /\ \/ unit = "active" /\ Ready /\ seen' = process
     \/ Goes(IF attempt < StartAttempts THEN "again" ELSE "given up") /\ UNCHANGED seen
  /\ UNCHANGED <<service, timers, blind, fell, justified>>

\* `let _ = stop_unit`
Again ==
  /\ pc = "again"
  /\ \/ Stopped
     \/ UNCHANGED service
  /\ pc' = "reset" /\ attempt' = attempt + 1
  /\ UNCHANGED <<op, ruled, asked, timers, history>>
--------------------------------------------------------------------------------
(***************************************************************************)
(* soak and probe.                                                         *)
(***************************************************************************)
BeginSoak ==
  /\ pc = "soak"
  /\ IF Soak = 0
     THEN Probes("end") /\ UNCHANGED left
     ELSE Goes("round") /\ left' = Soak
  /\ UNCHANGED <<service, nap, history>>

\* Slip: the service is not looked at once the time is over.
RoundEnds ==
  /\ pc = "round"
  /\ IF left = 0
     THEN Probes("end") /\ UNCHANGED seen
     ELSE IF unit = "active"
     THEN Probes("round") /\ seen' = process
     ELSE Goes("rejected") /\ UNCHANGED seen
  /\ UNCHANGED <<service, timers, blind, fell, justified>>

\* One round, and the look after the loop.
Round ==
  /\ pc = "round"
  /\ \/ unit = "active" /\ Probes(IF left > 0 THEN "round" ELSE "end") /\ seen' = process
     \/ Goes("rejected") /\ UNCHANGED seen
  /\ UNCHANGED <<service, timers, blind, fell, justified>>

\* A probe that fails, does not start or is killed at its deadline ends the
\* check.  The gate soaks an image the record does not know.
Probe ==
  /\ pc = "probe"
  /\ \/ asked = "round" /\ Goes("nap") /\ nap' = IF Interval < left THEN Interval ELSE left
     \/ asked # "round" /\ Goes("passed") /\ UNCHANGED nap
     \/ asked = "ready" /\ op = "gate" /\ Goes("soak") /\ UNCHANGED nap
     \/ Goes("rejected") /\ UNCHANGED nap
  /\ UNCHANGED <<service, left, history>>

Nap ==
  /\ pc = "nap" /\ nap = 0
  /\ Goes("round")
  /\ UNCHANGED <<service, timers, history>>

Next ==
  \/ Tick \/ JobRuns \/ Readies \/ GoesDown \/ Restarts \/ OthersStart
  \/ Stop \/ Refresh
  \/ Reset \/ Start \/ AskActive \/ AskFailed \/ Wait \/ AskLast \/ Again
  \/ BeginSoak \/ Round \/ Probe \/ Nap

Spec == Init /\ [][Next]_vars
--------------------------------------------------------------------------------
(***************************************************************************)
(* Properties.                                                             *)
(***************************************************************************)
\* Every variable stays within the shape the code gives it.
TypeOK ==
  /\ image \in {"outgoing", "incoming"}
  /\ unit \in Up \cup Down
  /\ process \in {"outgoing", "incoming", None}
  /\ queued \in BOOLEAN /\ ruled \in BOOLEAN
  /\ op \in {"activate", "recover", "gate"}
  /\ pc \in {"stop", "refresh", "reset", "start", "active", "failed", "wait", "last", "again",
             "soak", "round", "probe", "nap", "passed", "rejected", "given up"}
  /\ attempt \in 1..StartAttempts
  /\ left \in Nat /\ nap \in Nat
  /\ asked \in {"ready", "round", "end"}
  /\ seen \in {"outgoing", "incoming", None}
  /\ blind \in BOOLEAN /\ fell \in BOOLEAN
  /\ justified \subseteq 1..StartAttempts

\* soak: "Without this, a service that dies after thirty seconds would be
\* recorded as the version to fall back to."  A service that goes down during
\* the soak, however late, and is not started again is never trusted.
DeadIsNotTrusted == pc = "passed" => ~fell

\* What passes is the image that was merged, and not what was left running of
\* the one before.  That takes a service that was stopped before the swap and
\* that nobody started in between.
MergedIsJudged == pc = "passed" /\ ~blind => seen = "incoming"

TrustIsEarned == DeadIsNotTrusted /\ MergedIsJudged

\* wait_until_ready: "restarting it up to the permitted number of attempts".  A
\* service is given up only after each of its attempts saw it fail, or ran out
\* of time; a failure from before an attempt does not count against it.
GivenUpAfterAllAttempts == pc = "given up" => justified = 1..StartAttempts
================================================================================
