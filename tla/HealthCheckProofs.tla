--------------------------- MODULE HealthCheckProofs ---------------------------
(***************************************************************************)
(* What a health check shows, for every ruleset.                           *)
(***************************************************************************)
EXTENDS HealthCheck, TLAPS

\* The shape of the state, by kind.
FlagsOK == queued \in BOOLEAN /\ ruled \in BOOLEAN /\ blind \in BOOLEAN /\ fell \in BOOLEAN
TimesOK == left \in Nat /\ nap \in Nat
ServiceOK ==
  /\ image \in {"outgoing", "incoming"}
  /\ unit \in Up \cup Down
  /\ process \in {"outgoing", "incoming", None}
  /\ seen \in {"outgoing", "incoming", None}
Steps == {"stop", "refresh", "reset", "start", "active", "failed", "wait", "last", "again",
          "soak", "round", "probe", "nap", "passed", "rejected", "given up"}
AgentOK ==
  /\ op \in {"activate", "recover", "gate"}
  /\ pc \in Steps
  /\ asked \in {"ready", "round", "end"}

\* Attempts are counted up to the last.
CountInv ==
  /\ attempt \in 1..StartAttempts
  /\ pc = "again" => attempt < StartAttempts
  /\ pc = "given up" => attempt = StartAttempts

\* A unit has a process exactly while it is up.
ProcessInv == process = None <=> unit \in Down

\* What is left of the image to go, once it has been replaced, is what was not
\* stopped.
ImageInv ==
  /\ image = "outgoing" => pc \in {"stop", "refresh", "rejected"}
  /\ image = "incoming" => pc \notin {"stop", "refresh"}
  /\ image = "outgoing" => process # "incoming"
  /\ ~blind /\ pc = "refresh" => process = None /\ ~queued
  /\ ~blind /\ image = "incoming" /\ pc # "rejected" => process # "outgoing"
  /\ ~blind /\ pc \in {"soak", "round", "probe", "nap", "passed"} => seen = "incoming"

\* A service that fell is still down when the soak looks at it.
FellInv == fell => pc = "rejected" \/ (Soaking /\ unit \in Down)

\* An attempt that is over had its reason.
AttemptInv ==
  /\ Attempting /\ unit = "failed" => attempt \in justified
  /\ pc \in {"last", "again", "given up"} => attempt \in justified

\* So had those before it.
PastInv ==
  /\ justified \subseteq 1..StartAttempts
  /\ \A a \in 1..StartAttempts : a < attempt => a \in justified

IInv ==
  /\ FlagsOK /\ TimesOK /\ ServiceOK /\ AgentOK /\ CountInv
  /\ ProcessInv /\ ImageInv /\ FellInv /\ AttemptInv /\ PastInv
--------------------------------------------------------------------------------
\* A check starts with whatever the service does at the time.
LEMMA InitiallyChecked == Init => IInv
<1> SUFFICES ASSUME Init PROVE IInv
  OBVIOUS
<1> USE NoneAssumption, RulesetAssumption DEF Init, Up, Down
<1>1. FlagsOK /\ TimesOK /\ ServiceOK /\ AgentOK
  BY DEF FlagsOK, TimesOK, ServiceOK, AgentOK, Steps
<1>2. CountInv
  BY DEF CountInv
<1>3. ProcessInv /\ ImageInv /\ FellInv
  BY DEF ProcessInv, ImageInv, FellInv
<1>4. AttemptInv /\ PastInv
  BY DEF AttemptInv, PastInv, Attempting
<1> QED
  BY <1>1, <1>2, <1>3, <1>4 DEF IInv

\* Truth values stay truth values.
LEMMA NextFlags ==
  ASSUME IInv, [Next]_vars
  PROVE  FlagsOK'
<1> USE DEF IInv, FlagsOK, service, timers, agent, history, Goes, Probes
<1>1. CASE JobRuns
  BY <1>1 DEF JobRuns, StartsAgain
<1>2. CASE GoesDown
  BY <1>2 DEF GoesDown
<1>3. CASE OthersStart
  BY <1>3 DEF OthersStart
<1>4. CASE Stop
  BY <1>4 DEF Stop, Stopped
<1>5. CASE Start
  BY <1>5 DEF Start
<1>6. CASE Again
  BY <1>6 DEF Again, Stopped
<1>7. CASE UNCHANGED <<queued, ruled, blind, fell>>
  BY <1>7
<1> QED
  BY <1>1, <1>2, <1>3, <1>4, <1>5, <1>6, <1>7
  DEF vars, Next, Tick, Readies, Restarts, Refresh, Reset, AskActive, AskFailed, Wait, AskLast, BeginSoak, Round, Probe, Nap, Ready, StartsAgain

\* Times stay times.
LEMMA NextTimes ==
  ASSUME IInv, [Next]_vars
  PROVE  TimesOK'
<1> USE RulesetAssumption
    DEF IInv, TimesOK, service, timers, agent, history, Goes, Probes
<1>1. CASE Tick
  BY <1>1 DEF Tick
<1>2. CASE Start
  BY <1>2 DEF Start
<1>3. CASE AskFailed
  BY <1>3 DEF AskFailed
<1>4. CASE BeginSoak
  BY <1>4 DEF BeginSoak
<1>5. CASE Probe
  BY <1>5 DEF Probe
<1>6. CASE UNCHANGED timers
  BY <1>6
<1> QED
  BY <1>1, <1>2, <1>3, <1>4, <1>5, <1>6
  DEF vars, Next, JobRuns, Readies, GoesDown, Restarts, OthersStart, Stop, Refresh, Reset, AskActive, Wait, AskLast, Again, Round, Nap, Ready, StartsAgain, Stopped

\* The service keeps its shape.
LEMMA NextServiceShape ==
  ASSUME IInv, [Next]_vars
  PROVE  ServiceOK'
<1>0. ServiceOK
  BY DEF IInv
<1> USE <1>0 DEF ServiceOK, service, agent, history
<1>1. CASE UNCHANGED <<image, unit, process, seen>>
  BY <1>1
<1>2. CASE JobRuns
  <2>1. UNCHANGED seen /\ (StartsAgain \/ UNCHANGED <<image, unit, process>>)
    BY <1>2, Zenon DEF JobRuns
  <2> QED
    BY <2>1 DEF StartsAgain, Up, Down
<1>3. CASE Readies
  BY <1>3 DEF Readies, Up, Down
<1>4. CASE GoesDown
  <2>1. unit' \in Down /\ process' = None /\ UNCHANGED <<image, seen>>
    BY <1>4, Zenon DEF GoesDown
  <2> QED
    BY <2>1
<1>5. CASE Restarts
  BY <1>5 DEF Restarts, StartsAgain, Up, Down
<1>7. CASE Stop
  <2>1. UNCHANGED seen /\ (Stopped \/ UNCHANGED service)
    BY <1>7, Zenon DEF Stop
  <2> QED
    BY <2>1 DEF Stopped, Up, Down
<1>8. CASE Refresh
  BY <1>8 DEF Refresh
<1>9. CASE Reset
  BY <1>9 DEF Reset, Up, Down
<1>11. CASE AskActive \/ AskLast \/ Round
  BY <1>11 DEF AskActive, AskLast, Round
<1>15. CASE Again
  <2>1. UNCHANGED seen /\ (Stopped \/ UNCHANGED service)
    BY <1>15, Zenon DEF Again, history
  <2> QED
    BY <2>1 DEF Stopped, Up, Down
<1> QED
  BY <1>1, <1>2, <1>3, <1>4, <1>5, <1>7, <1>8, <1>9, <1>11, <1>15
  DEF vars, Next, Tick, OthersStart, Start, AskFailed, Wait, BeginSoak, Probe, Nap

\* So does the agent.
LEMMA NextAgentShape ==
  ASSUME IInv, [Next]_vars
  PROVE  AgentOK'
<1>0. AgentOK
  BY DEF IInv
<1> USE <1>0 DEF AgentOK, agent, Goes, Probes
<1>1. CASE UNCHANGED <<op, pc, asked>>
  BY <1>1
<1>2. CASE Stop
  <2>1. UNCHANGED <<op, asked>> /\ pc' \in {"refresh", "rejected"}
    BY <1>2 DEF Stop
  <2> QED
    BY <2>1 DEF Steps
<1>3. CASE Refresh \/ Reset \/ Start
  <2>1. UNCHANGED <<op, asked>> /\ pc' \in {"reset", "start", "active", "rejected"}
    BY <1>3 DEF Refresh, Reset, Start
  <2> QED
    BY <2>1 DEF Steps
<1>4. CASE AskFailed \/ Wait \/ Again \/ Nap
  <2>1. UNCHANGED <<op, asked>> /\ pc' \in {"last", "wait", "active", "reset", "round"}
    BY <1>4 DEF AskFailed, Wait, Again, Nap
  <2> QED
    BY <2>1 DEF Steps
<1>5. CASE AskActive
  <2>1. /\ op' = op /\ asked' \in {asked, "ready"}
        /\ pc' \in {"last", "soak", "probe", "failed"}
    BY <1>5 DEF AskActive, Ready
  <2> QED
    BY <2>1 DEF Steps
<1>6. CASE AskLast
  <2>1. /\ op' = op /\ asked' \in {asked, "ready"}
        /\ pc' \in {"again", "given up", "soak", "probe"}
    BY <1>6 DEF AskLast, Ready
  <2> QED
    BY <2>1 DEF Steps
<1>7. CASE BeginSoak \/ Round
  <2>1. /\ op' = op /\ asked' \in {asked, "round", "end"}
        /\ pc' \in {"round", "probe", "rejected"}
    BY <1>7 DEF BeginSoak, Round
  <2> QED
    BY <2>1 DEF Steps
<1>8. CASE Probe
  <2>1. UNCHANGED <<op, asked>> /\ pc' \in {"nap", "passed", "soak", "rejected"}
    BY <1>8 DEF Probe
  <2> QED
    BY <2>1 DEF Steps
<1> QED
  BY <1>1, <1>2, <1>3, <1>4, <1>5, <1>6, <1>7, <1>8
  DEF vars, Next, Tick, JobRuns, Readies, GoesDown, Restarts, OthersStart

\* An attempt is followed by another only if there is one left.
LEMMA NextCount ==
  ASSUME IInv, [Next]_vars
  PROVE  CountInv'
<1>0. \A n \in 1..StartAttempts : n = StartAttempts \/ n < StartAttempts
  BY RulesetAssumption
<1> USE RulesetAssumption
    DEF IInv, CountInv, service, timers, agent, history, Goes, Probes
<1>1. CASE Again
  BY <1>1 DEF Again, Stopped
<1>2. CASE AskLast
  <2>1. attempt' = attempt
    BY <1>2 DEF AskLast, Ready
  <2>2. CASE attempt < StartAttempts
    BY <1>2, <2>1, <2>2 DEF AskLast, Ready
  <2>3. CASE ~(attempt < StartAttempts)
    <3>1. attempt = StartAttempts
      BY <1>0, <2>3, Zenon
    <3>2. pc' # "again"
      BY <1>2, <2>3, Zenon DEF AskLast, Ready
    <3> QED
      BY <2>1, <3>1, <3>2
  <2> QED
    BY <2>2, <2>3
<1>3. CASE UNCHANGED attempt /\ pc' \notin {"again", "given up"} \ {pc}
  BY <1>3
<1> QED
  BY <1>1, <1>2, <1>3
  DEF vars, Next, Tick, JobRuns, Readies, GoesDown, Restarts, OthersStart, Stop, Refresh, Reset, Start, AskActive, AskFailed, Wait, BeginSoak, Round, Probe, Nap, StartsAgain, Stopped, Ready

\* Every step that starts or ends the service starts or ends its process.
LEMMA NextProcess ==
  ASSUME IInv, [Next]_vars
  PROVE  ProcessInv'
<1> USE NoneAssumption
    DEF IInv, ServiceOK, AgentOK, ProcessInv, ImageInv, Up, Down, service, timers, agent, history, Goes, Probes
<1>1. CASE JobRuns
  BY <1>1 DEF JobRuns, StartsAgain
<1>2. CASE Readies
  BY <1>2 DEF Readies
<1>3. CASE GoesDown
  BY <1>3 DEF GoesDown
<1>4. CASE Restarts
  BY <1>4 DEF Restarts, StartsAgain
<1>5. CASE Stop
  BY <1>5 DEF Stop, Stopped
<1>6. CASE Reset
  BY <1>6 DEF Reset
<1>7. CASE Again
  BY <1>7 DEF Again, Stopped
<1>8. CASE UNCHANGED <<unit, process>>
  BY <1>8
<1> QED
  BY <1>1, <1>2, <1>3, <1>4, <1>5, <1>6, <1>7, <1>8
  DEF vars, Next, Tick, OthersStart, Refresh, Start, AskActive, AskFailed, Wait, AskLast, BeginSoak, Round, Probe, Nap, Ready

\* A process comes from what is merged when it starts.
LEMMA NextImage ==
  ASSUME IInv, [Next]_vars
  PROVE  ImageInv'
<1> USE NoneAssumption
    DEF IInv, FlagsOK, ServiceOK, AgentOK, ProcessInv, ImageInv, Up, Down, service, timers, agent, history, Goes, Probes
<1>1. CASE Tick
  BY <1>1 DEF Tick
<1>2. CASE JobRuns
  BY <1>2 DEF JobRuns, StartsAgain
<1>3. CASE Readies
  BY <1>3 DEF Readies
<1>4. CASE GoesDown
  BY <1>4 DEF GoesDown
<1>5. CASE Restarts
  BY <1>5 DEF Restarts, StartsAgain
<1>6. CASE OthersStart
  BY <1>6 DEF OthersStart
<1>7. CASE Stop
  <2>1. image = "outgoing" /\ image' = image /\ pc' \in {"refresh", "rejected"}
    BY <1>7 DEF Stop, Stopped
  <2>2. process' \in {process, None}
    BY <1>7 DEF Stop, Stopped
  <2>3. CASE UNCHANGED blind
    BY <1>7, <2>3 DEF Stop, Stopped
  <2>4. CASE UNCHANGED service /\ blind' = (unit \in Up \/ queued)
    BY <2>1, <2>4
  <2> QED
    BY <1>7, <2>3, <2>4 DEF Stop
<1>8. CASE Refresh
  BY <1>8 DEF Refresh
<1>9. CASE Reset
  BY <1>9 DEF Reset
<1>10. CASE Start
  BY <1>10 DEF Start
<1>11. CASE AskActive
  BY <1>11 DEF AskActive, Ready
<1>12. CASE AskFailed
  BY <1>12 DEF AskFailed
<1>13. CASE Wait
  BY <1>13 DEF Wait
<1>14. CASE AskLast
  BY <1>14 DEF AskLast, Ready
<1>15. CASE Again
  BY <1>15 DEF Again, Stopped
<1>16. CASE BeginSoak
  BY <1>16 DEF BeginSoak
<1>17. CASE Round
  BY <1>17 DEF Round
<1>18. CASE Probe
  BY <1>18 DEF Probe
<1>19. CASE Nap
  BY <1>19 DEF Nap
<1>20. CASE UNCHANGED vars
  BY <1>20 DEF vars
<1> QED
  BY <1>1, <1>2, <1>3, <1>4, <1>5, <1>6, <1>7, <1>8, <1>9, <1>10, <1>11, <1>12, <1>13, <1>14, <1>15, <1>16, <1>17, <1>18, <1>19, <1>20
  DEF Next

\* No step goes on with a service that is down.
LEMMA NextFell ==
  ASSUME IInv, [Next]_vars
  PROVE  FellInv'
<1> USE DEF IInv, FlagsOK, ServiceOK, AgentOK, FellInv, Up, Down, Soaking, service, timers, agent, history, Goes, Probes
<1>1. CASE Tick
  BY <1>1 DEF Tick
<1>2. CASE JobRuns
  BY <1>2 DEF JobRuns, StartsAgain
<1>3. CASE Readies
  BY <1>3 DEF Readies
<1>4. CASE GoesDown
  BY <1>4 DEF GoesDown
<1>5. CASE Restarts
  BY <1>5 DEF Restarts, StartsAgain
<1>6. CASE OthersStart
  BY <1>6 DEF OthersStart
<1>7. CASE Stop
  BY <1>7 DEF Stop, Stopped
<1>8. CASE Refresh
  BY <1>8 DEF Refresh
<1>9. CASE Reset
  BY <1>9 DEF Reset
<1>10. CASE Start
  BY <1>10 DEF Start
<1>11. CASE AskActive
  BY <1>11 DEF AskActive, Ready
<1>12. CASE AskFailed
  BY <1>12 DEF AskFailed
<1>13. CASE Wait
  BY <1>13 DEF Wait
<1>14. CASE AskLast
  BY <1>14 DEF AskLast, Ready
<1>15. CASE Again
  BY <1>15 DEF Again, Stopped
<1>16. CASE BeginSoak
  BY <1>16 DEF BeginSoak
<1>17. CASE Round
  BY <1>17 DEF Round
<1>18. CASE Probe
  BY <1>18 DEF Probe
<1>19. CASE Nap
  BY <1>19 DEF Nap
<1>20. CASE UNCHANGED vars
  BY <1>20 DEF vars
<1> QED
  BY <1>1, <1>2, <1>3, <1>4, <1>5, <1>6, <1>7, <1>8, <1>9, <1>10, <1>11, <1>12, <1>13, <1>14, <1>15, <1>16, <1>17, <1>18, <1>19, <1>20
  DEF Next

\* An attempt ends with a failure or a deadline of its own.
LEMMA NextAttempt ==
  ASSUME IInv, [Next]_vars
  PROVE  AttemptInv'
<1> USE DEF IInv, ServiceOK, AgentOK, AttemptInv, Attempting, Up, Down, service, timers, agent, history, Goes, Probes
<1>1. CASE Tick
  BY <1>1 DEF Tick
<1>2. CASE JobRuns
  BY <1>2 DEF JobRuns, StartsAgain
<1>3. CASE Readies
  BY <1>3 DEF Readies
<1>4. CASE GoesDown
  BY <1>4 DEF GoesDown
<1>5. CASE Restarts
  BY <1>5 DEF Restarts, StartsAgain
<1>6. CASE OthersStart
  BY <1>6 DEF OthersStart
<1>7. CASE Stop
  BY <1>7 DEF Stop, Stopped
<1>8. CASE Refresh
  BY <1>8 DEF Refresh
<1>9. CASE Reset
  BY <1>9 DEF Reset
<1>10. CASE Start
  BY <1>10 DEF Start
<1>11. CASE AskActive
  <2>1. pc = "active" /\ unit' = unit /\ attempt' = attempt
    BY <1>11 DEF AskActive, Ready
  <2>2. \/ pc' = "last" /\ attempt \in justified'
        \/ pc' = "failed" /\ justified' = justified
        \/ pc' \in {"soak", "probe"}
    BY <1>11 DEF AskActive, Ready
  <2> QED
    BY <2>1, <2>2
<1>12. CASE AskFailed
  BY <1>12 DEF AskFailed
<1>13. CASE Wait
  BY <1>13 DEF Wait
<1>14. CASE AskLast
  BY <1>14 DEF AskLast, Ready
<1>15. CASE Again
  BY <1>15 DEF Again, Stopped
<1>16. CASE BeginSoak
  BY <1>16 DEF BeginSoak
<1>17. CASE Round
  BY <1>17 DEF Round
<1>18. CASE Probe
  BY <1>18 DEF Probe
<1>19. CASE Nap
  BY <1>19 DEF Nap
<1>20. CASE UNCHANGED vars
  BY <1>20 DEF vars
<1> QED
  BY <1>1, <1>2, <1>3, <1>4, <1>5, <1>6, <1>7, <1>8, <1>9, <1>10, <1>11, <1>12, <1>13, <1>14, <1>15, <1>16, <1>17, <1>18, <1>19, <1>20
  DEF Next

\* Reasons are kept, and an attempt that is over has one.
LEMMA NextPast ==
  ASSUME IInv, [Next]_vars
  PROVE  PastInv'
<1>0. \A n, a \in 1..StartAttempts : a < n + 1 => a < n \/ a = n
  BY RulesetAssumption
<1> USE DEF IInv, service, timers, agent, history, Goes, Probes
<1>1. CASE UNCHANGED attempt
  <2>1. justified' \in {justified, justified \cup {attempt}}
    BY DEF vars, Next, Tick, JobRuns, Readies, GoesDown, Restarts, OthersStart, Stop, Refresh, Reset, Start, AskActive, AskFailed, Wait, AskLast, Again, BeginSoak, Round, Probe, Nap, StartsAgain, Stopped, Ready
  <2>2. attempt \in 1..StartAttempts
    BY DEF CountInv
  <2> QED
    BY <1>1, <2>1, <2>2, Zenon DEF PastInv
<1>2. CASE Again
  <2>1. attempt' = attempt + 1 /\ justified' = justified
    BY <1>2 DEF Again
  <2>2. \A a \in 1..StartAttempts : a < attempt + 1 => a < attempt \/ a = attempt
    BY <1>0, Zenon DEF CountInv
  <2>3. attempt \in justified
    BY <1>2 DEF Again, AttemptInv
  <2> QED
    BY <2>1, <2>2, <2>3, Zenon DEF PastInv
<1> QED
  BY <1>1, <1>2 DEF vars, Next, Tick, JobRuns, Readies, GoesDown, Restarts, OthersStart, Stop, Refresh, Reset, Start, AskActive, AskFailed, Wait, AskLast, BeginSoak, Round, Probe, Nap, StartsAgain, Stopped, Ready

\* The invariant holds throughout every check.
LEMMA InvariantHolds == Spec => []IInv
<1>1. IInv /\ [Next]_vars => IInv'
  BY NextFlags, NextTimes, NextServiceShape, NextAgentShape, NextCount, NextProcess, NextImage, NextFell, NextAttempt,
     NextPast DEF IInv
<1> QED
  BY <1>1, InitiallyChecked, PTL DEF Spec
--------------------------------------------------------------------------------
\* Every variable of a check keeps its shape, whatever the ruleset says.
THEOREM TypeCorrect == Spec => []TypeOK
<1>1. IInv => TypeOK
  BY DEF IInv, FlagsOK, TimesOK, ServiceOK, AgentOK, Steps, CountInv, PastInv, TypeOK
<1> QED
  BY <1>1, InvariantHolds, PTL

\* soak: a service that dies during the soak is not trusted, and what is
\* trusted is what was merged unless something else was left running.
THEOREM TrustIsAlwaysEarned == Spec => []TrustIsEarned
<1>1. IInv => TrustIsEarned
  BY DEF IInv, ImageInv, FellInv, TrustIsEarned, DeadIsNotTrusted, MergedIsJudged, Soaking
<1> QED
  BY <1>1, InvariantHolds, PTL

\* wait_until_ready: every attempt was the service's to lose.
THEOREM AllAttemptsAreMade == Spec => []GivenUpAfterAllAttempts
<1>1. \A a \in 1..StartAttempts : a = StartAttempts \/ a < StartAttempts
  BY RulesetAssumption
<1>2. ASSUME IInv, pc = "given up"
      PROVE  justified = 1..StartAttempts
  <2>1. attempt = StartAttempts /\ attempt \in justified
    BY <1>2 DEF IInv, CountInv, AttemptInv
  <2>2. /\ justified \subseteq 1..StartAttempts
        /\ \A a \in 1..StartAttempts : a < attempt => a \in justified
    BY <1>2 DEF IInv, PastInv
  <2> QED
    BY <1>1, <2>1, <2>2, Zenon
<1> QED
  BY <1>2, InvariantHolds, PTL DEF GivenUpAfterAllAttempts
================================================================================
