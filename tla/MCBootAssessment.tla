--------------------------- MODULE MCBootAssessment ---------------------------
(***************************************************************************)
(* Instances of BootAssessment for TLC.                                    *)
(***************************************************************************)
EXTENDS BootAssessment

\* A node provisioned with one base: there is an older release and a newer one,
\* and what images there are for either were not put in place by stage-extension.
FreshInit ==
  /\ Init
  /\ \E b, c \in Bases : b < running /\ running < c
  /\ \A b \in Bases \ {running}, e \in Exts : images[b][e] # "valid"
FreshSpec == FreshInit /\ [][Next]_vars /\ Fairness
===============================================================================
