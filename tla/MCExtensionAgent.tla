-------------------------- MODULE MCExtensionAgent ----------------------------
(***************************************************************************)
(* Instances of ExtensionAgent for TLC.                                    *)
(***************************************************************************)
EXTENDS ExtensionAgent, TLC

\* The supervised versions are interchangeable: no action and no property orders
\* them.  A version without a ruleset is not one of them.
Symmetry == Permutations(Supervised)

\* With every version supervised, versions and bases are both interchangeable.
SymmetryAB ==
  {p @@ q : p \in Permutations(Versions), q \in Permutations(Bases)}

\* A node provisioned since images are scoped to their base.
ScopedInit == Init /\ legacy = None
ScopedSpec == ScopedInit /\ [][Next]_vars

\* No action reads the history: runs that do not ask about it may drop it.
NoHistory == <<disk, system, agent>>
===============================================================================
