------------------------------- MODULE MCStaging -------------------------------
(***************************************************************************)
(* Instances of Staging for TLC.                                           *)
(***************************************************************************)
EXTENDS Staging

CONSTANTS b1, b2, a0, a1, a2, c, s, x, v1

\* The feed has an image for b2, later a rebuild, later one with a suffix that
\* is no revision, and no longer the first.
First == [base |-> b2, number |-> 0, canonical |-> TRUE]
Rebuild == [base |-> b2, number |-> 1, canonical |-> TRUE]
Odd == [base |-> b2, number |-> 2, canonical |-> FALSE]
MCNames == {First, Rebuild, Odd}
Release(f, r, o) == [n \in MCNames |-> IF n = First THEN f ELSE IF n = Rebuild THEN r ELSE o]
MCSigned == <<Release(a0, None, None), Release(a0, a1, None), Release(None, a1, a2)>>

\* What a caller may hand in: a candidate, an image for b2, and one nobody signed.
MCContents == {a0, a1, a2, c, s, x}
MCSupplies == {c, s, x}
MCTrusted == MCContents \ {x}
MCBaseOf == [i \in MCContents |-> IF i = c THEN b1 ELSE b2]
MCVersionOf == [i \in MCContents |-> IF i = x THEN None ELSE v1]
MCSize == [i \in MCContents |-> IF i = x THEN 2 ELSE 1]

\* These releases are packaged one after the other.
ASSUME ReleasesGrow == FeedGrows
================================================================================
