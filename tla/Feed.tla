--------------------------------- MODULE Feed ---------------------------------
(***************************************************************************)
(* The update feed: a bucket that scripts/publish-r2 fills from the update *)
(* directory and scripts/prune-r2 empties against it.                      *)
(*                                                                         *)
(* A node trusts what the signed manifest names.  The manifest, its        *)
(* signature and the payloads are separate objects, written one by one,    *)
(* and either script may be interrupted after any of them.                 *)
(***************************************************************************)
EXTENDS Naturals, FiniteSets

CONSTANTS
  Names,     \* of payloads
  Contents,  \* of payloads
  Signed,    \* per release, by age: what its manifest names, a content or None
  None

Releases == DOMAIN Signed

ASSUME FeedAssumption ==
  /\ None \notin Contents
  /\ Releases \subseteq Nat /\ 1 \in Releases
  /\ \A r \in Releases : Signed[r] \in [Names -> Contents \cup {None}]

VARIABLES
  objects,    \* payloads in the bucket, or None
  signature,  \* the release whose SHA256SUMS.gpg is in the bucket
  manifest,   \* the release whose SHA256SUMS is in the bucket
  directory,  \* the release in the update directory, packaged and signed
  script,     \* what runs: publish, its activation, prune, or nothing
  left        \* the payloads the script has still to go through

feedVars == <<objects, signature, manifest, directory, script, left>>

Named(r) == {n \in Names : Signed[r][n] # None}
Present == {n \in Names : objects[n] # None}
Ends == script' = "none" /\ left' = {}

FeedInit ==
  /\ directory = 1
  /\ objects = Signed[1] /\ signature = 1 /\ manifest = 1
  /\ script = "none" /\ left = {}

\* scripts/package and scripts/sign.
Package ==
  /\ script = "none"
  /\ directory + 1 \in Releases
  /\ directory' = directory + 1
  /\ UNCHANGED <<objects, signature, manifest, script, left>>

Publish ==
  /\ script = "none"
  /\ script' = "publish" /\ left' = Named(directory)
  /\ UNCHANGED <<objects, signature, manifest, directory>>

\* A payload that is there is skipped when its recorded digest is the one to be
\* published, and ends the script otherwise: payloads are never replaced.
Upload(n) ==
  /\ script = "publish" /\ n \in left
  /\ IF objects[n] \in {None, Signed[directory][n]}
     THEN /\ objects' = [objects EXCEPT ![n] = Signed[directory][n]]
          /\ left' = left \ {n}
          /\ UNCHANGED script
     ELSE Ends /\ UNCHANGED objects
  /\ UNCHANGED <<signature, manifest, directory>>

\* Slip: the manifest goes up with the signature, ahead of the payloads.
SignFirst ==
  /\ script = "publish"
  /\ signature' = directory /\ manifest' = directory
  /\ UNCHANGED <<objects, directory, script, left>>

Sign ==
  /\ script = "publish" /\ left = {}
  /\ signature' = directory
  /\ script' = "activate"
  /\ UNCHANGED <<objects, manifest, directory, left>>

Activate ==
  /\ script = "activate"
  /\ manifest' = directory
  /\ Ends
  /\ UNCHANGED <<objects, signature, directory>>

\* prune-r2 goes by the update directory.  It is taken to be run on the
\* release that is live: the script does not look.
Prune ==
  /\ script = "none"
  /\ signature = directory /\ manifest = directory
  /\ script' = "prune" /\ left' = Present \ Named(directory)
  /\ UNCHANGED <<objects, signature, manifest, directory>>

Delete(n) ==
  /\ script = "prune" /\ n \in left
  /\ objects' = [objects EXCEPT ![n] = None]
  /\ left' = left \ {n}
  /\ UNCHANGED <<signature, manifest, directory, script>>

\* The script ends, or is interrupted, or an upload fails.
Interrupt ==
  /\ script # "none"
  /\ Ends
  /\ UNCHANGED <<objects, signature, manifest, directory>>

FeedNext ==
  \/ Package \/ Publish \/ Sign \/ Activate \/ Prune \/ Interrupt
  \/ \E n \in Names : Upload(n) \/ Delete(n)

\* What a node can verify, and what it then gets.
Offered == IF signature = manifest THEN Named(manifest) ELSE {}
Served(n) == objects[n] = Signed[manifest][n]

FeedTypeOK ==
  /\ objects \in [Names -> Contents \cup {None}]
  /\ signature \in Releases /\ manifest \in Releases /\ directory \in Releases
  /\ script \in {"none", "publish", "activate", "prune"}
  /\ left \subseteq Names

\* README.md: "Payloads are uploaded before SHA256SUMS.gpg, and SHA256SUMS is
\* uploaded last as the release activation point."  Whatever was interrupted
\* and pruned before, a node that can verify a manifest gets every payload it
\* names, with the bytes it names.
OfferedIsServed == \A n \in Offered : Served(n)
===============================================================================
