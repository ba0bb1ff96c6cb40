-------------------------------- MODULE Staging --------------------------------
(***************************************************************************)
(* `carbide-agent stage-extension` (agent/src/ops.rs, system.rs): an image *)
(* of an extension, supplied by a caller or acquired from the feed, goes   *)
(* through a private directory to the name under which it is activated, or *)
(* merged by a base that has yet to boot.                                  *)
(*                                                                         *)
(* The caller may write to its file at any time, the feed may change at    *)
(* any time, the agent may be killed between two steps and what it leaves  *)
(* behind takes up space until the next command.                           *)
(***************************************************************************)
EXTENDS Feed

CONSTANTS
  Running,       \* the base that runs
  Incoming,      \* bases that have not booted yet
  Trusted,       \* contents that dissect accepts, and that declare the extension
  BaseOf,        \* the base a content declares, or None
  VersionOf,     \* the extension version a content declares, or None
  Size,          \* of a content
  Supplies,      \* contents of the caller's file
  MaxRevision,   \* u64::MAX
  MaxAcquired,   \* MAX_ACQUIRED_IMAGE
  Margin,        \* SPACE_MARGIN
  RollbackSize,  \* missing_rollback_size
  Capacity,      \* of the filesystem, less what the agent does not touch here
  IoErrors       \* whether file operations and the store may fail

Bases == {Running} \cup Incoming
Versions == {VersionOf[c] : c \in Contents} \ {None}

ASSUME BasesAssumption ==
  Running \notin Incoming /\ IsFiniteSet(Incoming) /\ None \notin Bases
ASSUME ContentsAssumption ==
  /\ Trusted \subseteq Contents /\ Supplies \subseteq Contents
  /\ BaseOf \in [Contents -> Bases \cup {None}]
  /\ DOMAIN VersionOf = Contents
  /\ Size \in [Contents -> Nat \ {0}]
ASSUME NamesAssumption ==
  Names \subseteq [base : Bases, number : Nat, canonical : BOOLEAN] /\ None \notin Names
ASSUME SpaceAssumption ==
  /\ MaxAcquired \in Nat /\ Margin \in Nat /\ RollbackSize \in Nat /\ Capacity \in Nat
  /\ MaxRevision \in Nat /\ IoErrors \in BOOLEAN

VARIABLES
  source,     \* the caller's file, while it is open
  staged,     \* the private copy in the staging directory, or None
  temporary,  \* bytes of files that were cut short
  placed,     \* per incoming base: its image of the extension, or None
  candidate,  \* the candidate file of the running base, or None
  record,     \* the candidate version the record says is staged, or None
  taken,      \* bytes others have taken
  pc, request, selected, budget   \* of the command

files == <<staged, temporary, placed, candidate>>
command == <<pc, request, selected, budget, source>>
vars == <<feedVars, files, record, taken, command>>

\* base: the one asked for, or None.  digest: of a supplied image.  version: the
\* one to acquire, or None for the newest revision.
Requests ==
  [base : Bases \cup {None}, digest : Supplies, version : {None}]
    \cup [base : Bases, digest : {None}, version : Names \cup {None}]
NoRequest == [base |-> None, digest |-> None, version |-> None]
Supplied == request.digest # None

SizeOf(c) == IF c = None THEN 0 ELSE Size[c]
\* The bytes of the images in place for the bases that have not booted yet.
PlacedBytes == UNION {{b} \X (1 .. SizeOf(placed[b])) : b \in Incoming}
Free ==
  Capacity - taken - temporary - SizeOf(staged) - SizeOf(candidate) - Cardinality(PlacedBytes)

Goes(step) == pc' = step /\ UNCHANGED <<request, selected, budget, source>>
Returns ==
  /\ pc' = "idle" /\ request' = NoRequest
  /\ selected' = None /\ budget' = 0 /\ source' = None

Init ==
  /\ FeedInit
  /\ source = None /\ staged = None /\ temporary = 0
  /\ placed = [b \in Incoming |-> None]
  /\ candidate = None /\ record = None /\ taken = 0
  /\ pc = "idle" /\ request = NoRequest /\ selected = None /\ budget = 0
--------------------------------------------------------------------------------
Start(q) ==
  /\ pc = "idle"
  /\ request' = q /\ pc' = "reconcile"
  /\ UNCHANGED <<feedVars, files, record, taken, selected, budget, source>>

\* Slip: files that were cut short are left where they are.
ReconcileNothing ==
  /\ pc = "reconcile"
  /\ Goes(IF Supplied THEN "open" ELSE "check")
  /\ UNCHANGED <<feedVars, files, record, taken>>

\* What reconciliation does to these files: private ones go, and the candidate
\* and its record stay only together.  A file that cannot be removed ends the
\* command.
Reconcile ==
  LET kept == candidate # None /\ record = VersionOf[candidate] IN
  /\ pc = "reconcile"
  /\ \/ /\ staged' = None /\ temporary' = 0
        /\ candidate' = IF kept THEN candidate ELSE None
        /\ record' = IF kept THEN record ELSE None
        /\ Goes(IF Supplied THEN "open" ELSE "check")
     \/ /\ IoErrors
        /\ staged' \in {None, staged} /\ temporary' \in {0, temporary}
        /\ Returns /\ UNCHANGED <<candidate, record>>
  /\ UNCHANGED <<feedVars, placed, taken>>

\* Slip: room for one copy of the image only.
StagingSpaceOnce(size, rollback) == size + rollback + Margin

StagingSpace(size, rollback) == 2 * size + rollback + Margin
ActivationSpace(size, rollback) == size + rollback + Margin
Rollback(b) == IF b = Running THEN RollbackSize ELSE 0

\* supplied: the file is opened and its size is what the space is checked for.
Open(c) ==
  /\ pc = "open"
  /\ IF StagingSpace(Size[c], IF request.base = None THEN RollbackSize ELSE Rollback(request.base)) <= Free
     THEN pc' = "copy" /\ source' = c /\ budget' = Size[c] /\ UNCHANGED <<request, selected>>
     ELSE Returns
  /\ UNCHANGED <<feedVars, files, record, taken>>

\* The caller writes to its file.
Rewrite(c) ==
  /\ pc \in {"copy", "digest"} /\ source' = c
  /\ UNCHANGED <<feedVars, files, record, taken, pc, request, selected, budget>>

\* durable_copy_file refuses a file that has grown.
Copy ==
  /\ pc = "copy"
  /\ \/ /\ Size[source] <= budget /\ Size[source] <= Free
        /\ staged' = source /\ Goes("digest") /\ UNCHANGED temporary
     \/ /\ IoErrors \/ Size[source] > budget
        /\ temporary' \in {temporary} \cup (IF IoErrors THEN {temporary + budget} ELSE {})
        /\ Returns /\ UNCHANGED staged
  /\ UNCHANGED <<feedVars, placed, candidate, record, taken>>

\* Slip: the digest is taken of the caller's file.
DigestSource ==
  /\ pc = "digest"
  /\ Goes(IF source = request.digest THEN "validate" ELSE "clean")
  /\ UNCHANGED <<feedVars, files, record, taken>>

Digest ==
  /\ pc = "digest"
  /\ Goes(IF staged = request.digest THEN "validate" ELSE "clean")
  /\ UNCHANGED <<feedVars, files, record, taken>>
--------------------------------------------------------------------------------
\* acquire: room for the largest image there may be.
Check ==
  /\ pc = "check"
  /\ IF MaxAcquired + Margin <= Free
     THEN pc' = "list" /\ budget' = MaxAcquired /\ UNCHANGED <<request, selected, source>>
     ELSE Returns
  /\ UNCHANGED <<feedVars, files, record, taken>>

\* revision_number: a base's first image has number 0.  Any other suffix that is
\* not a canonical number, or overflows, is no revision.
IsRevision(n) == n.canonical /\ n.number <= MaxRevision

Images(base, offered) == {n \in offered : n.base = base /\ IsRevision(n)}

\* Slip: the first image of the base is taken.
FirstForBase(base, offered) ==
  {n \in Images(base, offered) : \A m \in Images(base, offered) : n.number <= m.number}

NewestForBase(base, offered) ==
  {n \in Images(base, offered) : \A m \in Images(base, offered) : m.number <= n.number}

\* resolve_revision, from what the feed offers at the time.
List ==
  /\ pc = "list"
  /\ selected' \in
       IF request.version # None
       THEN {request.version}
       ELSE NewestForBase(request.base, Offered) \cup {None}
  /\ IF selected' = None
     THEN Returns
     ELSE pc' = "download" /\ UNCHANGED <<request, budget, source>>
  /\ UNCHANGED <<feedVars, files, record, taken>>

\* systemd-sysupdate reads the feed anew and checks what it gets.
Download ==
  /\ pc = "download"
  /\ \/ /\ selected \in Offered /\ Served(selected)
        /\ Size[objects[selected]] <= Free
        /\ staged' = objects[selected]
        /\ Goes(IF Size[staged'] <= MaxAcquired THEN "validate" ELSE "clean")
        /\ UNCHANGED temporary
     \/ /\ temporary' \in {temporary, temporary + budget}
        /\ Goes("clean") /\ UNCHANGED staged
  /\ UNCHANGED <<feedVars, placed, candidate, record, taken>>
--------------------------------------------------------------------------------
(***************************************************************************)
(* validate_and_place, for both.                                           *)
(***************************************************************************)
\* Slip: an image is taken for what it declares.
ValidAsDeclared(c) ==
  /\ BaseOf[c] # None
  /\ request.base # None => BaseOf[c] = request.base
  /\ BaseOf[c] = Running => VersionOf[c] # None

\* validate_image and image_release.
Valid(c) ==
  /\ c \in Trusted
  /\ BaseOf[c] # None
  /\ request.base # None => BaseOf[c] = request.base
  /\ BaseOf[c] = Running => VersionOf[c] # None

Validate ==
  /\ pc = "validate"
  /\ Goes(IF Valid(staged) THEN "admit" ELSE "clean")
  /\ UNCHANGED <<feedVars, files, record, taken>>

ForRunning == BaseOf[staged] = Running

\* require_space and, for the running base, prune_candidates.
Admit ==
  /\ pc = "admit"
  /\ IF ActivationSpace(Size[staged], Rollback(BaseOf[staged])) <= Free
     THEN \/ /\ candidate' = IF ForRunning THEN None ELSE candidate
             /\ Goes("move")
          \/ IoErrors /\ Goes("clean") /\ candidate' \in {None, candidate}
     ELSE Goes("clean") /\ UNCHANGED candidate
  /\ UNCHANGED <<feedVars, staged, temporary, placed, record, taken>>

Place ==
  IF ForRunning
  THEN candidate' = staged /\ UNCHANGED placed
  ELSE placed' = [placed EXCEPT ![BaseOf[staged]] = staged] /\ UNCHANGED candidate

\* durable_move: the copy may be in place and the private file still be there.
Move ==
  /\ pc = "move"
  /\ \/ /\ Size[staged] <= Free
        /\ Place
        /\ \/ staged' = None /\ Goes(IF ForRunning THEN "record" ELSE "clean")
           \/ IoErrors /\ UNCHANGED staged /\ Goes("clean")
        /\ UNCHANGED temporary
     \/ /\ IoErrors
        /\ temporary' \in {temporary, temporary + Size[staged]}
        /\ Goes("clean") /\ UNCHANGED <<staged, placed, candidate>>
  /\ UNCHANGED <<feedVars, record, taken>>

\* A store that fails may have written the record all the same.
Record ==
  /\ pc = "record"
  /\ \/ record' = VersionOf[candidate] /\ UNCHANGED candidate
     \/ IoErrors /\ record' \in {record, VersionOf[candidate]} /\ candidate' \in {None, candidate}
  /\ Goes("clean")
  /\ UNCHANGED <<feedVars, staged, temporary, placed, taken>>

\* `let _ = durable_remove` and clear_staged.
Clean ==
  /\ pc = "clean"
  /\ staged' \in {None} \cup (IF IoErrors THEN {staged} ELSE {})
  /\ Returns
  /\ UNCHANGED <<feedVars, temporary, placed, candidate, record, taken>>
--------------------------------------------------------------------------------
\* The agent is killed, or the power goes.
Kill ==
  /\ pc # "idle"
  /\ \/ UNCHANGED temporary
     \/ pc \in {"copy", "download"} /\ temporary' = temporary + budget
     \/ pc = "move" /\ temporary' = temporary + Size[staged]
  /\ Returns
  /\ UNCHANGED <<feedVars, staged, placed, candidate, record, taken>>

\* The candidate is activated (ExtensionAgent).
Activated ==
  /\ pc = "idle" /\ candidate # None /\ record = VersionOf[candidate]
  /\ candidate' = None /\ record' = None
  /\ UNCHANGED <<feedVars, staged, temporary, placed, taken, command>>

\* Others write to the filesystem, no more than the margin.
Take ==
  /\ taken' \in (0..Margin) \ {taken}
  /\ UNCHANGED <<feedVars, files, record, command>>

StagingStep ==
  \/ Reconcile \/ Copy \/ Digest \/ Check \/ List \/ Download
  \/ Validate \/ Admit \/ Move \/ Record \/ Clean \/ Kill \/ Activated \/ Take
  \/ \E c \in Supplies : Open(c) \/ Rewrite(c)

FeedStep == FeedNext /\ UNCHANGED <<files, record, taken, command>>

Next == FeedStep \/ StagingStep \/ \E q \in Requests : Start(q)

Spec == Init /\ [][Next]_vars
--------------------------------------------------------------------------------
(***************************************************************************)
(* Properties.                                                             *)
(***************************************************************************)
\* Every variable stays within the shape the code gives it; what is cut short is
\* at most one copy.
TypeOK ==
  /\ FeedTypeOK
  /\ source \in Supplies \cup {None}
  /\ staged \in Contents \cup {None}
  /\ temporary \in {0, MaxAcquired} \cup {Size[c] : c \in Contents}
  /\ placed \in [Incoming -> Contents \cup {None}]
  /\ candidate \in Contents \cup {None}
  /\ record \in Versions \cup {None}
  /\ taken \in 0..Margin
  /\ pc \in {"idle", "reconcile", "open", "copy", "digest", "check", "list", "download",
             "validate", "admit", "move", "record", "clean"}
  /\ request \in Requests \cup {NoRequest}
  /\ selected \in Names \cup {None}
  /\ budget \in Nat

\* CARBIDE-AGENT.md: an image is "validated and promoted".  Whatever a caller
\* hands in or the feed serves, under the name a base merges or an activation
\* looks for there is only an image that was accepted, and of that very base.
OnlyValidatedIsPlaced ==
  /\ \A b \in Incoming : placed[b] # None => placed[b] \in Trusted /\ BaseOf[placed[b]] = b
  /\ candidate # None => candidate \in Trusted /\ BaseOf[candidate] = Running /\ VersionOf[candidate] # None

\* ops.rs: "Binding validation to this private durable copy prevents a caller
\* from replacing its source path between digesting and copying."  What a
\* command places has the digest and is for the base its caller named, whatever
\* the caller writes to its file meanwhile.
Asked(b, c) == request.base \in {None, b} /\ (Supplied => c = request.digest)
PlacedIsAsked ==
  [][/\ candidate' \notin {candidate, None} => Asked(Running, candidate')
     /\ \A b \in Incoming : placed'[b] # placed[b] => Asked(b, placed'[b])]_vars

\* system.rs: "staging is refused unless the candidate demonstrably fits".  A
\* command that was let through finds the space for each copy it makes, what
\* earlier ones left behind and others take meanwhile included.
AdmittedFits ==
  /\ pc \in {"copy", "download"} => budget <= Free
  /\ pc = "admit" /\ Supplied => Size[staged] + Rollback(BaseOf[staged]) <= Free
  /\ pc = "move" => Size[staged] <= Free

\* What scripts/package makes of the releases it packages one after the other: an image
\* is named for the base it declares, and after the feed's own name; no image goes by two
\* names; the revisions of a base that is still offered only grow.
FeedGrows ==
  /\ \A r \in Releases, n \in Names : Signed[r][n] # None =>
       BaseOf[Signed[r][n]] = n.base /\ Signed[r][n] \notin Supplies
  /\ \A q, r \in Releases, m, n \in Names :
       Signed[q][m] # None /\ Signed[q][m] = Signed[r][n] => m = n
  /\ \A q, r \in Releases, b \in Bases : q <= r /\ Images(b, Named(r)) # {} =>
       \A m \in Images(b, Named(q)) : \E n \in Images(b, Named(r)) : m.number <= n.number

\* An acquisition that leaves the revision to the feed never goes back to an
\* older one, whatever is published, retired or pruned meanwhile.
RevisionsOf(c) ==
  {n \in Names : c # None /\ IsRevision(n) /\ \E r \in Releases : Signed[r][n] = c}
NoDowngrade ==
  [][~Supplied /\ request.version = None =>
       \A b \in Incoming : \A m \in RevisionsOf(placed[b]), n \in RevisionsOf(placed'[b]) :
         m.number <= n.number]_vars
================================================================================
