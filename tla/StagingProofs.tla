----------------------------- MODULE StagingProofs -----------------------------
(***************************************************************************)
(* What is proved of staging and of the feed it acquires from: for any     *)
(* bases, contents, releases, sizes and capacity, with and without failing *)
(* file operations.                                                        *)
(***************************************************************************)
EXTENDS Staging, FiniteSetTheorems, TLAPS

\* What a publish has uploaded stays until the manifest is up, and a prune of
\* the live release leaves alone what it names.
Uploaded ==
  /\ script = "publish" =>
       \A n \in Named(directory) \ left : objects[n] = Signed[directory][n]
  /\ script = "activate" =>
       /\ signature = directory
       /\ \A n \in Named(directory) : objects[n] = Signed[directory][n]
  /\ script = "prune" =>
       /\ signature = directory /\ manifest = directory
       /\ left \cap Named(directory) = {}

FeedInv == FeedTypeOK /\ Uploaded /\ OfferedIsServed

\* The bucket of a fresh feed holds the one release it serves.
LEMMA FeedInitially == FeedInit => FeedInv
  BY FeedAssumption
  DEF FeedInit, FeedInv, FeedTypeOK, Uploaded, OfferedIsServed, Offered, Served, Named, Releases

\* The scripts only ever add a payload of the release they publish, or take one
\* away that the live one does not name.
LEMMA FeedInductive ==
  ASSUME FeedInv, FeedNext \/ UNCHANGED feedVars
  PROVE  FeedInv'
<1> USE FeedAssumption DEF FeedInv, FeedTypeOK, Uploaded, Releases
<1>1. CASE Package
  BY <1>1 DEF Package, OfferedIsServed, Offered, Served, Named
<1>2. CASE Publish
  BY <1>2 DEF Publish, OfferedIsServed, Offered, Served, Named
<1>3. CASE Sign
  <2>1. FeedTypeOK' /\ Uploaded'
    BY <1>3 DEF Sign, Named
  <2>2. OfferedIsServed'
    BY <1>3 DEF Sign, OfferedIsServed, Offered, Served, Named
  <2> QED BY <2>1, <2>2
<1>4. CASE Activate
  <2>1. FeedTypeOK' /\ Uploaded'
    BY <1>4 DEF Activate, Ends
  <2>2. OfferedIsServed'
    BY <1>4 DEF Activate, Ends, OfferedIsServed, Offered, Served, Named
  <2> QED BY <2>1, <2>2
<1>5. CASE Prune
  BY <1>5 DEF Prune, Present, OfferedIsServed, Offered, Served, Named
<1>6. CASE Interrupt
  BY <1>6 DEF Interrupt, Ends, OfferedIsServed, Offered, Served, Named
<1>7. ASSUME NEW n \in Names, Upload(n)
      PROVE  FeedInv'
  <2>1. FeedTypeOK' /\ Uploaded'
    BY <1>7 DEF Upload, Ends, Named
  <2>2. \A m \in Names : objects[m] # None => objects'[m] = objects[m]
    BY <1>7 DEF Upload
  <2>3. OfferedIsServed'
    BY <1>7, <2>2 DEF Upload, OfferedIsServed, Offered, Served, Named
  <2> QED BY <2>1, <2>3
<1>8. ASSUME NEW n \in Names, Delete(n)
      PROVE  FeedInv'
  <2>1. FeedTypeOK' /\ Uploaded'
    BY <1>8 DEF Delete, Named
  <2>2. n \notin Named(manifest)
    BY <1>8 DEF Delete
  <2>3. OfferedIsServed'
    BY <1>8, <2>2 DEF Delete, OfferedIsServed, Offered, Served, Named
  <2> QED BY <2>1, <2>3
<1>9. CASE UNCHANGED feedVars
  BY <1>9 DEF feedVars, OfferedIsServed, Offered, Served, Named
<1> QED
  BY <1>1, <1>2, <1>3, <1>4, <1>5, <1>6, <1>7, <1>8, <1>9 DEF FeedNext

\* A step of staging, and one that begins a command, leave the feed alone.
LEMMA FeedSteps == [Next]_vars => FeedNext \/ UNCHANGED feedVars
  BY DEF Next, FeedStep, StagingStep, Start, Reconcile, Open, Rewrite, Copy, Digest, Check, List,
    Download, Validate, Admit, Move, Record, Clean, Kill, Activated, Take, vars

\* README.md: what a node can verify it is served, whichever script was
\* interrupted where.
THEOREM FeedIsServed == Spec => []OfferedIsServed
<1>1. Init => FeedInv
  BY FeedInitially DEF Init
<1>2. FeedInv /\ [Next]_vars => FeedInv'
  BY FeedInductive, FeedSteps
<1> QED
  BY <1>1, <1>2, PTL DEF Spec, FeedInv
--------------------------------------------------------------------------------
\* What each step of the command has established for the next.
Established ==
  /\ pc # "idle" => request \in Requests
  /\ pc \in {"check", "list", "download"} => ~Supplied
  /\ pc \in {"copy", "digest"} => source \in Supplies
  /\ pc = "copy" => \E c \in Supplies : budget = Size[c]
  /\ pc \in {"list", "download"} => budget = MaxAcquired
  /\ pc = "download" => selected \in Names
  /\ pc \notin {"idle", "reconcile", "clean"} => temporary = 0
  /\ pc \in {"digest", "validate", "admit", "move"} => staged \in Contents
  /\ pc \in {"validate", "admit", "move"} /\ Supplied => staged = request.digest
  /\ pc \in {"admit", "move"} => Valid(staged)
  /\ pc = "record" => candidate # None

StagingInv == FeedInv /\ TypeOK /\ OnlyValidatedIsPlaced /\ Established

\* A node starts with nothing staged.
LEMMA StagingInitially == Init => StagingInv
<1> SUFFICES ASSUME Init PROVE StagingInv
  OBVIOUS
<1>1. FeedInv
  BY FeedInitially DEF Init
<1>2. TypeOK
  BY <1>1, SpaceAssumption DEF Init, TypeOK, FeedInv
<1> QED
  BY <1>1, <1>2 DEF Init, StagingInv, OnlyValidatedIsPlaced, Established

\* What the types of a request and of a content say.
LEMMA Typed ==
  /\ \A q \in Requests : q.digest \in Contents \cup {None} /\ q.base \in Bases \cup {None}
  /\ \A c \in Supplies : c \in Contents /\ c # None
  /\ \A c \in Contents : c # None /\ Size[c] \in Nat /\ BaseOf[c] \in Bases \cup {None}
  BY FeedAssumption, ContentsAssumption DEF Requests, Bases

\* A content that is valid for the request goes where it declares it belongs.
LEMMA ValidGoesWhere ==
  ASSUME NEW c \in Contents, Valid(c)
  PROVE  /\ c \in Trusted
         /\ BaseOf[c] = Running \/ BaseOf[c] \in Incoming
         /\ request.base \in {None, BaseOf[c]}
         /\ BaseOf[c] = Running => VersionOf[c] \in Versions
  BY Typed DEF Valid, Bases, Versions

\* Every step keeps it.
LEMMA StagingInductive ==
  ASSUME StagingInv, [Next]_vars
  PROVE  StagingInv'
<1>f. FeedInv'
  BY FeedInductive, FeedSteps DEF StagingInv
<1>t. FeedTypeOK'
  BY <1>f DEF FeedInv
<1> USE SpaceAssumption, Typed, <1>f, <1>t
<1> USE DEF StagingInv, TypeOK, Established
<1>1. ASSUME NEW q \in Requests, Start(q)
      PROVE  StagingInv'
  BY <1>1 DEF Start, files, OnlyValidatedIsPlaced
<1>2. CASE Reconcile
  BY <1>2 DEF Reconcile, Goes, Returns, NoRequest, Supplied, OnlyValidatedIsPlaced
<1>3. ASSUME NEW c \in Supplies, Open(c)
      PROVE  StagingInv'
  BY <1>3 DEF Open, Returns, files, OnlyValidatedIsPlaced, Supplied
<1>4. ASSUME NEW c \in Supplies, Rewrite(c)
      PROVE  StagingInv'
  BY <1>4 DEF Rewrite, files, OnlyValidatedIsPlaced, Supplied
<1>5. CASE Copy
  BY <1>5 DEF Copy, Goes, Returns, OnlyValidatedIsPlaced, Supplied
<1>6. CASE Digest
  BY <1>6 DEF Digest, Goes, files, OnlyValidatedIsPlaced, Supplied
<1>7. CASE Check
  BY <1>7 DEF Check, Returns, files, OnlyValidatedIsPlaced, Supplied
<1>8. CASE List
  <2>1. NewestForBase(request.base, Offered) \subseteq Names
    BY DEF NewestForBase, Images, Offered, Named
  <2>2. selected' \in Names \cup {None}
    BY <1>8, <2>1 DEF List, Requests, Supplied
  <2> QED
    BY <1>8, <2>2 DEF List, Returns, files, OnlyValidatedIsPlaced, Supplied
<1>9. CASE Download
  <2>1. CASE /\ selected \in Offered /\ Served(selected)
             /\ staged' = objects[selected] /\ UNCHANGED temporary
    <3>1. staged' \in Contents
      BY <2>1, <1>t, FeedAssumption DEF Offered, Named, Served, FeedInv, FeedTypeOK
    <3> QED
      <4>1. temporary' = 0 /\ pc' \in {"validate", "clean"}
        BY <1>9, <2>1 DEF Download, Goes
      <4>2. UNCHANGED <<request, selected, budget, source, placed, candidate, record, taken>>
        BY <1>9 DEF Download, Goes
      <4>3. request \in Requests /\ request.digest = None
        BY <1>9 DEF Download, Supplied
      <4>4. Established'
        BY <3>1, <4>1, <4>2, <4>3 DEF Supplied
      <4>5. TypeOK'
        BY <3>1, <4>1, <4>2
      <4> HIDE DEF TypeOK, Established
      <4> QED
        BY <4>2, <4>4, <4>5 DEF OnlyValidatedIsPlaced
  <2>2. CASE staged' = staged /\ Goes("clean")
    <3>1. temporary' \in {0, budget} /\ budget = MaxAcquired
      BY <1>9, <2>2 DEF Download
    <3> QED
      BY <1>9, <2>2, <3>1 DEF Download, Goes, OnlyValidatedIsPlaced, Supplied
  <2> QED
    BY <1>9, <2>1, <2>2 DEF Download
<1>10. CASE Validate
  BY <1>10 DEF Validate, Goes, files, OnlyValidatedIsPlaced, Supplied, Valid
<1>11. CASE Admit
  BY <1>11 DEF Admit, Goes, OnlyValidatedIsPlaced, Supplied, Valid
<1>12. CASE Move
  <2>1. staged \in Contents /\ Valid(staged)
    BY <1>12 DEF Move
  <2>2. CASE Place /\ temporary' = temporary
    <3>1. /\ placed' \in [Incoming -> Contents \cup {None}]
          /\ candidate' \in Contents \cup {None}
          /\ OnlyValidatedIsPlaced'
      BY <2>1, <2>2, ValidGoesWhere DEF Place, ForRunning, OnlyValidatedIsPlaced, Versions
    <3>2. ForRunning => candidate' # None
      BY <2>1, <2>2 DEF Place
    <3> QED
      BY <1>12, <2>1, <2>2, <3>1, <3>2 DEF Move, Goes, Supplied
  <2>3. CASE UNCHANGED <<staged, placed, candidate>> /\ Goes("clean")
    BY <1>12, <2>1, <2>3 DEF Move, Goes, OnlyValidatedIsPlaced, Supplied
  <2> QED
    BY <1>12, <2>2, <2>3 DEF Move
<1>13. CASE Record
  BY <1>13 DEF Record, Goes, OnlyValidatedIsPlaced, Supplied, Versions
<1>14. CASE Clean
  BY <1>14 DEF Clean, Returns, OnlyValidatedIsPlaced
<1>15. CASE Kill
  BY <1>15 DEF Kill, Returns, OnlyValidatedIsPlaced
<1>16. CASE Activated
  BY <1>16 DEF Activated, command, OnlyValidatedIsPlaced
<1>17. CASE Take
  BY <1>17 DEF Take, files, command, OnlyValidatedIsPlaced, Supplied, Valid
<1>18. CASE FeedStep
  BY <1>18 DEF FeedStep, files, command, OnlyValidatedIsPlaced, Supplied, Valid
<1>19. CASE UNCHANGED vars
  BY <1>19 DEF vars, files, command, OnlyValidatedIsPlaced, Supplied, Valid
<1> QED
  BY <1>1, <1>2, <1>3, <1>4, <1>5, <1>6, <1>7, <1>8, <1>9, <1>10, <1>11, <1>12, <1>13, <1>14,
    <1>15, <1>16, <1>17, <1>18, <1>19
  DEF Next, StagingStep

\* staging of a node, with everything its command has established on the way.
LEMMA Inductive == Spec => []StagingInv
  BY StagingInitially, StagingInductive, PTL DEF Spec

\* Every variable stays within the shape the code gives it, one copy that was
\* cut short included.
THEOREM TypeCorrect == Spec => []TypeOK
  BY Inductive, PTL DEF StagingInv

\* CARBIDE-AGENT.md, "validated and promoted": whatever is handed in or served,
\* only an accepted image is under the name of the base it declares.
THEOREM ValidatedIsPlaced == Spec => []OnlyValidatedIsPlaced
  BY Inductive, PTL DEF StagingInv

\* Only the last steps of a command put an image anywhere.
LEMMA MoveIsAsked ==
  ASSUME StagingInv, Move
  PROVE  /\ candidate' \notin {candidate, None} => Asked(Running, candidate')
         /\ \A b \in Incoming : placed'[b] # placed[b] => Asked(b, placed'[b])
<1>1. staged \in Contents /\ Valid(staged) /\ (Supplied => staged = request.digest)
  BY DEF StagingInv, Established, Move
<1>2. \/ UNCHANGED <<candidate, placed>>
      \/ Place
  BY DEF Move
<1>3. placed \in [Incoming -> Contents \cup {None}]
  BY DEF StagingInv, TypeOK
<1> QED
  BY <1>1, <1>2, <1>3, ValidGoesWhere DEF Place, ForRunning, Asked

\* Only the placing step places an image.
LEMMA NothingElsePlaces ==
  ASSUME [Next]_vars, ~Move
  PROVE  candidate' \in {candidate, None} /\ UNCHANGED placed
<1> USE DEF files, command, vars
<1>1. CASE FeedStep
  BY <1>1 DEF FeedStep
<1>2. CASE StagingStep
  BY <1>2 DEF StagingStep, Reconcile, Open, Rewrite, Copy, Digest, Check, List, Download,
    Validate, Admit, Record, Clean, Kill, Activated, Take
<1> QED
  BY <1>1, <1>2 DEF Next, Start

\* ops.rs: "Binding validation to this private durable copy prevents a caller
\* from replacing its source path between digesting and copying."
THEOREM PlacedIsWhatWasAsked == Spec => PlacedIsAsked
<1>1. StagingInv /\ [Next]_vars =>
        [/\ candidate' \notin {candidate, None} => Asked(Running, candidate')
         /\ \A b \in Incoming : placed'[b] # placed[b] => Asked(b, placed'[b])]_vars
  BY MoveIsAsked, NothingElsePlaces
<1> QED
  BY Inductive, <1>1, PTL DEF Spec, PlacedIsAsked
--------------------------------------------------------------------------------
(***************************************************************************)
(* Space.                                                                  *)
(***************************************************************************)
\* What is free as long as nobody else takes any, and the most that a request can
\* need to retain the outgoing image.
Room == Capacity - temporary - SizeOf(staged) - SizeOf(candidate) - Cardinality(PlacedBytes)
MostRollback == IF request.base = None THEN RollbackSize ELSE Rollback(request.base)

\* What each check has found room for and the steps since have not used, the margin
\* that others may take included.
SpaceInv ==
  /\ pc \in {"open", "copy", "check", "list", "download"} => staged = None
  /\ pc = "copy" => 2 * budget + MostRollback + Margin <= Room
  /\ pc \in {"list", "download"} => budget + Margin <= Room
  /\ pc \in {"digest", "validate", "admit"} /\ Supplied =>
       Size[staged] + MostRollback + Margin <= Room
  /\ pc = "move" => Size[staged] + Margin <= Room

\* The images in place take a number of bytes.
LEMMA PlacedFinite ==
  ASSUME StagingInv
  PROVE  Cardinality(PlacedBytes) \in Nat
<1> DEFINE bytes == [b \in Incoming |-> {b} \X (1 .. SizeOf(placed[b]))]
           parts == {{b} \X (1 .. SizeOf(placed[b])) : b \in Incoming}
<1>1. IsFiniteSet(Incoming)
  BY BasesAssumption
<1>2. bytes \in Surjection(Incoming, parts)
  BY DEF Surjection
<1>3. IsFiniteSet(parts)
  <2> HIDE DEF bytes, parts
  <2> QED
    BY <1>1, <1>2, FS_Surjection
<1>4. ASSUME NEW T \in parts PROVE IsFiniteSet(T)
  <2>1. PICK b \in Incoming : T = {b} \X (1 .. SizeOf(placed[b]))
    OBVIOUS
  <2>2. SizeOf(placed[b]) \in Nat
    BY Typed DEF SizeOf, StagingInv, TypeOK
  <2>3. IsFiniteSet({b})
    BY FS_Singleton
  <2>4. IsFiniteSet(1 .. SizeOf(placed[b]))
    <3> DEFINE n == SizeOf(placed[b])
    <3>1. n \in Int
      BY <2>2
    <3> HIDE DEF n
    <3>2. IsFiniteSet(1 .. n)
      BY <3>1, FS_Interval
    <3> QED
      BY <3>2 DEF n
  <2> QED
    BY <2>1, <2>3, <2>4, FS_Product
<1>5. PlacedBytes = UNION parts
  BY DEF PlacedBytes
<1> HIDE DEF parts
<1> QED
  BY <1>3, <1>4, <1>5, FS_UNION, FS_CardinalityType

\* So that what is free is a number.
LEMMA RoomInt ==
  ASSUME StagingInv
  PROVE  /\ Room \in Int /\ Free = Room - taken /\ taken \in 0 .. Margin
         /\ \A c \in Contents : Size[c] \in Nat /\ SizeOf(c) = Size[c]
         /\ SizeOf(None) = 0 /\ SizeOf(staged) \in Nat /\ SizeOf(candidate) \in Nat
         /\ temporary \in Nat /\ MostRollback \in Nat /\ budget \in Nat
         /\ \A b : Rollback(b) \in Nat /\ Rollback(b) <= RollbackSize
<1> USE SpaceAssumption, Typed DEF StagingInv, TypeOK
<1>1. /\ \A c \in Contents : Size[c] \in Nat /\ SizeOf(c) = Size[c]
      /\ SizeOf(None) = 0 /\ SizeOf(staged) \in Nat /\ SizeOf(candidate) \in Nat
  BY DEF SizeOf
<1>2. temporary \in Nat /\ budget \in Nat /\ taken \in 0 .. Margin
  OBVIOUS
<1>3. \A b : Rollback(b) \in Nat /\ Rollback(b) <= RollbackSize
  BY DEF Rollback
<1>4. MostRollback \in Nat
  BY <1>3 DEF MostRollback
<1>5. Room \in Int /\ Free = Room - taken
  <2>1. Capacity \in Nat /\ taken \in Int
    OBVIOUS
  <2> QED
    BY <1>1, <1>2, <2>1, PlacedFinite DEF Room, Free
<1> QED
  BY <1>1, <1>2, <1>3, <1>4, <1>5

\* Every step keeps it.
LEMMA SpaceInductive ==
  ASSUME StagingInv, StagingInv', SpaceInv, [Next]_vars
  PROVE  SpaceInv'
<1> USE DEF SpaceInv, MostRollback, Supplied
<1>0. /\ Room \in Int /\ Free = Room - taken /\ taken \in 0 .. Margin /\ Margin \in Nat
      /\ \A c \in Contents : Size[c] \in Nat /\ SizeOf(c) = Size[c]
      /\ SizeOf(None) = 0 /\ SizeOf(candidate) \in Nat /\ MostRollback \in Nat /\ budget \in Nat
      /\ \A b : Rollback(b) \in Nat
  BY RoomInt, SpaceAssumption
<1>r. UNCHANGED <<staged, temporary, candidate, placed>> => Room' = Room
  BY DEF Room, PlacedBytes, SizeOf
<1>1. ASSUME NEW q \in Requests, Start(q) PROVE SpaceInv'
  BY <1>1 DEF Start
<1>2. CASE Reconcile
  BY <1>2 DEF Reconcile, Goes, Returns
<1>3. ASSUME NEW c \in Supplies, Open(c) PROVE SpaceInv'
  <2>1. pc' = "idle" \/ (/\ pc = "open" /\ pc' = "copy" /\ budget' = Size[c] /\ request' = request
                         /\ StagingSpace(Size[c], MostRollback) <= Free)
    BY <1>3 DEF Open, Returns
  <2>2. UNCHANGED <<staged, temporary, candidate, placed>>
    BY <1>3 DEF Open, files
  <2>3. Size[c] \in Nat
    BY Typed
  <2> QED
    BY <1>0, <1>r, <2>1, <2>2, <2>3 DEF StagingSpace
<1>4. CASE Copy
  <2>1. CASE /\ Size[source] <= budget /\ staged' = source /\ Goes("digest") /\ UNCHANGED temporary
    <3>1. /\ staged = None /\ source \in Contents /\ 2 * budget + MostRollback + Margin <= Room
          /\ UNCHANGED <<temporary, candidate, placed>> /\ request' = request
      BY <1>4, <2>1, Typed DEF Copy, Goes, StagingInv, Established
    <3>2. Room' = Room - Size[source]
      <4>1. PlacedBytes' = PlacedBytes /\ SizeOf(candidate') = SizeOf(candidate)
        BY <3>1 DEF PlacedBytes, SizeOf
      <4>2. SizeOf(staged) = 0 /\ SizeOf(staged') = Size[source]
        BY <1>0, <2>1, <3>1
      <4>3. /\ Capacity \in Nat /\ temporary \in Nat /\ SizeOf(candidate) \in Nat
            /\ Cardinality(PlacedBytes) \in Nat
        BY SpaceAssumption, RoomInt, PlacedFinite
      <4> QED
        BY <1>0, <3>1, <4>1, <4>2, <4>3 DEF Room
    <3> QED
      BY <1>0, <2>1, <3>1, <3>2 DEF Goes
  <2>2. CASE Returns
    BY <2>2 DEF Returns
  <2> QED
    BY <1>4, <2>1, <2>2 DEF Copy
<1>5. CASE Check
  <2>1. pc' = "idle" \/ (/\ pc = "check" /\ pc' = "list" /\ budget' = MaxAcquired
                         /\ MaxAcquired + Margin <= Free)
    BY <1>5 DEF Check, Returns
  <2>2. UNCHANGED <<staged, temporary, candidate, placed>>
    BY <1>5 DEF Check, files
  <2> QED
    BY <1>0, <1>r, <2>1, <2>2, SpaceAssumption
<1>6. CASE List
  <2>1. pc' = "idle" \/ (pc = "list" /\ pc' = "download" /\ budget' = budget)
    BY <1>6 DEF List, Returns
  <2>2. UNCHANGED <<staged, temporary, candidate, placed>>
    BY <1>6 DEF List, files
  <2> QED
    BY <1>r, <2>1, <2>2
<1>7. CASE Download
  <2>1. request' = request /\ pc' \in {"validate", "clean"} /\ request.digest = None
    BY <1>7 DEF Download, Goes, StagingInv, Established
  <2> QED
    BY <2>1
<1>8. CASE Digest \/ Validate
  <2>1. /\ request' = request /\ UNCHANGED <<staged, temporary, candidate, placed>>
        /\ \/ pc = "digest" /\ pc' \in {"validate", "clean"}
           \/ pc = "validate" /\ pc' \in {"admit", "clean"}
    BY <1>8 DEF Digest, Validate, Goes, files
  <2> QED
    BY <1>r, <2>1
<1>9. CASE Admit
  <2>1. CASE pc' = "move"
    <3>1. /\ ActivationSpace(Size[staged], Rollback(BaseOf[staged])) <= Free
          /\ UNCHANGED <<staged, temporary, placed>> /\ candidate' \in {None, candidate}
          /\ staged \in Contents
      BY <1>9, <2>1 DEF Admit, Goes, StagingInv, Established
    <3>2. SizeOf(candidate') <= SizeOf(candidate) /\ SizeOf(candidate') \in Nat
      BY <1>0, <3>1
    <3>3. Room' \in Int /\ Room' >= Room
      <4>1. PlacedBytes' = PlacedBytes /\ SizeOf(staged)' = SizeOf(staged)
        BY <3>1 DEF PlacedBytes, SizeOf
      <4>2. /\ Capacity \in Nat /\ temporary \in Nat /\ SizeOf(candidate) \in Nat
            /\ Cardinality(PlacedBytes) \in Nat /\ SizeOf(staged) \in Nat
        BY SpaceAssumption, RoomInt, PlacedFinite
      <4> QED
        BY <3>1, <3>2, <4>1, <4>2 DEF Room
    <3> QED
      BY <1>0, <2>1, <3>1, <3>3 DEF ActivationSpace
  <2>2. CASE pc' # "move"
    BY <1>9, <2>2 DEF Admit, Goes
  <2> QED
    BY <2>1, <2>2
<1>10. CASE Move \/ Record \/ Clean \/ Kill
  <2>1. pc' \in {"idle", "clean", "record"}
    BY <1>10 DEF Move, Record, Clean, Kill, Goes, Returns
  <2> QED
    BY <2>1
<1>11. CASE Activated
  BY <1>11 DEF Activated, command
<1>12. CASE Take \/ FeedStep \/ UNCHANGED vars \/ \E c \in Supplies : Rewrite(c)
  <2>1. UNCHANGED <<staged, temporary, candidate, placed, pc, request, budget>>
    BY <1>12 DEF Take, FeedStep, vars, files, command, Rewrite
  <2> QED
    BY <1>r, <2>1
<1> QED
  BY <1>1, <1>2, <1>3, <1>4, <1>5, <1>6, <1>7, <1>8, <1>9, <1>10, <1>11, <1>12
  DEF Next, StagingStep

\* system.rs: "staging is refused unless the candidate demonstrably fits": whatever earlier
\* commands left behind and others take meanwhile, a command that was let through has the
\* space for each copy it makes.
THEOREM WhatIsAdmittedFits == Spec => []AdmittedFits
<1>1. Init => SpaceInv
  BY DEF Init, SpaceInv
<1>2. StagingInv /\ SpaceInv => AdmittedFits
  <2> SUFFICES ASSUME StagingInv, SpaceInv PROVE AdmittedFits
    OBVIOUS
  <2> USE RoomInt, SpaceAssumption
  <2>1. pc \in {"copy", "download"} => budget <= Free
    BY DEF SpaceInv
  <2>2. pc = "admit" /\ Supplied => Size[staged] + Rollback(BaseOf[staged]) <= Free
    <3> SUFFICES ASSUME pc = "admit", Supplied
                 PROVE  Size[staged] + Rollback(BaseOf[staged]) <= Free
      OBVIOUS
    <3>1. staged \in Contents /\ Valid(staged)
      BY DEF StagingInv, Established
    <3>2. Rollback(BaseOf[staged]) <= MostRollback
      BY <3>1 DEF MostRollback, Valid
    <3> QED
      BY <3>1, <3>2 DEF SpaceInv
  <2>3. pc = "move" => Size[staged] <= Free
    BY DEF SpaceInv, StagingInv, Established
  <2> QED
    BY <2>1, <2>2, <2>3 DEF AdmittedFits
<1>3. StagingInv /\ SpaceInv /\ StagingInv' /\ [Next]_vars => SpaceInv'
  BY SpaceInductive
<1> QED
  BY <1>1, <1>2, <1>3, Inductive, PTL DEF Spec
--------------------------------------------------------------------------------
(***************************************************************************)
(* Revisions.                                                              *)
(***************************************************************************)
\* A content that a release up to the live one names n.
WasOffered(c, n) == \E q \in Releases : q <= manifest /\ Signed[q][n] = c

\* Whatever of the feed is in place has been offered by now, and what was selected as the
\* newest is no older than what is in place.
RevisionInv ==
  /\ manifest <= directory
  /\ pc \in {"open", "copy", "digest"} => Supplied
  /\ \A b \in Incoming : \A n \in RevisionsOf(placed[b]) : WasOffered(placed[b], n)
  /\ pc \in {"validate", "admit", "move"} /\ ~Supplied
       => selected \in Names /\ WasOffered(staged, selected)
  /\ pc \in {"download", "validate", "admit", "move"} /\ ~Supplied /\ request.version = None
       => /\ selected.base = request.base
          /\ \A b \in Incoming : b = request.base =>
               \A m \in RevisionsOf(placed[b]) : m.number <= selected.number

\* The live release is only ever replaced by a later one.
LEMMA ManifestGrows ==
  ASSUME FeedInv, manifest <= directory, FeedNext \/ UNCHANGED feedVars
  PROVE  manifest' <= directory' /\ \A q \in Releases : q <= manifest => q <= manifest'
<1>1. manifest \in Nat /\ directory \in Nat /\ \A q \in Releases : q \in Nat
  BY FeedAssumption DEF FeedInv, FeedTypeOK
<1>2. /\ manifest' \in {manifest, directory}
      /\ directory' = directory \/ (directory' = directory + 1 /\ manifest' = manifest)
  BY DEF FeedNext, Package, Publish, Sign, Activate, Prune, Interrupt, Upload, Delete, feedVars
<1> QED
  BY <1>1, <1>2

\* The newest image of a base is no older than any that was offered before.
LEMMA NewestIsNewest ==
  ASSUME FeedGrows, StagingInv, NEW b \in Bases, NEW n \in NewestForBase(b, Offered),
         NEW c \in Contents, NEW m \in RevisionsOf(c), BaseOf[c] = b, WasOffered(c, m)
  PROVE  n \in Names /\ n.base = b /\ m.number <= n.number
<1>1. PICK q \in Releases : q <= manifest /\ Signed[q][m] = c
  BY DEF WasOffered
<1>2. m \in Names /\ c # None /\ IsRevision(m)
  BY DEF RevisionsOf
<1>3. m \in Images(b, Named(q))
  BY <1>1, <1>2 DEF FeedGrows, Images, Named
<1>4. /\ n \in Images(b, Offered) /\ \A k \in Images(b, Offered) : k.number <= n.number
      /\ Offered = Named(manifest) /\ manifest \in Releases
  BY DEF NewestForBase, Images, Offered, StagingInv, TypeOK, FeedTypeOK
<1>5. PICK k \in Images(b, Named(manifest)) : m.number <= k.number
  BY <1>1, <1>3, <1>4 DEF FeedGrows
<1>6. n \in Names /\ n.base = b /\ k \in Names
  BY <1>4, <1>5 DEF Images, Named
<1>7. m.number \in Nat /\ k.number \in Nat /\ n.number \in Nat
  BY <1>2, <1>6, NamesAssumption
<1> QED
  BY <1>4, <1>5, <1>6, <1>7

\* What a command that acquires the newest puts in place is no older than what was there.
LEMMA MovedIsNewer ==
  ASSUME FeedGrows, StagingInv, RevisionInv, Move, NEW b \in Incoming
  PROVE  /\ \A n \in RevisionsOf(placed'[b]) : WasOffered(placed'[b], n)
         /\ ~Supplied /\ request.version = None =>
              \A m \in RevisionsOf(placed[b]), n \in RevisionsOf(placed'[b]) : m.number <= n.number
<1>1. /\ staged \in Contents /\ Valid(staged) /\ staged # None
      /\ Supplied => staged \in Supplies
      /\ placed \in [Incoming -> Contents \cup {None}]
      /\ ~Supplied => selected \in Names /\ WasOffered(staged, selected)
      /\ ~Supplied /\ request.version = None =>
           /\ selected.base = request.base
           /\ b = request.base => \A m \in RevisionsOf(placed[b]) : m.number <= selected.number
  BY Typed DEF Move, StagingInv, TypeOK, Established, RevisionInv, Supplied, Requests, NoRequest
<1>2. placed'[b] = placed[b] \/ (placed'[b] = staged /\ BaseOf[staged] = b)
  BY <1>1 DEF Move, Place
<1>3. CASE placed'[b] = placed[b]
  <2>1. \A m, n \in RevisionsOf(placed[b]) : m = n /\ m.number \in Nat
    BY NamesAssumption DEF FeedGrows, RevisionsOf
  <2>2. \A m \in RevisionsOf(placed[b]) : m.number <= m.number
    BY <2>1
  <2> QED
    BY <1>3, <2>1, <2>2 DEF RevisionInv
<1>4. CASE placed'[b] = staged /\ BaseOf[staged] = b
  <2>1. CASE Supplied
    <3>1. RevisionsOf(staged) = {}
      BY <1>1, <2>1 DEF FeedGrows, RevisionsOf
    <3> QED
      BY <1>4, <2>1, <3>1
  <2>2. CASE ~Supplied
    <3>1. ASSUME NEW n \in RevisionsOf(staged) PROVE n = selected
      <4>1. PICK q \in Releases : Signed[q][n] = staged
        BY DEF RevisionsOf
      <4>2. PICK r \in Releases : Signed[r][selected] = staged
        BY <1>1, <2>2 DEF WasOffered
      <4>3. n \in Names /\ selected \in Names
        BY <1>1, <2>2 DEF RevisionsOf
      <4> QED
        BY <1>1, <4>1, <4>2, <4>3 DEF FeedGrows
    <3>2. request.base = b
      <4>1. request \in Requests /\ Valid(staged)
        BY DEF StagingInv, Established, Move
      <4>2. request.base # None
        BY <2>2, <4>1, Typed, BasesAssumption DEF Requests, Supplied
      <4> QED
        BY <1>4, <4>1, <4>2 DEF Valid
    <3> QED
      BY <1>1, <1>4, <2>2, <3>1, <3>2
  <2> QED
    BY <2>1, <2>2
<1> QED
  BY <1>2, <1>3, <1>4

\* Every step keeps it.
LEMMA RevisionInductive ==
  ASSUME FeedGrows, StagingInv, RevisionInv, [Next]_vars
  PROVE  RevisionInv'
<1>1. /\ manifest' <= directory'
      /\ \A c, n : WasOffered(c, n) => WasOffered(c, n)'
  BY ManifestGrows, FeedSteps DEF StagingInv, RevisionInv, WasOffered
<1> USE DEF RevisionInv, Supplied
<1>2. CASE Move
  <2>1. /\ pc' \in {"record", "clean"}
        /\ UNCHANGED feedVars
    <3>1. (IF ForRunning THEN "record" ELSE "clean") \in {"record", "clean"}
      OBVIOUS
    <3> QED
      BY <1>2, <3>1 DEF Move, Goes
  <2>2. \A b \in Incoming : \A n \in RevisionsOf(placed'[b]) : WasOffered(placed'[b], n)
    BY <1>2, MovedIsNewer
  <2>3. \A b \in Incoming : \A n \in RevisionsOf(placed[b])' : WasOffered(placed[b], n)'
    BY <2>1, <2>2 DEF RevisionsOf, WasOffered, feedVars
  <2> QED
    BY <1>1, <2>1, <2>3
<1>3. CASE List
  <2>1. UNCHANGED <<feedVars, placed>> /\ pc = "list"
    BY <1>3 DEF List, files
  <2>2. CASE pc' = "idle"
    BY <1>1, <2>1, <2>2 DEF WasOffered, RevisionsOf
  <2>3. CASE pc' # "idle"
    <3>1. /\ pc' = "download" /\ request' = request /\ selected' # None
          /\ request.version = None => selected' \in NewestForBase(request.base, Offered)
      BY <1>3, <2>3 DEF List, Returns
    <3>2. request \in Requests /\ request.digest = None /\ request.base \in Bases
      BY <2>1, Typed DEF StagingInv, Established, Requests, Supplied
    <3>3. ASSUME request.version = None
          PROVE  /\ selected'.base = request.base
                 /\ \A b \in Incoming : b = request.base =>
                      \A m \in RevisionsOf(placed[b]) : m.number <= selected'.number
      <4>1. selected'.base = request.base
        BY <3>1, <3>3 DEF NewestForBase, Images
      <4>2. ASSUME NEW b \in Incoming, b = request.base, NEW m \in RevisionsOf(placed[b])
            PROVE  m.number <= selected'.number
        <5>1. placed[b] \in Contents /\ BaseOf[placed[b]] = b /\ WasOffered(placed[b], m)
          BY DEF RevisionsOf, StagingInv, TypeOK, OnlyValidatedIsPlaced
        <5> QED
          BY <3>1, <3>2, <3>3, <4>2, <5>1, NewestIsNewest
      <4> QED
        BY <4>1, <4>2
    <3> QED
      BY <1>1, <2>1, <3>1, <3>3 DEF WasOffered, RevisionsOf
  <2> QED
    BY <2>2, <2>3
<1>4. CASE Download
  <2>1. UNCHANGED <<feedVars, placed, request, selected>> /\ pc = "download" /\ selected \in Names
    BY <1>4 DEF Download, Goes, StagingInv, Established
  <2>2. pc' = "validate" =>
          /\ staged' = Signed[manifest][selected] /\ manifest \in Releases /\ manifest \in Nat
    BY <1>4, FeedAssumption DEF Download, Goes, Served, StagingInv, TypeOK, FeedTypeOK
  <2>3. pc' = "validate" => WasOffered(staged', selected)
    BY <2>2 DEF WasOffered
  <2>4. pc' \in {"validate", "clean"}
    BY <1>4 DEF Download, Goes
  <2> QED
    BY <1>1, <2>1, <2>3, <2>4 DEF WasOffered, RevisionsOf
<1>5. CASE \/ Reconcile \/ Copy \/ Digest \/ Check \/ Record \/ Clean \/ Kill \/ Activated
           \/ (\E c \in Supplies : Open(c)) \/ (\E q \in Requests : Start(q))
  <2>1. /\ placed' = placed
        /\ \/ pc' \notin {"download", "validate", "admit", "move"}
           \/ pc = "digest" /\ pc' = "validate" /\ request' = request
    <3>1. CASE Digest
      BY <3>1 DEF Digest, Goes, files
    <3>2. CASE \/ Reconcile \/ Copy \/ Check \/ Record \/ Clean \/ Kill \/ Activated
               \/ (\E c \in Supplies : Open(c)) \/ (\E q \in Requests : Start(q))
      <4>1. placed' = placed
        BY <3>2 DEF Reconcile, Copy, Check, Record, Clean, Kill, Activated, Open, Start, files
      <4>2. pc' \in {"reconcile", "open", "check", "copy", "digest", "list", "clean", "idle"}
        BY <3>2 DEF Reconcile, Copy, Check, Record, Clean, Kill, Activated, Open, Start, Goes,
          Returns, command
      <4> QED
        BY <4>1, <4>2
    <3> QED
      BY <1>5, <3>1, <3>2
  <2>2. pc' \in {"open", "copy", "digest"} => Supplied'
    BY <1>5 DEF Reconcile, Copy, Digest, Check, Record, Clean, Kill, Activated, Open, Start, Goes,
      Returns, files, command
  <2> QED
    BY <1>1, <2>1, <2>2 DEF RevisionsOf
<1>6. CASE \/ Validate \/ Admit \/ Take \/ FeedStep \/ UNCHANGED vars
           \/ (\E c \in Supplies : Rewrite(c))
  <2>1. /\ UNCHANGED <<placed, staged, request, selected>>
        /\ \/ pc' \in {pc, "clean"}
           \/ pc = "validate" /\ pc' = "admit"
           \/ pc = "admit" /\ pc' = "move"
    BY <1>6 DEF Validate, Admit, Take, FeedStep, Rewrite, Goes, files, command, vars
  <2> QED
    BY <1>1, <2>1 DEF RevisionsOf
<1> QED
  BY <1>2, <1>3, <1>4, <1>5, <1>6 DEF Next, StagingStep

\* PROTOCOL.md: without a version the agent "takes the highest n".  As long as the feed
\* grows, an acquisition that leaves the revision to it never goes back to an older one,
\* whatever is published, retired or pruned between its steps.
THEOREM AcquisitionsGoForward ==
  ASSUME FeedGrows
  PROVE  Spec => NoDowngrade
<1>1. Init => RevisionInv
  BY FeedAssumption DEF Init, FeedInit, RevisionInv, RevisionsOf
<1>2. StagingInv /\ RevisionInv /\ [Next]_vars =>
        [~Supplied /\ request.version = None =>
           \A b \in Incoming : \A m \in RevisionsOf(placed[b]), n \in RevisionsOf(placed'[b]) :
             m.number <= n.number]_vars
  <2> SUFFICES ASSUME StagingInv, RevisionInv, [Next]_vars, ~Supplied, request.version = None,
                      NEW b \in Incoming, NEW m \in RevisionsOf(placed[b]),
                      NEW n \in RevisionsOf(placed'[b])
               PROVE  m.number <= n.number
    OBVIOUS
  <2>1. CASE Move
    BY <2>1, MovedIsNewer
  <2>2. CASE ~Move
    <3>1. n \in RevisionsOf(placed[b])
      BY <2>2, NothingElsePlaces
    <3>2. m = n /\ m.number \in Nat
      BY <3>1, NamesAssumption DEF FeedGrows, RevisionsOf
    <3> QED
      BY <3>2
  <2> QED
    BY <2>1, <2>2
<1> QED
  BY <1>1, <1>2, RevisionInductive, Inductive, PTL DEF Spec, NoDowngrade
================================================================================
