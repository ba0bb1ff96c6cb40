---------------------------- MODULE InstallerWrite ----------------------------
(***************************************************************************)
(* The installer's write path (installer/src/image.rs, install.rs, and the *)
(* parts of main.rs and ui/app.slint that start it and report it).         *)
(*                                                                         *)
(* One thread decodes the carried image into memory and publishes how far  *)
(* it has come.  Once the operator has confirmed the erasure of a disk, a  *)
(* second thread has several workers copy the image to it, span by span,   *)
(* while the interface polls its progress.                                 *)
(*                                                                         *)
(* The image is counted in blocks.  Of the disk, only what this write has  *)
(* done to each span is kept: the previous contents, and discarding them,  *)
(* make no difference to it.                                               *)
(***************************************************************************)
EXTENDS Naturals, FiniteSets

CONSTANTS
  Workers,  \* threads that write
  Total,    \* blocks of the image
  Span      \* blocks of a span

ASSUME WorkersAssumption == Workers # {}
ASSUME SizesAssumption == Total \in Nat \ {0} /\ Span \in Nat \ {0}

Spans == (Total + Span - 1) \div Span
SpanEnd(i) == IF (i + 1) * Span < Total THEN (i + 1) * Span ELSE Total

VARIABLES
  image,    \* whether the payload could be opened
  decoder,  \* what the decode thread is doing
  decoded,  \* blocks it has put into the buffer
  ready,    \* Image.ready
  broken,   \* Image.failed
  screen,   \* the phase the interface shows
  writer,   \* what the thread of install::run is doing
  next,     \* the next span to claim
  failure,  \* whether a worker has failed
  worker,   \* what each worker is doing
  index,    \* the span it has claimed
  disk,     \* what this write has done to each span
  progress  \* Progress: finished, error, and written in blocks

decoding == <<image, decoder, decoded, ready, broken>>
writing == <<next, failure, worker, index, disk>>
vars == <<decoding, screen, writer, writing, progress>>

NoProgress == [finished |-> FALSE, error |-> FALSE, written |-> 0]
Untouched == [i \in 0 .. Spans - 1 |-> "old"]

Init ==
  /\ image \in BOOLEAN
  /\ decoder = (IF image THEN "decode" ELSE "ended")
  /\ decoded = 0 /\ ready = 0 /\ broken = FALSE
  /\ screen = (IF image THEN "target" ELSE "failure")
  /\ writer = "none" /\ next = 0 /\ failure = FALSE
  /\ worker = [w \in Workers |-> "done"] /\ index = [w \in Workers |-> 0]
  /\ disk = Untouched /\ progress = NoProgress
-------------------------------------------------------------------------------
(***************************************************************************)
(* The decode thread.                                                      *)
(***************************************************************************)
\* Blocks are put into the buffer first, or the frame turns out to be damaged.
Decode ==
  /\ decoder = "decode"
  /\ \/ decoded' \in decoded + 1 .. Total /\ decoder' = "publish" /\ UNCHANGED broken
     \/ decoder' = "ended" /\ broken' = TRUE /\ UNCHANGED decoded
  /\ UNCHANGED <<image, ready, screen, writer, writing, progress>>

\* Slip: a payload that ends early is not told from one that is complete.
PublishShort ==
  /\ decoder = "publish"
  /\ ready' = decoded
  /\ decoder' \in {"ended"} \cup IF decoded = Total THEN {} ELSE {"decode"}
  /\ UNCHANGED <<image, decoded, broken, screen, writer, writing, progress>>

\* Then they are published.  The payload may end before the image is complete.
Publish ==
  /\ decoder = "publish"
  /\ ready' = decoded
  /\ \/ decoded < Total /\ decoder' = "decode" /\ UNCHANGED broken
     \/ decoder' = "ended" /\ broken' = (decoded < Total)
  /\ UNCHANGED <<image, decoded, screen, writer, writing, progress>>

-------------------------------------------------------------------------------
(***************************************************************************)
(* The workers.                                                            *)
(***************************************************************************)
\* Another worker's failure ends the work.
Look(w) ==
  /\ worker[w] = "look"
  /\ worker' = [worker EXCEPT ![w] = IF failure THEN "done" ELSE "claim"]
  /\ UNCHANGED <<decoding, screen, writer, next, failure, index, disk, progress>>

\* Slip: the last span is taken for one more.
ClaimOneMore(w) ==
  /\ worker[w] = "claim"
  /\ next' = next + 1 /\ index' = [index EXCEPT ![w] = next]
  /\ worker' = [worker EXCEPT ![w] = IF next > Spans THEN "done" ELSE "wait"]
  /\ UNCHANGED <<decoding, screen, writer, failure, disk, progress>>

\* fetch_add gives each span to one worker.
Claim(w) ==
  /\ worker[w] = "claim"
  /\ next' = next + 1 /\ index' = [index EXCEPT ![w] = next]
  /\ worker' = [worker EXCEPT ![w] = IF next >= Spans THEN "done" ELSE "wait"]
  /\ UNCHANGED <<decoding, screen, writer, failure, disk, progress>>

Fails(w) == failure' = TRUE /\ worker' = [worker EXCEPT ![w] = "done"]

\* Slip: the worker waits for the beginning of its span.
WaitForOffset(w) ==
  /\ \/ /\ worker[w] = "wait"
        /\ worker' = [worker EXCEPT ![w] = IF ready >= index[w] * Span THEN "write" ELSE "ask"]
        /\ UNCHANGED failure
     \/ /\ worker[w] = "ask"
        /\ IF broken THEN Fails(w)
           ELSE worker' = [worker EXCEPT ![w] = "wait"] /\ UNCHANGED failure
  /\ UNCHANGED <<decoding, screen, writer, next, index, disk, progress>>

\* wait_until: watch the watermark, and after each look ask for an error.
Wait(w) ==
  /\ \/ /\ worker[w] = "wait"
        /\ worker' = [worker EXCEPT ![w] = IF ready >= SpanEnd(index[w]) THEN "write" ELSE "ask"]
        /\ UNCHANGED failure
     \/ /\ worker[w] = "ask"
        /\ IF broken THEN Fails(w)
           ELSE worker' = [worker EXCEPT ![w] = "wait"] /\ UNCHANGED failure
  /\ UNCHANGED <<decoding, screen, writer, next, index, disk, progress>>

\* Copy the span from the buffer, whatever it holds.  A write that fails may have
\* written a part.
Write(w) ==
  /\ worker[w] = "write"
  /\ \/ /\ disk' = [disk EXCEPT ![index[w]] =
                      IF decoded >= SpanEnd(index[w]) THEN "cached" ELSE "garbage"]
        /\ worker' = [worker EXCEPT ![w] = "count"] /\ UNCHANGED failure
     \/ /\ disk' \in {disk, [disk EXCEPT ![index[w]] = "partial"]}
        /\ Fails(w)
  /\ UNCHANGED <<decoding, screen, writer, next, index, progress>>

\* Slip: the end of the span is stored in place of being added up.
CountStored(w) ==
  /\ worker[w] = "count"
  /\ progress' = [progress EXCEPT !.written = SpanEnd(index[w])]
  /\ worker' = [worker EXCEPT ![w] = "look"]
  /\ UNCHANGED <<decoding, screen, writer, next, failure, index, disk>>

\* Spans may be done in any order; each adds its length.
Count(w) ==
  /\ worker[w] = "count"
  /\ progress' = [progress EXCEPT !.written = @ + SpanEnd(index[w]) - index[w] * Span]
  /\ worker' = [worker EXCEPT ![w] = "look"]
  /\ UNCHANGED <<decoding, screen, writer, next, failure, index, disk>>

Work(w) == Look(w) \/ Claim(w) \/ Wait(w) \/ Write(w) \/ Count(w)
-------------------------------------------------------------------------------
(***************************************************************************)
(* install::run.                                                           *)
(***************************************************************************)
\* An image already known to be damaged, and a target that cannot be opened or
\* is too small, end it before anything is written.
Prepare ==
  /\ writer = "prepare"
  /\ \/ /\ ~broken
        /\ writer' = "write"
        /\ next' = 0 /\ failure' = FALSE /\ worker' = [w \in Workers |-> "look"]
     \/ writer' = "fail" /\ UNCHANGED <<next, failure, worker>>
  /\ UNCHANGED <<decoding, screen, index, disk, progress>>

\* Slip: the first failure ends the scope.
JoinEarly ==
  /\ writer = "write" /\ (failure \/ \A w \in Workers : worker[w] = "done")
  /\ writer' = IF failure THEN "fail" ELSE "flush"
  /\ UNCHANGED <<decoding, screen, writing, progress>>

\* The scope waits for every worker.
Join ==
  /\ writer = "write" /\ \A w \in Workers : worker[w] = "done"
  /\ writer' = IF failure THEN "fail" ELSE "flush"
  /\ UNCHANGED <<decoding, screen, writing, progress>>

Flush ==
  /\ writer = "flush"
  /\ \/ /\ disk' = [i \in DOMAIN disk |-> IF disk[i] = "cached" THEN "stored" ELSE disk[i]]
        /\ writer' = "verify"
     \/ writer' = "fail" /\ UNCHANGED disk
  /\ UNCHANGED <<decoding, screen, next, failure, worker, index, progress>>

\* spot_check
Verify ==
  /\ writer = "verify"
  /\ writer' \in {"fail", "finish"}
  /\ UNCHANGED <<decoding, screen, writing, progress>>

\* Slip: fail() says that it is finished before it says why.
FinishFirst ==
  /\ \/ writer = "fail" /\ ~progress.finished /\ UNCHANGED writer
        /\ progress' = [progress EXCEPT !.finished = TRUE]
     \/ writer = "fail" /\ progress.finished /\ writer' = "none"
        /\ progress' = [progress EXCEPT !.error = TRUE]
     \/ writer = "finish" /\ writer' = "none" /\ progress' = [progress EXCEPT !.finished = TRUE]
  /\ UNCHANGED <<decoding, screen, writing>>

\* fail() sets the error and then, as success does, `finished`.
Report ==
  /\ \/ writer = "fail" /\ writer' = "finish" /\ progress' = [progress EXCEPT !.error = TRUE]
     \/ writer = "finish" /\ writer' = "none" /\ progress' = [progress EXCEPT !.finished = TRUE]
  /\ UNCHANGED <<decoding, screen, writing>>

Run == Prepare \/ Join \/ Flush \/ Verify \/ Report
-------------------------------------------------------------------------------
(***************************************************************************)
(* The interface.                                                          *)
(***************************************************************************)
\* Choosing a disk and confirming its erasure; Escape leads back.
Operate ==
  /\ \/ screen = "target" /\ screen' = "confirm"
     \/ screen = "confirm" /\ screen' \in {"target", "committed"}
     \/ screen = "failure" /\ screen' = "target"
  /\ UNCHANGED <<decoding, writer, writing, progress>>

\* on_begin_install, which a timer calls while the screen is committed; without
\* an image it returns.
Begin ==
  /\ screen = "committed" /\ image
  /\ screen' = "install" /\ writer' = "prepare"
  /\ disk' = Untouched /\ progress' = NoProgress
  /\ UNCHANGED <<decoding, next, failure, worker, index>>

\* The poll timer asks whether the write has finished, and then for its error.
Poll ==
  /\ \/ screen = "install" /\ progress.finished /\ screen' = "settle"
     \/ screen = "settle" /\ screen' = IF progress.error THEN "failure" ELSE "summary"
  /\ UNCHANGED <<decoding, writer, writing, progress>>

\* A power key, a power cut: the installer starts again.
Reboot ==
  /\ image' \in BOOLEAN
  /\ decoder' = (IF image' THEN "decode" ELSE "ended")
  /\ decoded' = 0 /\ ready' = 0 /\ broken' = FALSE
  /\ screen' = (IF image' THEN "target" ELSE "failure")
  /\ writer' = "none" /\ next' = 0 /\ failure' = FALSE
  /\ worker' = [w \in Workers |-> "done"] /\ index' = [w \in Workers |-> 0]
  /\ disk' = Untouched /\ progress' = NoProgress

Next ==
  \/ Decode \/ Publish
  \/ \E w \in Workers : Work(w)
  \/ Run \/ Operate \/ Begin \/ Poll \/ Reboot

Spec == Init /\ [][Next]_vars

\* Threads run and timers fire; the operator need not do anything.
FairSpec ==
  /\ Spec
  /\ WF_vars(Decode \/ Publish) /\ WF_vars(Run) /\ WF_vars(Begin) /\ WF_vars(Poll)
  /\ \A w \in Workers : WF_vars(Work(w))
-------------------------------------------------------------------------------
\* Every variable stays within its shape; the claim counter passes the last span
\* by at most one for each worker.
TypeOK ==
  /\ image \in BOOLEAN /\ broken \in BOOLEAN /\ failure \in BOOLEAN
  /\ decoder \in {"decode", "publish", "ended"}
  /\ decoded \in 0 .. Total /\ ready \in 0 .. Total
  /\ screen \in {"target", "confirm", "committed", "install", "settle", "summary", "failure"}
  /\ writer \in {"none", "prepare", "write", "flush", "verify", "fail", "finish"}
  /\ next \in 0 .. Spans + Cardinality(Workers)
  /\ worker \in [Workers -> {"done", "look", "claim", "wait", "ask", "write", "count"}]
  /\ index \in [Workers -> Nat]
  /\ disk \in [0 .. Spans - 1 -> {"old", "partial", "garbage", "cached", "stored"}]
  /\ progress \in [finished : BOOLEAN, error : BOOLEAN, written : 0 .. Total]

\* "The bytes below it [are] safe to read" and "readers never look past it": no
\* span is copied from a part of the buffer that is not decoded yet.
OnlyDecodedIsWritten == \A i \in 0 .. Spans - 1 : disk[i] # "garbage"

\* The summary says that the installation is complete only when all of the image
\* is on the disk and flushed, and all of it was counted in `written`, which the
\* workers add to and the progress display reads (the summary prints total()).
CompleteIsWhole == screen = "summary" => \A i \in 0 .. Spans - 1 : disk[i] = "stored"
CountIsWhole == screen = "summary" => progress.written = Total

\* "Nothing has been written outside the install screen, so power keys are safe
\* everywhere else": once the screen has been left no thread writes.
PowerKeysAreSafe ==
  screen # "install" =>
    /\ writer = "none"
    /\ \A w \in Workers : worker[w] = "done"

\* An install ends, in success or failure, whatever becomes of the decoder and
\* the device: no worker waits for blocks that never come.
InstallEnds == screen = "install" ~> screen # "install"

\* The confirmed state is held "for a beat before the write starts".
CommitIsBrief == screen = "committed" ~> screen # "committed"
===============================================================================
