------------------------------ MODULE Supervision ------------------------------
(***************************************************************************)
(* What carbide-agent promises of one extension, in terms of three things  *)
(* that survive a crash: what the record says is going on, the image under *)
(* the active name, and the image retained to fall back to.                *)
(*                                                                         *)
(* A swap is on record before the image is touched.  It is committed,      *)
(* undone or given up, and nothing else.  What it is undone to is chosen   *)
(* when it begins and does not change until it has ended; undoing puts     *)
(* nothing but that in place, and is done when it is in place.  A removal  *)
(* that has begun can only be completed.                                   *)
(***************************************************************************)
CONSTANTS Bases, Images, None

VARIABLES
  base,      \* the base that runs
  mode,      \* "settled", "swapping", "undoing", "removing" or "given up"
  image,     \* the image under the active name of that base, or None
  fallback   \* the image retained for the version known good there, or None

vars == <<base, mode, image, fallback>>

Init ==
  /\ base \in Bases /\ mode = "settled"
  /\ image \in Images \cup {None} /\ fallback = None

Becomes(m) == mode' = m /\ UNCHANGED base
--------------------------------------------------------------------------------
\* A candidate is to replace the image, which may become what to fall back to.
Begin ==
  /\ mode = "settled" /\ Becomes("swapping")
  /\ fallback' \in {fallback, image} /\ UNCHANGED image

\* What is about to be replaced is retained ahead of that.
Retain ==
  /\ mode \in {"settled", "given up"} /\ Becomes(mode)
  /\ fallback = None /\ image # None /\ fallback' = image
  /\ UNCHANGED image

Swap ==
  /\ mode = "swapping" /\ Becomes("swapping")
  /\ image' \in Images \cup {None} /\ UNCHANGED fallback

Commit ==
  /\ mode = "swapping" /\ image # None /\ Becomes("settled")
  /\ UNCHANGED <<image, fallback>>

\* The retained image is to be put back.
Undo ==
  /\ mode \in {"settled", "swapping", "given up"} /\ fallback # None /\ Becomes("undoing")
  /\ UNCHANGED <<image, fallback>>

Restore ==
  /\ mode = "undoing" /\ Becomes("undoing")
  /\ image' \in {None, fallback} /\ UNCHANGED fallback

Undone ==
  /\ mode = "undoing" /\ image = fallback /\ Becomes("settled")
  /\ UNCHANGED <<image, fallback>>

\* There is nothing to put back, or it does not work.
GiveUp ==
  /\ mode # "removing" /\ Becomes("given up")
  /\ image' \in {image} \cup (IF mode = "undoing" THEN {None, fallback} ELSE {})
  /\ UNCHANGED fallback

\* An operator, an image that works after all, or another base.
Readmit ==
  /\ mode = "given up" /\ Becomes("settled")
  /\ UNCHANGED <<image, fallback>>
--------------------------------------------------------------------------------
\* The image that runs is taken for good.  What was retained under its version
\* before is kept.
Adopt ==
  /\ mode \in {"settled", "given up"} /\ image # None /\ Becomes("settled")
  /\ fallback' \in Images /\ UNCHANGED image

\* The image has gone without the agent, and nobody requires it.
Forget ==
  /\ mode \in {"settled", "given up"} /\ image = None /\ Becomes("settled")
  /\ fallback' = None /\ UNCHANGED image

Remove ==
  /\ mode # "removing" /\ Becomes("removing")
  /\ UNCHANGED <<image, fallback>>

Clear ==
  /\ mode = "removing" /\ Becomes("removing")
  /\ image' \in Images \cup {None} /\ fallback' \in {fallback, None}

Removed ==
  /\ mode = "removing" /\ image = None /\ Becomes("settled")
  /\ fallback' = None /\ UNCHANGED image

\* Each base has images of its own.
Reboot ==
  /\ base' \in Bases \ {base} /\ UNCHANGED mode
  /\ image' \in Images \cup {None} /\ fallback' \in Images \cup {None}

Next ==
  \/ Begin \/ Retain \/ Swap \/ Commit
  \/ Undo \/ Restore \/ Undone \/ GiveUp \/ Readmit
  \/ Adopt \/ Forget \/ Remove \/ Clear \/ Removed \/ Reboot

Spec == Init /\ [][Next]_vars
================================================================================
