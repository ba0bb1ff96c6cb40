------------------------- MODULE InstallerWriteProofs -------------------------
(***************************************************************************)
(* That only decoded blocks are written, that a completed installation is  *)
(* a whole one and all of it was counted, and that nothing is written once *)
(* its screen has been left, for any number of workers and any sizes.      *)
(*                                                                         *)
(* The second rests on where a claimed span can be: it is on the disk, or  *)
(* a worker still has it, or a failure has been noted, and only what is    *)
(* noted decides how the scope ends.  The third rests on a span having one *)
(* holder from its claim until it is counted; as all spans but the last    *)
(* have one length, what is counted is a number of spans.                  *)
(***************************************************************************)
EXTENDS InstallerWrite, Integers, FiniteSetTheorems, TLAPS

Whole(content) == \A i \in 0 .. Spans - 1 : disk[i] = content
AllDone == \A w \in Workers : worker[w] = "done"

\* TypeOK without its bounds.
ShapeInv ==
  /\ broken \in BOOLEAN /\ failure \in BOOLEAN
  /\ decoded \in Nat /\ ready \in Nat /\ next \in Nat
  /\ screen \in {"target", "confirm", "committed", "install", "settle", "summary", "failure"}
  /\ writer \in {"none", "prepare", "write", "flush", "verify", "fail", "finish"}
  /\ worker \in [Workers -> {"done", "look", "claim", "wait", "ask", "write", "count"}]
  /\ index \in [Workers -> Nat]
  /\ disk \in [0 .. Spans - 1 -> {"old", "partial", "garbage", "cached", "stored"}]
  /\ progress \in [finished : BOOLEAN, error : BOOLEAN, written : Int]

\* The watermark never passes what is decoded, and who writes has seen it pass
\* the end of the span.
WatermarkInv ==
  /\ ready <= decoded
  /\ \A w \in Workers : worker[w] = "write" => ready >= SpanEnd(index[w])
  /\ \A i \in 0 .. Spans - 1 : disk[i] # "garbage"

\* Where a claimed span can be while the workers run.
ClaimInv ==
  writer = "write" /\ ~failure =>
    /\ \A i \in 0 .. Spans - 1 : i < next =>
         \/ disk[i] = "cached"
         \/ \E w \in Workers : worker[w] \in {"wait", "ask", "write"} /\ index[w] = i
    /\ \A w \in Workers : worker[w] = "done" => next >= Spans

\* What the thread of install::run knows at each stage, and what it has told.
StageInv ==
  /\ writer # "write" => AllDone
  /\ writer = "flush" => Whole("cached")
  /\ writer = "verify" => Whole("stored")
  /\ writer = "finish" /\ ~progress.error => Whole("stored")
  /\ progress.finished => writer = "none"

\* What the interface shows.
ScreenInv ==
  /\ screen # "install" => writer = "none"
  /\ screen = "settle" => progress.finished
  /\ screen \in {"install", "settle"} /\ progress.finished /\ ~progress.error => Whole("stored")
  /\ screen = "summary" => Whole("stored")

Inv == ShapeInv /\ WatermarkInv /\ ClaimInv /\ StageInv /\ ScreenInv
-------------------------------------------------------------------------------
\* The number of spans, and where each ends, are whole numbers.
LEMMA SpansNat == Spans \in Nat
BY SizesAssumption DEF Spans

\* A span ends at an offset.
LEMMA SpanEndNat == \A i \in Nat : SpanEnd(i) \in Nat
BY SizesAssumption DEF SpanEnd

\* A span has a length.
LEMMA LengthInt == \A i \in Nat : SpanEnd(i) - i * Span \in Int
BY SizesAssumption, SpanEndNat

\* The write starts with every span to do.
LEMMA InitInv == Init => Inv
<1>. SUFFICES ASSUME Init PROVE Inv
  OBVIOUS
<1>1. ShapeInv
  <2>1. disk \in [0 .. Spans - 1 -> {"old", "partial", "garbage", "cached", "stored"}]
    BY DEF Init, Untouched
  <2>2. progress \in [finished : BOOLEAN, error : BOOLEAN, written : Int]
    BY DEF Init, NoProgress
  <2>. QED  BY <2>1, <2>2 DEF Init, ShapeInv
<1>2. WatermarkInv
  BY SpansNat DEF Init, WatermarkInv, Untouched
<1>3. ClaimInv /\ StageInv /\ ScreenInv
  BY DEF Init, ClaimInv, StageInv, ScreenInv, AllDone, NoProgress
<1>. QED  BY <1>1, <1>2, <1>3 DEF Inv

\* The decode thread moves the watermark up to what it has decoded.
LEMMA DecodingKeepsInv ==
  ASSUME Inv, Decode \/ Publish
  PROVE  Inv'
<1>0. decoded \in Nat /\ ready \in Nat /\ ready <= decoded /\ Total \in Nat
  BY SizesAssumption DEF Inv, ShapeInv, WatermarkInv
<1>1. /\ decoded' \in Nat /\ ready' \in Nat
      /\ decoded' >= decoded /\ ready' >= ready /\ ready' <= decoded'
  <2>1. CASE Decode
    <3>1. decoded' \in decoded + 1 .. Total \/ decoded' = decoded
      BY <2>1 DEF Decode
    <3>2. ready' = ready
      BY <2>1 DEF Decode
    <3>. QED  BY <1>0, <3>1, <3>2
  <2>2. CASE Publish
    <3>1. ready' = decoded /\ decoded' = decoded
      BY <2>2 DEF Publish
    <3>. QED  BY <1>0, <3>1
  <2>. QED  BY <2>1, <2>2
<1>2. broken' \in BOOLEAN
  <2>1. CASE Decode
    BY <2>1, Zenon DEF Inv, ShapeInv, Decode
  <2>2. CASE Publish
    <3>1. broken' = broken \/ broken' = (decoded < Total)
      BY <2>2, Zenon DEF Publish
    <3>2. (decoded < Total) \in BOOLEAN
      OBVIOUS
    <3>. QED  BY <3>1, <3>2, Zenon DEF Inv, ShapeInv
  <2>. QED  BY <2>1, <2>2
<1>3. UNCHANGED <<screen, writer, next, failure, worker, index, disk, progress>>
  BY DEF Decode, Publish, writing
<1>4. ShapeInv'
  BY <1>1, <1>2, <1>3 DEF Inv, ShapeInv
<1>5. WatermarkInv'
  <2>1. ASSUME NEW w \in Workers, worker[w] = "write"
        PROVE  ready' >= SpanEnd(index[w])
    <3>1. ready >= SpanEnd(index[w])
      BY <2>1 DEF Inv, WatermarkInv
    <3>2. SpanEnd(index[w]) \in Nat
      BY SpanEndNat DEF Inv, ShapeInv
    <3>. QED  BY <1>0, <1>1, <3>1, <3>2
  <2>. QED  BY <1>1, <1>3, <2>1 DEF Inv, WatermarkInv, SpanEnd
<1>6. ClaimInv' /\ StageInv' /\ ScreenInv'
  BY <1>3 DEF Inv, ClaimInv, StageInv, ScreenInv, Whole, AllDone
<1>. QED  BY <1>4, <1>5, <1>6 DEF Inv

\* A worker hands its span to the disk or notes its failure.
LEMMA WorkKeepsInv ==
  ASSUME Inv, NEW w \in Workers, Work(w)
  PROVE  Inv'
<1>1. writer = "write" /\ screen = "install" /\ ~progress.finished
  BY DEF Inv, StageInv, ScreenInv, ShapeInv, AllDone, Work, Look, Claim, Wait, Write, Count
<1>2. UNCHANGED <<decoded, ready, screen, writer>>
      /\ progress'.finished = progress.finished /\ progress'.error = progress.error
  BY DEF Work, Look, Claim, Wait, Write, Count, decoding, Inv, ShapeInv
<1>3. ShapeInv'
  <2>1. CASE Count(w)
    <3>1. SpanEnd(index[w]) - index[w] * Span \in Int
      BY LengthInt DEF Inv, ShapeInv
    <3>2. progress' \in [finished : BOOLEAN, error : BOOLEAN, written : Int]
      <4>1. progress.written + SpanEnd(index[w]) - index[w] * Span \in Int
        BY <3>1, SpanEndNat, SizesAssumption DEF Inv, ShapeInv
      <4>. QED  BY <2>1, <4>1 DEF Count, Inv, ShapeInv
    <3>. QED  BY <2>1, <3>2 DEF Inv, ShapeInv, Count, decoding
  <2>2. CASE Write(w)
    BY <2>2, ZenonT(60) DEF Inv, ShapeInv, Write, Fails, decoding
  <2>3. CASE Look(w)
    BY <2>3 DEF Inv, ShapeInv, Look, decoding
  <2>4. CASE Claim(w)
    BY <2>4 DEF Inv, ShapeInv, Claim, decoding
  <2>5. CASE Wait(w)
    BY <2>5 DEF Inv, ShapeInv, Wait, Fails, decoding
  <2>. QED  BY <2>1, <2>2, <2>3, <2>4, <2>5 DEF Work
<1>4. WatermarkInv'
  <2>1. CASE Write(w)
    <3>1. decoded >= SpanEnd(index[w])
      BY <2>1, SpanEndNat DEF Inv, ShapeInv, WatermarkInv, Write
    <3>2. \A i \in 0 .. Spans - 1 : disk'[i] # "garbage"
      BY <2>1, <3>1 DEF Inv, ShapeInv, WatermarkInv, Write
    <3>. QED  BY <2>1, <3>2 DEF Inv, ShapeInv, WatermarkInv, Write, Fails, decoding
  <2>2. CASE Wait(w)
    BY <2>2 DEF Inv, ShapeInv, WatermarkInv, Wait, Fails, decoding
  <2>3. CASE Look(w) \/ Claim(w) \/ Count(w)
    BY <2>3, ZenonT(60) DEF Inv, ShapeInv, WatermarkInv, Look, Claim, Count, decoding
  <2>. QED  BY <2>1, <2>2, <2>3 DEF Work
<1>5. ClaimInv'
  <2>1. CASE Look(w)
    BY <2>1 DEF Inv, ShapeInv, ClaimInv, Look
  <2>2. CASE Claim(w)
    BY <2>2, <1>1, SpansNat DEF Inv, ShapeInv, ClaimInv, Claim
  <2>3. CASE Wait(w)
    BY <2>3 DEF Inv, ShapeInv, ClaimInv, Wait, Fails
  <2>4. CASE Write(w)
    <3>1. CASE failure'
      BY <3>1 DEF ClaimInv
    <3>2. CASE ~failure'
      <4>1. decoded >= SpanEnd(index[w])
        BY <2>4, SpanEndNat DEF Inv, ShapeInv, WatermarkInv, Write
      <4>2. /\ disk' = [disk EXCEPT ![index[w]] = "cached"]
            /\ worker' = [worker EXCEPT ![w] = "count"] /\ UNCHANGED <<failure, next, index>>
        BY <2>4, <3>2, <4>1 DEF Write, Fails
      <4>. QED  BY <4>2, <1>1, <1>2 DEF Inv, ShapeInv, ClaimInv
    <3>. QED  BY <3>1, <3>2
  <2>5. CASE Count(w)
    BY <2>5 DEF Inv, ShapeInv, ClaimInv, Count
  <2>. QED  BY <2>1, <2>2, <2>3, <2>4, <2>5 DEF Work
<1>6. StageInv' /\ ScreenInv'
  BY <1>1, <1>2 DEF StageInv, ScreenInv
<1>. QED  BY <1>3, <1>4, <1>5, <1>6 DEF Inv

\* The write ends as a success only if every worker ended without a failure.
LEMMA RunKeepsInv ==
  ASSUME Inv, Run
  PROVE  Inv'
<1>1. CASE Prepare
  <2>1. ShapeInv'
    <3>1. worker' \in [Workers -> {"done", "look", "claim", "wait", "ask", "write", "count"}]
      BY <1>1 DEF Inv, ShapeInv, Prepare
    <3>2. failure' \in BOOLEAN
      BY <1>1, Zenon DEF Inv, ShapeInv, Prepare
    <3>3. next' \in Nat
      BY <1>1 DEF Inv, ShapeInv, Prepare
    <3>4. UNCHANGED <<broken, decoded, ready, screen, index, disk, progress>>
      BY <1>1 DEF Prepare, decoding
    <3>5. writer' \in {"write", "fail"}
      BY <1>1 DEF Prepare
    <3>. QED  BY <3>1, <3>2, <3>3, <3>4, <3>5 DEF Inv, ShapeInv
  <2>2. WatermarkInv'
    BY <1>1 DEF Inv, WatermarkInv, Prepare, decoding
  <2>3. ClaimInv'
    BY <1>1, SpansNat DEF ClaimInv, Prepare
  <2>4. StageInv' /\ ScreenInv'
    BY <1>1 DEF Inv, StageInv, ScreenInv, ShapeInv, Whole, AllDone, Prepare
  <2>. QED  BY <2>1, <2>2, <2>3, <2>4 DEF Inv
<1>2. CASE Join
  <2>1. ~failure => Whole("cached")
    BY <1>2, WorkersAssumption, SpansNat DEF Inv, ShapeInv, ClaimInv, Whole, Join
  <2>. QED
    BY <1>2, <2>1 DEF Inv, ShapeInv, WatermarkInv, ClaimInv, StageInv, ScreenInv,
      Whole, AllDone, Join, decoding, writing
<1>3. CASE Flush
  BY <1>3 DEF Inv, ShapeInv, WatermarkInv, ClaimInv, StageInv, ScreenInv,
    Whole, AllDone, Flush, decoding
<1>4. CASE Verify
  BY <1>4 DEF Inv, ShapeInv, WatermarkInv, ClaimInv, StageInv, ScreenInv,
    Whole, AllDone, Verify, decoding, writing
<1>5. CASE Report
  BY <1>5 DEF Inv, ShapeInv, WatermarkInv, ClaimInv, StageInv, ScreenInv,
    Whole, AllDone, Report, decoding, writing
<1>. QED  BY <1>1, <1>2, <1>3, <1>4, <1>5 DEF Run

\* The interface starts a write only when none is under way.
LEMMA InterfaceKeepsInv ==
  ASSUME Inv, Operate \/ Begin \/ Poll
  PROVE  Inv'
<1>1. CASE Operate
  BY <1>1 DEF Inv, ShapeInv, WatermarkInv, ClaimInv, StageInv, ScreenInv,
    Whole, AllDone, Operate, decoding, writing
<1>2. CASE Begin
  BY <1>2, SpansNat DEF Inv, ShapeInv, WatermarkInv, ClaimInv, StageInv, ScreenInv,
    Whole, AllDone, Begin, decoding, Untouched, NoProgress
<1>3. CASE Poll
  BY <1>3 DEF Inv, ShapeInv, WatermarkInv, ClaimInv, StageInv, ScreenInv,
    Whole, AllDone, Poll, decoding, writing
<1>. QED  BY <1>1, <1>2, <1>3

\* A reboot is a fresh start.
LEMMA RebootKeepsInv == Reboot => Inv'
<1>1. Reboot => Init'
  BY DEF Reboot, Init, Untouched, NoProgress
<1>. QED  BY <1>1, InitInv, PTL

\* Every step keeps the invariant.
LEMMA NextKeepsInv == Inv /\ [Next]_vars => Inv'
<1>. SUFFICES ASSUME Inv, [Next]_vars PROVE Inv'
  OBVIOUS
<1>1. CASE UNCHANGED vars
  BY <1>1 DEF vars, decoding, writing, Inv, ShapeInv, WatermarkInv, ClaimInv, StageInv,
    ScreenInv, Whole, AllDone
<1>2. ASSUME NEW w \in Workers, Work(w) PROVE Inv'
  BY <1>2, WorkKeepsInv
<1>. QED
  BY <1>1, <1>2, DecodingKeepsInv, RunKeepsInv, InterfaceKeepsInv, RebootKeepsInv DEF Next

\* All that the theorems rest on.
LEMMA Invariance == Spec => []Inv
BY InitInv, NextKeepsInv, PTL DEF Spec

\* No worker copies a part of the buffer that is not decoded (image.rs, the
\* watermark and wait_until).
THEOREM WritesAreDecoded == Spec => []OnlyDecodedIsWritten
<1>1. Inv => OnlyDecodedIsWritten
  BY DEF Inv, WatermarkInv, OnlyDecodedIsWritten
<1>. QED  BY <1>1, Invariance, PTL

\* The interface reports success only of a write that reached every span and was
\* flushed (install.rs run, main.rs poll).
THEOREM SuccessIsWhole == Spec => []CompleteIsWhole
<1>1. Inv => CompleteIsWhole
  BY DEF Inv, ScreenInv, Whole, CompleteIsWhole
<1>. QED  BY <1>1, Invariance, PTL

\* Off the install screen no thread writes (install.rs, the scope's join).
THEOREM OffScreenIsQuiet == Spec => []PowerKeysAreSafe
<1>1. Inv => PowerKeysAreSafe
  BY DEF Inv, StageInv, ScreenInv, AllDone, PowerKeysAreSafe
<1>. QED  BY <1>1, Invariance, PTL
-------------------------------------------------------------------------------
(***************************************************************************)
(* What is counted.                                                        *)
(***************************************************************************)
\* The spans whose length has been added to the progress, and their length: every
\* span but the last is a full one.
Written == {"cached", "stored"}
Counted ==
  {i \in 0 .. Spans - 1 :
     disk[i] \in Written /\ ~\E w \in Workers : worker[w] = "count" /\ index[w] = i}
Missing == Spans * Span - Total
Length(C) == Cardinality(C) * Span - (IF Spans - 1 \in C THEN Missing ELSE 0)

\* The last span is the one that reaches the end, and is not empty.
LEMMA LastSpan ==
  /\ Spans \in Nat \ {0}
  /\ (Spans - 1) * Span < Total /\ Total <= Spans * Span
  /\ Missing \in 0 .. Span - 1
<1>1. Spans \in Nat /\ Spans * Span <= Total + Span - 1 /\ Total + Span - 1 < Spans * Span + Span
  <2> DEFINE n == Total + Span - 1
  <2>1. n \in Nat /\ Span \in Nat /\ Span > 0
    BY SizesAssumption
  <2>2. n \div Span \in Nat /\ Span * (n \div Span) <= n /\ n < Span * (n \div Span) + Span
    <3> HIDE DEF n
    <3> QED  BY <2>1
  <2>3. Spans = n \div Span
    BY DEF Spans
  <2> HIDE DEF n
  <2>4. Span * (n \div Span) = (n \div Span) * Span
    BY <2>1, <2>2
  <2>5. Spans \in Nat /\ Spans * Span <= n /\ n < Spans * Span + Span
    BY <2>2, <2>3, <2>4
  <2> QED
    BY <2>5 DEF n
<1>2. (Spans - 1) * Span = Spans * Span - Span
  BY <1>1, SizesAssumption
<1>3. Spans # 0
  BY <1>1, SizesAssumption
<1> QED
  BY <1>1, <1>2, <1>3, SizesAssumption DEF Missing

\* The length of a span.
LEMMA SpanLength ==
  ASSUME NEW i \in 0 .. Spans - 1
  PROVE  SpanEnd(i) - i * Span = IF i = Spans - 1 THEN Span - Missing ELSE Span
<1>1. Spans \in Nat /\ Span \in Nat /\ Total \in Nat
  BY LastSpan, SizesAssumption
<1>2. (i + 1) * Span = i * Span + Span /\ i * Span \in Nat
  BY <1>1
<1>3. CASE i = Spans - 1
  <2>1. i * Span = Spans * Span - Span /\ Spans * Span \in Nat
    BY <1>1, <1>3
  <2> QED
    BY <1>1, <1>2, <1>3, <2>1, LastSpan DEF SpanEnd, Missing
<1>4. CASE i # Spans - 1
  <2>1. i + 1 <= Spans - 1 /\ i + 1 \in Nat /\ Spans - 1 \in Nat
    BY <1>1, <1>4
  <2>2. (i + 1) * Span <= (Spans - 1) * Span
    BY <1>1, <2>1
  <2> QED
    BY <1>1, <1>2, <1>4, <2>1, <2>2, LastSpan DEF SpanEnd
<1> QED
  BY <1>3, <1>4

\* The length of one more span.
LEMMA LengthAdds ==
  ASSUME NEW C \in SUBSET (0 .. Spans - 1), NEW i \in (0 .. Spans - 1) \ C
  PROVE  Length(C \cup {i}) = Length(C) + SpanEnd(i) - i * Span
<1>1. IsFiniteSet(C) /\ Cardinality(C) \in Nat
  <2>1. IsFiniteSet(0 .. Spans - 1)
    BY LastSpan, FS_Interval
  <2> QED
    BY <2>1, FS_Subset, FS_CardinalityType
<1>2. Cardinality(C \cup {i}) = Cardinality(C) + 1
  BY <1>1, FS_AddElement
<1> DEFINE n == Cardinality(C) * Span
           l == SpanEnd(i) - i * Span
           m(D) == IF Spans - 1 \in D THEN Missing ELSE 0
<1>3. (Cardinality(C) + 1) * Span = n + Span /\ n \in Nat /\ Span \in Nat /\ Missing \in Nat
  BY <1>1, LastSpan, SizesAssumption
<1>4. Length(C \cup {i}) = n + Span - m(C \cup {i}) /\ Length(C) = n - m(C)
  BY <1>2, <1>3 DEF Length
<1>5. l = Span - m({i}) /\ m(C \cup {i}) = m(C) + m({i}) /\ m(C) \in Nat /\ m({i}) \in Nat
  BY <1>3, SpanLength
<1>6. SpanEnd(i) \in Nat /\ i * Span \in Nat
  BY LastSpan, SizesAssumption, SpanEndNat
<1>7. Length(C) + SpanEnd(i) - i * Span = Length(C) + l
  <2> DEFINE k == i * Span
  <2>1. k \in Nat /\ Length(C) \in Int
    BY <1>3, <1>4, <1>5, <1>6
  <2> HIDE DEF k, m, n
  <2>2. Length(C) + SpanEnd(i) - k = Length(C) + (SpanEnd(i) - k)
    BY <1>6, <2>1
  <2> QED
    BY <2>2 DEF k
<1> HIDE DEF n, l, m
<1> QED
  BY <1>3, <1>4, <1>5, <1>7

\* All of them make up the image, and some of them no more than it.
LEMMA LengthBounds ==
  /\ Length(0 .. Spans - 1) = Total
  /\ \A C \in SUBSET (0 .. Spans - 1) : Length(C) \in 0 .. Total
<1>0. Spans \in Nat \ {0} /\ Span \in Nat /\ Total \in Nat /\ Missing \in Nat
  BY LastSpan, SizesAssumption
<1>1. IsFiniteSet(0 .. Spans - 1) /\ Cardinality(0 .. Spans - 1) = Spans
  BY <1>0, FS_Interval
<1>2. Length(0 .. Spans - 1) = Total
  BY <1>0, <1>1 DEF Length, Missing
<1>3. ASSUME NEW C \in SUBSET (0 .. Spans - 1) PROVE Length(C) \in 0 .. Total
  <2>1. IsFiniteSet(C) /\ Cardinality(C) \in Nat /\ Cardinality(C) <= Spans
    BY <1>1, FS_Subset, FS_CardinalityType
  <2> DEFINE n == Cardinality(C) * Span
  <2>2. CASE Spans - 1 \in C
    <3>1. Cardinality(C) # 0
      BY <2>1, <2>2, FS_EmptySet
    <3>2. Span <= n /\ n <= Spans * Span /\ n \in Nat
      BY <1>0, <2>1, <3>1
    <3>3. Length(C) = n - Missing
      BY <2>2 DEF Length
    <3> HIDE DEF n
    <3> QED
      BY <1>0, <3>2, <3>3, LastSpan DEF Missing
  <2>3. CASE Spans - 1 \notin C
    <3>1. Cardinality(C) # Spans
      <4>1. Spans - 1 \in 0 .. Spans - 1
        BY <1>0
      <4> QED
        BY <1>1, <2>3, <4>1, FS_Subset
    <3>2. Cardinality(C) <= Spans - 1
      BY <1>0, <2>1, <3>1
    <3>3. n <= (Spans - 1) * Span /\ n \in Nat
      BY <1>0, <2>1, <3>2
    <3>4. Length(C) = n
      BY <2>3, <3>3 DEF Length
    <3> HIDE DEF n
    <3> QED
      BY <1>0, <3>3, <3>4, LastSpan
  <2> QED
    BY <2>2, <2>3
<1> QED
  BY <1>2, <1>3

\* Each claimed span is held by one worker, is not written before that worker has written
\* it, and nobody has written the spans that are not claimed.
Holding == {"wait", "ask", "write", "count"}
HoldInv ==
  /\ \A w \in Workers : worker[w] \in Holding => index[w] < next /\ index[w] < Spans
  /\ \A v, w \in Workers :
       v # w /\ worker[v] \in Holding /\ worker[w] \in Holding => index[v] # index[w]
  /\ \A w \in Workers : worker[w] \in Holding \ {"count"} => disk[index[w]] \notin Written
  /\ \A w \in Workers : worker[w] = "count" => disk[index[w]] \in Written
  /\ writer = "prepare" => \A i \in 0 .. Spans - 1 : disk[i] \notin Written
  /\ writer = "write" => \A i \in 0 .. Spans - 1 : i >= next => disk[i] \notin Written

CountInv == progress.written = Length(Counted)

\* Nothing is counted of an untouched disk.
LEMMA NothingCounted ==
  disk = Untouched /\ progress = NoProgress
    => CountInv /\ \A i \in 0 .. Spans - 1 : disk[i] \notin Written
<1> SUFFICES ASSUME disk = Untouched, progress = NoProgress
             PROVE  CountInv /\ \A i \in 0 .. Spans - 1 : disk[i] \notin Written
  OBVIOUS
<1>1. Counted = {} /\ \A i \in 0 .. Spans - 1 : disk[i] \notin Written
  BY DEF Counted, Untouched, Written
<1>2. Length({}) = 0
  BY FS_EmptySet, SizesAssumption DEF Length
<1> QED
  BY <1>1, <1>2 DEF CountInv, NoProgress

\* As nothing has been claimed at first.
LEMMA InitCounted == Init => HoldInv /\ CountInv
  BY NothingCounted DEF Init, HoldInv, Holding

\* A worker claims a span, writes it, counts it.
LEMMA WorkCounted ==
  ASSUME Inv, HoldInv, CountInv, NEW w \in Workers, Work(w)
  PROVE  HoldInv' /\ CountInv'
<1> USE DEF HoldInv, Holding, Written
<1>0. /\ next \in Nat /\ index \in [Workers -> Nat] /\ Spans \in Nat
      /\ worker \in [Workers -> {"done", "look", "claim", "wait", "ask", "write", "count"}]
      /\ disk \in [0 .. Spans - 1 -> {"old", "partial", "garbage", "cached", "stored"}]
      /\ progress \in [finished : BOOLEAN, error : BOOLEAN, written : Int]
  BY SpansNat DEF Inv, ShapeInv
<1>1. writer = "write"
  BY DEF Inv, StageInv, AllDone, Work, Look, Claim, Wait, Write, Count
<1>2. CASE Look(w)
  <2>1. /\ worker[w] = "look" /\ UNCHANGED <<writer, next, index, disk, progress>>
        /\ \E s \in {"done", "claim"} : worker' = [worker EXCEPT ![w] = s]
    BY <1>2 DEF Look
  <2>2. Counted' = Counted
    BY <1>0, <2>1 DEF Counted
  <2> QED
    BY <1>0, <2>1, <2>2 DEF CountInv
<1>3. CASE Claim(w)
  <2>1. /\ worker[w] = "claim" /\ UNCHANGED <<writer, disk, progress>>
        /\ next' = next + 1 /\ index' = [index EXCEPT ![w] = next]
        /\ \/ next >= Spans /\ worker' = [worker EXCEPT ![w] = "done"]
           \/ next < Spans /\ worker' = [worker EXCEPT ![w] = "wait"]
    <3>1. CASE next >= Spans
      BY <1>3, <3>1 DEF Claim
    <3>2. CASE ~(next >= Spans)
      BY <1>0, <1>3, <3>2 DEF Claim
    <3> QED
      BY <3>1, <3>2
  <2>2. Counted' = Counted
    BY <1>0, <2>1 DEF Counted
  <2>3. HoldInv'
    BY <1>0, <1>1, <2>1
  <2> QED
    BY <2>1, <2>2, <2>3 DEF CountInv
<1>4. CASE Wait(w)
  <2>1. /\ worker[w] \in {"wait", "ask"} /\ UNCHANGED <<writer, next, index, disk, progress>>
        /\ \E s \in {"done", "wait", "ask", "write"} : worker' = [worker EXCEPT ![w] = s]
    BY <1>4 DEF Wait, Fails
  <2>2. Counted' = Counted
    BY <1>0, <2>1 DEF Counted
  <2> QED
    BY <1>0, <2>1, <2>2 DEF CountInv
<1>5. CASE Write(w)
  <2>1. /\ worker[w] = "write" /\ UNCHANGED <<writer, next, index, progress>>
        /\ \/ /\ \E d \in {"cached", "garbage"} : disk' = [disk EXCEPT ![index[w]] = d]
              /\ worker' = [worker EXCEPT ![w] = "count"]
           \/ /\ disk' \in {disk, [disk EXCEPT ![index[w]] = "partial"]}
              /\ worker' = [worker EXCEPT ![w] = "done"]
    BY <1>5 DEF Write, Fails
  <2>2. index[w] \in 0 .. Spans - 1 /\ index[w] < next /\ disk[index[w]] \notin Written
    BY <1>0, <2>1
  <2>3. CASE /\ disk' = [disk EXCEPT ![index[w]] = "cached"]
             /\ worker' = [worker EXCEPT ![w] = "count"]
    <3>1. /\ \A v \in Workers : worker'[v] = IF v = w THEN "count" ELSE worker[v]
          /\ \A i \in 0 .. Spans - 1 :
               disk'[i] = IF i = index[w] THEN "cached" ELSE disk[i]
      BY <1>0, <2>2, <2>3
    <3>2. Counted' = Counted
      BY <2>1, <2>2, <3>1 DEF Counted
    <3>3. \A v \in Workers \ {w} : worker[v] \in Holding => index[v] # index[w]
      BY <2>1
    <3>4. HoldInv'
      <4>1. /\ \A v \in Workers \ {w} :
                 /\ worker'[v] = worker[v] /\ index'[v] = index[v]
                 /\ worker[v] \in Holding => disk'[index[v]] = disk[index[v]]
            /\ worker'[w] = "count" /\ index'[w] = index[w] /\ disk'[index[w]] = "cached"
            /\ next' = next
        BY <1>0, <2>1, <2>2, <3>1, <3>3
      <4>2. writer' = "write" /\ \A i \in 0 .. Spans - 1 : i >= next => disk'[i] = disk[i]
        BY <1>0, <1>1, <2>1, <2>2, <3>1
      <4> QED
        BY <1>1, <2>1, <2>2, <4>1, <4>2
    <3> QED
      BY <2>1, <3>2, <3>4 DEF CountInv
  <2>4. CASE /\ disk' \in {disk, [disk EXCEPT ![index[w]] = "partial"]}
             /\ worker' = [worker EXCEPT ![w] = "done"]
    <3>1. Counted' = Counted
      BY <1>0, <2>1, <2>2, <2>4 DEF Counted
    <3> QED
      BY <1>0, <2>1, <2>2, <2>4, <3>1 DEF CountInv
  <2>5. disk' # [disk EXCEPT ![index[w]] = "garbage"]
    <3>1. disk'[index[w]] # "garbage"
      BY <1>5, <2>2, WorkKeepsInv DEF Inv, WatermarkInv, Work
    <3> QED
      BY <1>0, <2>2, <3>1
  <2> QED
    BY <2>1, <2>3, <2>4, <2>5
<1>6. CASE Count(w)
  <2>1. /\ worker[w] = "count" /\ UNCHANGED <<writer, next, index, disk>>
        /\ worker' = [worker EXCEPT ![w] = "look"]
        /\ progress' = [progress EXCEPT !.written = @ + SpanEnd(index[w]) - index[w] * Span]
    BY <1>6 DEF Count
  <2>2. index[w] \in 0 .. Spans - 1 /\ disk[index[w]] \in Written
    BY <1>0, <2>1
  <2>3. Counted' = Counted \cup {index[w]} /\ index[w] \notin Counted
    BY <1>0, <2>1, <2>2 DEF Counted
  <2>4. Counted \in SUBSET (0 .. Spans - 1)
    BY DEF Counted
  <2>5. Length(Counted') = Length(Counted) + SpanEnd(index[w]) - index[w] * Span
    BY <2>2, <2>3, <2>4, LengthAdds
  <2>6. Length(Counted)' = Length(Counted')
    BY DEF Length, Missing, Spans
  <2>7. progress'.written = progress.written + SpanEnd(index[w]) - index[w] * Span
    BY <1>0, <2>1
  <2>8. CountInv'
    BY <2>5, <2>6, <2>7 DEF CountInv
  <2> QED
    BY <1>0, <2>1, <2>8
<1> QED
  BY <1>2, <1>3, <1>4, <1>5, <1>6 DEF Work

\* Nothing else changes what is counted, but for a new beginning.
LEMMA NextCounted == Inv /\ HoldInv /\ CountInv /\ [Next]_vars => HoldInv' /\ CountInv'
<1> SUFFICES ASSUME Inv, HoldInv, CountInv, [Next]_vars PROVE HoldInv' /\ CountInv'
  OBVIOUS
<1> USE DEF HoldInv, Holding, Written
<1>0. /\ Spans \in Nat
      /\ disk \in [0 .. Spans - 1 -> {"old", "partial", "garbage", "cached", "stored"}]
      /\ progress \in [finished : BOOLEAN, error : BOOLEAN, written : Int]
  BY SpansNat DEF Inv, ShapeInv
<1>1. ASSUME NEW w \in Workers, Work(w) PROVE HoldInv' /\ CountInv'
  BY <1>1, WorkCounted
<1>2. CASE Decode \/ Publish \/ Join \/ Verify \/ Report \/ Operate \/ Poll \/ UNCHANGED vars
  <2>1. /\ UNCHANGED <<next, worker, index, disk>> /\ progress'.written = progress.written
        /\ writer' \in {"prepare", "write"} => writer' = writer
    BY <1>0, <1>2 DEF Decode, Publish, Join, Verify, Report, Operate, Poll, writing, vars
  <2> QED
    BY <2>1 DEF CountInv, Counted, Length
<1>3. CASE Prepare
  <2>1. /\ AllDone /\ UNCHANGED <<index, disk, progress>>
        /\ \/ writer' = "write" /\ next' = 0 /\ worker' = [w \in Workers |-> "look"]
           \/ writer' = "fail" /\ UNCHANGED <<next, worker>>
    BY <1>3 DEF Prepare, Inv, StageInv
  <2>2. Counted' = Counted
    BY <2>1 DEF Counted, AllDone
  <2> QED
    BY <1>0, <1>3, <2>1, <2>2 DEF CountInv, AllDone, Prepare
<1>4. CASE Flush
  <2>1. /\ AllDone /\ UNCHANGED <<worker, index, progress>> /\ writer' \in {"verify", "fail"}
        /\ \A i \in 0 .. Spans - 1 : disk'[i] \in Written <=> disk[i] \in Written
    BY <1>0, <1>4 DEF Flush, Inv, StageInv
  <2>2. Counted' = Counted
    BY <2>1 DEF Counted
  <2> QED
    BY <2>1, <2>2 DEF CountInv, AllDone
<1>5. CASE Begin \/ Reboot
  <2>1. /\ disk' = Untouched /\ progress' = NoProgress /\ writer' # "write"
        /\ \A w \in Workers : worker'[w] = "done"
    BY <1>5 DEF Begin, Reboot, Inv, StageInv, ScreenInv, AllDone
  <2>2. (disk = Untouched /\ progress = NoProgress)'
          => (CountInv /\ \A i \in 0 .. Spans - 1 : disk[i] \notin Written)'
    BY NothingCounted, PTL
  <2>3. (disk = Untouched /\ progress = NoProgress)'
    BY <2>1 DEF Untouched, NoProgress
  <2> QED
    BY <2>1, <2>2, <2>3
<1> QED
  BY <1>1, <1>2, <1>3, <1>4, <1>5 DEF Next, Run

\* The invariant with what is counted.
LEMMA CountInvariance == Spec => [](Inv /\ HoldInv /\ CountInv)
BY InitInv, NextKeepsInv, InitCounted, NextCounted, PTL DEF Spec

\* The interface reports success only when all of the image was counted: the workers add
\* up their spans in any order, each once (image.rs and install.rs, `written`).
THEOREM TheCountIsWhole == Spec => []CountIsWhole
<1>1. Inv /\ CountInv => CountIsWhole
  <2> SUFFICES ASSUME Inv, CountInv, screen = "summary" PROVE progress.written = Total
    BY DEF CountIsWhole
  <2>1. Counted = 0 .. Spans - 1
    BY DEF Inv, ScreenInv, StageInv, Whole, AllDone, Counted, Written
  <2> QED
    BY <2>1, LengthBounds DEF CountInv
<1> QED
  BY <1>1, CountInvariance, PTL
-------------------------------------------------------------------------------
(***************************************************************************)
(* The bounds.                                                             *)
(***************************************************************************)
\* A claim beyond the last span ends the worker that made it.
Finished == {w \in Workers : worker[w] = "done"}
BoundInv ==
  /\ image \in BOOLEAN /\ decoder \in {"decode", "publish", "ended"}
  /\ decoded \in 0 .. Total
  /\ next <= Spans + Cardinality(Finished)

\* The workers that have ended are finitely many.
LEMMA FinishedFinite ==
  ASSUME IsFiniteSet(Workers)
  PROVE  /\ IsFiniteSet(Finished) /\ Cardinality(Finished) \in Nat
         /\ Cardinality(Finished) <= Cardinality(Workers)
         /\ Cardinality(Workers) \in Nat
  BY FS_Subset, FS_CardinalityType DEF Finished

\* A step of a worker that is not a claim, and of anybody else but Prepare, leaves the
\* claims alone and no worker begins again.
LEMMA WorkBounded ==
  ASSUME IsFiniteSet(Workers), Inv, BoundInv, NEW w \in Workers, Work(w)
  PROVE  BoundInv'
<1>0. /\ next \in Nat /\ Spans \in Nat /\ UNCHANGED decoding
      /\ worker \in [Workers -> {"done", "look", "claim", "wait", "ask", "write", "count"}]
  BY SpansNat DEF Inv, ShapeInv, Work, Look, Claim, Wait, Write, Count
<1>1. IsFiniteSet(Finished) /\ Cardinality(Finished) \in Nat
  BY FinishedFinite
<1>2. /\ worker[w] # "done"
      /\ \E s : worker' = [worker EXCEPT ![w] = s]
  BY DEF Work, Look, Claim, Wait, Write, Count, Fails
<1>3. Finished' \in {Finished, Finished \cup {w}} /\ w \notin Finished
  BY <1>0, <1>2 DEF Finished
<1>4. Cardinality(Finished \cup {w}) = Cardinality(Finished) + 1
  BY <1>1, <1>3, FS_AddElement
<1>5. CASE Claim(w) /\ next >= Spans
  <2>1. next' = next + 1 /\ worker' = [worker EXCEPT ![w] = "done"]
    BY <1>5 DEF Claim
  <2>2. Finished' = Finished \cup {w}
    BY <1>0, <2>1 DEF Finished
  <2> QED
    BY <1>0, <1>1, <1>4, <2>1, <2>2 DEF BoundInv, decoding
<1>6. CASE ~(Claim(w) /\ next >= Spans)
  <2>1. next' = next \/ (next' = next + 1 /\ next < Spans)
    BY <1>0, <1>6 DEF Work, Look, Claim, Wait, Write, Count
  <2> QED
    BY <1>0, <1>1, <1>3, <1>4, <2>1 DEF BoundInv, decoding
<1> QED
  BY <1>5, <1>6

\* Every step keeps the bounds.
LEMMA NextBounded ==
  ASSUME IsFiniteSet(Workers), Inv, BoundInv, [Next]_vars
  PROVE  BoundInv'
<1>0. next \in Nat /\ Spans \in Nat /\ Total \in Nat
  BY SpansNat, SizesAssumption DEF Inv, ShapeInv
<1>1. ASSUME NEW w \in Workers, Work(w) PROVE BoundInv'
  BY <1>1, WorkBounded
<1>2. CASE Decode \/ Publish
  <2>1. decoded' \in 0 .. Total /\ decoder' \in {"decode", "publish", "ended"}
    BY <1>0, <1>2 DEF Decode, Publish, BoundInv
  <2> QED
    BY <1>2, <2>1 DEF Decode, Publish, writing, BoundInv, Finished
<1>3. CASE Join \/ Flush \/ Verify \/ Report \/ Operate \/ Begin \/ Poll \/ UNCHANGED vars
  BY <1>3 DEF Join, Flush, Verify, Report, Operate, Begin, Poll, decoding, writing, vars,
    BoundInv, Finished
<1>4. CASE Prepare \/ Reboot
  <2>1. \/ next' = 0
        \/ UNCHANGED <<next, worker>>
    BY <1>4 DEF Prepare, Reboot
  <2>2. 0 <= Spans + Cardinality(Finished')
    <3>1. IsFiniteSet(Finished') /\ Cardinality(Finished') \in Nat
      BY FS_Subset, FS_CardinalityType DEF Finished
    <3> QED
      BY <1>0, <3>1
  <2>3. Spans' = Spans /\ next' <= Spans + Cardinality(Finished')
    BY <2>1, <2>2 DEF BoundInv, Finished, Spans
  <2>4. /\ image' \in BOOLEAN /\ decoder' \in {"decode", "publish", "ended"}
        /\ decoded' \in 0 .. Total
    <3>1. CASE Prepare
      BY <3>1 DEF Prepare, decoding, BoundInv
    <3>2. CASE Reboot
      BY <1>0, <3>2 DEF Reboot
    <3> QED
      BY <1>4, <3>1, <3>2
  <2> QED
    BY <2>3, <2>4 DEF BoundInv
<1> QED
  BY <1>1, <1>2, <1>3, <1>4 DEF Next, Run

\* Every variable stays within its shape: no more than the image is ever counted, and the
\* claim counter passes the last span by at most one for each worker.
THEOREM TypeCorrect ==
  ASSUME IsFiniteSet(Workers)
  PROVE  Spec => []TypeOK
<1>1. Init => BoundInv
  <2>1. SUFFICES ASSUME Init PROVE BoundInv
    OBVIOUS
  <2>2. 0 <= Spans + Cardinality(Finished)
    BY SpansNat, FinishedFinite
  <2> QED
    BY <2>1, <2>2, SizesAssumption DEF Init, BoundInv
<1>2. Inv /\ CountInv /\ BoundInv => TypeOK
  <2> SUFFICES ASSUME Inv, CountInv, BoundInv PROVE TypeOK
    OBVIOUS
  <2>1. progress.written \in 0 .. Total
    BY LengthBounds DEF CountInv, Counted
  <2>2. progress \in [finished : BOOLEAN, error : BOOLEAN, written : 0 .. Total]
    BY <2>1 DEF Inv, ShapeInv
  <2>3. ready \in 0 .. Total
    BY SizesAssumption DEF Inv, ShapeInv, WatermarkInv, BoundInv
  <2>4. next \in 0 .. Spans + Cardinality(Workers)
    BY SpansNat, FinishedFinite DEF Inv, ShapeInv, BoundInv
  <2> QED
    BY <2>2, <2>3, <2>4 DEF Inv, ShapeInv, BoundInv, TypeOK
<1> QED
  BY <1>1, <1>2, NextBounded, CountInvariance, PTL DEF Spec
===============================================================================
