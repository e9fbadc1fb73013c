--------------------------- MODULE ReadingProofs ---------------------------
(* Proofs about Reading. *)
EXTENDS Reading, TLAPS

(* A call is a pair of a scan and one of its pages, or 0. *)
LEMMA CallPairs ==
    /\ \A c \in Calls : /\ c = <<c[1], c[2]>> /\ c[1] \in 1..Reads
                        /\ c[2] = 0 \/ c[2] \in Pages(c[1])
    /\ \A i \in 1..Reads : <<i, 0>> \in Calls /\ \A p \in Pages(i) : <<i, p>> \in Calls
<1> USE ReadingAssumption DEF Calls, Pages
<1>1. ASSUME NEW c \in Calls
      PROVE  /\ c = <<c[1], c[2]>> /\ c[1] \in 1..Reads
             /\ c[2] = 0 \/ c[2] \in Pages(c[1])
  <2>1. PICK i \in 1..Reads : c \in {i} \X (0..PageCount[i])
    OBVIOUS
  <2> QED
    BY <2>1
<1>2. ASSUME NEW i \in 1..Reads PROVE <<i, 0>> \in Calls /\ \A p \in Pages(i) : <<i, p>> \in Calls
  <2>1. {i} \X (0..PageCount[i]) \subseteq Calls
    OBVIOUS
  <2>2. <<i, 0>> \in {i} \X (0..PageCount[i])
    OBVIOUS
  <2>3. \A p \in Pages(i) : <<i, p>> \in {i} \X (0..PageCount[i])
    OBVIOUS
  <2> QED
    BY <2>1, <2>2, <2>3
<1> QED
  BY <1>1, <1>2

(* The invariant of the theorems. The types of what always exists: *)
Typed ==
    /\ cur \in 0..Reads /\ stage \in Stages
    /\ scope \in 1..Reads \union {None} /\ cancelled \subseteq 1..Reads
    /\ mode \in {"balanced", "maximum"}
    /\ images \in [1..Reads -> SUBSET Nat]
    /\ page \in [Calls -> {"none"} \union InFlight \union Ended]
    /\ event \in [Calls -> 1..Reads \union {None}]
    /\ error \in {"none"} \union Bad
    /\ outcome \in [1..Reads -> {"none"} \union Outcomes]

(* The scope is that of the scan being read, and only it can be cancelled. *)
Bound ==
    /\ IF stage = "idle" THEN scope = None
       ELSE cur \in 1..Reads /\ scope = cur /\ outcome[cur] = "none"
    /\ \A i \in 1..Reads : i > cur => outcome[i] = "none" /\ i \notin cancelled
    /\ CancelHonoured

(* The locals of the recovery exist while it runs. *)
Held ==
    IF stage \in {"idle", "reading"}
    THEN layer = <<>> /\ text = <<>> /\ todo = {} /\ kept = {} /\ need = {} /\ error = "none"
    ELSE /\ layer \in [Pages(cur) -> Layers] /\ text \in [Pages(cur) -> Sources]
         /\ todo \subseteq Pages(cur) /\ kept \subseteq Pages(cur) /\ need \subseteq Pages(cur)

(* Where a page's text is, or that it is still to be had. *)
Assigned ==
    stage \in {"tesseract", "vision", "extract"} =>
        /\ \A p \in Pages(cur) : UsesTextLayer(layer[p]) => text[p] = "layer"
        /\ stage = "tesseract" =>
             /\ error = "none"
             /\ \A p \in todo \union kept \union need : ~UsesTextLayer(layer[p])
             /\ \A p \in Pages(cur) : p \in todo \union kept \union need \/ text[p] # "none"
        /\ stage = "vision" =>
             /\ \A p \in need : ~UsesTextLayer(layer[p])
             /\ \A p \in Pages(cur) : p \in need \/ text[p] # "none"
        /\ stage = "extract" => \A p \in Pages(cur) : layer[p] # "none" => text[p] # "none"

(* Which calls may be in flight. *)
Running ==
    /\ \A c \in Calls : c[1] > cur => page[c] = "none"
    /\ stage \in {"reading", "tesseract"} => \A c \in Calls : c[1] = cur => page[c] = "none"
    /\ stage = "vision" =>
         /\ \A c \in Calls : c[1] = cur /\ c[2] \notin need => page[c] = "none"
         /\ error # "none" => \E p \in Pages(cur) : page[<<cur, p>>] = error
    /\ LeftBehindOnlyByFailure

IInv == Typed /\ Bound /\ Held /\ Assigned /\ Running

(* The steps that leave the worker where it is. *)
TaskStep(c) ==
    \/ Acquire(c) \/ Rendered(c) \/ Abort(c) \/ Expire(c) \/ Joined(c)
    \/ \E result \in {"text", "blank", "failed"} : Answer(c, result)

\* What the steps of the calls leave alone.
LEMMA TaskStepFrame ==
    ASSUME Typed, NEW c \in Calls, TaskStep(c)
    PROVE  /\ WorkerWaits /\ images' = images
           /\ \E s \in InFlight \union Ended : page' = [page EXCEPT ![c] = s]
           /\ page[c] \in InFlight
           /\ \/ event' = event
              \/ event' = [event EXCEPT ![c] = scope]
              \/ event' = [event EXCEPT ![c] = None]
           /\ \/ error' = error
              \/ /\ error = "none" /\ c[1] = cur /\ c[2] # 0 /\ stage = "vision"
                 /\ error' \in Bad /\ page' = [page EXCEPT ![c] = error']
<1> USE DEF InFlight, Ended, Bad, EndPage, StartCall
<1>1. CASE Acquire(c)
  BY <1>1 DEF Acquire
<1>2. CASE Rendered(c)
  BY <1>2 DEF Rendered
<1>3. CASE Abort(c)
  BY <1>3 DEF Abort
<1>4. CASE Expire(c)
  BY <1>4 DEF Expire
<1>5. CASE Joined(c)
  BY <1>5 DEF Joined
<1>6. ASSUME NEW result \in {"text", "blank", "failed"}, Answer(c, result)
      PROVE  /\ WorkerWaits /\ images' = images
             /\ page' = [page EXCEPT ![c] = result] /\ page[c] = "call"
             /\ event' = [event EXCEPT ![c] = None]
             /\ error' = IF result \in Bad /\ error = "none" /\ c[1] = cur /\ c[2] # 0 /\ stage = "vision"
                         THEN result ELSE error
  BY <1>6 DEF Answer
<1> QED
  BY <1>1, <1>2, <1>3, <1>4, <1>5, <1>6 DEF TaskStep

\* The steps of the module, one by one.
LEMMA NextCases ==
    ASSUME [Next]_vars
    PROVE  \/ Bind \/ ReadLayer \/ ReadLayerFails
           \/ \E p \in todo, result \in {"kept", "rendered", "failed"} : TesseractPage(p, result)
           \/ TesseractFails \/ VisionDone \/ VisionFails \/ VisionCancelled \/ Extracted
           \/ \E c \in Calls : TaskStep(c)
           \/ \E i \in 1..Reads : CancelFile(i)
           \/ UNCHANGED vars
BY DEF Next, Worker, Task, TaskStep

\* The invariant holds initially.
LEMMA InitInv == Init => IInv
<1> SUFFICES ASSUME Init PROVE IInv
  OBVIOUS
<1> USE ReadingAssumption DEF Init
<1>1. Typed
  BY DEF Typed, Stages
<1>2. Bound
  BY DEF Bound, CancelHonoured
<1>3. Held
  BY DEF Held
<1>4. Assigned
  BY DEF Assigned
<1>5. Running
  BY DEF Running, LeftBehindOnlyByFailure, InState, InFlight
<1> QED
  BY <1>1, <1>2, <1>3, <1>4, <1>5 DEF IInv

(* What every way of ending a scan leaves behind. *)
LEMMA FinishFrame ==
    ASSUME NEW result \in Outcomes, Finish(result) \/ FinishUnlessCancelled(result)
    PROVE  /\ stage' = "idle" /\ scope' = None /\ Forget
           /\ \E r \in Outcomes : outcome' = [outcome EXCEPT ![cur] = r]
BY DEF Finish, FinishUnlessCancelled, Outcomes

(* The three ways on from a step of the recovery. *)
LEMMA EndTesseractFrame ==
    ASSUME NEW K, NEW N, NEW rendered, EndTesseract(K, N, rendered)
    PROVE  /\ text' = [p \in Pages(cur) |-> IF p \in K THEN "tesseract" ELSE text[p]]
           /\ (N = {} /\ StartExtract) \/ (N # {} /\ StartVision(N, rendered))
BY DEF EndTesseract

\* Every action keeps the types.
LEMMA TypedNext ==
    ASSUME IInv, [Next]_vars
    PROVE  Typed'
<1> USE ReadingAssumption DEF IInv, Typed, Stages
<1>1. CASE Bind
  <2>1. cur' \in 0..Reads /\ scope' \in 1..Reads \union {None} /\ mode' \in {"balanced", "maximum"}
    BY <1>1 DEF Bind
  <2>2. outcome' \in [1..Reads -> {"none"} \union Outcomes]
    BY <1>1 DEF Bind, Outcomes
  <2>3. stage' \in Stages /\ UNCHANGED <<cancelled, images, page, event, error>>
    BY <1>1 DEF Bind, pages
  <2> QED
    BY <2>1, <2>2, <2>3
<1>2. ASSUME StartExtract, cur \in 1..Reads, UNCHANGED <<cur, cancelled, mode>> PROVE Typed'
  BY <1>2, CallPairs DEF StartExtract, InFlight
<1>3. ASSUME NEW P, NEW R \in SUBSET Nat, StartVision(P, R), cur \in 1..Reads, UNCHANGED <<cur, cancelled, mode>>
      PROVE  Typed'
  BY <1>3 DEF StartVision, InFlight
<1>4. ASSUME NEW r \in Outcomes, Finish(r) \/ FinishUnlessCancelled(r), UNCHANGED <<cur, cancelled, mode, images, page, event>>
      PROVE  Typed'
  BY <1>4, FinishFrame DEF Forget
<1>5. CASE ReadLayer
  <2>1. cur \in 1..Reads
    BY <1>5 DEF ReadLayer, Bound
  <2>2. CASE StartExtract
    BY <1>5, <1>2, <2>1, <2>2 DEF ReadLayer
  <2>3. ASSUME NEW P, StartVision(P, {}) PROVE Typed'
    BY <1>5, <1>3, <2>1, <2>3 DEF ReadLayer
  <2> QED
    BY <1>5, <2>2, <2>3 DEF ReadLayer, pages
<1>6. CASE ReadLayerFails
  BY <1>6, <1>4 DEF ReadLayerFails, Outcomes
<1>7. ASSUME NEW p \in todo, NEW result \in {"kept", "rendered", "failed"}, TesseractPage(p, result)
      PROVE  Typed'
  <2> DEFINE rendered == IF result = "rendered" THEN images[cur] \union {p} ELSE images[cur]
  <2>1. cur \in 1..Reads /\ p \in Nat
    BY <1>7 DEF TesseractPage, Bound, Held, Pages
  <2>2. rendered \in SUBSET Nat
    BY <2>1
  <2>3. CASE StartExtract
    BY <1>7, <1>2, <2>1, <2>3 DEF TesseractPage
  <2>4. ASSUME NEW N, StartVision(N, rendered) PROVE Typed'
    BY <1>7, <1>3, <2>1, <2>2, <2>4 DEF TesseractPage
  <2>5. CASE Finish("cancelled") /\ UNCHANGED <<images, page, event>>
    BY <1>7, <1>4, <2>5 DEF TesseractPage, Outcomes
  <2>6. CASE /\ images' = [images EXCEPT ![cur] = rendered]
             /\ UNCHANGED <<stage, scope, outcome, text, page, event, error>>
    BY <1>7, <2>1, <2>2, <2>6 DEF TesseractPage
  <2> QED
    BY <1>7, <2>3, <2>4, <2>5, <2>6 DEF TesseractPage, EndTesseract
<1>8. CASE TesseractFails
  BY <1>8, <1>2, <1>3 DEF TesseractFails, EndTesseract, Bound
<1>9. CASE VisionDone
  BY <1>9, <1>2 DEF VisionDone, Bound
<1>10. CASE VisionFails
  BY <1>10, <1>2 DEF VisionFails, Bound
<1>11. CASE VisionCancelled
  BY <1>11, <1>4 DEF VisionCancelled, Outcomes
<1>12. CASE Extracted
  BY <1>12, <1>4 DEF Extracted, Outcomes
<1>13. ASSUME NEW c \in Calls, TaskStep(c) PROVE Typed'
  <2>1. UNCHANGED <<cur, stage, scope, cancelled, outcome, mode, images>>
    BY <1>13, TaskStepFrame DEF WorkerWaits, recovery
  <2>2. page' \in [Calls -> {"none"} \union InFlight \union Ended]
    BY <1>13, TaskStepFrame
  <2>3. event' \in [Calls -> 1..Reads \union {None}] /\ error' \in {"none"} \union Bad
    BY <1>13, TaskStepFrame
  <2> QED
    BY <2>1, <2>2, <2>3
<1>14. ASSUME NEW i \in 1..Reads, CancelFile(i) PROVE Typed'
  BY <1>14 DEF CancelFile, recovery, pages
<1>15. CASE UNCHANGED vars
  BY <1>15 DEF vars
<1> QED
  BY <1>1, <1>5, <1>6, <1>7, <1>8, <1>9, <1>10, <1>11, <1>12, <1>13, <1>14, <1>15, NextCases

\* Every action keeps Bound.
LEMMA BoundNext ==
    ASSUME IInv, [Next]_vars
    PROVE  Bound'
<1> USE ReadingAssumption DEF IInv, Typed, Bound, CancelHonoured
<1>1. CASE Bind
  BY <1>1 DEF Bind, pages
<1>2. ASSUME stage # "idle", stage' # "idle", UNCHANGED <<cur, scope, cancelled, outcome>> PROVE Bound'
  BY <1>2
<1>3. ASSUME NEW r \in Outcomes, stage # "idle", UNCHANGED <<cur, cancelled>>,
             \/ Finish("cancelled") \/ FinishUnlessCancelled(r)
      PROVE  Bound'
  BY <1>3 DEF Finish, FinishUnlessCancelled, IsFileCancelled
<1>4. CASE ReadLayer
  BY <1>4, <1>2 DEF ReadLayer, StartExtract, StartVision
<1>5. CASE ReadLayerFails
  BY <1>5, <1>3 DEF ReadLayerFails, Outcomes
<1>6. ASSUME NEW p \in todo, NEW result \in {"kept", "rendered", "failed"}, TesseractPage(p, result)
      PROVE  Bound'
  BY <1>6, <1>2, <1>3 DEF TesseractPage, EndTesseract, StartExtract, StartVision, Outcomes
<1>7. CASE TesseractFails
  BY <1>7, <1>2 DEF TesseractFails, EndTesseract, StartExtract, StartVision
<1>8. CASE VisionDone
  BY <1>8, <1>2 DEF VisionDone, StartExtract
<1>9. CASE VisionFails
  BY <1>9, <1>2 DEF VisionFails, StartExtract
<1>10. CASE VisionCancelled
  BY <1>10, <1>3 DEF VisionCancelled, Outcomes
<1>11. CASE Extracted
  BY <1>11, <1>3 DEF Extracted, Outcomes
<1>12. ASSUME NEW c \in Calls, TaskStep(c) PROVE Bound'
  BY <1>12, TaskStepFrame DEF WorkerWaits
<1>13. ASSUME NEW i \in 1..Reads, CancelFile(i) PROVE Bound'
  BY <1>13 DEF CancelFile
<1>14. CASE UNCHANGED vars
  BY <1>14 DEF vars
<1> QED
  BY <1>1, <1>4, <1>5, <1>6, <1>7, <1>8, <1>9, <1>10, <1>11, <1>12, <1>13, <1>14, NextCases

\* Every action keeps Held.
LEMMA HeldNext ==
    ASSUME IInv, [Next]_vars
    PROVE  Held'
<1> USE DEF IInv, Held
<1>1. CASE Bind
  BY <1>1 DEF Bind, pages
<1>2. ASSUME NEW r \in Outcomes, Finish(r) \/ FinishUnlessCancelled(r) PROVE Held'
  BY <1>2, FinishFrame DEF Forget
<1>3. CASE ReadLayer
  <2>1. /\ layer' \in [Pages(cur) -> Layers] /\ text' \in [Pages(cur) -> Sources]
        /\ cur' = cur /\ stage' \in {"tesseract", "vision", "extract"}
    BY <1>3 DEF ReadLayer, StartExtract, StartVision, Sources
  <2>2. todo' \subseteq Pages(cur) /\ kept' \subseteq Pages(cur) /\ need' \subseteq Pages(cur)
    BY <1>3 DEF ReadLayer, StartExtract, StartVision
  <2> QED
    BY <2>1, <2>2
<1>4. CASE ReadLayerFails
  BY <1>4, <1>2 DEF ReadLayerFails, Outcomes
<1>5. ASSUME NEW p \in todo, NEW result \in {"kept", "rendered", "failed"}, TesseractPage(p, result)
      PROVE  Held'
  <2>1. CASE Finish("cancelled")
    BY <1>2, <2>1 DEF Outcomes
  <2>2. CASE ~Finish("cancelled")
    <3>1. cur' = cur /\ stage' \in {"tesseract", "vision", "extract"} /\ layer' = layer
      BY <1>5, <2>2 DEF TesseractPage, EndTesseract, StartExtract, StartVision
    <3>2. text' \in [Pages(cur) -> Sources]
      BY <1>5, <2>2 DEF TesseractPage, EndTesseract, Sources
    <3>3. todo' \subseteq Pages(cur) /\ kept' \subseteq Pages(cur) /\ need' \subseteq Pages(cur)
      BY <1>5, <2>2 DEF TesseractPage
    <3> QED
      BY <1>5, <3>1, <3>2, <3>3 DEF TesseractPage
  <2> QED
    BY <2>1, <2>2
<1>6. CASE TesseractFails
  <2>1. /\ text' \in [Pages(cur) -> Sources] /\ UNCHANGED <<cur, layer>>
        /\ stage' \in {"vision", "extract"}
    BY <1>6 DEF TesseractFails, EndTesseract, StartExtract, StartVision, Sources
  <2> QED
    BY <1>6, <2>1 DEF TesseractFails
<1>7. CASE VisionDone \/ VisionFails
  <2>1. text' \in [Pages(cur) -> Sources] /\ UNCHANGED <<cur, layer, todo, kept, need>> /\ stage' = "extract"
    BY <1>7 DEF VisionDone, VisionFails, VisionResult, StartExtract, Sources
  <2> QED
    BY <1>7, <2>1 DEF VisionDone, VisionFails
<1>8. CASE VisionCancelled
  BY <1>8, <1>2 DEF VisionCancelled, Outcomes
<1>9. CASE Extracted
  BY <1>9, <1>2 DEF Extracted, Outcomes
<1>10. ASSUME NEW c \in Calls, TaskStep(c) PROVE Held'
  <2>1. UNCHANGED <<cur, stage>> /\ UNCHANGED recovery /\ (error' = error \/ stage = "vision")
    BY <1>10, TaskStepFrame DEF WorkerWaits
  <2> QED
    BY <2>1 DEF recovery
<1>11. ASSUME NEW i \in 1..Reads, CancelFile(i) PROVE Held'
  BY <1>11 DEF CancelFile, recovery, pages
<1>12. CASE UNCHANGED vars
  BY <1>12 DEF vars
<1> QED
  BY <1>1, <1>3, <1>4, <1>5, <1>6, <1>7, <1>8, <1>9, <1>10, <1>11, <1>12, NextCases

\* Every action keeps Assigned.
LEMMA AssignedNext ==
    ASSUME IInv, [Next]_vars
    PROVE  Assigned'
<1> USE DEF IInv, Held, Assigned, UsesTextLayer
<1>1. CASE Bind
  BY <1>1 DEF Bind
<1>2. ASSUME NEW r \in Outcomes, Finish(r) \/ FinishUnlessCancelled(r) PROVE Assigned'
  BY <1>2, FinishFrame
<1>3. CASE ReadLayer
  <2> DEFINE served == {p \in Pages(cur) : UsesTextLayer(layer'[p])}
  <2>1. /\ text' = [p \in Pages(cur) |-> IF p \in served THEN "layer" ELSE "none"]
        /\ layer' \in [Pages(cur) -> Layers] /\ UNCHANGED <<cur, mode, kept>>
        /\ stage = "reading"
    BY <1>3 DEF ReadLayer
  <2>2. \/ stage' = "extract" /\ Pages(cur) \ served = {}
        \/ /\ stage' = "tesseract" /\ todo' = Pages(cur) \ served
           /\ UNCHANGED <<need, error>>
        \/ stage' = "vision" /\ need' = Pages(cur) \ served
    BY <1>3 DEF ReadLayer, StartExtract, StartVision, pages
  <2> QED
    BY <2>1, <2>2
<1>4. CASE ReadLayerFails
  BY <1>4, <1>2 DEF ReadLayerFails, Outcomes
<1>5. ASSUME NEW p \in todo, NEW result \in {"kept", "rendered", "failed"}, TesseractPage(p, result)
      PROVE  Assigned'
  <2>1. CASE Finish("cancelled")
    BY <1>2, <2>1 DEF Outcomes
  <2>2. CASE ~Finish("cancelled")
    <3>1. /\ UNCHANGED <<cur, mode, layer>> /\ stage = "tesseract"
          /\ todo' = todo \ {p}
          /\ kept' \union need' = (kept \union need) \union {p} /\ kept \subseteq kept'
      BY <1>5, <2>2 DEF TesseractPage
    <3>2. CASE todo # {p}
      <4>1. stage' = "tesseract" /\ UNCHANGED <<text, error>>
        BY <1>5, <2>2, <3>2 DEF TesseractPage
      <4> QED
        BY <3>1, <4>1
    <3>3. CASE todo = {p}
      <4>1. /\ text' = [q \in Pages(cur) |-> IF q \in kept' THEN "tesseract" ELSE text[q]]
            /\ (need' = {} /\ stage' = "extract") \/ stage' = "vision"
        BY <1>5, <2>2, <3>3 DEF TesseractPage, EndTesseract, StartExtract, StartVision
      <4>2. \A q \in Pages(cur) : q \in kept' \union need' \/ text[q] # "none"
        BY <3>1, <3>3
      <4>3. \A q \in kept' \union need' : ~UsesTextLayer(layer[q])
        BY <3>1
      <4> QED
        BY <3>1, <4>1, <4>2, <4>3
    <3> QED
      BY <3>2, <3>3
  <2> QED
    BY <2>1, <2>2
<1>6. CASE TesseractFails
  <2>1. /\ UNCHANGED <<cur, mode, layer>> /\ stage = "tesseract"
        /\ need' = {q \in Pages(cur) : text[q] = "none"}
        /\ text' = text
    BY <1>6 DEF TesseractFails, EndTesseract
  <2>2. (need' = {} /\ stage' = "extract") \/ stage' = "vision"
    BY <1>6 DEF TesseractFails, EndTesseract, StartExtract, StartVision
  <2> QED
    BY <2>1, <2>2
<1>7. CASE VisionDone
  <2>1. /\ UNCHANGED <<cur, mode, layer>> /\ stage = "vision" /\ stage' = "extract"
        /\ text' = [p \in Pages(cur) |-> IF p \in need THEN VisionResult(p) ELSE text[p]]
    BY <1>7 DEF VisionDone, StartExtract
  <2> QED
    BY <2>1 DEF VisionResult
<1>8. CASE VisionFails
  <2>1. /\ UNCHANGED <<cur, mode, layer>> /\ stage = "vision" /\ stage' = "extract"
        /\ text' = [p \in Pages(cur) |->
                      IF p \in need /\ text[p] = "none" /\ layer[p] # "none" THEN "layer" ELSE text[p]]
    BY <1>8 DEF VisionFails, StartExtract
  <2> QED
    BY <2>1
<1>9. CASE VisionCancelled
  BY <1>9, <1>2 DEF VisionCancelled, Outcomes
<1>10. CASE Extracted
  BY <1>10, <1>2 DEF Extracted, Outcomes
<1>11. ASSUME NEW c \in Calls, TaskStep(c) PROVE Assigned'
  <2>1. UNCHANGED <<cur, stage>> /\ UNCHANGED recovery /\ (error' = error \/ stage = "vision")
    BY <1>11, TaskStepFrame DEF WorkerWaits
  <2> QED
    BY <2>1 DEF recovery
<1>12. ASSUME NEW i \in 1..Reads, CancelFile(i) PROVE Assigned'
  BY <1>12 DEF CancelFile, recovery, pages
<1>13. CASE UNCHANGED vars
  BY <1>13 DEF vars
<1> QED
  BY <1>1, <1>3, <1>4, <1>5, <1>6, <1>7, <1>8, <1>9, <1>10, <1>11, <1>12, <1>13, NextCases

(* The extraction call starts when no AI page of the scan is in flight, unless
   one of them failed. *)
LEMMA ExtractRuns ==
    ASSUME IInv, StartExtract, cur' = cur, cur \in 1..Reads,
           \A c \in Calls : c[1] = cur /\ c[2] # 0 /\ page[c] \in InFlight =>
               \E p \in Pages(cur) : page[<<cur, p>>] \in Bad
    PROVE  Running'
<1> USE ReadingAssumption, CallPairs DEF IInv, Typed, Running
<1>1. /\ page' = [page EXCEPT ![<<cur, 0>>] = "call"] /\ stage' = "extract"
      /\ <<cur, 0>> \in Calls /\ cur < cur + 1
  BY DEF StartExtract
<1>2. ASSUME NEW c \in Calls, c[1] > cur PROVE page'[c] = "none"
  BY <1>1, <1>2
<1>3. ASSUME NEW i \in 1..Reads, NEW p \in Pages(i), page[<<i, p>>] \in Bad
      PROVE  page'[<<i, p>>] \in Bad
  <2>1. p # 0
    BY DEF Pages
  <2>2. <<i, p>> # <<cur, 0>> /\ <<i, p>> \in Calls
    BY <2>1
  <2> QED
    BY <1>1, <1>3, <2>2
<1>4. ASSUME NEW c \in Calls, page'[c] \in InFlight
      PROVE  IF c[2] = 0 THEN c[1] = cur /\ stage' = "extract"
             ELSE \E p \in Pages(c[1]) : page'[<<c[1], p>>] \in Bad
  <2>1. CASE c = <<cur, 0>>
    BY <1>1, <2>1
  <2>2. CASE c # <<cur, 0>>
    <3>1. page[c] \in InFlight
      BY <1>1, <1>4, <2>2
    <3>2. c[2] # 0
      BY <2>2, <3>1 DEF LeftBehindOnlyByFailure, InState
    <3>3. \E p \in Pages(c[1]) : page[<<c[1], p>>] \in Bad
      BY <3>1, <3>2 DEF LeftBehindOnlyByFailure, InState
    <3> QED
      BY <1>3, <3>2, <3>3
  <2> QED
    BY <2>1, <2>2
<1> QED
  BY <1>1, <1>2, <1>4 DEF LeftBehindOnlyByFailure, InState

(* So do the AI pages, when nothing of the scan has run yet. *)
LEMMA VisionRuns ==
    ASSUME IInv, NEW P \in SUBSET Pages(cur), NEW R, StartVision(P, R),
           stage \in {"reading", "tesseract"}, cur' = cur, need' = P
    PROVE  Running'
<1> USE ReadingAssumption, CallPairs DEF IInv, Typed, Running
<1>1. /\ page' = [c \in Calls |-> IF c \in {cur} \X P THEN "queued" ELSE page[c]]
      /\ stage' = "vision" /\ error' = error /\ error = "none" /\ cur \in 1..Reads
  BY DEF StartVision, Held, Assigned, Bound
<1>2. ASSUME NEW c \in Calls, c[1] > cur PROVE page'[c] = "none"
  <2>1. c \notin {cur} \X P
    BY <1>1, <1>2
  <2> QED
    BY <1>1, <1>2, <2>1
<1>3. ASSUME NEW c \in Calls, c[1] = cur, c[2] \notin P PROVE page'[c] = "none"
  <2>1. c \notin {cur} \X P
    BY <1>3
  <2> QED
    BY <1>1, <1>3, <2>1
<1>4. ASSUME NEW c \in Calls, page'[c] \in InFlight
      PROVE  IF c[2] = 0 THEN c[1] = cur /\ stage' = "extract"
             ELSE c[1] = cur \/ \E p \in Pages(c[1]) : page'[<<c[1], p>>] \in Bad
  <2>1. CASE c[1] = cur
    <3>1. c[2] # 0
      BY <1>3, <1>4, <2>1 DEF Pages, InFlight
    <3> QED
      BY <2>1, <3>1
  <2>2. CASE c[1] # cur
    <3>1. page[c] \in InFlight /\ c[2] # 0 /\ \E p \in Pages(c[1]) : page[<<c[1], p>>] \in Bad
      BY <1>1, <1>4, <2>2 DEF LeftBehindOnlyByFailure, InState
    <3>2. \A p \in Pages(c[1]) : page'[<<c[1], p>>] = page[<<c[1], p>>]
      BY <1>1, <2>2
    <3> QED
      BY <3>1, <3>2
  <2> QED
    BY <2>1, <2>2
<1> QED
  BY <1>1, <1>2, <1>3, <1>4 DEF LeftBehindOnlyByFailure, InState

(* A scan may end when none of its calls is in flight, or an AI page failed. *)
LEMMA FinishRuns ==
    ASSUME IInv, NEW r \in Outcomes, Finish(r) \/ FinishUnlessCancelled(r),
           UNCHANGED <<cur, page>>,
           \A c \in Calls : c[1] = cur /\ page[c] \in InFlight =>
               c[2] # 0 /\ \E p \in Pages(cur) : page[<<cur, p>>] \in Bad
    PROVE  Running'
<1>1. stage' = "idle"
  BY FinishFrame
<1> QED
  BY <1>1 DEF IInv, Running, LeftBehindOnlyByFailure, InState

\* Every action keeps Running.
LEMMA RunningNext ==
    ASSUME IInv, [Next]_vars
    PROVE  Running'
<1> USE DEF IInv
<1>1. CASE Bind
  <2>1. /\ stage = "idle" /\ cur \in 0..Reads /\ cur' = cur + 1 /\ stage' \in {"idle", "reading"}
        /\ page' = page
    BY <1>1 DEF Bind, pages, Typed
  <2>2. \A c \in Calls : c[1] \in 1..Reads
    BY CallPairs
  <2>3. \A c \in Calls : c[1] >= cur' => page[c] = "none"
    BY <2>1, <2>2 DEF Running
  <2>4. \A c \in InState(InFlight) : c[2] # 0 /\ \E p \in Pages(c[1]) : page[<<c[1], p>>] \in Bad
    BY <2>1 DEF Running, LeftBehindOnlyByFailure
  <2>5. \A c \in Calls : c[1] > cur' => c[1] >= cur'
    BY <2>1, <2>2, ReadingAssumption
  <2> QED
    BY <2>1, <2>2, <2>3, <2>4, <2>5 DEF Running, LeftBehindOnlyByFailure, InState
<1>2. CASE ReadLayer
  <2>1. stage = "reading" /\ cur' = cur /\ cur \in 1..Reads
    BY <1>2 DEF ReadLayer, Bound
  <2>2. \A c \in Calls : c[1] = cur => page[c] \notin InFlight
    BY <2>1 DEF Running, InFlight
  <2>3. CASE StartExtract
    BY <2>1, <2>2, <2>3, ExtractRuns
  <2>4. CASE stage' = "tesseract" /\ UNCHANGED pages
    BY <2>1, <2>4 DEF Running, LeftBehindOnlyByFailure, InState, pages
  <2>5. ASSUME NEW P \in SUBSET Pages(cur), need' = P, StartVision(P, {}) PROVE Running'
    BY <2>1, <2>5, VisionRuns
  <2> QED
    BY <1>2, <2>3, <2>4, <2>5 DEF ReadLayer
<1>3. CASE ReadLayerFails
  <2>1. \A c \in Calls : c[1] = cur => page[c] \notin InFlight
    BY <1>3 DEF ReadLayerFails, Running, InFlight
  <2> QED
    BY <1>3, <2>1, FinishRuns DEF ReadLayerFails, Outcomes
<1>4. ASSUME NEW p \in todo, NEW result \in {"kept", "rendered", "failed"}, TesseractPage(p, result)
      PROVE  Running'
  <2>2. \A c \in Calls : c[1] = cur => page[c] \notin InFlight
    BY <1>4 DEF TesseractPage, Running, InFlight
  <2>3. stage = "tesseract" /\ cur' = cur /\ cur \in 1..Reads
    BY <1>4 DEF TesseractPage, Bound
  <2>4. CASE StartExtract
    BY <2>2, <2>3, <2>4, ExtractRuns
  <2>5. ASSUME NEW N \in SUBSET Pages(cur), NEW R, need' = N, StartVision(N, R) PROVE Running'
    BY <2>3, <2>5, VisionRuns
  <2>6. CASE Finish("cancelled") /\ page' = page
    BY <2>2, <2>3, <2>6, FinishRuns DEF Outcomes
  <2>7. CASE UNCHANGED <<stage, page, error>>
    BY <2>3, <2>7 DEF Running, LeftBehindOnlyByFailure, InState
  <2> QED
    BY <1>4, <2>4, <2>5, <2>6, <2>7 DEF TesseractPage, EndTesseract, Held
<1>5. CASE TesseractFails
  <2>1. stage = "tesseract" /\ cur' = cur /\ cur \in 1..Reads /\ need' \in SUBSET Pages(cur)
    BY <1>5 DEF TesseractFails, Bound
  <2>2. \A c \in Calls : c[1] = cur => page[c] \notin InFlight
    BY <2>1 DEF Running, InFlight
  <2>3. StartExtract \/ StartVision(need', {})
    BY <1>5 DEF TesseractFails, EndTesseract
  <2>4. CASE StartExtract
    BY <2>1, <2>2, <2>4, ExtractRuns
  <2>5. CASE StartVision(need', {})
    BY <2>1, <2>5, VisionRuns
  <2> QED
    BY <2>3, <2>4, <2>5
<1>6. CASE VisionDone
  <2>1. /\ stage = "vision" /\ StartExtract /\ cur' = cur /\ cur \in 1..Reads /\ need \subseteq Pages(cur)
        /\ \A p \in need : page[<<cur, p>>] \in {"text", "blank"}
    BY <1>6 DEF VisionDone, Bound, Held
  <2>2. ASSUME NEW c \in Calls, c[1] = cur PROVE page[c] \notin InFlight
    <3>1. CASE c[2] \in need
      BY <2>1, <2>2, <3>1, CallPairs DEF InFlight
    <3>2. CASE c[2] \notin need
      BY <2>1, <2>2, <3>2 DEF Running, InFlight
    <3> QED
      BY <3>1, <3>2
  <2> QED
    BY <2>1, <2>2, ExtractRuns
<1>7. CASE VisionFails
  <2>1. /\ stage = "vision" /\ StartExtract /\ cur' = cur /\ cur \in 1..Reads
        /\ \E p \in Pages(cur) : page[<<cur, p>>] \in Bad
    BY <1>7 DEF VisionFails, Bound, Running, Bad
  <2> QED
    BY <2>1, ExtractRuns
<1>8. CASE VisionCancelled
  <2>1. /\ stage = "vision" /\ Finish("cancelled") /\ UNCHANGED <<cur, page>>
        /\ \E p \in Pages(cur) : page[<<cur, p>>] \in Bad
    BY <1>8 DEF VisionCancelled, Running, Bad
  <2>2. \A c \in InState(InFlight) : c[2] # 0
    BY <2>1 DEF Running, LeftBehindOnlyByFailure
  <2> QED
    BY <2>1, <2>2, FinishRuns DEF Outcomes, InState
<1>9. CASE Extracted
  <2>1. /\ stage = "extract" /\ UNCHANGED <<cur, page>> /\ page[<<cur, 0>>] \notin InFlight
        /\ \E r \in Outcomes : Finish(r) \/ FinishUnlessCancelled(r)
    BY <1>9 DEF Extracted, Outcomes, InFlight, Ended, Bad
  <2>2. ASSUME NEW c \in Calls, c[1] = cur, page[c] \in InFlight
        PROVE  c[2] # 0 /\ \E p \in Pages(cur) : page[<<cur, p>>] \in Bad
    <3>1. c[2] # 0
      BY <2>1, <2>2, CallPairs
    <3> QED
      BY <2>1, <2>2, <3>1 DEF Running, LeftBehindOnlyByFailure, InState
  <2> QED
    BY <2>1, <2>2, FinishRuns
<1>10. ASSUME NEW c \in Calls, TaskStep(c) PROVE Running'
  <2>1. /\ UNCHANGED <<cur, stage, need>> /\ page[c] \in InFlight
        /\ page \in [Calls -> {"none"} \union InFlight \union Ended]
    BY <1>10, TaskStepFrame DEF WorkerWaits, recovery, Typed
  <2>2. PICK s \in InFlight \union Ended : page' = [page EXCEPT ![c] = s]
    BY <1>10, TaskStepFrame, IInv, Zenon DEF IInv
  <2>3. \A d \in Calls : page[d] = "none" => page'[d] = "none"
    BY <2>1, <2>2 DEF InFlight
  <2>4. ASSUME NEW i \in 1..Reads, NEW p \in Pages(i), page[<<i, p>>] \in Bad
        PROVE  page'[<<i, p>>] = page[<<i, p>>]
    BY <2>1, <2>2, <2>4, CallPairs DEF InFlight, Bad
  <2>5. stage = "vision" /\ error' # "none" => \E p \in Pages(cur) : page'[<<cur, p>>] = error'
    <3>1. SUFFICES ASSUME stage = "vision", error' # "none"
                   PROVE  \E p \in Pages(cur) : page'[<<cur, p>>] = error'
      OBVIOUS
    <3>2. cur \in 1..Reads
      BY <3>1 DEF Bound
    <3>3. CASE error' = error
      <4>1. PICK p \in Pages(cur) : page[<<cur, p>>] = error
        BY <3>1, <3>3 DEF Running
      <4>2. error \in Bad
        BY <3>1, <3>3 DEF Typed
      <4> QED
        BY <2>4, <3>2, <3>3, <4>1, <4>2
    <3>4. CASE c[1] = cur /\ c[2] # 0 /\ page' = [page EXCEPT ![c] = error']
      BY <2>1, <3>4, CallPairs
    <3> QED
      BY <1>10, <3>3, <3>4, TaskStepFrame
  <2>6. ASSUME NEW d \in Calls, page'[d] \in InFlight
        PROVE  IF d[2] = 0 THEN d[1] = cur /\ stage = "extract"
               ELSE \/ d[1] = cur /\ stage = "vision"
                    \/ \E p \in Pages(d[1]) : page'[<<d[1], p>>] \in Bad
    <3>1. page[d] \in InFlight
      BY <2>1, <2>2, <2>6
    <3>2. d[1] \in 1..Reads
      BY CallPairs
    <3> QED
      BY <2>4, <3>1, <3>2 DEF Running, LeftBehindOnlyByFailure, InState
  <2> QED
    BY <2>1, <2>3, <2>5, <2>6 DEF Running, LeftBehindOnlyByFailure, InState
<1>11. ASSUME NEW i \in 1..Reads, CancelFile(i) PROVE Running'
  BY <1>11 DEF CancelFile, recovery, pages, Running, LeftBehindOnlyByFailure, InState
<1>12. CASE UNCHANGED vars
  BY <1>12 DEF vars, Running, LeftBehindOnlyByFailure, InState
<1> QED
  BY <1>1, <1>2, <1>3, <1>4, <1>5, <1>6, <1>7, <1>8, <1>9, <1>10, <1>11, <1>12, NextCases

\* The inductive invariant of a read: all its parts hold in every reachable state.
THEOREM Invariance == Spec => []IInv
<1>1. IInv /\ [Next]_vars => IInv'
  BY TypedNext, BoundNext, HeldNext, AssignedNext, RunningNext DEF IInv
<1> QED
  BY InitInv, <1>1, PTL DEF Spec

(* Every variable keeps its type, and the recovery's locals exist exactly while
   a scan is read. *)
THEOREM TypeCorrect == Spec => []TypeOK
<1>1. IInv => TypeOK
  BY ReadingAssumption DEF IInv, Typed, Held, Bound, TypeOK, Texts
<1> QED
  BY <1>1, Invariance, PTL

(* A scan whose cancel was accepted ends as cancelled and in no other way, for
   any number of scans and pages. *)
THEOREM CancelWins == Spec => []CancelHonoured
<1>1. IInv => CancelHonoured
  BY DEF IInv, Bound
<1> QED
  BY <1>1, Invariance, PTL

(* No page with embedded text is lost on the way to the extraction. *)
THEOREM PagesReachExtraction == Spec => []NoPageDropped
<1>1. IInv => NoPageDropped
  BY DEF IInv, Assigned, NoPageDropped
<1> QED
  BY <1>1, Invariance, PTL

(* AI pages are left behind by a failure only. *)
THEOREM NothingElseLeftBehind == Spec => []LeftBehindOnlyByFailure
<1>1. IInv => LeftBehindOnlyByFailure
  BY DEF IInv, Running
<1> QED
  BY <1>1, Invariance, PTL

-----------------------------------------------------------------------------
(* Where each page's text is from, and what became of the pages that went to
   the model: what MethodExplained needs. *)
Sourced ==
    /\ stage = "tesseract" =>
         /\ \A p \in Pages(cur) : /\ text[p] = IF UsesTextLayer(layer[p]) THEN "layer" ELSE "none"
                                  /\ UsesTextLayer(layer[p]) \/ p \in todo \union kept \union need
         /\ todo \intersect (kept \union need) = {} /\ kept \intersect need = {}
    /\ stage \in {"vision", "extract"} =>
         /\ \A p \in Pages(cur) : /\ UsesTextLayer(layer[p]) <=> p \notin kept \union need
                                  /\ text[p] = "tesseract" <=> p \in kept
         /\ kept \intersect need = {}
    /\ stage = "vision" => need # {} /\ \A p \in Pages(cur) : text[p] # "vision"
    /\ stage = "extract" =>
         \/ /\ error = "none"
            /\ \A p \in need : page[<<cur, p>>] \in {"text", "blank"}
            /\ need = {} => \A p \in Pages(cur) : text[p] # "vision"
         \/ /\ error = "failed" /\ \E p \in need : page[<<cur, p>>] = "failed"
            /\ \A p \in Pages(cur) : text[p] # "vision"

\* Every action keeps Sourced.
LEMMA SourcedNext ==
    ASSUME IInv, Sourced, [Next]_vars
    PROVE  Sourced'
<1> USE DEF IInv, Held, Assigned, Sourced, UsesTextLayer
<1>1. CASE Bind
  BY <1>1 DEF Bind
<1>2. ASSUME stage' = "idle" PROVE Sourced'
  BY <1>2
<1>3. ASSUME NEW r \in Outcomes, Finish(r) \/ FinishUnlessCancelled(r) PROVE Sourced'
  BY <1>2, <1>3, FinishFrame
<1>4. CASE ReadLayer
  <2> DEFINE served == {p \in Pages(cur) : UsesTextLayer(layer'[p])}
  <2>1. /\ text' = [p \in Pages(cur) |-> IF p \in served THEN "layer" ELSE "none"]
        /\ layer' \in [Pages(cur) -> Layers] /\ UNCHANGED <<cur, mode, kept>>
        /\ stage = "reading"
    BY <1>4 DEF ReadLayer
  <2>2. \/ stage' = "extract" /\ Pages(cur) \ served = {} /\ UNCHANGED <<need, error>>
        \/ /\ stage' = "tesseract" /\ todo' = Pages(cur) \ served /\ UNCHANGED <<need, error>>
        \/ stage' = "vision" /\ need' = Pages(cur) \ served /\ need' # {}
    BY <1>4 DEF ReadLayer, StartExtract, StartVision, pages
  <2> QED
    BY <2>1, <2>2
<1>5. CASE ReadLayerFails
  BY <1>5, <1>3 DEF ReadLayerFails, Outcomes
<1>6. ASSUME NEW p \in todo, NEW result \in {"kept", "rendered", "failed"}, TesseractPage(p, result)
      PROVE  Sourced'
  <2>1. CASE Finish("cancelled")
    BY <1>3, <2>1 DEF Outcomes
  <2>2. CASE ~Finish("cancelled")
    <3>1. /\ UNCHANGED <<cur, mode, layer>> /\ stage = "tesseract" /\ todo' = todo \ {p}
          /\ \/ kept' = kept \union {p} /\ need' = need
             \/ kept' = kept /\ need' = need \union {p}
      BY <1>6, <2>2 DEF TesseractPage
    <3>2. CASE todo # {p}
      <4>1. stage' = "tesseract" /\ text' = text
        BY <1>6, <2>2, <3>2 DEF TesseractPage
      <4> QED
        BY <3>1, <4>1
    <3>3. CASE todo = {p}
      <4>1. /\ text' = [q \in Pages(cur) |-> IF q \in kept' THEN "tesseract" ELSE text[q]]
            /\ \/ need' = {} /\ stage' = "extract" /\ error' = error
               \/ need' # {} /\ stage' = "vision"
        BY <1>6, <2>2, <3>3 DEF TesseractPage, EndTesseract, StartExtract, StartVision
      <4>2. kept' \intersect need' = {} /\ todo' = {}
        BY <3>1, <3>3
      <4>3. ASSUME NEW q \in Pages(cur)
            PROVE  /\ UsesTextLayer(layer[q]) <=> q \notin kept' \union need'
                   /\ text'[q] = "tesseract" <=> q \in kept'
                   /\ text'[q] # "vision"
        BY <3>1, <3>3, <4>1
      <4> QED
        BY <3>1, <4>1, <4>2, <4>3
    <3> QED
      BY <3>2, <3>3
  <2> QED
    BY <2>1, <2>2
<1>7. CASE TesseractFails
  <2>1. /\ UNCHANGED <<cur, mode, layer>> /\ stage = "tesseract" /\ kept' = {}
        /\ need' = {q \in Pages(cur) : text[q] = "none"}
        /\ text' = text
    BY <1>7 DEF TesseractFails, EndTesseract
  <2>2. \/ need' = {} /\ stage' = "extract" /\ error' = error
        \/ need' # {} /\ stage' = "vision"
    BY <1>7 DEF TesseractFails, EndTesseract, StartExtract, StartVision
  <2> QED
    BY <2>1, <2>2
<1>8. CASE VisionDone
  <2>1. /\ UNCHANGED <<cur, mode, layer, kept, need, error>> /\ stage = "vision" /\ stage' = "extract"
        /\ text' = [p \in Pages(cur) |-> IF p \in need THEN VisionResult(p) ELSE text[p]]
        /\ \A p \in need : page[<<cur, p>>] \in {"text", "blank"}
        /\ page' = [page EXCEPT ![<<cur, 0>>] = "call"]
    BY <1>8 DEF VisionDone, StartExtract
  <2>2. cur \in 1..Reads /\ \A p \in Pages(cur) : p # 0 /\ <<cur, p>> \in Calls
    BY <2>1, CallPairs DEF Bound, Pages
  <2>3. \A p \in need : page'[<<cur, p>>] \in {"text", "blank"}
    BY <2>1, <2>2 DEF Typed
  <2>4. error = "none"
    <3>1. SUFFICES ASSUME error # "none" PROVE FALSE
      OBVIOUS
    <3>2. PICK p \in Pages(cur) : page[<<cur, p>>] = error
      BY <2>1, <3>1 DEF Running
    <3>3. error \in Bad
      BY <3>1 DEF Typed
    <3>4. p \in need
      BY <2>1, <2>2, <3>2, <3>3 DEF Running, Bad
    <3> QED
      BY <2>1, <3>2, <3>3, <3>4 DEF Bad
  <2>5. \A p \in Pages(cur) : text'[p] = "tesseract" <=> p \in kept
    BY <2>1 DEF VisionResult
  <2>6. need = {} => \A p \in Pages(cur) : text'[p] # "vision"
    BY <2>1
  <2> QED
    BY <2>1, <2>3, <2>4, <2>5, <2>6
<1>9. CASE VisionFails
  <2>1. /\ UNCHANGED <<cur, mode, layer, kept, need, error>> /\ stage = "vision" /\ stage' = "extract"
        /\ text' = [p \in Pages(cur) |->
                      IF p \in need /\ text[p] = "none" /\ layer[p] # "none" THEN "layer" ELSE text[p]]
        /\ page' = [page EXCEPT ![<<cur, 0>>] = "call"] /\ error = "failed"
    BY <1>9 DEF VisionFails, StartExtract
  <2>2. cur \in 1..Reads /\ \A p \in Pages(cur) : p # 0 /\ <<cur, p>> \in Calls
    BY <2>1, CallPairs DEF Bound, Pages
  <2>3. PICK p \in Pages(cur) : page[<<cur, p>>] = "failed"
    BY <2>1 DEF Running
  <2>4. p \in need
    BY <2>1, <2>2, <2>3 DEF Running
  <2>5. page'[<<cur, p>>] = "failed"
    BY <2>1, <2>2, <2>3 DEF Typed
  <2>6. \A q \in Pages(cur) : text'[q] # "vision" /\ (text'[q] = "tesseract" <=> q \in kept)
    BY <2>1
  <2> QED
    BY <2>1, <2>4, <2>5, <2>6
<1>10. CASE VisionCancelled
  BY <1>10, <1>3 DEF VisionCancelled, Outcomes
<1>11. CASE Extracted
  BY <1>11, <1>3 DEF Extracted, Outcomes
<1>12. ASSUME NEW c \in Calls, TaskStep(c) PROVE Sourced'
  <2>1. /\ UNCHANGED <<cur, stage, mode, layer, text, todo, kept, need>>
        /\ error' = error \/ stage = "vision"
    BY <1>12, TaskStepFrame DEF WorkerWaits, recovery
  <2>2. PICK s : page' = [page EXCEPT ![c] = s] /\ page[c] \in InFlight
    BY <1>12, TaskStepFrame
  <2>3. ASSUME NEW d \in Calls, page[d] \in {"text", "blank", "failed"} PROVE page'[d] = page[d]
    BY <2>2, <2>3 DEF Typed, InFlight
  <2>4. stage = "extract" => \A p \in need : <<cur, p>> \in Calls
    BY CallPairs DEF Bound
  <2>5. stage = "extract" =>
          /\ (\A p \in need : page[<<cur, p>>] \in {"text", "blank"}) =>
                \A p \in need : page'[<<cur, p>>] \in {"text", "blank"}
          /\ (\E p \in need : page[<<cur, p>>] = "failed") => \E p \in need : page'[<<cur, p>>] = "failed"
    BY <2>3, <2>4
  <2> QED
    BY <2>1, <2>5
<1>13. ASSUME NEW i \in 1..Reads, CancelFile(i) PROVE Sourced'
  BY <1>13 DEF CancelFile, recovery, pages
<1>14. CASE UNCHANGED vars
  BY <1>14 DEF vars
<1> QED
  BY <1>1, <1>4, <1>5, <1>6, <1>7, <1>8, <1>9, <1>10, <1>11, <1>12, <1>13, <1>14, NextCases

(* What can be told from the reported method, and from whether the model is said
   to have read, for any number of pages, failures and cancels (ocr.py:697-736). *)
THEOREM MethodsAreExplained == Spec => []MethodExplained
<1>1. Init => Sourced
  BY DEF Init, Sourced
<1>2. IInv /\ Sourced => MethodExplained
  <2> SUFFICES ASSUME IInv, Sourced, stage = "extract" PROVE MethodExplained
    BY DEF MethodExplained
  <2>1. /\ text \in [Pages(cur) -> Sources] /\ layer \in [Pages(cur) -> Layers]
        /\ kept \subseteq Pages(cur) /\ need \subseteq Pages(cur)
    BY DEF IInv, Held
  <2>2. 1 \in Pages(cur)
    BY ReadingAssumption DEF IInv, Bound, Pages
  <2>3. \A p \in Pages(cur) : UsesTextLayer(layer[p]) <=> p \notin kept \union need
    BY DEF Sourced
  <2>4. \A p \in Pages(cur) : text[p] = "tesseract" <=> p \in kept
    BY DEF Sourced
  <2>5. NeedOcr = kept \union need /\ FromLayer = Pages(cur) \ (kept \union need)
    BY <2>1, <2>3 DEF NeedOcr, FromLayer
  <2>6. Texts # {} /\ \A x \in Texts : \E p \in Pages(cur) : x = text[p]
    BY <2>1, <2>2 DEF Texts
  <2>7a. \A p \in need : Answered(p) <=> page[<<cur, p>>] \in {"text", "blank"}
    BY DEF Answered
  <2>7. UsedAiOcr <=> need # {} /\ \A p \in need : page[<<cur, p>>] \in {"text", "blank"}
    <3>1. CASE need = {}
      <4>1. "vision" \notin Texts
        BY <2>6, <3>1 DEF Sourced
      <4> QED
        BY <3>1, <4>1 DEF UsedAiOcr, VisionOk
    <3>2. CASE need # {} /\ error = "none"
      <4>1. \A p \in need : page[<<cur, p>>] \in {"text", "blank"}
        BY <3>2 DEF Sourced
      <4>2. VisionOk
        BY <3>2 DEF VisionOk
      <4>3. FromLayer # {} \/ kept # {} => SomeText
        <5>1. ASSUME NEW p \in FromLayer PROVE text[p] = "layer" /\ text[p] \in Texts
          BY <2>1, <2>3, <2>5 DEF IInv, Assigned, Texts
        <5>2. ASSUME NEW p \in kept PROVE text[p] = "tesseract" /\ text[p] \in Texts
          BY <2>1, <2>4 DEF Texts
        <5> QED
          BY <5>1, <5>2 DEF SomeText
      <4>4. Method \in {"ai_vision", "adaptive"}
        BY <2>5, <3>2, <4>2, <4>3 DEF Method
      <4> QED
        BY <3>2, <4>1, <4>2, <4>4 DEF UsedAiOcr
    <3>3. CASE error = "failed"
      <4>1. (\E p \in need : page[<<cur, p>>] = "failed") /\ \A p \in Pages(cur) : text[p] # "vision"
        BY <3>3 DEF Sourced
      <4>2. "vision" \notin Texts /\ ~VisionOk
        BY <2>6, <3>3, <4>1 DEF VisionOk
      <4> QED
        BY <4>1, <4>2 DEF UsedAiOcr
    <3> QED
      BY <3>1, <3>2, <3>3 DEF Sourced
  <2>8. Method = "tesseract" <=> Texts = {"tesseract"}
    <3>1. ASSUME Method = "tesseract" PROVE Texts = {"tesseract"}
      <4>1. FromLayer = {} /\ need = {}
        BY <3>1 DEF Method
      <4>2. \A p \in Pages(cur) : text[p] = "tesseract"
        BY <2>4, <2>5, <4>1
      <4> QED
        BY <2>6, <4>2
    <3>2. ASSUME Texts = {"tesseract"} PROVE Method = "tesseract"
      <4>1. \A p \in Pages(cur) : p \in kept
        BY <2>1, <2>4, <3>2 DEF Texts
      <4>2. kept # {} /\ NeedOcr # {} /\ FromLayer = {} /\ need = {}
        BY <2>1, <2>2, <2>5, <4>1 DEF Sourced
      <4> QED
        BY <4>2 DEF Method, VisionOk
    <3> QED
      BY <3>1, <3>2
  <2>9. Method = "pdf_text_layer" => Texts = {"layer"}
    <3>1. SUFFICES ASSUME Method = "pdf_text_layer" PROVE Texts = {"layer"}
      OBVIOUS
    <3>2. NeedOcr = {}
      BY <3>1 DEF Method
    <3>3. \A p \in Pages(cur) : text[p] = "layer"
      BY <2>3, <2>5, <3>2 DEF IInv, Assigned
    <3> QED
      BY <2>6, <3>3
  <2>10. Method = "ai_vision" => need = Pages(cur) /\ "tesseract" \notin Texts
    BY <2>1, <2>4, <2>5, <2>6 DEF Method
  <2>11. Method = "none" => Texts = {"none"}
    BY <2>6 DEF Method, SomeText
  <2>12. error = "failed" <=> \E p \in need : page[<<cur, p>>] = "failed"
    BY DEF Sourced
  <2>13. Method = "pdf_text_layer_fallback" <=> SomeText /\ error = "failed"
    <3>1. ASSUME SomeText, error = "failed" PROVE Method = "pdf_text_layer_fallback"
      <4>1. NeedOcr # {} /\ need # {} /\ ~VisionOk
        BY <2>5, <2>12, <3>1 DEF VisionOk
      <4> QED
        BY <3>1, <4>1 DEF Method
    <3> QED
      BY <3>1 DEF Method
  <2>14. error = "failed" => "vision" \notin Texts
    BY <2>6 DEF Sourced
  <2>15. Method = "adaptive" => /\ \A p \in need : Answered(p)
                               /\ Texts \intersect {"layer", "tesseract"} # {}
    <3>1. SUFFICES ASSUME Method = "adaptive"
          PROVE  (\A p \in need : Answered(p)) /\ Texts \intersect {"layer", "tesseract"} # {}
      OBVIOUS
    <3>2. error = "none" /\ \A p \in need : Answered(p)
      BY <2>7a, <3>1 DEF Method, Sourced
    <3>3. FromLayer # {} \/ kept # {}
      BY <2>5, <3>1, <3>2 DEF Method, VisionOk
    <3>4. ASSUME NEW p \in FromLayer PROVE "layer" \in Texts
      BY <2>1, <2>3, <2>5 DEF IInv, Assigned, Texts
    <3>5. ASSUME NEW p \in kept PROVE "tesseract" \in Texts
      BY <2>1, <2>4 DEF Texts
    <3> QED
      BY <3>2, <3>3, <3>4, <3>5
  <2> QED
    BY <2>7, <2>7a, <2>8, <2>9, <2>10, <2>11, <2>12, <2>13, <2>14, <2>15 DEF MethodExplained
<1> QED
  BY <1>1, <1>2, Invariance, SourcedNext, PTL DEF Spec

=============================================================================
