------------------------------ MODULE Reading ------------------------------
(***************************************************************************)
(* How the ingest worker reads a scan: the text layer, Tesseract, the AI     *)
(* pages and the extraction (deepcatalog/ocr.py, ingest.py), the model calls *)
(* (llm.run_cancellable), and the cancel scope that the whole process shares *)
(* (job_control.py).                                                        *)
(*                                                                          *)
(* All of it runs on one event loop: an action is what runs from one         *)
(* suspension to the next. Emitting a step does not suspend. The AI pages of *)
(* a scan are tasks of their own under asyncio.gather, which raises the       *)
(* first failure at once and leaves the other tasks running.                 *)
(***************************************************************************)
EXTENDS Integers, FiniteSets, Functions

CONSTANTS
    Reads,       \* bound: scans read, one after the other
    PageCount,   \* the pages of each scan, after resolve_ocr_page_limit
    Concurrency, \* resolve_ocr_concurrency()
    Modes,       \* OCR modes that are switched between; "fast" differs from "balanced" in a threshold only
    Tesseract,   \* tesseract_enabled()
    None

ASSUME ReadingAssumption ==
    /\ Reads \in Nat /\ PageCount \in [1..Reads -> Nat \ {0}]
    /\ Concurrency \in Nat \ {0}
    /\ Modes \subseteq {"balanced", "maximum"}
    /\ Tesseract \in BOOLEAN
    /\ None \notin 1..Reads

VARIABLES
    cur,       \* the number of the scan that is or was read last
    stage,     \* where the worker is suspended
    scope,     \* _file_cancel_id and _file_cancel_event: the scan bound, or None
    cancelled, \* scans whose cancel event is set
    mode,      \* the OCR mode this scan is read with
    layer,     \* what each page's embedded text is worth
    text,      \* page_parts: where each page's text comes from
    todo,      \* pages Tesseract has not tried
    kept,      \* pages Tesseract transcribed well enough
    need,      \* pages_need_vision
    images,    \* page_images of each scan: pages Tesseract has rendered already
    page,      \* the AI pages of each scan; page 0 is the extraction call
    event,     \* the scan whose cancel event a call was given, or None
    error,     \* the first failure among the AI pages of this scan
    outcome    \* the status in a scan's file_finished

recovery == <<mode, layer, text, todo, kept, need>>
pages == <<images, page, event, error>>
vars == <<cur, stage, scope, cancelled, mode, layer, text, todo, kept, need, images, page, event, error, outcome>>

Pages(i) == 1..PageCount[i]
Calls == UNION {{i} \X (0..PageCount[i]) : i \in 1..Reads}

(* What assess_text_quality says of a page's embedded text, or that there is none. *)
Layers == {"good", "poor", "none"}
Sources == {"layer", "tesseract", "vision", "none"}
Stages == {"idle", "reading", "tesseract", "vision", "extract"}
(* An AI page: created, waiting for the semaphore, rendering in a thread, its
   call running, its call being joined after a cancel or a timeout, and ended. *)
InFlight == {"queued", "rendering", "call", "aborting", "expiring"}
Bad == {"failed", "cancelled"}
Ended == {"text", "blank"} \union Bad
Outcomes == {"done", "error", "cancelled"}

InState(S) == {c \in Calls : page[c] \in S}

Init ==
    /\ cur = 0 /\ stage = "idle" /\ scope = None /\ cancelled = {}
    /\ mode = "balanced"
    /\ layer = <<>> /\ text = <<>> /\ todo = {} /\ kept = {} /\ need = {}
    /\ images = [i \in 1..Reads |-> {}]
    /\ page = [c \in Calls |-> "none"]
    /\ event = [c \in Calls |-> None]
    /\ error = "none"
    /\ outcome = [i \in 1..Reads |-> "none"]

-----------------------------------------------------------------------------
(* job_control.py *)

(* is_file_cancelled: of whatever scan the scope is bound to. *)
IsFileCancelled == scope \in cancelled

(* request_cancel_file, from the page. *)
CancelFile(i) ==
    /\ scope = i
    /\ cancelled' = cancelled \union {i}
    /\ UNCHANGED <<cur, stage, scope, outcome>> /\ UNCHANGED recovery /\ UNCHANGED pages

Forget == layer' = <<>> /\ text' = <<>> /\ todo' = {} /\ kept' = {} /\ need' = {} /\ error' = "none"

(* The end of _process_one_file: file_finished is published and the scope is
   cleared in one run of the worker; the locals of the reading go with it. *)
Finish(result) ==
    /\ outcome' = [outcome EXCEPT ![cur] = result]
    /\ stage' = "idle" /\ scope' = None
    /\ Forget

(* Mutant of FinishUnlessCancelled: ingest_document without its raise_if_cancelled. *)
FinishRegardless(result) == Finish(result)

(* raise_if_cancelled at the end of the reading decides before its status does. *)
FinishUnlessCancelled(result) == Finish(IF IsFileCancelled THEN "cancelled" ELSE result)

-----------------------------------------------------------------------------
(* recover_document_text *)

(* page_uses_text_layer *)
UsesTextLayer(quality) == mode # "maximum" /\ quality = "good"

(* extract_document_fields calls the model with the recovered text. *)
StartExtract ==
    /\ stage' = "extract"
    /\ page' = [page EXCEPT ![<<cur, 0>>] = "call"]
    /\ event' = [event EXCEPT ![<<cur, 0>>] = scope]
    /\ UNCHANGED <<images, error, scope, outcome>>

(* _ai_vision_transcribe_indices creates a task for each page. *)
StartVision(P, rendered) ==
    /\ stage' = "vision"
    /\ page' = [c \in Calls |-> IF c \in {cur} \X P THEN "queued" ELSE page[c]]
    /\ images' = [images EXCEPT ![cur] = rendered]
    /\ UNCHANGED <<event, error, scope, outcome>>

(* The worker takes the next scan and suspends on its text layer; a scan that
   fails validation ends at once. *)
Bind ==
    /\ stage = "idle" /\ cur < Reads
    /\ cur' = cur + 1
    /\ mode' \in Modes
    /\ \/ stage' = "reading" /\ scope' = cur + 1 /\ UNCHANGED outcome
       \/ outcome' = [outcome EXCEPT ![cur + 1] = "error"] /\ UNCHANGED <<stage, scope>>
    /\ UNCHANGED <<cancelled, layer, text, todo, kept, need>> /\ UNCHANGED pages

(* The text layer is there, or could not be had (every page "none"): the pages
   it does not serve go to Tesseract or to the model. *)
ReadLayer ==
    /\ stage = "reading" /\ ~IsFileCancelled
    /\ layer' \in [Pages(cur) -> Layers]
    /\ LET served == {p \in Pages(cur) : UsesTextLayer(layer'[p])}
           rest == Pages(cur) \ served
       IN  /\ text' = [p \in Pages(cur) |-> IF p \in served THEN "layer" ELSE "none"]
           /\ IF rest = {} THEN StartExtract /\ UNCHANGED <<todo, need>>
              ELSE IF mode # "maximum" /\ Tesseract
              THEN /\ stage' = "tesseract" /\ todo' = rest
                   /\ UNCHANGED <<need, scope, outcome>> /\ UNCHANGED pages
              ELSE need' = rest /\ StartVision(rest, {}) /\ UNCHANGED todo
    /\ UNCHANGED <<cur, cancelled, mode, kept>>

(* The media worker fails on the scan, or it was cancelled meanwhile. *)
ReadLayerFails ==
    /\ stage = "reading"
    /\ FinishUnlessCancelled("error")
    /\ UNCHANGED <<cur, cancelled, mode, images, page, event>>

-----------------------------------------------------------------------------
(* _tesseract_transcribe_indices *)

(* After the last page the kept texts join the layer's; the others are for the model. *)
EndTesseract(K, N, rendered) ==
    /\ text' = [p \in Pages(cur) |-> IF p \in K THEN "tesseract" ELSE text[p]]
    /\ IF N = {} THEN StartExtract ELSE StartVision(N, rendered)

(* One page, tried in threads: kept, rendered but not read well, or not even
   rendered. The next page is preceded by raise_if_cancelled, the end is not. *)
TesseractPage(p, result) ==
    /\ stage = "tesseract" /\ p \in todo /\ \A q \in todo : p <= q
    /\ LET K == IF result = "kept" THEN kept \union {p} ELSE kept
           N == IF result = "kept" THEN need ELSE need \union {p}
           rendered == IF result = "rendered" THEN images[cur] \union {p} ELSE images[cur]
           Keep == todo' = todo \ {p} /\ kept' = K /\ need' = N /\ UNCHANGED layer
       IN  IF todo = {p} THEN Keep /\ EndTesseract(K, N, rendered)
           ELSE IF IsFileCancelled THEN Finish("cancelled") /\ UNCHANGED <<images, page, event>>
           ELSE /\ Keep /\ images' = [images EXCEPT ![cur] = rendered]
                /\ UNCHANGED <<stage, scope, outcome, text, page, event, error>>
    /\ UNCHANGED <<cur, cancelled, mode>>

(* An exception gives up the whole pass, with what it had kept. *)
TesseractFails ==
    /\ stage = "tesseract"
    /\ todo' = {} /\ kept' = {}
    /\ need' = {p \in Pages(cur) : text[p] = "none"}
    /\ EndTesseract({}, need', {})
    /\ UNCHANGED <<cur, cancelled, mode, layer>>

-----------------------------------------------------------------------------
(* The AI pages, and run_cancellable *)

WorkerWaits == UNCHANGED <<cur, stage, scope, cancelled, outcome>> /\ UNCHANGED recovery

(* A call gets the cancel event that is bound when it starts. *)
StartCall(c) ==
    /\ page' = [page EXCEPT ![c] = "call"]
    /\ event' = [event EXCEPT ![c] = scope]
    /\ UNCHANGED <<images, error>>

(* gather keeps the first failure; those of an earlier scan go nowhere. *)
EndPage(c, result) ==
    /\ page' = [page EXCEPT ![c] = result]
    /\ error' = IF result \in Bad /\ error = "none" /\ c[1] = cur /\ c[2] # 0 /\ stage = "vision"
                THEN result ELSE error
    /\ event' = [event EXCEPT ![c] = None]
    /\ UNCHANGED images

(* A page gets the semaphore and runs to its first suspension. *)
Acquire(c) ==
    /\ page[c] = "queued"
    /\ Cardinality(InState(InFlight \ {"queued"}) \intersect ({c[1]} \X Pages(c[1]))) < Concurrency
    /\ IF IsFileCancelled THEN EndPage(c, "cancelled")
       ELSE IF c[2] \in images[c[1]] THEN StartCall(c)
       ELSE page' = [page EXCEPT ![c] = "rendering"] /\ UNCHANGED <<images, event, error>>
    /\ WorkerWaits

Rendered(c) ==
    /\ page[c] = "rendering"
    /\ StartCall(c) \/ EndPage(c, "failed")
    /\ WorkerWaits

(* The provider answers, with text, with nothing or with an error. An extraction
   that is empty or no JSON counts as failed. *)
Answer(c, result) ==
    /\ page[c] = "call"
    /\ result = "blank" => c[2] # 0
    /\ EndPage(c, result)
    /\ WorkerWaits

(* The call's event is set: the call is cancelled and joined. *)
Abort(c) ==
    /\ page[c] = "call" /\ event[c] \in cancelled
    /\ page' = [page EXCEPT ![c] = "aborting"]
    /\ UNCHANGED <<images, event, error>> /\ WorkerWaits

(* Mutants of Expire: run_cancellable hands its timeout to only one of its branches. *)
ExpireUnbound(c) ==
    /\ page[c] = "call" /\ event[c] = None
    /\ page' = [page EXCEPT ![c] = "expiring"]
    /\ UNCHANGED <<images, event, error>> /\ WorkerWaits
ExpireBound(c) ==
    /\ page[c] = "call" /\ event[c] # None
    /\ page' = [page EXCEPT ![c] = "expiring"]
    /\ UNCHANGED <<images, event, error>> /\ WorkerWaits

(* The timeout that every call has passes first. *)
Expire(c) ==
    /\ page[c] = "call"
    /\ page' = [page EXCEPT ![c] = "expiring"]
    /\ UNCHANGED <<images, event, error>> /\ WorkerWaits

(* _join_cancelled returns, and run_cancellable raises. *)
Joined(c) ==
    /\ page[c] \in {"aborting", "expiring"}
    /\ EndPage(c, IF page[c] = "aborting" THEN "cancelled" ELSE "failed")
    /\ WorkerWaits

-----------------------------------------------------------------------------
(* The worker resumes *)

(* Mutant of VisionResult: an empty AI text is kept as it is. *)
VisionOnly(p) == IF page[<<cur, p>>] = "text" THEN "vision" ELSE "none"

VisionResult(p) ==
    IF page[<<cur, p>>] = "text" THEN "vision" ELSE IF layer[p] # "none" THEN "layer" ELSE "none"

(* Mutant of VisionDone: the wait ends with the first page. *)
FirstVisionDone ==
    /\ stage = "vision" /\ \E p \in need : page[<<cur, p>>] \in {"text", "blank"}
    /\ text' = [p \in Pages(cur) |-> IF p \in need THEN VisionResult(p) ELSE text[p]]
    /\ StartExtract
    /\ UNCHANGED <<cur, cancelled, mode, layer, todo, kept, need>>

(* Every AI page has its text; where that is empty the text layer stands in. *)
VisionDone ==
    /\ stage = "vision" /\ \A p \in need : page[<<cur, p>>] \in {"text", "blank"}
    /\ text' = [p \in Pages(cur) |-> IF p \in need THEN VisionResult(p) ELSE text[p]]
    /\ StartExtract
    /\ UNCHANGED <<cur, cancelled, mode, layer, todo, kept, need>>

(* A page failed: what the others read is given up for the text layer. *)
VisionFails ==
    /\ stage = "vision" /\ error = "failed"
    /\ text' = [p \in Pages(cur) |->
                  IF p \in need /\ text[p] = "none" /\ layer[p] # "none" THEN "layer" ELSE text[p]]
    /\ StartExtract
    /\ UNCHANGED <<cur, cancelled, mode, layer, todo, kept, need>>

(* A page raised FileCancelledError; nothing else is waited for. *)
VisionCancelled ==
    /\ stage = "vision" /\ error = "cancelled"
    /\ Finish("cancelled")
    /\ UNCHANGED <<cur, cancelled, mode, images, page, event>>

(* The extraction call has ended. From here to the end of the filing nothing
   suspends: the scan is filed, or queued for review, or an error. *)
Extracted ==
    /\ stage = "extract" /\ page[<<cur, 0>>] \in Ended
    /\ \/ page[<<cur, 0>>] = "cancelled" /\ Finish("cancelled")
       \/ page[<<cur, 0>>] = "failed" /\ FinishUnlessCancelled("error")
       \/ page[<<cur, 0>>] = "text" /\ \E result \in {"done", "error"} : FinishUnlessCancelled(result)
    /\ UNCHANGED <<cur, cancelled, mode, images, page, event>>

Worker ==
    \/ Bind \/ ReadLayer \/ ReadLayerFails
    \/ \E p \in todo, result \in {"kept", "rendered", "failed"} : TesseractPage(p, result)
    \/ TesseractFails
    \/ VisionDone \/ VisionFails \/ VisionCancelled \/ Extracted

(* What ends for certain: threads are bounded by the media worker's deadline,
   calls by their timeout. A provider need not answer. *)
Task(c) == Acquire(c) \/ Rendered(c) \/ Abort(c) \/ Expire(c) \/ Joined(c)

Next ==
    \/ Worker
    \/ \E c \in Calls : Task(c)
    \/ \E c \in Calls, result \in {"text", "blank", "failed"} : Answer(c, result)
    \/ \E i \in 1..Reads : CancelFile(i)

Spec == Init /\ [][Next]_vars
FairSpec == Spec /\ WF_vars(Worker) /\ \A c \in Calls : WF_vars(Task(c))

-----------------------------------------------------------------------------
(* What recover_document_text reports *)

Texts == {text[p] : p \in DOMAIN text}
SomeText == Texts \ {"none"} # {}

(* used_ai_ocr and method, with page_count_by_vision the size of need. *)
VisionOk == need # {} /\ error # "failed"
NeedOcr == {p \in DOMAIN layer : ~UsesTextLayer(layer[p])}
FromLayer == DOMAIN layer \ NeedOcr

(* Mutant of Method: a scan some of whose pages went to the model counts as
   read by Tesseract when Tesseract read the others. *)
MethodOfSome ==
    IF NeedOcr = {} THEN "pdf_text_layer"
    ELSE IF VisionOk /\ FromLayer = {} /\ kept = {} THEN "ai_vision"
    ELSE IF kept # {} /\ FromLayer = {} THEN "tesseract"
    ELSE IF error = "failed" /\ SomeText THEN "pdf_text_layer_fallback"
    ELSE IF SomeText THEN "adaptive" ELSE "none"

Method ==
    IF NeedOcr = {} THEN "pdf_text_layer"
    ELSE IF VisionOk /\ FromLayer = {} /\ kept = {} THEN "ai_vision"
    ELSE IF kept # {} /\ FromLayer = {} /\ need = {} THEN "tesseract"
    ELSE IF error = "failed" /\ SomeText THEN "pdf_text_layer_fallback"
    ELSE IF SomeText THEN "adaptive" ELSE "none"

UsedAiOcr == "vision" \in Texts \/ (VisionOk /\ Method \in {"ai_vision", "adaptive"})

-----------------------------------------------------------------------------
(* Properties *)

TypeOK ==
    /\ cur \in 0..Reads /\ stage \in Stages
    /\ scope \in 1..Reads \union {None} /\ cancelled \subseteq 1..Reads
    /\ mode \in {"balanced", "maximum"}
    /\ cur # 0 => /\ DOMAIN text \in {{}, Pages(cur)} /\ DOMAIN layer = DOMAIN text
                  /\ todo \union kept \union need \subseteq Pages(cur)
    /\ Texts \subseteq Sources /\ \A p \in DOMAIN layer : layer[p] \in Layers
    /\ images \in [1..Reads -> SUBSET Nat]
    /\ page \in [Calls -> {"none"} \union InFlight \union Ended]
    /\ event \in [Calls -> 1..Reads \union {None}]
    /\ error \in {"none"} \union Bad
    /\ outcome \in [1..Reads -> {"none"} \union Outcomes]

(* A scan whose Cancel was accepted is never filed, queued for review or
   reported as an error: whatever race the cancel runs with an answer, a
   timeout or a page's failure (raise_if_cancelled, ingest.py:284). *)
CancelHonoured == \A i \in cancelled : outcome[i] \in {"none", "cancelled"}

(* However the recovery went, a page with embedded text reaches the extraction
   with some text, and with that text itself where it is good enough for the
   mode (recover_document_text, ocr.py:557-696). *)
NoPageDropped ==
    stage = "extract" =>
        \A p \in Pages(cur) : /\ layer[p] # "none" => text[p] # "none"
                              /\ UsesTextLayer(layer[p]) => text[p] = "layer"

Answered(p) == page[<<cur, p>>] \in {"text", "blank"}

(* What can be told from the method a reading reports. The AI is said to have
   read exactly when the model answered for every page that went to it.
   "tesseract" and "pdf_text_layer" name the one source of all the text;
   "ai_vision" and "adaptive" say that no page failed at the model, and
   "adaptive" that a page was served otherwise; a page that came back empty has
   its text layer in both. "pdf_text_layer_fallback" says that a page failed
   at the model, and so that no text is the model's, but nothing of the layer:
   what is left may be Tesseract's alone (ocr.py:697-736). *)
MethodExplained ==
    stage = "extract" =>
        /\ UsedAiOcr <=> need # {} /\ \A p \in need : Answered(p)
        /\ Method = "tesseract" <=> Texts = {"tesseract"}
        /\ Method = "pdf_text_layer" => Texts = {"layer"}
        /\ Method = "ai_vision" => need = Pages(cur) /\ "tesseract" \notin Texts
        /\ Method = "adaptive" => /\ \A p \in need : Answered(p)
                                 /\ Texts \intersect {"layer", "tesseract"} # {}
        /\ Method = "pdf_text_layer_fallback" <=>
              SomeText /\ \E p \in need : page[<<cur, p>>] = "failed"
        /\ Method = "pdf_text_layer_fallback" => "vision" \notin Texts
        /\ Method = "none" => Texts = {"none"}

(* AI pages outlive the wait for them only when one of them failed, and the
   extraction call never outlives the scan's reading (asyncio.gather, ocr.py:360). *)
LeftBehindOnlyByFailure ==
    \A c \in InState(InFlight) :
        IF c[2] = 0 THEN c[1] = cur /\ stage = "extract"
        ELSE \/ c[1] = cur /\ stage = "vision"
             \/ \E p \in Pages(c[1]) : page[<<c[1], p>>] \in Bad

(* The worker comes to the end of every scan, also with a provider that never
   answers and pages of an earlier scan still running (the timeouts of llm.py). *)
ReadEnds == \A i \in 1..Reads : (scope = i) ~> (outcome[i] # "none")

(* A page left behind ends too, whatever scope it reads in the meantime. *)
PagesEnd == \A c \in Calls : (page[c] \in InFlight) ~> (page[c] \in Ended)

=============================================================================
