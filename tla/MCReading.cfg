\* A scan of two pages, one at the model at a time, and a scan of one page;
\* either may be cancelled. The worker stops after the last scan.
SPECIFICATION FairSpec
CONSTANTS
    Reads = 2
    PageCount <- Two
    Concurrency = 1
    Modes = {"balanced", "maximum"}
    Tesseract = TRUE
    None = None
INVARIANTS CancelHonoured NoPageDropped MethodExplained LeftBehindOnlyByFailure
PROPERTIES ReadEnds PagesEnd
CHECK_DEADLOCK FALSE
