-------------------------------- MODULE Uploads --------------------------------
(***************************************************************************)
(* Scans on their way into the inbox and out of it: streamed uploads and   *)
(* dropped files (deepcatalog/tools/filesystem.py), one filing thread in   *)
(* the steps file_and_persist takes (pipeline/agents.py), Clear inbox and  *)
(* Clear all data (tools/storage.py).  None of them excludes another.      *)
(*                                                                         *)
(* Every upload asks for the same name: name 1 is scan.pdf, name n is      *)
(* scan_n.pdf.  Bodies and validators are the choice of an outcome.  An    *)
(* archived scan has a path of its own: two filings that choose one path   *)
(* are the subject of Filing.                                              *)
(***************************************************************************)
EXTENDS Integers, FiniteSets

CONSTANTS Scans,    \* files that are uploaded or dropped, each once
          MaxName,  \* names tried for them
          ListLimit,  \* rows search_metadata returns at most; 100 in the code
          Outside,  \* scans filed in a folder that is no category's any more
          NoScan

ASSUME NamesAssumption ==
    MaxName \in Nat /\ ListLimit \in Nat \ {0} /\ Outside \subseteq Scans /\ NoScan \notin Scans

VARIABLES
    upload,      \* none, receiving, stored, rejected or cut, per scan
    dest,        \* the name chosen before the body is read, 0 when not uploading
    rivals,      \* uploads that were not in the inbox yet at that time: history
    parts,       \* .part files in the inbox folder
    inbox,       \* what each name holds
    filing,      \* the filing thread: its step, the source's name, the scan
    archive, rows, chunks,   \* scans filed, in the documents table, indexed
    clearing,    \* the step Clear all data has reached
    cleared,     \* scans the user had removed: history
    excused,     \* scans lost where two uploads or a clear overlapped: history
    left,        \* files a clear or the end of the process passed over: history
    half,        \* scans whose file a clear deleted, their row not yet: history
    stray        \* scans whose row a clear dropped, their chunks not yet: history

uploadVars == <<upload, dest, rivals, parts, inbox, filing, archive, rows, chunks,
                clearing, cleared, excused, left, half, stray>>

InboxNames == 1..MaxName
NotFiling == [at |-> "idle", name |-> 0, scan |-> NoScan]

UploadTypeOK ==
    /\ upload \in [Scans -> {"none", "receiving", "stored", "rejected", "cut"}]
    /\ dest \in [Scans -> 0..MaxName] /\ rivals \in [Scans -> SUBSET Scans]
    /\ parts \in SUBSET Scans
    /\ inbox \in [InboxNames -> Scans \union {NoScan}]
    /\ filing \in [at : {"idle", "copy", "row", "retire", "index"}, name : 0..MaxName,
                   scan : Scans \union {NoScan}]
    /\ archive \in SUBSET Scans /\ rows \in SUBSET Scans /\ chunks \in SUBSET Scans
    /\ clearing \in {"idle", "files", "inbox", "table", "index"}
    /\ cleared \in SUBSET Scans /\ excused \in SUBSET Scans
    /\ left \in SUBSET Scans /\ half \in SUBSET Scans /\ stray \in SUBSET Scans

UploadInit ==
    /\ upload = [s \in Scans |-> "none"] /\ dest = [s \in Scans |-> 0]
    /\ rivals = [s \in Scans |-> {}] /\ parts = {}
    /\ inbox = [n \in InboxNames |-> NoScan]
    /\ filing = NotFiling /\ archive = {} /\ rows = {} /\ chunks = {}
    /\ clearing = "idle" /\ cleared = {} /\ excused = {}
    /\ left = {} /\ half = {} /\ stray = {}

-----------------------------------------------------------------------------
Waiting == {inbox[n] : n \in InboxNames} \ {NoScan}
InFolder(s) == s \in Waiting

\* Mutant: the name asked for, taken or not.
AskedName(n) == n = 1

\* _unique_inbox_destination: the first name that is free.
FreeName(n) == inbox[n] = NoScan /\ \A m \in InboxNames : m < n => inbox[m] # NoScan

\* The name is taken and the .part file opened, before the body is awaited or
\* the dropped file copied.
BeginUpload(s) ==
    /\ upload[s] = "none"
    /\ \E n \in InboxNames : FreeName(n) /\ dest' = [dest EXCEPT ![s] = n]
    /\ upload' = [upload EXCEPT ![s] = "receiving"]
    /\ rivals' = [rivals EXCEPT ![s] = {r \in Scans : upload[r] \in {"none", "receiving"}}]
    /\ parts' = parts \union {s}
    /\ UNCHANGED <<inbox, filing, archive, rows, chunks, clearing, cleared, excused,
                   left, half, stray>>

\* The locals of an upload that ends.
Forgotten(s) == dest' = [dest EXCEPT ![s] = 0] /\ rivals' = [rivals EXCEPT ![s] = {}]

\* Too large, empty, not a scan, a full disk, a client that has gone.
RejectUpload(s) ==
    /\ upload[s] = "receiving"
    /\ upload' = [upload EXCEPT ![s] = "rejected"] /\ parts' = parts \ {s}
    /\ Forgotten(s)
    /\ UNCHANGED <<inbox, filing, archive, rows, chunks, clearing,
                   cleared, excused, left, half, stray>>

\* validate_scan_file passed; os.replace puts the file under the name chosen.
StoreUpload(s) ==
    /\ upload[s] = "receiving"
    /\ upload' = [upload EXCEPT ![s] = "stored"] /\ parts' = parts \ {s}
    /\ inbox' = [inbox EXCEPT ![dest[s]] = s]
    /\ excused' = excused \union (rivals[s] \intersect {inbox[dest[s]]})
    /\ Forgotten(s)
    /\ UNCHANGED <<filing, archive, rows, chunks, clearing, cleared, left, half, stray>>

-----------------------------------------------------------------------------
Filed(s) == [filing EXCEPT !.at = s]

\* A scan of the inbox is read, reviewed and approved.
TakeScan(n) ==
    /\ filing.at = "idle" /\ inbox[n] # NoScan
    /\ filing' = [at |-> "copy", name |-> n, scan |-> inbox[n]]
    /\ UNCHANGED <<upload, dest, rivals, parts, inbox, archive, rows, chunks, clearing,
                   cleared, excused, left, half, stray>>

\* move_to_archive copies what is under the name now, or finds it gone.
CopyScan ==
    /\ filing.at = "copy"
    /\ LET s == inbox[filing.name]
       IN \/ /\ s # NoScan /\ s \notin archive
             /\ filing' = [filing EXCEPT !.at = "row", !.scan = s]
             /\ archive' = archive \union {s}
          \/ filing' = NotFiling /\ UNCHANGED archive
    /\ UNCHANGED <<upload, dest, rivals, parts, inbox, rows, chunks, clearing, cleared,
                   excused, left, half, stray>>

\* A scan whose row is written between the listing of the files and the drop of
\* the table was not listed, and loses its row.
Unlisted(s) == IF clearing \in {"files", "inbox"} THEN {s} ELSE {}

\* Mutant: the copy stays when the row cannot be written.
CopyStays ==
    /\ filing.at = "row"
    /\ \/ /\ rows' = rows \union {filing.scan} /\ filing' = Filed("retire")
          /\ left' = left \union Unlisted(filing.scan)
       \/ filing' = NotFiling /\ UNCHANGED <<rows, left>>
    /\ UNCHANGED <<upload, dest, rivals, parts, inbox, archive, chunks, clearing, cleared,
                   excused, half, stray>>

\* upsert_metadata, and the copy taken back when it fails.
SaveMetadata ==
    /\ filing.at = "row"
    /\ \/ /\ rows' = rows \union {filing.scan} /\ filing' = Filed("retire")
          /\ left' = left \union Unlisted(filing.scan)
          /\ UNCHANGED archive
       \/ archive' = archive \ {filing.scan} /\ filing' = NotFiling /\ UNCHANGED <<rows, left>>
    /\ UNCHANGED <<upload, dest, rivals, parts, inbox, chunks, clearing, cleared, excused,
                   half, stray>>

\* The source is unlinked by its name, whatever has the name now.
RetireScan ==
    /\ filing.at = "retire"
    /\ inbox' = [inbox EXCEPT ![filing.name] = NoScan]
    /\ filing' = Filed("index")
    /\ excused' = IF filing.scan \in excused \union cleared
                  THEN excused \union ({inbox[filing.name]} \ {NoScan, filing.scan})
                  ELSE excused
    /\ UNCHANGED <<upload, dest, rivals, parts, archive, rows, chunks, clearing, cleared,
                   left, half, stray>>

\* index_document; its failure leaves the document filed.
IndexScan ==
    /\ filing.at = "index" /\ filing' = NotFiling
    /\ chunks' \in {chunks, chunks \union {filing.scan}}
    /\ UNCHANGED <<upload, dest, rivals, parts, inbox, archive, rows, clearing, cleared,
                   excused, left, half, stray>>

\* The scan that is copied and has no row yet, and the one that has and no chunks.
Unrecorded == IF filing.at = "row" THEN {filing.scan} ELSE {}
Unindexed == IF filing.at \in {"retire", "index"} THEN {filing.scan} ELSE {}

-----------------------------------------------------------------------------
\* clear_inbox goes through the names in order.  One that is retired under its
\* hands raises and leaves the names behind it.
ClearNames ==
    \E stop \in 0..MaxName :
        /\ stop = MaxName \/ filing.at = "retire"
        /\ inbox' = [n \in InboxNames |-> IF n <= stop THEN NoScan ELSE inbox[n]]
        /\ cleared' = cleared \union ({inbox[n] : n \in 1..stop} \ {NoScan})

ClearInbox ==
    /\ ClearNames
    /\ UNCHANGED <<upload, dest, rivals, parts, filing, archive, rows, chunks, clearing,
                   excused, left, half, stray>>

\* list_recent asks for 100000 rows and gets ListLimit of them.
Listings ==
    {listed \in SUBSET rows : Cardinality(listed) = IF Cardinality(rows) < ListLimit
                                                    THEN Cardinality(rows) ELSE ListLimit}

\* Of the files listed those that lie under a present root can be deleted.
Deletable(listed) == (listed \intersect archive) \ Outside

DeleteFiles(files) ==
    /\ archive' = archive \ files /\ cleared' = cleared \union files
    /\ half' = half \union files

\* _delete_tracked_archive_files; a file that cannot be unlinked ends it.
ClearFiles ==
    /\ clearing = "idle"
    /\ \E listed \in Listings :
         \/ /\ DeleteFiles(Deletable(listed)) /\ clearing' = "files"
            /\ left' = (left \ Deletable(listed))
                          \union ((rows \intersect archive) \ Deletable(listed))
         \/ /\ \E files \in SUBSET Deletable(listed) :
                 files # Deletable(listed) /\ DeleteFiles(files)
            /\ UNCHANGED <<clearing, left>>
    /\ UNCHANGED <<upload, dest, rivals, parts, inbox, filing, rows, chunks, excused, stray>>

ClearScans ==
    /\ clearing = "files" /\ clearing' = "inbox" /\ ClearNames
    /\ UNCHANGED <<upload, dest, rivals, parts, filing, archive, rows, chunks, excused,
                   left, half, stray>>

\* The database file is unlinked and created anew.
ClearTable ==
    /\ clearing = "inbox" /\ clearing' = "table" /\ rows' = {}
    /\ half' = half \intersect Unrecorded
    /\ stray' = stray \union chunks \union Unindexed
    /\ UNCHANGED <<upload, dest, rivals, parts, inbox, filing, archive, chunks, cleared,
                   excused, left>>

\* The vector collections and their folder are deleted.
ClearIndex ==
    /\ clearing = "table" /\ clearing' = "idle" /\ chunks' = {}
    /\ stray' = stray \intersect Unindexed
    /\ UNCHANGED <<upload, dest, rivals, parts, inbox, filing, archive, rows, cleared,
                   excused, left, half>>

\* An exception between two of its deletions ends Clear all data there.
ClearFails ==
    /\ clearing # "idle" /\ clearing' = "idle"
    /\ UNCHANGED <<upload, dest, rivals, parts, inbox, filing, archive, rows, chunks,
                   cleared, excused, left, half, stray>>

\* The process stops: uploads are cancelled without their clean-up, and whatever
\* runs in a thread ends where it is.
StopServer ==
    /\ upload' = [s \in Scans |-> IF upload[s] = "receiving" THEN "cut" ELSE upload[s]]
    /\ dest' = [s \in Scans |-> 0] /\ rivals' = [s \in Scans |-> {}]
    /\ filing' = NotFiling /\ clearing' = "idle"
    /\ left' = left \union Unrecorded
    /\ UNCHANGED <<parts, inbox, archive, rows, chunks, cleared, excused, half, stray>>

UploadNext ==
    \/ \E s \in Scans : BeginUpload(s) \/ RejectUpload(s) \/ StoreUpload(s)
    \/ \E n \in InboxNames : TakeScan(n)
    \/ CopyScan \/ SaveMetadata \/ RetireScan \/ IndexScan
    \/ ClearInbox \/ ClearFiles \/ ClearScans \/ ClearTable \/ ClearIndex \/ ClearFails
    \/ StopServer

UploadSpec == UploadInit /\ [][UploadNext]_uploadVars

-----------------------------------------------------------------------------
\* A scan whose upload was answered with success is in the inbox or in the
\* archive until the user clears it.  Excepted is the scan replaced by an upload
\* that had chosen the same name before it was stored, and the scan that takes
\* the name of a source that was cleared, or replaced so, while it was filed.
UploadKept ==
    \A s \in Scans : upload[s] = "stored" =>
        InFolder(s) \/ s \in archive \/ s \in cleared \/ s \in excused

\* A .part file belongs to an upload that is under way or that the end of the
\* process cut: no other way out of an upload leaves one behind.
PartialsExplained == \A s \in parts : upload[s] \in {"receiving", "cut"}

\* Clear all data and the filing thread interleave freely, either may be cut off
\* at any step, and at every moment archive, table and index agree on a scan but
\* for these.  A row is without its file only while a clear has deleted the file
\* and not yet, or never, dropped the table.  A file is without its row only while
\* it is being filed, or because a clear passed over it, beyond the limit of its
\* list, outside the present roots or recorded after the list was read, or because
\* the process ended between the copy and the row.  Chunks are without a row only
\* while a clear has dropped the table and not yet, or never, deleted the index,
\* or when their scan had its row at that drop and was indexed later.
StoresAgree ==
    /\ rows \subseteq archive \union half
    /\ archive \subseteq rows \union left \union Unrecorded
    /\ chunks \subseteq rows \union stray
================================================================================
