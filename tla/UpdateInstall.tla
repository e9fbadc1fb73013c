---------------------------- MODULE UpdateInstall ----------------------------
(***************************************************************************)
(* The in-app updater (deepcatalog/updater.py) over an install directory or *)
(* an AppImage: requests that check, download, verify and install, in the    *)
(* threads of the HTTP server, releases that are published meanwhile,       *)
(* failed writes, restarts and crashes.                                     *)
(*                                                                          *)
(* A file is a number, its place in the order in which apply_tarball copies *)
(* the archive (sorted paths). Its content is the release r it came from, or  *)
(* -r when the copy was cut off and only a part of it is there.              *)
(* Check and installation end without a trace when GitHub cannot be reached *)
(* or the release is not signed; these requests are not modelled.           *)
(***************************************************************************)
EXTENDS Integers, FiniteSets

CONSTANTS
    Threads,      \* requests for an update that run at once
    LastRelease,  \* bound: releases
    Contents,     \* the files of each release, .release-files included
    ListFile,     \* .release-files
    VersionFile,  \* pyproject.toml
    Foreign,      \* content that the signed manifest does not list
    None

Releases == 1..LastRelease
Files == UNION {Contents[r] : r \in Releases}
Absent == 0

ASSUME ReleasesAssumption ==
    /\ LastRelease \in Nat \ {0}
    /\ Contents \in [Releases -> SUBSET Nat]
    /\ \A r \in Releases : {ListFile, VersionFile} \subseteq Contents[r]
    /\ Foreign \notin Int /\ None \notin Int /\ Foreign # None

VARIABLES
    appimage,   \* whether the program runs as an AppImage
    latest,     \* the latest release on GitHub
    tree,       \* the install directory: content of each file
    image,      \* the AppImage on disk
    running,    \* the server runs
    version,    \* get_current_version(), cached when the server starts
    restarting, \* a restart timer is set
    pc,
    rel,        \* the release a request installs
    payload,    \* what it downloaded
    todo,       \* files it has yet to copy
    doomed,     \* files it has yet to prune
    settled,    \* history: the release whose installation ended last, 0 once touched again
    patched,    \* history: some installation was cut off
    overlapped  \* history: two requests for different releases, or one that failed, met

locals == <<pc, rel, payload, todo, doomed>>
server == <<running, version, restarting>>
history == <<settled, patched, overlapped>>
vars == <<appimage, latest, tree, image, server, locals, history>>

ReleaseOf(content) == IF content < 0 THEN -content ELSE content

(* A part of pyproject.toml has the version line or has not.                 *)
VersionsOnDisk ==
    CASE appimage -> {image}
      [] ~appimage /\ tree[VersionFile] \in Releases \cup {Foreign} -> {tree[VersionFile]}
      [] OTHER -> {0, ReleaseOf(tree[VersionFile])}

Init ==
    /\ appimage \in BOOLEAN
    /\ latest = 1
    /\ tree = [f \in Files |-> IF f \in Contents[1] THEN 1 ELSE Absent]
    /\ image = 1
    /\ running = TRUE
    /\ version = 1
    /\ restarting = FALSE
    /\ pc = [t \in Threads |-> "idle"]
    /\ rel = [t \in Threads |-> None]
    /\ payload = [t \in Threads |-> None]
    /\ todo = [t \in Threads |-> {}]
    /\ doomed = [t \in Threads |-> {}]
    /\ settled = 1
    /\ patched = FALSE
    /\ overlapped = FALSE

-----------------------------------------------------------------------------
Installing == {t \in Threads : pc[t] = "copy"}

Goto(t, l) == pc' = [pc EXCEPT ![t] = l]

(* The request ends, and its temporary directory goes. *)
Return(t) ==
    /\ Goto(t, "idle")
    /\ rel' = [rel EXCEPT ![t] = None]
    /\ payload' = [payload EXCEPT ![t] = None]
    /\ todo' = [todo EXCEPT ![t] = {}]
    /\ doomed' = [doomed EXCEPT ![t] = {}]

Publish ==
    /\ latest < LastRelease
    /\ latest' = latest + 1
    /\ UNCHANGED <<appimage, tree, image, server, locals, history>>

(* check_for_update: only a release newer than the running version.          *)
Check(t) ==
    /\ running
    /\ pc[t] = "idle"
    /\ latest > version
    /\ Goto(t, "download")
    /\ rel' = [rel EXCEPT ![t] = latest]
    /\ overlapped' = (overlapped \/ \E u \in Threads : rel[u] \notin {None, latest})
    /\ UNCHANGED <<appimage, latest, tree, image, server, payload, todo, doomed, settled, patched>>

DownloadFails(t) ==
    /\ pc[t] = "download"
    /\ Return(t)
    /\ UNCHANGED <<appimage, latest, tree, image, server, history>>

Download(t) ==
    /\ pc[t] = "download"
    /\ \E bytes \in {rel[t], Foreign} : payload' = [payload EXCEPT ![t] = bytes]
    /\ Goto(t, "verify")
    /\ UNCHANGED <<appimage, latest, tree, image, server, rel, todo, doomed, history>>

Verified(t) == payload[t] = rel[t]

Refuse(t) ==
    /\ pc[t] = "verify"
    /\ ~Verified(t)
    /\ Return(t)
    /\ UNCHANGED <<appimage, latest, tree, image, server, history>>

(* What _read_release_file_list may find: of a list that was cut off, a part.  *)
InstalledLists ==
    CASE tree[ListFile] \in Releases -> {Contents[tree[ListFile]]}
      [] -tree[ListFile] \in Releases -> SUBSET Contents[-tree[ListFile]]
      [] OTHER -> {{}}

\* Mutant: the new list is compared with itself.
NothingObsolete(t, list) == {}
(* Files of the installed list that the archive does not have.               *)
Obsolete(t, list) == list \ Contents[rel[t]]

(* apply_tarball reads the installed list before it copies anything.         *)
Begin(t) ==
    /\ pc[t] = "verify"
    /\ Verified(t)
    /\ ~appimage
    /\ Goto(t, "copy")
    /\ todo' = [todo EXCEPT ![t] = Contents[rel[t]]]
    /\ \E list \in InstalledLists : doomed' = [doomed EXCEPT ![t] = Obsolete(t, list)]
    /\ UNCHANGED <<appimage, latest, tree, image, server, rel, payload, history>>

LastOf(S) == CHOOSE f \in S : \A g \in S : g <= f  \* mutant: in no sorted order
NextOf(S) == CHOOSE f \in S : \A g \in S : f <= g

\* Mutant: a file that exists is left as it is.
KeepExisting(t, f) == IF tree[f] = Absent THEN payload[t] ELSE tree[f]
Copied(t, f) == payload[t]

Copy(t) ==
    /\ pc[t] = "copy"
    /\ todo[t] # {}
    /\ LET f == NextOf(todo[t]) IN
         /\ tree' = [tree EXCEPT ![f] = Copied(t, f)]
         /\ todo' = [todo EXCEPT ![t] = @ \ {f}]
    /\ settled' = 0
    /\ UNCHANGED <<appimage, latest, image, server, pc, rel, payload, doomed, patched, overlapped>>

Prune(t) ==
    /\ pc[t] = "copy"
    /\ todo[t] = {}
    /\ doomed[t] # {}
    /\ LET f == NextOf(doomed[t]) IN
         /\ tree' = [tree EXCEPT ![f] = Absent]
         /\ doomed' = [doomed EXCEPT ![t] = @ \ {f}]
    /\ settled' = 0
    /\ UNCHANGED <<appimage, latest, image, server, pc, rel, payload, todo, patched, overlapped>>

(* An OSError in the copy or in the pruning ends the installation. *)
InstallFails(t) ==
    /\ pc[t] = "copy"
    /\ todo[t] \cup doomed[t] # {}
    /\ \/ /\ todo[t] # {}
          /\ tree' = [tree EXCEPT ![NextOf(todo[t])] = -rel[t]]
       \/ UNCHANGED tree
    /\ settled' = 0
    /\ patched' = TRUE
    /\ overlapped' = (overlapped \/ Installing # {t})
    /\ Return(t)
    /\ UNCHANGED <<appimage, latest, image, server>>

Installed(t) ==
    /\ pc[t] = "copy"
    /\ todo[t] \cup doomed[t] = {}
    /\ settled' = IF Installing = {t} THEN rel[t] ELSE 0
    /\ Return(t)
    /\ UNCHANGED <<appimage, latest, tree, image, server, patched, overlapped>>

(* os.replace of a complete file beside the image. *)
SwapImage(t) ==
    /\ pc[t] = "verify"
    /\ Verified(t)
    /\ appimage
    /\ image' = payload[t]
    /\ Return(t)
    /\ UNCHANGED <<appimage, latest, tree, server, history>>

SwapFails(t) ==
    /\ pc[t] = "verify"
    /\ Verified(t)
    /\ appimage
    /\ Return(t)
    /\ UNCHANGED <<appimage, latest, tree, image, server, history>>

-----------------------------------------------------------------------------
(* The process ends: of the files being written, some are cut off.           *)
Die ==
    /\ \E S \in SUBSET {t \in Installing : todo[t] # {}} :
         tree' = [f \in Files |->
                    IF \E t \in S : f = NextOf(todo[t])
                    THEN -rel[CHOOSE t \in S : f = NextOf(todo[t])] ELSE tree[f]]
    /\ settled' = IF Installing = {} THEN settled ELSE 0
    /\ patched' = (patched \/ Installing # {})
    /\ pc' = [t \in Threads |-> "idle"]
    /\ rel' = [t \in Threads |-> None]
    /\ payload' = [t \in Threads |-> None]
    /\ todo' = [t \in Threads |-> {}]
    /\ doomed' = [t \in Threads |-> {}]
    /\ restarting' = FALSE
    /\ UNCHANGED <<appimage, latest, image, overlapped>>

Crash ==
    /\ running
    /\ running' = FALSE
    /\ version' = 0
    /\ Die

Start ==
    /\ ~running
    /\ running' = TRUE
    /\ version' \in VersionsOnDisk
    /\ UNCHANGED <<appimage, latest, tree, image, restarting, locals, history>>

(* The request only asks whether documents are being processed.              *)
ScheduleRestart ==
    /\ running
    /\ ~restarting
    /\ restarting' = TRUE
    /\ UNCHANGED <<appimage, latest, tree, image, running, version, locals, history>>

(* execv in the timer's thread, whatever the other threads do.               *)
Restart ==
    /\ restarting
    /\ Die
    /\ version' \in VersionsOnDisk'
    /\ UNCHANGED running

Request(t) ==
    \/ Check(t) \/ Download(t) \/ DownloadFails(t) \/ Refuse(t) \/ Begin(t) \/ Copy(t)
    \/ Prune(t) \/ InstallFails(t) \/ Installed(t) \/ SwapImage(t) \/ SwapFails(t)

Next ==
    \/ Publish \/ Crash \/ Start \/ ScheduleRestart \/ Restart
    \/ \E t \in Threads : Request(t)

Spec == Init /\ [][Next]_vars

-----------------------------------------------------------------------------
(* A request has what its step needs, and works in a running server only. *)
TypeOK ==
    /\ appimage \in BOOLEAN /\ latest \in Releases
    /\ tree \in [Files -> (-LastRelease)..LastRelease \cup {Foreign}]
    /\ image \in Releases \cup {Foreign}
    /\ running \in BOOLEAN /\ restarting \in BOOLEAN
    /\ version \in 0..LastRelease \cup {Foreign}
    /\ pc \in [Threads -> {"idle", "download", "verify", "copy"}]
    /\ rel \in [Threads -> Releases \cup {None}]
    /\ payload \in [Threads -> Releases \cup {Foreign, None}]
    /\ todo \in [Threads -> SUBSET Files] /\ doomed \in [Threads -> SUBSET Files]
    /\ settled \in 0..LastRelease
    /\ patched \in BOOLEAN /\ overlapped \in BOOLEAN
    /\ \A t \in Threads :
         /\ (pc[t] = "idle") = (rel[t] = None)
         /\ (pc[t] \in {"idle", "download"}) = (payload[t] = None)
         /\ pc[t] # "idle" => running /\ rel[t] <= latest
         /\ todo[t] \cup doomed[t] # {} => pc[t] = "copy"

(* Only the bytes the signed manifest lists are ever installed. *)
OnlyVerified == image # Foreign /\ \A f \in Files : tree[f] # Foreign

(* "files ... absent from the new archive are removed" (updater.py:904): an   *)
(* installation that ended, and that no other interfered with, leaves        *)
(* exactly the files of its release - if none before it was cut off.         *)
InstalledWhole ==
    settled # 0 /\ ~patched /\ ~overlapped =>
        \A f \in Files : tree[f] = IF f \in Contents[settled] THEN settled ELSE Absent

(* An earlier installation that was cut off is repaired: every file of the   *)
(* release is in place.                                                      *)
InstalledComplete ==
    settled # 0 /\ ~overlapped => \A f \in Contents[settled] : tree[f] = settled

(* Where pyproject.toml, or a part of it, claims a release, no file that is  *)
(* copied before it is of an older one: an installation that is cut off       *)
(* before pyproject.toml is still offered by the check of the next server.    *)
HalfInstallNoticed ==
    LET claimed == ReleaseOf(tree[VersionFile]) IN
    ~overlapped => \A f \in Contents[claimed] : f < VersionFile => ReleaseOf(tree[f]) >= claimed

=============================================================================
