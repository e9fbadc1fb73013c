------------------------------ MODULE SecretFile ------------------------------
(***************************************************************************)
(* write_secret_text (deepcatalog/env_permissions.py), by which            *)
(* settings.json and .env are written: the text goes to <path>.tmp, which  *)
(* then takes the place of the file.  The temporary name is the same for   *)
(* every writer, so two that overlap share one file, truncate it under     *)
(* each other and publish each other's half.                               *)
(*                                                                         *)
(* The operators are steps of the modules that instantiate this one; each  *)
(* says what becomes of file, draft and open.                              *)
(***************************************************************************)

CONSTANTS Writers,
          Absent,   \* there is no file of the name
          Empty,    \* the file was opened for writing, and emptied
          Torn      \* two texts in one file: it cannot be parsed

VARIABLES
    file,    \* what the path reads as
    draft,   \* what <path>.tmp reads as
    open     \* where the open file of each writer is: under the temporary
             \* name, under the real name, or replaced or unlinked since

Handles == {"none", "draft", "file", "lost"}

\* os.open with O_CREAT and O_TRUNC.
OpenDraft(w) == /\ draft' = Empty /\ open' = [open EXCEPT ![w] = "draft"]
                /\ UNCHANGED file

\* A text over another: what is longer sticks out.
Over(old, text) == IF old \in {Empty, text} THEN {text} ELSE {text, Torn}

\* The text is written to wherever the open file is by now, and closed.
WriteText(w, text) ==
    /\ IF open[w] = "draft" THEN draft' \in Over(draft, text) ELSE UNCHANGED draft
    /\ IF open[w] = "file" THEN file' \in Over(file, text) ELSE UNCHANGED file
    /\ open' = [open EXCEPT ![w] = "none"]

\* os.replace: whatever bears the temporary name bears the real one now.
Publish(w) ==
    /\ draft # Absent
    /\ file' = draft /\ draft' = Absent
    /\ open' = [v \in Writers |-> CASE open[v] = "draft" -> "file"
                                    [] open[v] = "file" -> "lost"
                                    [] open[v] \in {"none", "lost"} -> open[v]]

\* An error of the disk, or nothing left under the temporary name: what is
\* there, be it of another writer, is unlinked.
Raise(w) ==
    /\ draft' = Absent
    /\ open' = [v \in Writers |-> IF v = w THEN "none"
                                  ELSE IF open[v] = "draft" THEN "lost" ELSE open[v]]
    /\ UNCHANGED file

\* The process of these writers ends.
CloseAll(gone) == /\ open' = [v \in Writers |-> IF v \in gone THEN "none" ELSE open[v]]
                  /\ UNCHANGED <<file, draft>>

\* Another program saves the file under its name.
ReplaceBy(text) ==
    /\ file' = text
    /\ open' = [v \in Writers |-> IF open[v] = "file" THEN "lost" ELSE open[v]]
    /\ UNCHANGED draft
===============================================================================
