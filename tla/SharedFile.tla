----------------------------- MODULE SharedFile -----------------------------
(***************************************************************************)
(* What the mount promises about the content of one file: the clients see  *)
(* one content, whatever copies there are of it; only those that have the  *)
(* file open for writing change it; closing it saves it in the bucket.     *)
(* The content falls back to what is saved in two cases only: a crash, or  *)
(* the loss of the local copy after a save that failed.                    *)
(***************************************************************************)
CONSTANTS Clients,  \* processes using the mount
          Contents, \* what a file can hold
          Empty,    \* the empty content, one of them
          NoFile    \* the content of a file that does not exist, none of them

VARIABLES content, \* what a client reads
          stored,  \* what the object in the bucket says
          writers, \* clients with the file open for writing
          unsaved  \* the last save failed

vars == <<content, stored, writers, unsaved>>

Init == /\ stored \in Contents \union {NoFile}
        /\ content = stored
        /\ writers = {}
        /\ unsaved = FALSE

\* A new file, for a client, or for nobody when the creation of its object
\* fails, which may have created it.
Create(c) == /\ content = NoFile
             /\ content' = Empty
             /\ \/ /\ stored' = Empty
                   /\ writers' = writers \union {c}
                   /\ UNCHANGED unsaved
                \/ /\ stored' \in {stored, Empty}
                   /\ unsaved' = TRUE
                   /\ UNCHANGED writers

\* To open a file for writing truncates it, unless it is opened to append.
OpenToWrite(c) == /\ content # NoFile
                  /\ content' \in {content, Empty}
                  /\ writers' = writers \union {c}
                  /\ UNCHANGED <<stored, unsaved>>

Write == /\ writers # {}
         /\ content' \in Contents
         /\ UNCHANGED <<stored, writers, unsaved>>

\* The content is saved, or the save fails and that is remembered: it may have
\* been done all the same.  While others write, what is saved may be a mixture
\* of theirs: they save again.
Close(c) == /\ c \in writers
            /\ writers' = writers \ {c}
            /\ UNCHANGED content
            /\ \/ stored' = content /\ unsaved' = FALSE
               \/ stored' \in {stored, content} /\ unsaved' = TRUE
               \/ writers' # {} /\ stored' \in Contents /\ unsaved' \in {unsaved, TRUE}

\* The local copy goes while nobody writes: what was not saved is lost.
Drop == /\ writers = {} /\ unsaved
        /\ content' = stored
        /\ unsaved' = FALSE
        /\ UNCHANGED <<stored, writers>>

Crash == /\ content' = stored
         /\ writers' = {}
         /\ unsaved' = FALSE
         /\ UNCHANGED stored

Next == \/ \E c \in Clients : Create(c) \/ OpenToWrite(c) \/ Close(c)
        \/ Write \/ Drop \/ Crash

Spec == Init /\ [][Next]_vars

-----------------------------------------------------------------------------
(* What follows from the promise.                                           *)

\* When nobody has the file open for writing and the last save did not fail,
\* what a client reads is what is saved.
Saved == writers = {} /\ ~unsaved => content = stored

\* What a client reads is lost in no other way than by a crash or after a
\* failed save: with neither, only writers change it, and creation.
OnlyWritersChange == [][content' # content => \/ writers # {} \/ writers' # {}
                                              \/ content' = stored
                                              \/ unsaved']_vars
=============================================================================
