------------------------------- MODULE PgSync -------------------------------
(***************************************************************************)
(* Syncing mapped pages (src/lib/pg.c, ed_pg_sync and ed_pg_mark).         *)
(*                                                                         *)
(* Each page wrapped by an EdPgNode carries a sync level `dirty`: 0 means  *)
(* no sync, 1 a sync unless ED_FNOSYNC, anything higher a sync whatever    *)
(* the flags.  ed_pg_mark raises it to 1 when a page number stored in the  *)
(* page changes.  Commit and close call ed_pg_sync for every node with the *)
(* caller's flags; ED_FASYNC is documented as "Don't wait for pages to     *)
(* complete syncing".  The kernel writes dirty pages back on its own at    *)
(* any time, and a power loss drops every page not yet written back.       *)
(***************************************************************************)
EXTENDS Naturals

CONSTANTS
  Page,       \* pages wrapped by nodes of one transaction
  Flags,      \* flag sets passed to commit: subsets of {"NOSYNC", "ASYNC"}
  MaxLevel    \* largest sync level a node is given

VARIABLES
  lvl,        \* EdPgNode.dirty of each page
  ahead,      \* the page's memory is newer than the file on disk
  waited      \* pages a sync without ED_FASYNC has returned for since
              \* their last write

vars == <<lvl, ahead, waited>>

\* Whether ed_pg_sync calls msync at all, and with which mode.
Syncs(l, f) == l >= 2 \/ (l = 1 /\ "NOSYNC" \notin f)

MsyncMode(f) == IF "ASYNC" \in f THEN "MS_SYNC" ELSE "MS_ASYNC"

Init ==
  /\ lvl = [p \in Page |-> 0]
  /\ ahead = [p \in Page |-> FALSE]
  /\ waited = {}

\* A write through the mapping that needs sync level l.
Write(p, l) ==
  /\ ahead' = [ahead EXCEPT ![p] = TRUE]
  /\ lvl' = [lvl EXCEPT ![p] = IF l > @ THEN l ELSE @]
  /\ waited' = waited \ {p}

\* ed_pg_mark: a stored page number changes, so the page is written and
\* its level set to 1.
Mark(p) ==
  /\ ahead' = [ahead EXCEPT ![p] = TRUE]
  /\ lvl' = [lvl EXCEPT ![p] = 1]
  /\ waited' = waited \ {p}

\* ed_pg_sync(p, 1, flags, lvl).  MS_SYNC returns once the page is on
\* disk; MS_ASYNC only schedules the write-back.
Sync(p, f) ==
  /\ IF Syncs(lvl[p], f) /\ MsyncMode(f) = "MS_SYNC"
       THEN ahead' = [ahead EXCEPT ![p] = FALSE]
       ELSE UNCHANGED ahead
  /\ waited' = IF Syncs(lvl[p], f) /\ "ASYNC" \notin f THEN waited \cup {p} ELSE waited
  /\ UNCHANGED lvl

\* The kernel writes a dirty page back.
Writeback(p) ==
  /\ ahead[p]
  /\ ahead' = [ahead EXCEPT ![p] = FALSE]
  /\ UNCHANGED <<lvl, waited>>

Next ==
  \E p \in Page :
    \/ \E l \in 1 .. MaxLevel : Write(p, l)
    \/ Mark(p)
    \/ \E f \in Flags : Sync(p, f)
    \/ Writeback(p)

Spec == Init /\ [][Next]_vars

TypeOK ==
  /\ lvl \in [Page -> 0 .. MaxLevel]
  /\ ahead \in [Page -> BOOLEAN]
  /\ waited \subseteq Page

(***************************************************************************)
(* A sync that was asked to wait (no ED_FASYNC) returns only when the page *)
(* is on disk: until the page is written again, a power loss cannot lose   *)
(* it.                                                                     *)
(***************************************************************************)
WaitedSyncIsDurable == \A p \in waited : ~ahead[p]
=============================================================================
