-------------------------------- MODULE Lock --------------------------------
(***************************************************************************)
(* The hybrid lock of eddy-private.h (EdLck = {struct flock f;             *)
(* pthread_rwlock_t rw}, ed_lck): a pthread rwlock orders the threads of  *)
(* one process, an fcntl byte-range lock orders processes.                *)
(*                                                                         *)
(* ed_lck takes the thread lock, then the file lock; ED_FNOTLCK and        *)
(* ED_FNOFLCK skip one layer, ED_FNOBLOCK turns a wait into EAGAIN (and    *)
(* a file lock that would block releases the thread lock already taken). *)
(* ED_LCK_UN releases the file lock, then the thread lock, with the flags  *)
(* of the paired lock call.                                               *)
(*                                                                         *)
(* fcntl locks belong to the process, not to the thread: a second F_RDLCK *)
(* from the same process is no new lock, F_WRLCK from it converts the     *)
(* process's lock, and one F_UNLCK releases it for every thread.          *)
(***************************************************************************)
EXTENDS Naturals, FiniteSets

CONSTANTS
  Thread,     \* threads calling ed_lck
  ProcOf,     \* the process of each thread
  FlagSets,   \* per process, the flag sets its callers use: subsets of
              \* {"NOTLCK", "NOFLCK", "NOBLOCK"}
  NoThread    \* model value: no writer holds a rwlock

VARIABLES
  rw,         \* per process: the rwlock, [w |-> writer or NoThread, r |-> readers]
  fl,         \* per process: its fcntl lock on the range, "un", "sh" or "ex"
  th          \* per thread: [pc, mode, flags]

vars == <<rw, fl, th>>

Proc == { ProcOf[t] : t \in Thread }

Idle == [pc |-> "idle", mode |-> "un", flags |-> {}]

\* pthread_rwlock_rdlock / wrlock would not block.
RwFree(p, m) == rw[p].w = NoThread /\ (m = "sh" \/ rw[p].r = {})

\* fcntl F_SETLK of mode m by process p would not conflict.
FlFree(p, m) == \A q \in Proc \ {p} : fl[q] = "un" \/ (m = "sh" /\ fl[q] = "sh")

\* Fault: the thread layer takes the rwlock for reading whatever the mode.
RwTakeShared(p, t, m) == [rw EXCEPT ![p].r = @ \cup {t}]

RwTake(p, t, m) ==
  IF m = "sh" THEN [rw EXCEPT ![p].r = @ \cup {t}] ELSE [rw EXCEPT ![p].w = t]

RwDrop(p, t) == [rw EXCEPT ![p].r = @ \ {t}, ![p].w = IF @ = t THEN NoThread ELSE @]

Init ==
  /\ rw = [p \in Proc |-> [w |-> NoThread, r |-> {}]]
  /\ fl = [p \in Proc |-> "un"]
  /\ th = [t \in Thread |-> Idle]

\* ed_lck(ED_LCK_SH / ED_LCK_EX), thread layer.  Without ED_FNOTLCK it
\* waits for the rwlock (or fails with EAGAIN under ED_FNOBLOCK).
LockThread(t, m, f) ==
  LET p == ProcOf[t] IN
  /\ th[t].pc = "idle"
  /\ \/ /\ "NOTLCK" \in f
        /\ UNCHANGED rw
     \/ /\ "NOTLCK" \notin f
        /\ RwFree(p, m)
        /\ rw' = RwTake(p, t, m)
  /\ th' = [th EXCEPT ![t] = [pc |-> "file", mode |-> m, flags |-> f]]
  /\ UNCHANGED fl

LockThreadBusy(t, m, f) ==
  /\ th[t].pc = "idle"
  /\ "NOTLCK" \notin f /\ "NOBLOCK" \in f
  /\ ~RwFree(ProcOf[t], m)
  /\ UNCHANGED vars

\* File layer: F_SETLKW (F_SETLK under ED_FNOBLOCK) on the process's lock.
LockFile(t) ==
  LET p == ProcOf[t]
      s == th[t]
  IN /\ s.pc = "file"
     /\ \/ /\ "NOFLCK" \in s.flags
           /\ UNCHANGED fl
        \/ /\ "NOFLCK" \notin s.flags
           /\ FlFree(p, s.mode)
           /\ fl' = [fl EXCEPT ![p] = s.mode]
     /\ th' = [th EXCEPT ![t].pc = "held"]
     /\ UNCHANGED rw

\* F_SETLK fails with EAGAIN: the thread lock taken first is released.
LockFileBusy(t) ==
  LET p == ProcOf[t]
      s == th[t]
  IN /\ s.pc = "file"
     /\ "NOFLCK" \notin s.flags /\ "NOBLOCK" \in s.flags
     /\ ~FlFree(p, s.mode)
     /\ rw' = IF "NOTLCK" \in s.flags THEN rw ELSE RwDrop(p, t)
     /\ th' = [th EXCEPT ![t] = Idle]
     /\ UNCHANGED fl

\* ed_lck(ED_LCK_UN) with the flags of the lock call.
Unlock(t) ==
  LET p == ProcOf[t]
      s == th[t]
  IN /\ s.pc = "held"
     /\ fl' = IF "NOFLCK" \in s.flags THEN fl ELSE [fl EXCEPT ![p] = "un"]
     /\ rw' = IF "NOTLCK" \in s.flags THEN rw ELSE RwDrop(p, t)
     /\ th' = [th EXCEPT ![t] = Idle]

Next ==
  \E t \in Thread :
    \/ \E m \in {"sh", "ex"}, f \in FlagSets[ProcOf[t]] : LockThread(t, m, f) \/ LockThreadBusy(t, m, f)
    \/ LockFile(t) \/ LockFileBusy(t)
    \/ Unlock(t)

Spec == Init /\ [][Next]_vars
-----------------------------------------------------------------------------
TypeOK ==
  /\ \A p \in Proc : /\ rw[p].w \in Thread \cup {NoThread}
                     /\ rw[p].r \subseteq Thread
                     /\ fl[p] \in {"un", "sh", "ex"}
  /\ \A t \in Thread : /\ th[t].pc \in {"idle", "file", "held"}
                       /\ th[t].mode \in {"un", "sh", "ex"}

Holding(m) == { t \in Thread : th[t].pc = "held" /\ th[t].mode = m }

(***************************************************************************)
(* At most one thread holds the lock exclusively (spec invariant 4: one    *)
(* read-write transaction per file), for callers that keep the flag      *)
(* contract: ED_FNOTLCK only where the process orders its own threads (a *)
(* single-threaded process, as in test-bpt.c).  Inside a process the      *)
(* rwlock must order writers, since the process's fcntl lock does not;    *)
(* across processes fcntl does, whatever the ED_FNOBLOCK failures and    *)
(* the two layers' steps interleave.                                      *)
(***************************************************************************)
WritersExclusive == Cardinality(Holding("ex")) <= 1

(***************************************************************************)
(* Readers and a writer never hold the lock at once (spec 4.5: "serialize  *)
(* writers, admit concurrent readers, across both threads and processes").*)
(***************************************************************************)
ReadersExcludeWriter == Holding("ex") /= {} => Holding("sh") = {}
=============================================================================
