------------------------------ MODULE PgTrack ------------------------------
(***************************************************************************)
(* Page mapping (src/lib/pg.c) with the debug page tracker                *)
(* (src/lib/pgtrack.cc) of an ED_MMAP_DEBUG build, used by several        *)
(* threads.                                                                *)
(*                                                                         *)
(* ed_pg_map calls mmap and then records the new range in the tracker;    *)
(* ed_pg_unmap removes it from the tracker and then calls munmap.  Each    *)
(* tracker call runs under the tracker's rwlock, but the pair of a        *)
(* syscall and a tracker call is not atomic, so other threads run between *)
(* them.  Addresses are page-sized slots 1..NAddr of the address space;    *)
(* mmap may return any free run of them, so addresses are reused.          *)
(* ed_pg_load / ed_pg_unload keep one cached mapping per EdPg* slot, one   *)
(* slot per thread here.                                                   *)
(***************************************************************************)
EXTENDS Integers, FiniteSets

CONSTANTS
  Thread,     \* threads mapping pages
  NAddr,      \* page-sized address slots
  PageNo,     \* page numbers of the file
  NONE,       \* ED_PG_NONE
  Counts,     \* page counts passed to ed_pg_map / ed_pg_unmap
  Misuse,     \* TRUE: remember unmapped ranges, for MisuseSpec
  NoMap,      \* model value: an address with nothing mapped
  NULL        \* model value: a NULL EdPg*

ASSUME NONE \notin PageNo /\ Counts \subseteq 1 .. NAddr

VARIABLES
  vm,        \* the kernel's view: page mapped at each address, or NoMap
  track,     \* the tracker map: address -> "active", "inactive" or "absent"
  tracking,  \* track != NULL: the map has been created
  errors,    \* track_errors
  st,        \* per thread: [pc, a, c, no, next]
  held,      \* ranges [a, c] a thread mapped with ed_pg_map and still holds
  gone,      \* ranges a thread has unmapped (kept only with Misuse)
  cache,     \* per thread: the EdPg* slot of ed_pg_load (address or NULL)
  loaded,    \* per thread: page number of the last ed_pg_load
  misuses    \* number of double unmaps performed

vars == <<vm, track, tracking, errors, st, held, gone, cache, loaded, misuses>>

Addr == 1 .. NAddr

Range(a, c) == a .. a + c - 1

Idle == [pc |-> "idle", a |-> 1, c |-> 1, no |-> NONE, next |-> "done"]

\* mmap of count pages: any run of free addresses.
FreeRuns(c) == { a \in Addr : Range(a, c) \subseteq Addr /\ \A k \in Range(a, c) : vm[k] = NoMap }

\* Fault: the file offset of the mapping is one page off.
MmapOffByOne(a, c, no) == [k \in Addr |-> IF k \in Range(a, c) THEN no + (k - a) + 1 ELSE vm[k]]

Mmap(a, c, no) == [k \in Addr |-> IF k \in Range(a, c) THEN no + (k - a) ELSE vm[k]]

Munmap(a, c) == [k \in Addr |-> IF k \in Range(a, c) THEN NoMap ELSE vm[k]]

\* Fault: any entry in the range is reported, even one already unmapped.
PgTrackAnyEntry(a, c) ==
  /\ errors' = errors + Cardinality({ k \in Range(a, c) : track[k] /= "absent" })
  /\ track' = [k \in Addr |-> IF k \in Range(a, c) THEN "active" ELSE track[k]]
  /\ tracking' = TRUE

\* Fault: only the first page of the range is marked active.
PgTrackFirstOnly(a, c) ==
  /\ errors' = errors + Cardinality({ k \in Range(a, c) : track[k] = "active" })
  /\ track' = [k \in Addr |-> IF k = a THEN "active" ELSE track[k]]
  /\ tracking' = TRUE

\* ed_pgtrack: report every active entry in the range, then mark the range
\* active.  The page number and backtrace an entry keeps only feed the
\* report's text and are left out.
PgTrack(a, c) ==
  /\ errors' = errors + Cardinality({ k \in Range(a, c) : track[k] = "active" })
  /\ track' = [k \in Addr |-> IF k \in Range(a, c) THEN "active" ELSE track[k]]
  /\ tracking' = TRUE

\* ed_pguntrack: with no map yet, report; otherwise report and skip every
\* inactive entry and mark every other address of the range inactive.
PgUntrack(a, c) ==
  LET dead == { k \in Range(a, c) : track[k] = "inactive" }
  IN IF ~tracking
     THEN /\ errors' = errors + 1
          /\ UNCHANGED track
     ELSE /\ errors' = errors + Cardinality(dead)
          /\ track' = [k \in Addr |-> IF k \in Range(a, c) \ dead
                                      THEN "inactive"
                                      ELSE track[k]]
  /\ UNCHANGED tracking

-----------------------------------------------------------------------------
Init ==
  /\ vm = [k \in Addr |-> NoMap]
  /\ track = [k \in Addr |-> "absent"]
  /\ tracking = FALSE
  /\ errors = 0
  /\ st = [t \in Thread |-> Idle]
  /\ held = [t \in Thread |-> {}]
  /\ gone = [t \in Thread |-> {}]
  /\ cache = [t \in Thread |-> NULL]
  /\ loaded = [t \in Thread |-> NONE]
  /\ misuses = 0

\* ed_pg_map, first part: the mmap call.  ED_PG_NONE, or no free run of
\* addresses, makes it return MAP_FAILED with nothing changed.
Map(t, no, c) ==
  /\ st[t].pc = "idle"
  /\ no /= NONE
  /\ no + c - 1 \in PageNo
  /\ \E a \in FreeRuns(c) :
       /\ vm' = Mmap(a, c, no)
       /\ st' = [st EXCEPT ![t] = [pc |-> "track", a |-> a, c |-> c, no |-> no, next |-> "done"]]
  /\ UNCHANGED <<track, tracking, errors, held, gone, cache, loaded, misuses>>

\* ed_pg_map, second part: ed_pg_track of the new range.  For a map made
\* by ed_pg_load the mapping goes into the thread's EdPg* slot.
Track(t) ==
  LET s == st[t] IN
  /\ s.pc = "track"
  /\ PgTrack(s.a, s.c)
  /\ IF s.next = "done"
       THEN /\ held' = [held EXCEPT ![t] = @ \cup {[a |-> s.a, c |-> s.c]}]
            /\ UNCHANGED cache
       ELSE /\ cache' = [cache EXCEPT ![t] = s.a]
            /\ UNCHANGED held
  /\ st' = [st EXCEPT ![t] = Idle]
  /\ UNCHANGED <<vm, gone, loaded, misuses>>

\* ed_pg_unmap, first part: ed_pg_untrack of a range the thread holds.
Unmap(t, h) ==
  /\ st[t].pc = "idle"
  /\ h \in held[t]
  /\ PgUntrack(h.a, h.c)
  /\ held' = [held EXCEPT ![t] = @ \ {h}]
  /\ gone' = IF Misuse THEN [gone EXCEPT ![t] = @ \cup {h}] ELSE gone
  /\ st' = [st EXCEPT ![t] = [pc |-> "munmap", a |-> h.a, c |-> h.c, no |-> NONE, next |-> "done"]]
  /\ UNCHANGED <<vm, cache, loaded, misuses>>

\* A thread unmapping, a second time, a range it already unmapped.
DoubleUnmap(t, h) ==
  /\ misuses = 0
  /\ st[t].pc = "idle"
  /\ h \in gone[t] \ held[t]
  /\ PgUntrack(h.a, h.c)
  /\ misuses' = misuses + 1
  /\ st' = [st EXCEPT ![t] = [pc |-> "munmap", a |-> h.a, c |-> h.c, no |-> NONE, next |-> "done"]]
  /\ UNCHANGED <<vm, held, gone, cache, loaded>>

\* ed_pg_unmap, second part: munmap.  Inside ed_pg_load it is followed
\* by the map of the requested page (or by NULL for ED_PG_NONE or when
\* mmap fails).
Unmapped(t) ==
  LET s == st[t] IN
  /\ s.pc = "munmap"
  /\ IF s.next = "done"
       THEN /\ vm' = Munmap(s.a, s.c)
            /\ st' = [st EXCEPT ![t] = Idle]
            /\ UNCHANGED cache
       ELSE LET v == Munmap(s.a, s.c)
                spare == { a \in Addr : v[a] = NoMap }
            IN /\ cache' = [cache EXCEPT ![t] = NULL]
               /\ \/ /\ s.no = NONE \/ spare = {}
                     /\ vm' = v
                     /\ st' = [st EXCEPT ![t] = Idle]
                  \/ /\ s.no /= NONE
                     /\ \E a \in spare :
                          /\ vm' = [v EXCEPT ![a] = s.no]
                          /\ st' = [st EXCEPT ![t] = [pc |-> "track", a |-> a, c |-> 1,
                                                      no |-> s.no, next |-> "load"]]
  /\ UNCHANGED <<track, tracking, errors, held, gone, loaded, misuses>>

\* Fault: a cached page is returned without comparing its number.
LoadReturnsCached(t, no) ==
  /\ st[t].pc = "idle"
  /\ cache[t] /= NULL
  /\ vm[cache[t]] /= no
  /\ loaded' = [loaded EXCEPT ![t] = no]
  /\ UNCHANGED <<vm, track, tracking, errors, st, held, gone, cache, misuses>>

\* ed_pg_load with a cached page that is another page (pg->no, read from
\* the page, differs): unmap it first.  When it is the page asked for,
\* ed_pg_load returns it and nothing changes.
LoadReplace(t, no) ==
  /\ st[t].pc = "idle"
  /\ cache[t] /= NULL
  /\ vm[cache[t]] /= no
  /\ PgUntrack(cache[t], 1)
  /\ loaded' = [loaded EXCEPT ![t] = no]
  /\ st' = [st EXCEPT ![t] = [pc |-> "munmap", a |-> cache[t], c |-> 1, no |-> no, next |-> "load"]]
  /\ UNCHANGED <<vm, held, gone, cache, misuses>>

\* ed_pg_load with an empty slot: map the page (nothing for ED_PG_NONE).
LoadEmpty(t, no) ==
  /\ st[t].pc = "idle"
  /\ cache[t] = NULL
  /\ loaded' = [loaded EXCEPT ![t] = no]
  /\ IF no = NONE \/ FreeRuns(1) = {}
       THEN UNCHANGED <<vm, st>>
       ELSE \E a \in FreeRuns(1) :
            /\ vm' = Mmap(a, 1, no)
            /\ st' = [st EXCEPT ![t] = [pc |-> "track", a |-> a, c |-> 1, no |-> no, next |-> "load"]]
  /\ UNCHANGED <<track, tracking, errors, held, gone, cache, misuses>>

\* ed_pg_unload: clear the slot, then unmap the page.
Unload(t) ==
  /\ st[t].pc = "idle"
  /\ cache[t] /= NULL
  /\ PgUntrack(cache[t], 1)
  /\ cache' = [cache EXCEPT ![t] = NULL]
  /\ st' = [st EXCEPT ![t] = [pc |-> "munmap", a |-> cache[t], c |-> 1, no |-> NONE, next |-> "done"]]
  /\ UNCHANGED <<vm, held, gone, loaded, misuses>>

Next ==
  \E t \in Thread :
    \/ \E no \in PageNo, c \in Counts : Map(t, no, c)
    \/ Track(t)
    \/ \E h \in held[t] : Unmap(t, h)
    \/ Unmapped(t)
    \/ \E no \in PageNo \cup {NONE} : LoadReplace(t, no) \/ LoadEmpty(t, no)
    \/ Unload(t)

Spec == Init /\ [][Next]_vars

\* The same threads, one of which may also unmap a range a second time.
MisuseNext == Next \/ \E t \in Thread : \E h \in gone[t] : DoubleUnmap(t, h)

MisuseSpec == Init /\ [][MisuseNext]_vars
-----------------------------------------------------------------------------
TypeOK ==
  /\ vm \in [Addr -> PageNo \cup {NoMap}]
  /\ track \in [Addr -> {"active", "inactive", "absent"}]
  /\ tracking \in BOOLEAN /\ errors \in Nat /\ misuses \in 0 .. 1
  /\ \A t \in Thread : /\ st[t].pc \in {"idle", "track", "munmap"}
                       /\ cache[t] \in Addr \cup {NULL}
                       /\ held[t] \cup gone[t] \subseteq [a : Addr, c : Counts]

\* Addresses a thread is between a syscall and its tracker call for.
InWindow == UNION { Range(st[t].a, st[t].c) : t \in { u \in Thread : st[u].pc /= "idle" } }

Active(k) == track[k] = "active"

(***************************************************************************)
(* The tracker raises no false alarm: as long as every unmap is of a range *)
(* its thread holds, track_errors stays 0, however the map/track and       *)
(* untrack/unmap halves of different threads interleave and however mmap  *)
(* reuses addresses.                                                       *)
(***************************************************************************)
NoFalseReport == misuses = 0 => errors = 0

(***************************************************************************)
(* Outside the window of an ongoing ed_pg_map or ed_pg_unmap, an address  *)
(* is active in the tracker exactly when something is mapped there, so    *)
(* ed_pg_check counts precisely the pages still mapped (the leaks).        *)
(***************************************************************************)
TrackerMirrorsVm ==
  misuses = 0 => \A k \in Addr \ InWindow : Active(k) <=> vm[k] /= NoMap

(***************************************************************************)
(* After ed_pg_load returns, the thread's EdPg* slot is NULL or maps the  *)
(* page it asked for, never the page it held before.                      *)
(***************************************************************************)
LoadCoherent ==
  misuses = 0 =>
    \A t \in Thread : st[t].pc = "idle" /\ cache[t] /= NULL => vm[cache[t]] = loaded[t]

(***************************************************************************)
(* The tracker header promises to catch double unmaps: every double unmap *)
(* adds to track_errors.                                                   *)
(***************************************************************************)
DoubleUnmapReported == errors >= misuses
=============================================================================
