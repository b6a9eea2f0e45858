------------------------------ MODULE AllocSpec ------------------------------
(***************************************************************************)
(* What the page allocator promises (eddy-private.h, ed_pg_alloc and       *)
(* ed_pg_free): a call hands its caller pages nobody else owns; without    *)
(* exclusive access it may return fewer pages than asked, with exclusive   *)
(* access it returns all of them or fails; ed_pg_free, under exclusive     *)
(* access, takes back pages the caller owns.                               *)
(***************************************************************************)
EXTENDS Naturals, FiniteSets

CONSTANTS Thread, MaxPage, Req

VARIABLES
  out,    \* pages each thread owns
  call    \* each thread's ed_pg_alloc: [busy, n, x]

vars == <<out, call>>

Page == 1 .. MaxPage

Exclusive == { t \in Thread : call[t].busy /\ call[t].x }

NoCall == [busy |-> FALSE, n |-> 0, x |-> FALSE]

Init ==
  /\ out = [t \in Thread |-> {}]
  /\ call = [t \in Thread |-> NoCall]

Call(t, n, x) ==
  /\ ~call[t].busy
  /\ x => Exclusive = {}
  /\ call' = [call EXCEPT ![t] = [busy |-> TRUE, n |-> n, x |-> x]]
  /\ UNCHANGED out

\* The call returns the pages S (S = {} also stands for an error).
Return(t, S) ==
  /\ call[t].busy
  /\ S \cap UNION { out[u] : u \in Thread } = {}
  /\ IF call[t].x THEN Cardinality(S) \in {0, call[t].n}
                  ELSE Cardinality(S) <= call[t].n
  /\ out' = [out EXCEPT ![t] = @ \cup S]
  /\ call' = [call EXCEPT ![t] = NoCall]

Free(t, S) ==
  /\ ~call[t].busy
  /\ Exclusive = {}
  /\ S \subseteq out[t]
  /\ out' = [out EXCEPT ![t] = @ \ S]
  /\ UNCHANGED call

Next ==
  \E t \in Thread :
    \/ \E n \in Req, x \in BOOLEAN : Call(t, n, x)
    \/ \E S \in SUBSET Page : Return(t, S)
    \/ \E S \in SUBSET out[t] : Free(t, S)

Spec == Init /\ [][Next]_vars
=============================================================================
