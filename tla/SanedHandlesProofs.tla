-------------------------- MODULE SanedHandlesProofs --------------------------
(***************************************************************************)
(* Proofs about the handle table of saned, for every ALLOC_INCREMENT and   *)
(* every number of handles.                                                *)
(***************************************************************************)
EXTENDS SanedHandles, TLAPS

HInv == TypeOK /\ SearchIsThorough

\* An empty table satisfies the invariant.
LEMMA InitHolds == Init => HInv
  BY DEF Init, HInv, TypeOK, SearchIsThorough, Entries, Free, Checked

\* A search begins with no entry looked at, or there is no table at all.
LEMMA BeginKeeps == HInv /\ get_free_handle => HInv'
<1> SUFFICES ASSUME HInv, get_free_handle PROVE HInv'
  OBVIOUS
<1>1. TypeOK'
  BY DEF HInv, get_free_handle, First, TypeOK, Entries
<1>2. SearchIsThorough'
  BY DEF HInv, get_free_handle, First, TypeOK, SearchIsThorough, Entries, Free, Checked
<1> QED
  BY <1>1, <1>2 DEF HInv

\* A turn of the loop adds the entry it looks at to those known to be in use;
\* coming round to last_handle_checked, it has seen all the others.
LEMMA ProbeKeeps == ASSUME HInv, NEW i \in Entries, Probe(i) PROVE HInv'
<1>1. CASE ~inuse[i]
  <2>1. TypeOK'
    <3>1. inuse' \in [Entries' -> BOOLEAN]
      BY <1>1 DEF HInv, Probe, TypeOK, Entries
    <3>2. last_handle_checked' \in -1..(num_handles' - 1) /\ h' \in 0..num_handles'
      BY <1>1, SMT DEF HInv, Probe, TypeOK, Entries
    <3> QED
      BY <1>1, <3>1, <3>2 DEF HInv, Probe, TypeOK
  <2>2. SearchIsThorough'
    BY <1>1 DEF HInv, Probe, TypeOK, SearchIsThorough
  <2> QED
    BY <2>1, <2>2 DEF HInv
<1>2. CASE inuse[i]
  <2>1. /\ h' = i + 1
        /\ UNCHANGED << inuse, last_handle_checked, num_handles >>
        /\ pc' = IF i + 1 = last_handle_checked THEN "alloc" ELSE "search"
    BY <1>2 DEF Probe
  <2>2. TypeOK'
    BY <2>1 DEF HInv, TypeOK, Entries
  <2>3. ASSUME NEW j \in Entries, Checked(j)' PROVE inuse[j]
    <3>1. pc = "search" /\ i = IF h >= num_handles THEN 0 ELSE h
      BY DEF Probe
    <3>2. j = i \/ Checked(j)
      BY <2>1, <2>3, <3>1 DEF HInv, TypeOK, Checked, Entries
    <3> QED
      BY <1>2, <3>1, <3>2 DEF HInv, SearchIsThorough
  <2>4. ASSUME i + 1 = last_handle_checked, NEW j \in Entries, j # last_handle_checked
        PROVE inuse[j]
    <3>1. Checked(j)'
      BY <2>1, <2>4 DEF HInv, TypeOK, Checked, Entries
    <3> QED
      BY <3>1, <2>3
  <2>5. SearchIsThorough'
    BY <2>1, <2>3, <2>4 DEF SearchIsThorough, Free, Entries
  <2> QED
    BY <2>2, <2>5 DEF HInv
<1> QED
  BY <1>1, <1>2

\* The search starts again at the first new entry.
LEMMA AllocKeeps == HInv /\ Alloc => HInv'
<1> SUFFICES ASSUME HInv, Alloc PROVE HInv'
  OBVIOUS
<1>1. TypeOK'
  BY IncrementAssumption DEF HInv, Alloc, Enlarged, TypeOK, Entries
<1>2. SearchIsThorough'
  BY IncrementAssumption DEF HInv, Alloc, Enlarged, TypeOK, SearchIsThorough, Entries, Free, Checked
<1> QED
  BY <1>1, <1>2 DEF HInv

\* Handles are closed only between searches; a failed allocation changes nothing.
LEMMA CloseKeeps == HInv /\ (Close \/ AllocFail \/ UNCHANGED vars) => HInv'
<1>1. ASSUME HInv, NEW i \in Entries, close_handle(i) PROVE HInv'
  BY <1>1 DEF HInv, close_handle, TypeOK, SearchIsThorough, Entries
<1>2. ASSUME HInv, AllocFail PROVE HInv'
  BY <1>2 DEF HInv, AllocFail, TypeOK, SearchIsThorough, Entries
<1>3. ASSUME HInv, UNCHANGED vars PROVE HInv'
  BY <1>3 DEF HInv, vars, TypeOK, SearchIsThorough, Entries, Free, Checked
<1> QED
  BY <1>1, <1>2, <1>3 DEF Close

\* get_free_handle enlarges the table only when no entry but the one it gave
\* out last can be free, and every entry a search has passed is in use.
THEOREM TableGrowsWhenFull == Spec => [](TypeOK /\ SearchIsThorough)
<1>1. HInv /\ [Next]_vars => HInv'
  BY BeginKeeps, ProbeKeeps, AllocKeeps, CloseKeeps DEF Next, Search
<1> QED
  BY InitHolds, <1>1, PTL DEF Spec, HInv
===============================================================================
