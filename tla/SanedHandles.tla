----------------------------- MODULE SanedHandles -----------------------------
(***************************************************************************)
(* The table of open devices of frontend/saned.c: get_free_handle searches *)
(* it round robin from the handle it gave out last and enlarges it when    *)
(* the search comes back to that handle; close_handle frees an entry.      *)
(* One step of the search is one turn of its do-while loop, because the    *)
(* question is whether the loop ends.                                      *)
(***************************************************************************)
EXTENDS Integers

CONSTANTS ALLOC_INCREMENT,  \* 16 in the code
          MaxHandles        \* bound: how far the table may grow

ASSUME IncrementAssumption == ALLOC_INCREMENT \in Nat \ {0}
ASSUME MaxAssumption == MaxHandles \in Nat

VARIABLES
  num_handles,
  inuse,                  \* handle[i].inuse for i in 0..num_handles - 1
  last_handle_checked, h, \* the static variables of get_free_handle
  pc                      \* "idle", "search", "alloc"; "nomem": realloc failed

vars == << num_handles, inuse, last_handle_checked, h, pc >>

Entries == 0..(num_handles - 1)
Free == { i \in Entries : ~inuse[i] }

Init == /\ num_handles = 0
        /\ inuse = [i \in {} |-> FALSE]
        /\ last_handle_checked = -1
        /\ h = 0
        /\ pc = "idle"

\* Mutant: the search begins at the front of the table.
FirstIsZero == 0

\* Where the search begins.
First == last_handle_checked + 1

\* SANE_NET_OPEN calls get_free_handle.
get_free_handle ==
  /\ pc = "idle"
  /\ IF num_handles > 0
     THEN pc' = "search" /\ h' = First
     ELSE pc' = "alloc" /\ h' = h
  /\ UNCHANGED << num_handles, inuse, last_handle_checked >>

\* One turn of the loop looks at entry i.
Probe(i) ==
  /\ pc = "search"
  /\ i = IF h >= num_handles THEN 0 ELSE h
  /\ IF ~inuse[i]
     THEN /\ last_handle_checked' = i
          /\ inuse' = [inuse EXCEPT ![i] = TRUE]
          /\ h' = i
          /\ pc' = "idle"
     ELSE /\ h' = i + 1
          /\ pc' = IF i + 1 = last_handle_checked THEN "alloc" ELSE "search"
          /\ UNCHANGED << inuse, last_handle_checked >>
  /\ UNCHANGED num_handles

\* Mutant: memset is missing and the new entries look used.
EnlargedDirty == [i \in 0..(num_handles + ALLOC_INCREMENT - 1) |-> i < num_handles => inuse[i]]

\* The table after realloc and memset.
Enlarged == [i \in 0..(num_handles + ALLOC_INCREMENT - 1) |-> i < num_handles /\ inuse[i]]

\* The table grows and get_free_handle calls itself.
Alloc ==
  /\ pc = "alloc" /\ num_handles + ALLOC_INCREMENT <= MaxHandles
  /\ last_handle_checked' = num_handles - 1
  /\ num_handles' = num_handles + ALLOC_INCREMENT
  /\ inuse' = Enlarged
  /\ h' = num_handles
  /\ pc' = "search"

\* realloc fails: the table is lost although num_handles has been raised, so
\* the model stops here.
AllocFail ==
  /\ pc = "alloc"
  /\ pc' = "nomem"
  /\ UNCHANGED << num_handles, inuse, last_handle_checked, h >>

\* SANE_NET_CLOSE; process_request serves one request at a time.
close_handle(i) ==
  /\ pc = "idle" /\ inuse[i]
  /\ inuse' = [inuse EXCEPT ![i] = FALSE]
  /\ UNCHANGED << num_handles, last_handle_checked, h, pc >>

Close == \E i \in Entries : close_handle(i)

Search == \E i \in Entries : Probe(i)

Next == get_free_handle \/ Search \/ Alloc \/ AllocFail \/ Close

Spec == Init /\ [][Next]_vars

\* A process that runs gets on with the search and with the allocation.
FairSpec == Spec /\ WF_vars(Search \/ Alloc)

-------------------------------------------------------------------------------
(* Properties.                                                             *)

TypeOK == /\ num_handles \in Nat
          /\ inuse \in [Entries -> BOOLEAN]
          /\ last_handle_checked \in -1..(num_handles - 1)
          /\ h \in 0..num_handles
          /\ pc \in {"idle", "search", "alloc", "nomem"}

\* The entries get_free_handle has looked at in the search in progress: those
\* from last_handle_checked + 1 round to h - 1.
Checked(i) == IF h > last_handle_checked
              THEN last_handle_checked < i /\ i < h
              ELSE i < h \/ last_handle_checked < i

(***************************************************************************)
(* The table grows only when it is full, but for the entry given out last: *)
(* every entry the search has passed is in use, and the search gives up    *)
(* after all the others.  So the table is never larger than the number of  *)
(* devices that were open at the same time calls for.                      *)
(***************************************************************************)
SearchIsThorough ==
  /\ pc = "search" => \A i \in Entries : Checked(i) => inuse[i]
  /\ pc = "alloc" => Free \subseteq {last_handle_checked}

(***************************************************************************)
(* get_free_handle returns: with a free entry, or when "we're out of       *)
(* handles---alloc some more" (saned.c).  The one exception is a full      *)
(* table whose entry 0 was given out last: h has just been incremented     *)
(* when it is compared, so it is never 0 and the search goes round.        *)
(***************************************************************************)
OpenReturns ==
  (pc = "search" /\ (Free # {} \/ last_handle_checked # 0)) ~> (pc # "search")
===============================================================================
