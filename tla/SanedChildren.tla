--------------------------- MODULE SanedChildren ---------------------------
(***************************************************************************)
(* The parent process of a stand-alone saned (frontend/saned.c):           *)
(* run_standalone polls the listening sockets, waits for children that     *)
(* have ended, and forks one for each connection; a SIGTERM or SIGINT runs *)
(* bail_out on top of whatever it was doing.  The children are kept in a   *)
(* list and, separately, in the counter numchildren.                       *)
(***************************************************************************)
EXTENDS Processes, Integers, Sequences, SequencesExt

CONSTANTS
  Avahi,      \* stands for the number of the Avahi process
  NoPid,      \* waitpid has returned nothing that is still to be booked
  MaxForks,   \* bound on the connections that are handled
  Sockets     \* the number of listening sockets

ASSUME DaemonConstants ==
  /\ {Avahi, NoPid} \cap Pid = {} /\ Avahi # NoPid
  /\ MaxForks \in Nat /\ Sockets \in Nat \ {0}

VARIABLES
  dpc,           \* where the parent is
  ready,         \* the sockets poll has reported and the loop has to look at
  children,      \* the list of children, newest first
  numchildren,   \* the counter of the same name
  avahi,         \* what the kernel keeps of the Avahi process
  avahi_pid,     \* the parent's variable: Avahi or NoPid (-1)
  got,           \* the process waitpid has returned, not yet taken off the books
  handler,       \* sig_int_term_handler is installed
  forks          \* connections handled so far

daemonVars == <<dpc, ready, children, numchildren, avahi, avahi_pid, got, handler, forks>>
vars == <<proc, daemonVars>>

\* saned_avahi: the counter is raised here and nowhere else.
DaemonInit ==
  /\ dpc = "poll" /\ ready = 0 /\ children = <<>> /\ got = NoPid /\ forks = 0
  /\ handler = TRUE
  /\ \/ avahi = "run" /\ avahi_pid = Avahi /\ numchildren = 1
     \/ avahi = "none" /\ avahi_pid = NoPid /\ numchildren = 0

------------------------------------------------------------------------------
(* wait_child: waitpid, and then the books.                                *)

Zombies == {p \in Pid : proc[p] = "zombie"} \cup {a \in {Avahi} : avahi = "zombie"}

\* waitpid returns one of the children that have ended.
Waitpid ==
  /\ got = NoPid
  /\ \E z \in Zombies :
       /\ got' = z
       /\ IF z = Avahi THEN avahi' = "none" /\ UNCHANGED proc
                       ELSE Reaped(z) /\ UNCHANGED avahi
  /\ UNCHANGED <<dpc, ready, children, numchildren, avahi_pid, handler, forks>>

ListedAt(p) == SelectInSeq(children, LAMBDA c : c = p)

\* Mutant: the element found is unlinked only when it heads the list.
InFrontHead(p) == ListedAt(p) = 1 /\ 1 < Len(children)

\* The loop over the list stops in front of its last element.
InFront(p) == ListedAt(p) # 0 /\ ListedAt(p) < Len(children)

\* Mutant: the Avahi process is not counted out.
BookAvahiNot ==
  /\ got = Avahi /\ avahi_pid = Avahi
  /\ avahi_pid' = NoPid
  /\ UNCHANGED <<numchildren, children>>

BookAvahi ==
  /\ got = Avahi /\ avahi_pid = Avahi
  /\ avahi_pid' = NoPid
  /\ numchildren' = numchildren - 1
  /\ UNCHANGED children

BookChild ==
  /\ got \in Pid
  /\ IF InFront(got)
       THEN /\ children' = RemoveAt(children, ListedAt(got))
            /\ numchildren' = numchildren - 1
       ELSE UNCHANGED <<children, numchildren>>
  /\ UNCHANGED avahi_pid

Book ==
  /\ BookAvahi \/ BookChild
  /\ got' = NoPid
  /\ UNCHANGED <<dpc, ready, avahi, handler, forks, proc>>

------------------------------------------------------------------------------
(* run_standalone                                                          *)

\* poll returns because sockets are ready or the half second is over.
PollReturns ==
  /\ dpc = "poll"
  /\ \E n \in 0 .. Sockets : ready' = n
  /\ dpc' = "reap"
  /\ UNCHANGED <<children, numchildren, avahi, avahi_pid, got, handler, forks, proc>>

\* poll fails for another reason than a signal: bail_out (1).
PollFails ==
  /\ dpc = "poll"
  /\ dpc' = "bail"
  /\ UNCHANGED <<ready, children, numchildren, avahi, avahi_pid, got, handler, forks, proc>>

\* wait_child with WNOHANG until it returns nothing
ReapStep == dpc = "reap" /\ (Waitpid \/ Book)

\* Mutant: the children are waited for only when no socket is ready.
ReapDoneReady ==
  /\ dpc = "reap" /\ got = NoPid /\ (ready # 0 \/ Zombies = {})
  /\ dpc' = IF ready = 0 THEN "poll" ELSE "serve"
  /\ UNCHANGED <<ready, children, numchildren, avahi, avahi_pid, got, handler, forks, proc>>

ReapDone ==
  /\ dpc = "reap" /\ got = NoPid /\ Zombies = {}
  /\ dpc' = IF ready = 0 THEN "poll" ELSE "serve"
  /\ UNCHANGED <<ready, children, numchildren, avahi, avahi_pid, got, handler, forks, proc>>

\* The next socket, and back to poll behind the last.
NextSocket ==
  /\ ready' = ready - 1
  /\ dpc' = IF ready = 1 THEN "poll" ELSE "serve"

\* handle_client: fork, and add_child in the parent.
HandleClient(p) ==
  /\ dpc = "serve" /\ forks < MaxForks
  /\ Forked(p)
  /\ forks' = forks + 1
  /\ \/ children' = <<p>> \o children
     \/ UNCHANGED children   \* add_child is out of memory
  /\ NextSocket
  /\ UNCHANGED <<numchildren, avahi, avahi_pid, got, handler>>

\* accept or fork fails: the connection is gone, the loop goes on.
ClientLost ==
  /\ dpc = "serve"
  /\ NextSocket
  /\ UNCHANGED <<children, numchildren, avahi, avahi_pid, got, handler, forks, proc>>

\* A socket has an error: all of them are closed and bound anew (do_bindings,
\* which bails out when it cannot).
Rebind ==
  /\ dpc = "serve"
  /\ ready' = 0 /\ dpc' \in {"poll", "bail"}
  /\ UNCHANGED <<children, numchildren, avahi, avahi_pid, got, handler, forks, proc>>

------------------------------------------------------------------------------
(* bail_out                                                                *)

\* sig_int_term_handler comes upon the parent anywhere, within wait_child too;
\* what that has still to book is never booked.
Signal ==
  /\ dpc # "exited" /\ handler
  /\ dpc' = "bail" /\ got' = NoPid /\ handler' = FALSE
  /\ UNCHANGED <<ready, children, numchildren, avahi, avahi_pid, forks, proc>>

\* The handler has put the default back: a second signal ends the parent.
SecondSignal ==
  /\ dpc # "exited" /\ ~handler
  /\ dpc' = "exited" /\ got' = NoPid
  /\ UNCHANGED <<ready, children, numchildren, avahi, avahi_pid, handler, forks, proc>>

\* while (numchildren > 0) wait_child (-1, NULL, 0)
BailStep == dpc = "bail" /\ ((numchildren > 0 /\ Waitpid) \/ Book)

BailExit ==
  /\ dpc = "bail" /\ got = NoPid /\ numchildren <= 0
  /\ dpc' = "exited"
  /\ UNCHANGED <<ready, children, numchildren, avahi, avahi_pid, got, handler, forks, proc>>

------------------------------------------------------------------------------
(* Around the parent                                                       *)

\* The Avahi process ends, by itself or of bail_out's SIGTERM.
AvahiExits ==
  /\ avahi = "run"
  /\ avahi' = "zombie"
  /\ UNCHANGED <<dpc, ready, children, numchildren, avahi_pid, got, handler, forks, proc>>

\* Children of a parent that has exited are waited for by init.
InitReaps(p) ==
  /\ dpc = "exited"
  /\ Reaped(p)
  /\ UNCHANGED daemonVars

\* A connection's process ends, in whatever way.
ChildExits(p) == Exited(p) /\ UNCHANGED daemonVars

Init == ProcInit /\ DaemonInit

Next ==
  \/ PollReturns \/ PollFails \/ ReapStep \/ ReapDone \/ ClientLost \/ Rebind
  \/ Signal \/ SecondSignal \/ BailStep \/ BailExit \/ AvahiExits
  \/ \E p \in Pid : HandleClient(p) \/ ChildExits(p) \/ InitReaps(p)

\* poll returns after half a second at the latest, and the parent does not stop
\* in between; the Avahi process dies of the SIGTERM bail_out sends it; init waits
\* for orphans.  Nothing says that a client comes, or that a connection ends.
Fairness ==
  /\ WF_vars(PollReturns)
  /\ WF_vars(ReapStep \/ ReapDone \/ ClientLost \/ Rebind \/ BailStep \/ BailExit)
  /\ WF_vars(dpc = "bail" /\ AvahiExits)
  /\ \A p \in Pid : WF_vars(InitReaps(p))

Spec == Init /\ [][Next]_vars /\ Fairness

------------------------------------------------------------------------------
(* Properties                                                              *)

\* Only the last element of the list of children can be a process that has been
\* waited for: wait_child takes every other one off, wherever in the list it is,
\* so the list does not grow with the connections served.
StaleIsLast ==
  dpc \in {"poll", "reap", "serve"} =>
    \A i \in 1 .. Len(children) - 1 : Exists(children[i]) \/ children[i] = got

\* The signal came between waitpid and the booking of the Avahi process: the
\* counter is never brought down to 0.
AvahiLost == avahi = "none" /\ avahi_pid = Avahi /\ got # Avahi

\* bail_out's loop ends and the parent exits, although the counter it looks at
\* knows only of the Avahi process and is brought down for others: it goes on for
\* ever in no case but AvahiLost.
BailOutEnds == dpc = "bail" ~> (dpc = "exited" \/ AvahiLost)
=============================================================================
