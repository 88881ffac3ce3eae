-------------------------------- MODULE Session --------------------------------
(***************************************************************************)
(* A client of the net backend and the saned process that serves it.       *)
(***************************************************************************)
EXTENDS Saned

CONSTANT Settings   \* the sets of faults and habits to look at

VARIABLES scn, call

serverGone == pc = "exit"

C == INSTANCE NetClient

ASSUME SettingsAssumption == Settings \subseteq SUBSET (FaultKinds \cup C!HabitKinds)

vars == << server, channel, scn, call, may >>

SessionInit == Init /\ C!Init /\ may \in Settings

SessionNext == \/ SanedNext /\ UNCHANGED << scn, call, may >>
               \/ C!Next /\ UNCHANGED << server, may >>

Spec == SessionInit /\ [][SessionNext]_vars

(***************************************************************************)
(* Fairness: both processes run, a scan ends, and the alarm set by         *)
(* reset_watchdog goes off for a server that nothing happens to.  That a   *)
(* server inside a scan serves requests leaves out the write that blocks   *)
(* (ScanLink).                                                             *)
(***************************************************************************)
FairSpec ==
  /\ Spec
  /\ WF_vars((ServeRequest \/ Accept \/ Return) /\ UNCHANGED << scn, call, may >>)
  /\ SF_vars(LoopEnds /\ UNCHANGED << scn, call, may >>)
  /\ WF_vars(pc \in {"accept", "auth"} /\ Signal /\ UNCHANGED << scn, call, may >>)
  /\ WF_vars(C!Replies /\ UNCHANGED << server, may >>)

-------------------------------------------------------------------------------
(* Properties.                                                             *)

Frames == DOMAIN stack
Inuse == { i \in Handles : handle[i].inuse }

(***************************************************************************)
(* Client and server agree on which handles are open whenever no call that *)
(* changes this is under way, and a request never names a handle that the  *)
(* server does not know (decode_handle would fail and process_request      *)
(* would return without a reply to a client that waits for one).           *)
(***************************************************************************)
HandlesAgree ==
  /\ call.op \notin {"open", "fetch", "close"} /\ ~hup
       => /\ { i \in Handles : scn[i] # "none" } \subseteq Inuse
          /\ "nomem" \notin may => Inuse \subseteq { i \in Handles : scn[i] # "none" }
  /\ req.h \in Handles => req.h \in Inuse

(***************************************************************************)
(* The backend's open handles are those in the table, each in one entry,   *)
(* so quit leaves none open.  The exception is a table that get_free_handle*)
(* could not make larger: the handle just opened is then in no entry, it   *)
(* is the only one, and quit can close none.                               *)
(***************************************************************************)
BackendsAccounted ==
  /\ pc # "exit" => opened = { handle[i].be : i \in Inuse }
                                \cup (IF lost THEN {nopen} ELSE {})
  /\ \A i, j \in Inuse : i # j => handle[i].be # handle[j].be
  /\ pc = "exit" /\ ~lost => opened = {}

(***************************************************************************)
(* No two do_scan calls read from the same backend handle: the scanning    *)
(* flag keeps SANE_NET_START away from it even though requests are served  *)
(* from inside the scan.                                                   *)
(***************************************************************************)
OneReader == \A i, j \in Frames : i # j => stack[i].be # stack[j].be

(***************************************************************************)
(* A scan that do_scan gives up because of docancel is one the client has  *)
(* cancelled or left, never a later scan hit by a stale flag.              *)
(***************************************************************************)
CancelIsWanted ==
  pc = "return" /\ handle[Top.h].docancel
    => hup \/ scn[Top.h] # "data" \/ (call.op = "cancel" /\ call.h = Top.h)

(***************************************************************************)
(* A handle is marked as scanning only while do_scan runs for it or the    *)
(* data connection is being set up; otherwise sane_start on it would       *)
(* return SANE_STATUS_DEVICE_BUSY for ever.  An accept that fails leaves   *)
(* the mark, and so does one that a stranger gets from inside another      *)
(* scan: there process_request returns -1 to a do_scan that does not look. *)
(***************************************************************************)
BusyMeansScanning ==
  /\ pc # "exit" /\ "accept" \notin may
  /\ "stranger" \notin may \/ may \cap C!HabitKinds = {}
  => \A i \in Inuse : handle[i].scanning => \/ \E k \in Frames : stack[k].h = i
                                            \/ pc = "accept" /\ acc = i

(***************************************************************************)
(* do_scan reads from a backend handle that is open (doc/sane.tex: after   *)
(* sane_close "handle h must not be used anymore").                        *)
(***************************************************************************)
ReadsOpenHandle ==
  pc = "serve" /\ stack # << >> /\ may \cap C!HabitKinds = {} => Top.be \in opened

(***************************************************************************)
(* Every call of the client returns: the server answers or goes away,      *)
(* unless it is blocked in do_scan's write, which ScanLink looks at.       *)
(***************************************************************************)
CallReturns == (call # C!NoMsg) ~> (call = C!NoMsg)

(***************************************************************************)
(* A server whose client has gone does not stay behind with the devices    *)
(* open.                                                                   *)
(***************************************************************************)
ServerFollows == hup ~> (pc = "exit")
===============================================================================
