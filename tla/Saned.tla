--------------------------------- MODULE Saned ---------------------------------
(***************************************************************************)
(* The saned process that serves one client (frontend/saned.c:             *)
(* handle_connection, process_request, the outer shape of do_scan, quit).  *)
(* process_request starts do_scan, and do_scan calls process_request while *)
(* the scan runs, so scans nest: stack holds the do_scan calls in          *)
(* progress, the innermost last.  What do_scan does with the data is       *)
(* module DoScan, the search for a free handle is module SanedHandles.     *)
(*                                                                         *)
(* A request and its reply are the messages req and reply; the data        *)
(* connection under construction is dconn.                                 *)
(***************************************************************************)
EXTENDS Integers, Sequences, SequencesExt

CONSTANTS NH,      \* handles the client may have open at a time
          MaxBe    \* bound: sane_open calls that succeed

FaultKinds == { "accept",    \* accept on the data socket fails
                "stranger",  \* another host connects to it first
                "refuse",    \* the client cannot connect to it
                "nomem",     \* malloc fails in the client's sane_open
                "alloc",     \* malloc or realloc fails in get_free_handle
                "auth",      \* devices are protected by a password
                "signal",    \* SIGALRM (the watchdog) or SIGPIPE
                "crash" }    \* the client process dies

ASSUME SanedAssumption == NH \in Nat \ {0} /\ MaxBe \in Nat

VARIABLES
  handle,   \* the table: inuse, scanning, docancel and the backend's handle be
  lost,     \* get_free_handle has set the pointer to the table to NULL; handle
            \* is what the table held, which the process can no longer reach
  stack,    \* the do_scan calls in progress: h and be_handle of each
  pc,       \* "serve": in process_request or select, ready for a request;
            \* "accept": waiting for the data connection of handle acc;
            \* "auth": auth_callback has asked the client for a password;
            \* "authorized": auth_callback has returned, in the request asked;
            \* "return": a process_request called by do_scan has returned;
            \* "exit": quit has run
  acc,
  asked,    \* the request that waits for the password
  can_authorize,   \* as process_request leaves it
  opened,   \* backend: its handles that are open
  nopen,    \* backend: how many it has given out
  req, reply, dconn,
  hup,      \* the client has closed the control connection
  may       \* what may go wrong in this behaviour: never changes

Handles == 0..(NH - 1)
NoMsg   == [op |-> "none", h |-> -1]

server  == << handle, lost, stack, pc, acc, asked, can_authorize, opened, nopen >>
channel == << req, reply, dconn, hup >>

Init == /\ handle = [i \in Handles |-> [inuse |-> FALSE, scanning |-> FALSE,
                                        docancel |-> FALSE, be |-> 0]]
        /\ lost = FALSE
        /\ stack = << >>
        /\ pc = "serve" /\ acc = -1
        /\ asked = NoMsg /\ can_authorize = FALSE
        /\ opened = {} /\ nopen = 0
        /\ req = NoMsg /\ reply = NoMsg /\ dconn = "none" /\ hup = FALSE

Top == Last(stack)

\* quit: close what is open and leave.  Its loop over a lost table is a
\* segmentation fault, which closes nothing.
quit == /\ opened' = IF lost THEN opened
                     ELSE opened \ { handle[i].be : i \in { j \in Handles : handle[j].inuse } }
        /\ pc' = "exit"

\* process_request returns 0 or 1, to do_scan or to handle_connection.
Done == pc' = IF stack = << >> THEN "serve" ELSE "return"

\* Mutant: handle_connection does not look at the result either.
FailIgnored == Done /\ opened' = opened

\* It returns -1: handle_connection ends, do_scan does not look at the result.
Fail == IF stack = << >> THEN quit ELSE pc' = "return" /\ opened' = opened

\* The request process_request works on: a new one, or the one that has been
\* waiting in auth_callback.
Served == IF pc = "authorized" THEN asked ELSE req

Request(op) == pc \in {"serve", "authorized"} /\ Served.op = op

\* decode_handle.
RequestFor(op, i) == Request(op) /\ Served.h = i /\ ~lost /\ handle[i].inuse

\* Mutant: the reply stays in the buffer.
AnswerUnsent(st, i) == /\ reply' = reply
                       /\ req' = NoMsg /\ asked' = NoMsg

Answer(st, i) == /\ reply' = [op |-> st, h |-> i]
                 /\ req' = NoMsg /\ asked' = NoMsg

-------------------------------------------------------------------------------
(* process_request, one action for each procedure and outcome.             *)

\* get_free_handle clears the entry it returns.
Open(i) ==
  /\ Request("open")
  /\ ~lost /\ ~handle[i].inuse /\ nopen < MaxBe
  /\ nopen' = nopen + 1
  /\ opened' = opened \cup {nopen + 1}
  /\ handle' = [handle EXCEPT ![i] = [inuse |-> TRUE, scanning |-> FALSE,
                                      docancel |-> FALSE, be |-> nopen + 1]]
  /\ can_authorize' = FALSE
  /\ Answer("good", i)
  /\ Done
  /\ UNCHANGED << lost, stack, acc, dconn, hup >>

\* sane_open succeeds, no entry is free and the table cannot be made larger: the
\* client gets SANE_STATUS_NO_MEM, the device stays open in no entry, and the
\* table is lost with the pointer that realloc overwrites.
OpenNoEntry ==
  /\ "alloc" \in may
  /\ Request("open")
  /\ ~lost /\ nopen < MaxBe
  /\ nopen' = nopen + 1
  /\ opened' = opened \cup {nopen + 1}
  /\ lost' = TRUE
  /\ can_authorize' = FALSE
  /\ Answer("error", -1)
  /\ Done
  /\ UNCHANGED << handle, stack, acc, dconn, hup >>

\* num_handles has grown, so the next access to the lost table follows the NULL
\* pointer: in decode_handle and its like, or in do_scan's test of docancel.
Segfault ==
  /\ lost
  /\ \/ pc = "return"
     \/ \E op \in {"close", "query", "option", "start", "cancel"} : Request(op)
  /\ pc' = "exit"
  /\ UNCHANGED << handle, lost, stack, acc, asked, can_authorize, opened, nopen, channel >>

\* The same in get_free_handle, after another sane_open that succeeds.
OpenSegfault ==
  /\ lost
  /\ Request("open") /\ nopen < MaxBe
  /\ nopen' = nopen + 1
  /\ opened' = opened \cup {nopen + 1}
  /\ pc' = "exit"
  /\ UNCHANGED << handle, lost, stack, acc, asked, can_authorize, channel >>

\* Not authorized, or sane_open failed.
OpenRefused ==
  /\ Request("open")
  /\ can_authorize' = FALSE
  /\ Answer("error", -1)
  /\ Done
  /\ UNCHANGED << handle, lost, stack, acc, opened, nopen, dconn, hup >>

\* No name was given and there is no device to take: can_authorize stays set.
OpenNoDevice ==
  /\ pc = "serve" /\ Request("open")
  /\ can_authorize' = TRUE
  /\ Answer("error", -1)
  /\ Done
  /\ UNCHANGED << handle, lost, stack, acc, opened, nopen, dconn, hup >>

\* Mutant: close_handle forgets sane_close.
ClosedNone(i) == opened

\* sane_close.
Closed(i) == opened \ {handle[i].be}

Close(i) ==
  /\ RequestFor("close", i)
  /\ opened' = Closed(i)
  /\ handle' = [handle EXCEPT ![i].inuse = FALSE]
  /\ Answer("ack", i)
  /\ Done
  /\ UNCHANGED << lost, stack, acc, can_authorize, nopen, dconn, hup >>

\* GET_OPTION_DESCRIPTORS, GET_PARAMETERS.
Query(i) ==
  /\ RequestFor("query", i)
  /\ Answer("good", i)
  /\ Done
  /\ UNCHANGED << handle, lost, stack, acc, can_authorize, opened, nopen, dconn, hup >>

\* CONTROL_OPTION.
Option(i) ==
  /\ RequestFor("option", i)
  /\ can_authorize' = FALSE
  /\ Answer("good", i)
  /\ Done
  /\ UNCHANGED << handle, lost, stack, acc, opened, nopen, dconn, hup >>

StartBusy(i) ==
  /\ RequestFor("start", i)
  /\ handle[i].scanning
  /\ Answer("busy", i)
  /\ Done
  /\ UNCHANGED << handle, lost, stack, acc, can_authorize, opened, nopen, dconn, hup >>

\* start_scan could not listen, or sane_start failed.
StartFails(i) ==
  /\ RequestFor("start", i)
  /\ ~handle[i].scanning
  /\ Answer("error", i)
  /\ Done
  /\ UNCHANGED << handle, lost, stack, acc, can_authorize, opened, nopen, dconn, hup >>

\* Mutants: start_scan sets only one of the two flags.
StartedUnmarked(i) == [handle EXCEPT ![i].docancel = FALSE]
StartedStale(i) == [handle EXCEPT ![i].scanning = TRUE]

\* The table after start_scan.
Started(i) == [handle EXCEPT ![i].scanning = TRUE, ![i].docancel = FALSE]

Start(i) ==
  /\ RequestFor("start", i)
  /\ ~handle[i].scanning
  /\ handle' = Started(i)
  /\ Answer("good", i)
  /\ dconn' = "listen"
  /\ pc' = "accept" /\ acc' = i
  /\ UNCHANGED << lost, stack, can_authorize, opened, nopen, hup >>

(***************************************************************************)
(* auth_callback, called by sanei_authorize or by the driver in sane_open, *)
(* sane_control_option or sane_start.  It sends a reply of the current     *)
(* request that names the resource and reads the next request itself.      *)
(* sane_start may call it too, but process_request does not set            *)
(* can_authorize for it: only the value OpenNoDevice leaves behind lets it *)
(* ask.  The acknowledgement travels in front of the reply that ends the   *)
(* request and is not a message of its own.                                *)
(***************************************************************************)
Challenge ==
  /\ "auth" \in may
  /\ pc = "serve"
  /\ \/ req.op = "open"
     \/ req.op = "option" /\ ~lost /\ handle[req.h].inuse
     \/ req.op = "start" /\ ~lost /\ handle[req.h].inuse /\ ~handle[req.h].scanning /\ can_authorize
  /\ reply' = [op |-> "auth", h |-> -1]
  /\ req' = NoMsg /\ asked' = req
  /\ pc' = "auth"
  /\ UNCHANGED << handle, lost, stack, acc, can_authorize, opened, nopen, dconn, hup >>

\* SANE_NET_AUTHORIZE arrives, or the connection is closed and auth_callback
\* returns with no name and no password.
Authorize ==
  /\ pc = "auth"
  /\ req.op = "authorize" \/ (req = NoMsg /\ hup)
  /\ req' = NoMsg
  /\ pc' = "authorized"
  /\ UNCHANGED << handle, lost, stack, acc, asked, can_authorize, opened, nopen, reply, dconn, hup >>

\* What do_scan keeps of its handle.
Frame(i) == [h |-> i, be |-> handle[i].be]

\* The data connection is there: do_scan begins.
Accept ==
  /\ pc = "accept" /\ dconn = "connected"
  /\ stack' = Append(stack, Frame(acc))
  /\ pc' = "serve" /\ acc' = -1
  /\ dconn' = "none"
  /\ UNCHANGED << handle, lost, asked, can_authorize, opened, nopen, req, reply, hup >>

\* accept fails; getpeername then fails too and process_request returns before
\* the lines that would reset scanning.
AcceptFails ==
  /\ "accept" \in may
  /\ pc = "accept"
  /\ Done /\ acc' = -1
  /\ dconn' = "none"
  /\ UNCHANGED << handle, lost, stack, asked, can_authorize, opened, nopen, req, reply, hup >>

AcceptStranger ==
  /\ "stranger" \in may
  /\ pc = "accept"
  /\ Fail /\ acc' = -1
  /\ dconn' = "none"
  /\ UNCHANGED << handle, lost, stack, asked, can_authorize, nopen, req, reply, hup >>

Cancel(i) ==
  /\ RequestFor("cancel", i)
  /\ handle' = [handle EXCEPT ![i].docancel = TRUE]
  /\ Answer("ack", i)
  /\ Done
  /\ UNCHANGED << lost, stack, acc, can_authorize, opened, nopen, dconn, hup >>

\* SANE_NET_EXIT, or the end of file on the control connection.
Exit ==
  /\ Request("exit") \/ (pc = "serve" /\ req = NoMsg /\ hup)
  /\ req' = NoMsg
  /\ Fail
  /\ UNCHANGED << handle, lost, stack, acc, asked, can_authorize, nopen, reply, dconn, hup >>

-------------------------------------------------------------------------------
(* do_scan and handle_connection around process_request.                   *)

\* Mutant: scanning is not reset.
EndScanMarked == /\ handle' = [handle EXCEPT ![Top.h].docancel = FALSE]
                 /\ stack' = Front(stack)
                 /\ pc' = IF Len(stack) = 1 THEN "serve" ELSE "return"

\* The end of do_scan; process_request of the enclosing do_scan returns.
EndScan == /\ handle' = [handle EXCEPT ![Top.h].docancel = FALSE, ![Top.h].scanning = FALSE]
           /\ stack' = Front(stack)
           /\ pc' = IF Len(stack) = 1 THEN "serve" ELSE "return"

\* Mutant: the test of docancel is missing.
CancelUnseen == FALSE

CancelSeen == handle[Top.h].docancel

\* do_scan looks at docancel each time process_request returns.
Return ==
  /\ pc = "return" /\ ~lost
  /\ IF CancelSeen
     THEN EndScan
     ELSE pc' = "serve" /\ UNCHANGED << handle, stack >>
  /\ UNCHANGED << lost, acc, asked, can_authorize, opened, nopen, channel >>

\* The loop of do_scan ends by itself: the last record is written, or select or
\* write fails.
LoopEnds ==
  /\ pc = "serve" /\ stack # << >>
  /\ EndScan
  /\ UNCHANGED << lost, acc, asked, can_authorize, opened, nopen, channel >>

\* SIGALRM after an hour without progress, SIGPIPE.
Signal ==
  /\ "signal" \in may
  /\ pc # "exit"
  /\ quit
  /\ UNCHANGED << handle, lost, stack, acc, asked, can_authorize, nopen, channel >>

-------------------------------------------------------------------------------
ServeRequest == \/ \E i \in Handles : \/ Open(i) \/ Close(i) \/ Query(i) \/ Option(i) \/ Cancel(i)
                                      \/ StartBusy(i) \/ StartFails(i) \/ Start(i)
                \/ OpenRefused \/ OpenNoDevice \/ OpenNoEntry \/ Exit
                \/ Segfault \/ OpenSegfault
                \/ Challenge \/ Authorize

SanedNext == \/ ServeRequest
             \/ Accept \/ AcceptFails \/ AcceptStranger
             \/ Return \/ LoopEnds
             \/ Signal
===============================================================================
