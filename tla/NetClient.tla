------------------------------- MODULE NetClient -------------------------------
(***************************************************************************)
(* The net backend (backend/net.c) used by a frontend with several devices *)
(* of one server open.  All of them share the control connection of the    *)
(* Net_Device, and sanei_w_call waits for the reply, so one call is in     *)
(* progress at a time.                                                     *)
(*                                                                         *)
(* The frontend calls sane_cancel when it is done with a scan (doc/sane.tex*)
(* asks for it), before it closes or starts anything else, unless may says *)
(* otherwise.                                                              *)
(***************************************************************************)
EXTENDS Integers

CONSTANT NH

HabitKinds == { "closeActive",  \* sane_close without sane_cancel
                "overlap" }     \* sane_start while another scan is active

VARIABLES
  scn,    \* the scanners: "none" (not open), "idle", "data" (s->data >= 0),
          \* "done" (s->data is closed, sane_cancel still to be called)
  call,   \* the call in progress, or NoMsg
  req, reply, dconn, hup, serverGone,
  may     \* the faults and habits of this behaviour

Handles == 0..(NH - 1)
NoMsg   == [op |-> "none", h |-> -1]

Init == /\ scn = [i \in Handles |-> "none"]
        /\ call = NoMsg

Idle == call = NoMsg /\ ~hup
Active(i) == scn[i] \in {"data", "done"}

\* sanei_w_call: send the request, then wait for the reply.
w_call(op, i) == /\ call' = [op |-> op, h |-> i]
                 /\ req' = [op |-> op, h |-> i]
                 /\ UNCHANGED << dconn, hup >>

Replied(op) == call.op = op /\ reply # NoMsg /\ reply.op # "auth"
TakeReply == reply' = NoMsg /\ UNCHANGED hup
Return == call' = NoMsg /\ req' = req

\* do_authorization: the reply names a resource; send the password and wait for
\* the reply of the call again.
do_authorization == /\ call # NoMsg /\ reply.op = "auth"
                    /\ TakeReply
                    /\ req' = [op |-> "authorize", h |-> -1]
                    /\ UNCHANGED << scn, call, dconn >>

-------------------------------------------------------------------------------
sane_open == /\ Idle
             /\ \E i \in Handles : scn[i] = "none"
             /\ w_call("open", -1)
             /\ UNCHANGED << scn, reply >>

\* On success sane_open goes on with fetch_options; when it has no memory for
\* the Net_Scanner it returns, and the server's handle stays open.
OpenReply == /\ Replied("open")
             /\ TakeReply
             /\ \/ /\ reply.op = "good"
                   /\ call' = [op |-> "fetch", h |-> reply.h]
                   /\ req' = [op |-> "query", h |-> reply.h]
                \/ reply.op = "error" /\ Return
                \/ reply.op = "good" /\ "nomem" \in may /\ Return
             /\ UNCHANGED << scn, dconn >>

\* Mutant: sane_open does not close the device again.
FetchReplyLeak == /\ Replied("fetch")
                  /\ TakeReply /\ Return
                  /\ scn' \in { scn, [scn EXCEPT ![call.h] = "idle"] }
                  /\ UNCHANGED dconn

\* fetch_options may lack memory; sane_open then closes the device again.
FetchReply == /\ Replied("fetch")
              /\ TakeReply
              /\ \/ Return /\ scn' = [scn EXCEPT ![call.h] = "idle"]
                 \/ /\ call' = [op |-> "close", h |-> call.h]
                    /\ req' = [op |-> "close", h |-> call.h]
                    /\ scn' = scn
              /\ UNCHANGED dconn

sane_get_parameters(i) == /\ Idle /\ scn[i] # "none"
                          /\ w_call("query", i)
                          /\ UNCHANGED << scn, reply >>

sane_control_option(i) == /\ Idle /\ scn[i] # "none"
                          /\ w_call("option", i)
                          /\ UNCHANGED << scn, reply >>

OptionReply == /\ call.op \in {"query", "option"} /\ Replied(call.op)
               /\ TakeReply /\ Return
               /\ UNCHANGED << scn, dconn >>

sane_start(i) == /\ Idle /\ scn[i] \in {"idle", "done"}   \* "data": SANE_STATUS_INVAL
                 /\ "overlap" \in may \/ \A j \in Handles \ {i} : ~Active(j)
                 /\ w_call("start", i)
                 /\ UNCHANGED << scn, reply >>

StartFailed == /\ Replied("start") /\ reply.op # "good"
               /\ TakeReply /\ Return
               /\ UNCHANGED << scn, dconn >>

Connect == /\ Replied("start") /\ reply.op = "good"
           /\ TakeReply /\ Return
           /\ scn' = [scn EXCEPT ![call.h] = "data"]
           /\ dconn' = IF dconn = "listen" THEN "connected" ELSE dconn

\* connect fails; the server is not told.
ConnectFails == /\ "refuse" \in may
                /\ Replied("start") /\ reply.op = "good"
                /\ TakeReply /\ Return
                /\ UNCHANGED << scn, dconn >>

\* sane_read returns something else than SANE_STATUS_GOOD and closes s->data.
ReadEnds(i) == /\ Idle /\ scn[i] = "data"
               /\ scn' = [scn EXCEPT ![i] = "done"]
               /\ UNCHANGED << call, req, reply, dconn, hup >>

sane_cancel(i) == /\ Idle /\ scn[i] # "none"
                  /\ w_call("cancel", i)
                  /\ UNCHANGED << scn, reply >>

CancelReply == /\ Replied("cancel")
               /\ TakeReply /\ Return
               /\ scn' = [scn EXCEPT ![call.h] = "idle"]
               /\ UNCHANGED dconn

sane_close(i) == /\ Idle
                 /\ scn[i] = "idle" \/ (Active(i) /\ "closeActive" \in may)
                 /\ w_call("close", i)
                 /\ UNCHANGED << scn, reply >>

CloseReply == /\ Replied("close")
              /\ TakeReply /\ Return
              /\ scn' = [scn EXCEPT ![call.h] = "none"]
              /\ UNCHANGED dconn

\* sane_exit closes the handles (sane_close above) and says goodbye; there is
\* no reply to SANE_NET_EXIT.
sane_exit == /\ Idle
             /\ \A i \in Handles : scn[i] = "none"
             /\ req' = [op |-> "exit", h |-> -1]
             /\ hup' = TRUE
             /\ UNCHANGED << scn, call, reply, dconn >>

\* The connection is lost: the call fails, and so does every later one.
\* (sane_start does not look at wire.status and goes on with a reply that was
\* never filled in; whatever it makes of it, the session is over.)
CallFails == /\ call # NoMsg /\ reply = NoMsg /\ serverGone
             /\ call' = NoMsg
             /\ hup' = TRUE
             /\ UNCHANGED << scn, req, reply, dconn >>

\* The client's process ends without a word.
Crash == /\ "crash" \in may
         /\ ~hup
         /\ call' = NoMsg /\ reply' = NoMsg
         /\ hup' = TRUE
         /\ UNCHANGED << scn, req, dconn >>

-------------------------------------------------------------------------------
Calls == \/ sane_open \/ sane_exit
         \/ \E i \in Handles : \/ sane_get_parameters(i) \/ sane_control_option(i) \/ sane_start(i)
                               \/ sane_cancel(i) \/ sane_close(i) \/ ReadEnds(i)

Replies == \/ OpenReply \/ FetchReply \/ OptionReply \/ StartFailed \/ Connect
           \/ ConnectFails \/ CancelReply \/ CloseReply \/ CallFails \/ do_authorization

Next == Calls \/ Replies \/ Crash
===============================================================================
