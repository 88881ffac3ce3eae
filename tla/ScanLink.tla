------------------------------- MODULE ScanLink -------------------------------
(***************************************************************************)
(* A remote scan end to end: saned's do_scan and the net backend's         *)
(* sane_read joined by the data connection and the control connection.     *)
(* After do_scan returns, handle_connection goes on serving requests; quit *)
(* closes everything.                                                      *)
(***************************************************************************)
EXTENDS DoScan

CONSTANTS MaxRead, MaxReq

ASSUME ReadAssumption == MaxRead \in Nat \ {0} /\ MaxReq \in Nat

VARIABLES reclen_buf, bytes_remaining, max_length, nonblock, at, got, result, nreq

serverGone == pc \in {"done", "quit"}
ctlGone    == pc = "quit"

C == INSTANCE NetRead

cvars    == << reclen_buf, bytes_remaining, max_length, nonblock, at, got, result, nreq >>
svars    == << ring, select, io, rd_ctl, pc, pos >>
linkVars == << vars, cvars >>

LinkInit == Init /\ C!Init

ServerStep == Server /\ UNCHANGED cvars

\* handle_connection's loop calls process_request again.
MainLoop == /\ pc = "done" /\ ctl # "none"
            /\ ctl' = "none"
            /\ UNCHANGED << svars, cvars, sock, peer >>

Frontend == /\ C!Reading \/ C!Replies \/ C!CallCancel \/ C!CallRequest
               \/ ("peer" \in Faults /\ C!ReadError)
            /\ UNCHANGED svars

LinkNext == ServerStep \/ MainLoop \/ Frontend

(***************************************************************************)
(* Fairness: the server process and the frontend run; the frontend keeps   *)
(* calling sane_read and takes replies; the scanner eventually delivers.   *)
(***************************************************************************)
ServerRuns == \/ SelectBadFd \/ WriteBegin \/ WriteReturn \/ Idle \/ ProcessRequest
              \/ \E k \in 1..Size : WriteSome(k)

ScannerDelivers == \/ \E n \in 1..Size : ReadGood(n)
                   \/ \E st \in SANE_Status, len \in ErrLen : ReadEnd(st, len)

Fairness == /\ WF_linkVars(ServerRuns /\ UNCHANGED cvars)
            /\ SF_linkVars(ScannerDelivers /\ UNCHANGED cvars)
            /\ WF_linkVars(MainLoop)
            /\ WF_linkVars((C!Reading \/ C!Replies) /\ UNCHANGED svars)

LinkSpec == LinkInit /\ [][LinkNext]_linkVars

FairSpec == LinkSpec /\ Fairness

-------------------------------------------------------------------------------
(***************************************************************************)
(* The frontend sees an ImageTransfer whatever the ring, the record        *)
(* boundaries and the partial reads and writes do.                         *)
(***************************************************************************)
Transfer == INSTANCE ImageTransfer WITH Errors <- ErrStatus \cup {CANCELLED, IO_ERROR}

TransferSpec == Transfer!Spec

(***************************************************************************)
(* A request on the control connection is answered although the scan is    *)
(* running: data_fd is meant to be non-blocking ("set non-blocking",       *)
(* process_request), so the server cannot hang in write.                   *)
(***************************************************************************)
RequestAnswered == (ctl # "none") ~> (ctl = "none" \/ ctlGone)

(***************************************************************************)
(* A frontend that calls sane_read again and again is told of the end of   *)
(* the scan in the end (doc/sane.tex: "Eventually, this function will      *)
(* return an end-of-file status").                                         *)
(***************************************************************************)
ScanEnds == <>(result # GOOD)
===============================================================================
