-------------------------------- MODULE NetRead --------------------------------
(***************************************************************************)
(* sane_read and sane_cancel of the net backend (backend/net.c): the       *)
(* client's side of the data connection.  A call of sane_read makes up to  *)
(* two read(2) calls, each of which may return fewer bytes than asked for, *)
(* so the position inside a record is kept between calls in reclen_buf and *)
(* bytes_remaining.  The frontend calls sane_read until it does not return *)
(* SANE_STATUS_GOOD, and may send requests or sane_cancel in between.      *)
(*                                                                         *)
(* The 16 bit byte swapping at the end of sane_read is in module ByteSwap. *)
(***************************************************************************)
EXTENDS RecordFormat

CONSTANTS MaxRead,   \* the largest max_length the frontend asks for
          MaxReq     \* how many other requests the frontend makes

VARIABLES
  sock,             \* data connection: bytes not yet received
  peer,             \* "open" while s->data >= 0
  serverGone,       \* the server has closed its end of the data connection
  ctl,              \* control connection: request waiting for the server
  ctlGone,          \* the server has closed the control connection
  reclen_buf,       \* the length bytes read so far (reclen_buf_offset of them)
  bytes_remaining,  \* data bytes left in the current record
  max_length,       \* argument of the call in progress
  nonblock,         \* sane_set_io_mode
  at,               \* "idle", "length", "status", "body", "cancel", "request"
  got,              \* image bytes returned to the frontend
  result,           \* status returned by the last call
  nreq              \* other requests made

recbuf == << reclen_buf, bytes_remaining >>
cvars  == << recbuf, max_length, nonblock, at, got, result, nreq >>
link   == << sock, peer, ctl >>

Init == /\ reclen_buf = << >> /\ bytes_remaining = 0
        /\ max_length = 0
        /\ nonblock \in BOOLEAN
        /\ at = "idle"
        /\ got = << >>
        /\ result = GOOD
        /\ nreq = 0

\* sane_read never reads past the end of the record.
Cut(m, remaining) == IF m > remaining THEN remaining ELSE m

\* sane_read is called; a record whose length is known is continued.
Call(m) ==
  /\ at = "idle" /\ result = GOOD /\ peer = "open"
  /\ max_length' = IF bytes_remaining = 0 THEN m ELSE Cut(m, bytes_remaining)
  /\ at' = IF bytes_remaining = 0 THEN "length" ELSE "body"
  /\ UNCHANGED << recbuf, nonblock, got, result, nreq, link >>

Return(st) == at' = "idle" /\ result' = st

\* do_cancel: close the data connection; what is in it is lost.
do_cancel == peer' = "closed" /\ sock' = << >>

\* read(2) returns n bytes: some that are there, or none at the end of file.
Readable(n, max) == \/ 1 <= n /\ n <= max /\ n <= Len(sock)
                    \/ n = 0 /\ sock = << >> /\ serverGone

ReadLength(n) ==
  /\ at = "length"
  /\ Readable(n, 4 - Len(reclen_buf))
  /\ sock' = SubSeq(sock, n + 1, Len(sock))
  /\ LET b == reclen_buf \o SubSeq(sock, 1, n)
     IN  IF Len(b) < 4
         THEN /\ reclen_buf' = b
              /\ Return(GOOD)
              /\ UNCHANGED << bytes_remaining, max_length >>
         ELSE /\ reclen_buf' = << >>
              /\ UNCHANGED result
              /\ IF b = EndMark
                 THEN /\ at' = "status"
                      /\ UNCHANGED << bytes_remaining, max_length >>
                 ELSE /\ at' = "body"
                      /\ bytes_remaining' = reclenValue(b)
                      /\ max_length' = Cut(max_length, reclenValue(b))
  /\ UNCHANGED << nonblock, got, nreq, peer, ctl >>

\* The status byte of the end record is read in blocking mode.
ReadStatus ==
  /\ at = "status"
  /\ sock # << >> \/ serverGone
  /\ Return(IF sock = << >> THEN IO_ERROR ELSE sock[1])
  /\ do_cancel
  /\ UNCHANGED << recbuf, max_length, nonblock, got, nreq, ctl >>

ReadBody(n) ==
  /\ at = "body"
  /\ \/ Readable(n, max_length)
     \/ n = 0 /\ max_length = 0    \* a record without data
  /\ sock' = SubSeq(sock, n + 1, Len(sock))
  /\ got' = got \o SubSeq(sock, 1, n)
  /\ bytes_remaining' = bytes_remaining - n
  /\ Return(GOOD)
  /\ UNCHANGED << reclen_buf, max_length, nonblock, nreq, peer, ctl >>

\* EAGAIN.
ReadNothing ==
  /\ at \in {"length", "body"}
  /\ nonblock /\ sock = << >> /\ ~serverGone
  /\ Return(GOOD)
  /\ UNCHANGED << recbuf, max_length, nonblock, got, nreq, link >>

\* Any other error of read(2): the client closes its end.
ReadError ==
  /\ at \in {"length", "body"}
  /\ Return(IO_ERROR)
  /\ do_cancel
  /\ UNCHANGED << recbuf, max_length, nonblock, got, nreq, ctl >>

-------------------------------------------------------------------------------
(* Requests on the control connection: sanei_w_call waits for the reply.   *)

CallCancel ==
  /\ at = "idle" /\ result = GOOD
  /\ at' = "cancel"
  /\ ctl' = "cancel"
  /\ UNCHANGED << recbuf, max_length, nonblock, got, result, nreq, sock, peer >>

\* sane_cancel: do_cancel after the reply (or after the call failed).
CancelReply ==
  /\ at = "cancel" /\ (ctl = "none" \/ ctlGone)
  /\ Return(CANCELLED)
  /\ do_cancel
  /\ UNCHANGED << recbuf, max_length, nonblock, got, nreq, ctl >>

CallRequest ==
  /\ at = "idle" /\ result = GOOD /\ nreq < MaxReq
  /\ at' = "request"
  /\ ctl' = "other"
  /\ nreq' = nreq + 1
  /\ UNCHANGED << recbuf, max_length, nonblock, got, result, sock, peer >>

RequestReply ==
  /\ at = "request" /\ (ctl = "none" \/ ctlGone)
  /\ at' = "idle"
  /\ UNCHANGED << recbuf, max_length, nonblock, got, result, nreq, link >>

-------------------------------------------------------------------------------
Reading == \/ \E m \in 1..MaxRead : Call(m)
           \/ \E n \in 0..4 : ReadLength(n)
           \/ ReadStatus
           \/ \E n \in 0..MaxRead : ReadBody(n)
           \/ ReadNothing

Replies == CancelReply \/ RequestReply
===============================================================================
