---------------------------- MODULE ImageTransfer ----------------------------
(***************************************************************************)
(* What a frontend sees of a remote scan: sane_read hands out the bytes of *)
(* the frame in order, and returns SANE_STATUS_EOF only when all of them   *)
(* have been handed out (doc/sane.tex, sane_read).  Nothing is handed out  *)
(* after a status other than SANE_STATUS_GOOD.                             *)
(***************************************************************************)
EXTENDS RecordFormat

CONSTANTS Image, Errors

VARIABLES got, result

Init == got = << >> /\ result = GOOD

Deliver == /\ result = GOOD
           /\ Len(got') \in Len(got)..Len(Image)
           /\ got' = SubSeq(Image, 1, Len(got'))
           /\ result' = GOOD

Finish == /\ result = GOOD
          /\ got' = got
          /\ \/ result' = EOF /\ got = Image
             \/ result' \in Errors

Next == Deliver \/ Finish

Spec == Init /\ [][Next]_<< got, result >>
===============================================================================
