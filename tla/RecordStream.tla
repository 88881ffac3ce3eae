----------------------------- MODULE RecordStream -----------------------------
(***************************************************************************)
(* What do_scan promises: the data connection carries the bytes of Image   *)
(* in order, cut into records with their lengths, and after the last       *)
(* record one end record with the status the backend returned.  There is   *)
(* no ring here: pending is the queue of bytes not yet handed to the       *)
(* connection.                                                             *)
(***************************************************************************)
EXTENDS RecordFormat

CONSTANTS Image, ErrStatus, Faults

VARIABLES pos, pending, ended, sock, peer

Init == /\ pos = 0
        /\ pending = << >>
        /\ ended = FALSE
        /\ sock = << >>
        /\ peer = "open"

\* t is what is left of s when some bytes are taken from its front.
IsSuffix(t, s) == /\ Len(t) <= Len(s)
                  /\ t = SubSeq(s, Len(s) - Len(t) + 1, Len(s))

\* A record with the next n bytes of the image, once the last one is out.
Put == /\ ~ended /\ pending = << >>
       /\ \E n \in 0..(Len(Image) - pos) :
            /\ pos' = pos + n
            /\ pending' = reclen(n) \o SubSeq(Image, pos + 1, pos + n)
       /\ UNCHANGED << ended, sock, peer >>

\* The end record.  Bytes that mean nothing may follow it: a client stops at
\* the end record.
End == /\ ~ended
       /\ ended' = TRUE
       /\ \E st \in ErrStatus \cup {EOF} :
            /\ st = EOF => pos = Len(Image)
            /\ Len(pending') >= Len(pending) + 5
            /\ SubSeq(pending', 1, Len(pending) + 5) = pending \o EndRecord(st)
       /\ UNCHANGED << pos, sock, peer >>

\* Bytes go from the queue to the connection in order.
Send == /\ peer = "open"
        /\ IsSuffix(pending', pending)
        /\ sock' = sock \o SubSeq(pending, 1, Len(pending) - Len(pending'))
        /\ UNCHANGED << pos, ended, peer >>

\* Bytes for a peer that has gone are dropped; they may be followed by the
\* end record at once.
Lose == /\ peer = "closed"
        /\ pos' = pos /\ sock' = sock /\ peer' = peer
        /\ \/ ended' = ended /\ IsSuffix(pending', pending)
           \/ ~ended /\ ended' = TRUE

\* The server gives up without an end record.
Abort == /\ peer = "closed" \/ "select" \in Faults
         /\ ended' = TRUE
         /\ UNCHANGED << pos, pending, sock, peer >>

Receive == /\ IsSuffix(sock', sock)
           /\ UNCHANGED << pos, pending, ended, peer >>

PeerClose == /\ "peer" \in Faults
             /\ peer' = "closed" /\ sock' = << >>
             /\ UNCHANGED << pos, pending, ended >>

Next == Put \/ End \/ Send \/ Lose \/ Abort \/ Receive \/ PeerClose

svars == << pos, pending, ended, sock, peer >>

Spec == Init /\ [][Next]_svars
===============================================================================
