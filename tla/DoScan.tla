-------------------------------- MODULE DoScan --------------------------------
(***************************************************************************)
(* do_scan of frontend/saned.c: the loop that moves image data from a      *)
(* backend (sane_read) through a ring buffer into the data connection,     *)
(* framing it as records, while it serves requests on the control          *)
(* connection.  One iteration of the loop is at most three steps, because  *)
(* the code can wait in three places: select, the blocking write, and      *)
(* process_request.                                                        *)
(*                                                                         *)
(* The environment is the backend (external: what sane.tex allows          *)
(* sane_read to return), the TCP connection sock with a peer that reads    *)
(* from it or closes it, and the requests that arrive on the control       *)
(* connection.                                                             *)
(***************************************************************************)
EXTENDS RecordFormat

CONSTANTS Size,       \* sizeof (buf), 8192 in the code
          Image,      \* the bytes of the frame the backend delivers
          ErrStatus,  \* the error statuses the backend may return
          ErrLen,     \* what *length may be when sane_read fails
          SockCap,    \* how many bytes the data connection holds
          LowWater,   \* select calls data_fd writable with this much room
          Faults      \* what may go wrong: "select", "peer"

ASSUME SizeAssumption == Size \in Nat /\ Size >= 9
ASSUME ImageAssumption == Image \in Seq(Byte)
ASSUME ErrStatusAssumption == ErrStatus \subseteq SANE_Status \ {GOOD, EOF}
ASSUME ErrLenAssumption == ErrLen \subseteq 0..(Size - 9)
ASSUME SockAssumption == /\ SockCap \in Nat
                         /\ LowWater \in Nat
                         /\ 1 <= LowWater /\ LowWater <= SockCap
ASSUME FaultsAssumption == Faults \subseteq {"select", "peer"}

VARIABLES
  buf, reader, writer, bytes_in_buf,  \* the ring
  status, status_dirty,               \* last backend status; still to be sent?
  be_fd,         \* "open": in rd_mask; "closed": closed by the backend but
                 \* still in rd_mask; "none": be_fd = -1
  polling,       \* timeout # NULL: the backend has no select descriptor
  nbytes, nsent, \* the write in progress and how much of it is done
  rd_ctl,        \* FD_ISSET (w->io.fd, &rd_set)
  pc,            \* "select", "write", "ctl", "done" (returned), "quit"
  pos,           \* backend: bytes of Image already read
  sock,          \* data connection: bytes written and not yet received
  peer,          \* "open" or "closed": the client's end of it
  ctl            \* control connection: "none" or the request waiting there

ring    == << buf, reader, writer, bytes_in_buf >>
select  == << status, status_dirty, be_fd, polling >>
io      == << nbytes, nsent >>
request == << rd_ctl, ctl >>
vars    == << ring, select, io, request, pc, pos, sock, peer >>

-------------------------------------------------------------------------------
(* The ring.                                                               *)

\* Index x of the ring, for x that ran past the end by less than Size.
Wrap(x) == IF x >= Size THEN x - Size ELSE x

\* How far x is ahead of i going round the ring.
Ahead(x, i) == IF x >= i THEN x - i ELSE x - i + Size

\* The ring after the bytes s are stored from index i on.
Store(b, i, s) == [x \in 0..(Size - 1) |->
                     IF Ahead(x, i) < Len(s) THEN s[Ahead(x, i) + 1] ELSE b[x]]

\* The n bytes of the ring from index w on.
Content(b, w, n) == [k \in 1..n |-> b[Wrap(w + (k - 1))]]

\* Bytes that are in the ring and not yet in the data connection.
Pending == Content(buf, Wrap(writer + nsent), bytes_in_buf - nsent)

-------------------------------------------------------------------------------
Init == /\ buf \in [0..(Size - 1) -> {0}]
        /\ reader = 0 /\ writer = 0 /\ bytes_in_buf = 0
        /\ status = GOOD /\ status_dirty = FALSE
        /\ polling \in BOOLEAN
        /\ be_fd = IF polling THEN "none" ELSE "open"
        /\ nbytes = 0 /\ nsent = 0
        /\ rd_ctl = FALSE /\ ctl = "none"
        /\ pc = "select"
        /\ pos = 0
        /\ sock = << >> /\ peer = "open"

Writable == peer = "closed" \/ SockCap - Len(sock) >= LowWater

\* The condition of the do-while loop.
Again(st, dirty, n) == st = GOOD \/ n > 0 \/ dirty

\* Mutant: the status has to wait until the ring is empty.
HasRoomLate(n) == n = 0

\* The end record fits behind n bytes.
HasRoom(n) == Size - n >= 5

(***************************************************************************)
(* The middle of an iteration after the write or the read has left the     *)
(* ring at (b, r, n) with status st: append the status record if it is     *)
(* due and fits, then go to the control connection.                        *)
(***************************************************************************)
StoreStatus(b, r, n, st, dirty) ==
  /\ status' = st
  /\ IF dirty /\ HasRoom(n)
     THEN /\ buf' = Store(b, r, EndRecord(st))
          /\ reader' = Wrap(r + 4)
          /\ bytes_in_buf' = n + 5
          /\ status_dirty' = FALSE
     ELSE /\ buf' = b
          /\ reader' = r
          /\ bytes_in_buf' = n
          /\ status_dirty' = dirty
  /\ pc' = "ctl"

\* Mutant: the control connection is not in rd_mask.
SelectedDeaf == pc = "select" /\ be_fd # "closed" /\ rd_ctl' = FALSE

\* select reports which descriptors are ready; the control one is looked at
\* only at the end of the iteration.
Selected == pc = "select" /\ be_fd # "closed" /\ rd_ctl' = (ctl # "none")

\* Mutants: the end of the frame is announced again, or never.
EofIsNewsAgain == TRUE
EofIsNewsNever == FALSE

\* The end of the frame has not been detected already.
EofIsNews == status = GOOD

\* The backend closed its descriptor: select fails with EBADF, "continue".
SelectBadFd ==
  /\ pc = "select" /\ be_fd = "closed"
  /\ be_fd' = "none"
  /\ status_dirty' = (status_dirty \/ EofIsNews)
  /\ status' = EOF
  /\ UNCHANGED << ring, polling, io, request, pc, pos, sock, peer >>

\* select fails for any other reason: "break", nothing is sent.
SelectError ==
  /\ "select" \in Faults
  /\ pc = "select" /\ be_fd # "closed"
  /\ status' = IO_ERROR
  /\ pc' = "done"
  /\ UNCHANGED << ring, status_dirty, be_fd, polling, io, rd_ctl, ctl, pos, sock, peer >>

\* Mutant: the write is not cut at the end of the ring.
ChunkWhole == bytes_in_buf

\* How much the next write may take.
Chunk == IF writer + bytes_in_buf > Size THEN Size - writer ELSE bytes_in_buf

\* There is data in the ring and the connection takes some: write up to the
\* end of the ring.
WriteBegin ==
  /\ Selected
  /\ bytes_in_buf > 0 /\ Writable
  /\ nbytes' = Chunk
  /\ nsent' = 0
  /\ pc' = "write"
  /\ UNCHANGED << ring, select, ctl, pos, sock, peer >>

\* data_fd is in blocking mode (F_SETFL with 1 does not set O_NONBLOCK), so
\* write returns only when all of it is in the connection; the kernel takes
\* what fits.
WriteSome(k) ==
  /\ pc = "write" /\ peer = "open"
  /\ k <= nbytes - nsent /\ k <= SockCap - Len(sock)
  /\ k = nbytes - nsent \/ k = SockCap - Len(sock)
  /\ sock' = sock \o Content(buf, Wrap(writer + nsent), k)
  /\ nsent' = nsent + k
  /\ UNCHANGED << ring, select, nbytes, request, pc, pos, peer >>

\* Mutant: writer is not set back at the end of the ring.
WriterPast == writer + nbytes

\* writer after the write.
WriterNext == IF writer + nbytes = Size THEN 0 ELSE writer + nbytes

WriteReturn ==
  /\ pc = "write" /\ (nsent = nbytes \/ peer = "closed")
  /\ writer' = WriterNext
  /\ nbytes' = 0 /\ nsent' = 0
  /\ StoreStatus(buf, reader, bytes_in_buf - nbytes, status, status_dirty)
  /\ UNCHANGED << be_fd, polling, request, pos, sock, peer >>

\* The client has closed its end: write may still succeed (the action
\* above), fail ("break"), or raise SIGPIPE, whose handler is quit.
WriteFail ==
  /\ pc = "write" /\ peer = "closed" /\ nsent < nbytes
  /\ status' = CANCELLED
  /\ pc' = "done"
  /\ UNCHANGED << ring, status_dirty, be_fd, polling, io, rd_ctl, ctl, pos, sock, peer >>

WriteSigpipe ==
  /\ pc = "write" /\ peer = "closed" /\ nsent < nbytes
  /\ pc' = "quit"
  /\ UNCHANGED << ring, select, io, request, pos, sock, peer >>

(***************************************************************************)
(* The ring is empty and the backend is ready (or polled): sane_read into  *)
(* the ring behind four bytes kept free for the length.  maxlen(r) is the  *)
(* room for data from index r to the end of the ring.                      *)
(***************************************************************************)
maxlen(r) == IF r + (Size - 4) > Size THEN Size - r ELSE Size - 4

Reading == /\ Selected
           /\ bytes_in_buf = 0 /\ status = GOOD
           /\ polling \/ be_fd = "open"

\* The backend may close its select descriptor at the end of the frame.
MayCloseFd(end) == be_fd' = be_fd \/ (be_fd = "open" /\ end /\ be_fd' = "closed")

\* Mutant: the bytes reserved for the length are not counted.
CountedData(n) == n

\* What sane_read adds to bytes_in_buf.
Counted(n) == n + 4

ReadGood(n) ==
  /\ Reading
  /\ n <= maxlen(Wrap(reader + 4)) /\ n <= Len(Image) - pos
  /\ pos' = pos + n
  /\ LET r == Wrap(reader + 4)
     IN  StoreStatus(Store(Store(buf, r, SubSeq(Image, pos + 1, pos + n)),
                           reader, reclen(n)),
                     IF r + n >= Size THEN 0 ELSE r + n,
                     Counted(n), GOOD, status_dirty)
  /\ MayCloseFd(pos + n = Len(Image))
  /\ UNCHANGED << writer, polling, io, ctl, sock, peer >>

\* A failing sane_read: reader goes back to where it was, but bytes_in_buf
\* keeps the four bytes reserved for the length (and *length).
ReadEnd(st, len) ==
  /\ Reading
  /\ st \in ErrStatus \/ (st = EOF /\ pos = Len(Image))
  /\ len <= maxlen(Wrap(reader + 4))
  /\ StoreStatus(buf, reader, Counted(len), st, TRUE)
  /\ MayCloseFd(TRUE)
  /\ UNCHANGED << writer, polling, io, ctl, pos, sock, peer >>

\* select returned, but neither branch applies.
Idle ==
  /\ Selected
  /\ \/ /\ bytes_in_buf > 0 /\ ~Writable
        /\ ctl # "none" \/ be_fd = "open" \/ polling
     \/ /\ bytes_in_buf = 0 /\ ~(status = GOOD /\ polling)
        /\ Writable \/ ctl # "none"
  /\ StoreStatus(buf, reader, bytes_in_buf, status, status_dirty)
  /\ UNCHANGED << writer, be_fd, polling, io, ctl, pos, sock, peer >>

(***************************************************************************)
(* The end of an iteration: process_request if the control connection was  *)
(* readable, then the loop condition.  NET_CANCEL sets docancel, which    *)
(* ends the loop and is reset on the way out; "other" stands for a request *)
(* that leaves this scan alone.                                            *)
(***************************************************************************)
ProcessRequest ==
  /\ pc = "ctl"
  /\ pc' = IF (rd_ctl /\ ctl = "cancel") \/ ~Again(status, status_dirty, bytes_in_buf)
            THEN "done" ELSE "select"
  /\ ctl' = IF rd_ctl THEN "none" ELSE ctl
  /\ rd_ctl' = FALSE
  /\ UNCHANGED << ring, select, io, pos, sock, peer >>

-------------------------------------------------------------------------------
(* The environment: the peer of the data connection and the control one.   *)

Receive(n) == /\ peer = "open" /\ n <= Len(sock)
              /\ sock' = SubSeq(sock, n + 1, Len(sock))
              /\ UNCHANGED << ring, select, io, request, pc, pos, peer >>

PeerClose == /\ "peer" \in Faults
             /\ peer = "open"
             /\ peer' = "closed"
             /\ sock' = << >>
             /\ UNCHANGED << ring, select, io, request, pc, pos >>

Request(r) == /\ ctl = "none" /\ pc \notin {"done", "quit"}
              /\ ctl' = r
              /\ UNCHANGED << ring, select, io, rd_ctl, pc, pos, sock, peer >>

-------------------------------------------------------------------------------
Server == \/ SelectBadFd \/ SelectError
          \/ WriteBegin \/ WriteReturn \/ WriteFail \/ WriteSigpipe
          \/ \E k \in 1..Size : WriteSome(k)
          \/ \E n \in 0..Size : ReadGood(n)
          \/ \E st \in SANE_Status, len \in ErrLen : ReadEnd(st, len)
          \/ Idle \/ ProcessRequest

Client == \/ \E n \in 1..SockCap : Receive(n)
          \/ PeerClose
          \/ \E r \in {"cancel", "other"} : Request(r)

Next == Server \/ Client

Spec == Init /\ [][Next]_vars

-------------------------------------------------------------------------------
(* Properties.                                                             *)

TypeOK ==
  /\ buf \in [0..(Size - 1) -> Byte]
  /\ reader \in 0..(Size - 1) /\ writer \in 0..(Size - 1)
  /\ bytes_in_buf \in 0..Size
  /\ status \in SANE_Status /\ status_dirty \in BOOLEAN
  /\ be_fd \in {"open", "closed", "none"} /\ polling \in BOOLEAN
  /\ nbytes \in 0..Size /\ nsent \in 0..nbytes
  /\ rd_ctl \in BOOLEAN
  /\ pc \in {"select", "write", "ctl", "done", "quit"}
  /\ pos \in 0..Len(Image)
  /\ sock \in Seq(Byte) /\ Len(sock) <= SockCap
  /\ peer \in {"open", "closed"}
  /\ ctl \in {"none", "cancel", "other"}

Running == pc \in {"select", "write", "ctl"}

(***************************************************************************)
(* The next byte goes in right behind the last one that is still to be     *)
(* written, for as long as anything may still go in.  After a failed       *)
(* sane_read reader and bytes_in_buf part company on purpose (saned.c sets *)
(* reader back and keeps the count); no byte may be stored then.           *)
(***************************************************************************)
RingAligned ==
  Running /\ (status = GOOD \/ status_dirty) => reader = Wrap(writer + bytes_in_buf)

(***************************************************************************)
(* The write in progress is a non-empty stretch of the ring that does not  *)
(* run past its end, and the four length bytes of an empty ring leave room *)
(* for at least one data byte: write and sane_read always get a valid      *)
(* region of buf.                                                          *)
(***************************************************************************)
RegionsInBuf ==
  /\ pc = "write" => /\ 1 <= nbytes /\ nbytes <= bytes_in_buf
                     /\ writer + nbytes <= Size
  /\ pc \in {"select", "ctl"} => nsent = 0 /\ nbytes = 0
  /\ LET r == Wrap(reader + 4) IN 1 <= maxlen(r) /\ r + maxlen(r) <= Size

(***************************************************************************)
(* A status is left waiting for room only when it is the end of the frame  *)
(* that the backend signalled by closing its descriptor: the whole image   *)
(* is in the ring or behind it.  An error status always fits at once.      *)
(***************************************************************************)
DirtyMeansEof ==
  /\ Running /\ status_dirty => status = EOF /\ be_fd = "none" /\ pos = Len(Image)
  /\ be_fd = "closed" /\ status = GOOD => pos = Len(Image)

\* The inductive invariant behind the refinement below.
IInv == TypeOK /\ RingAligned /\ RegionsInBuf /\ DirtyMeansEof

(***************************************************************************)
(* do_scan implements RecordStream: wherever the ring wraps and however    *)
(* the connection cuts the bytes, the client's end sees whole records with *)
(* the image's bytes in order and one end record.                          *)
(***************************************************************************)
Stream == INSTANCE RecordStream
            WITH pending <- Pending, ended <- (status # GOOD /\ ~status_dirty)

StreamSpec == Stream!Spec
===============================================================================
