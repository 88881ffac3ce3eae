------------------------------- MODULE ByteSwap -------------------------------
(***************************************************************************)
(* The byte swapping at the end of the net backend's sane_read             *)
(* (backend/net.c) for 16 bit samples when server and client differ in     *)
(* byte order.  read(2) may return an odd number of bytes; hang_over keeps *)
(* a byte that has not been swapped yet, left_over one that has been and   *)
(* goes out with the next call.  Both, and depth and server_big_endian,    *)
(* are static: all the handles of the frontend share them.                 *)
(***************************************************************************)
EXTENDS Integers, Sequences, SequencesExt

CONSTANTS Handles,    \* the Net_Scanner structures of the frontend
          Deep, Big,  \* those with 16 bit samples, those of a big endian server
          client_big_endian,
          Samples,    \* how many 16 bit samples a frame has
          MaxLength,  \* the most bytes one read(2) returns
          MaxScans,   \* how many scans are begun
          None

ASSUME SwapAssumption == /\ Samples \in Nat \ {0} /\ MaxLength \in Nat \ {0}
                         /\ MaxScans \in Nat /\ client_big_endian \in BOOLEAN
                         /\ Deep \subseteq Handles /\ Big \subseteq Handles
                         /\ None \notin Handles

VARIABLES depth, server_big_endian,
          hang_over, left_over,  \* -1: none
          nscans,
          scan,                  \* the last scan of each handle
          data,                  \* whether it has a data connection
          nin,                   \* bytes read from it in this scan
          alone,                 \* history: the handle that called sane_start
                                 \* last, if all calls since have been its own
          out                    \* history: the bytes its scan has handed out

shared == << depth, server_big_endian >>
frames == << nscans, scan, data >>
vars == << shared, hang_over, left_over, frames, nin, alone, out >>

Total == 2 * Samples

\* Byte k of the frame of h; 2i is the first byte of sample i.
Byte(h, k) == Total * scan[h] + k

DepthOf(h) == IF h \in Deep THEN 16 ELSE 8
Swapped == depth = 16 /\ server_big_endian # client_big_endian

\* The static variables start as 0, which for the two bytes is not "none".
Init == /\ depth = 0 /\ server_big_endian = FALSE
        /\ hang_over = 0 /\ left_over = 0
        /\ nscans = 0 /\ scan = [h \in Handles |-> 0]
        /\ data = [h \in Handles |-> FALSE]
        /\ nin = [h \in Handles |-> 0]
        /\ alone = None /\ out = << >>

\* A call for h returns these bytes.  It disturbs every scan but h's own, and
\* that one too if the frontend reads before it has asked for the parameters.
Returns(h, bytes) == IF alone = h /\ depth' = DepthOf(h)
                     THEN out' = out \o bytes /\ UNCHANGED alone
                     ELSE out' = << >> /\ alone' = None

\* The reply tells the server's byte order; then the data is connected.
Begins(h) == /\ ~data[h] /\ nscans < MaxScans
             /\ server_big_endian' = (h \in Big)
             /\ nscans' = nscans + 1
             /\ scan' = [scan EXCEPT ![h] = nscans + 1]
             /\ data' = [data EXCEPT ![h] = TRUE]
             /\ nin' = [nin EXCEPT ![h] = 0]
             /\ alone' = h /\ out' = << >>

\* It has a data connection, cannot get one or the server refuses.
StartFails(h) == /\ \/ UNCHANGED server_big_endian
                    \/ ~data[h] /\ server_big_endian' = (h \in Big)
                 /\ alone' = None /\ out' = << >>
                 /\ UNCHANGED << frames, nin >>

\* Mutant: the two bytes are not reset.
sane_startKeeps(h) == /\ Begins(h) \/ StartFails(h)
                      /\ UNCHANGED << depth, hang_over, left_over >>

sane_start(h) == /\ hang_over' = -1 /\ left_over' = -1
                 /\ Begins(h) \/ StartFails(h)
                 /\ UNCHANGED depth

sane_get_parameters(h) ==
  /\ depth' = DepthOf(h)
  /\ Returns(h, << >>)
  /\ UNCHANGED << server_big_endian, hang_over, left_over, frames, nin >>

\* do_cancel, from sane_cancel or from sane_read: the connection is closed.
do_cancel(h) ==
  /\ data[h]
  /\ data' = [data EXCEPT ![h] = FALSE]
  /\ UNCHANGED << shared, hang_over, left_over, nscans, scan, nin, alone, out >>

\* Mutant: the first byte of a pair is overwritten before it is moved.
swapHalf(buf, end_cnt) ==
  [k \in DOMAIN buf |-> IF k % 2 = 1 /\ k < end_cnt THEN buf[k + 1] ELSE buf[k]]

\* The loop "swap the bytes" over the first end_cnt bytes of the buffer.
swap(buf, end_cnt) ==
  [k \in DOMAIN buf |-> CASE k % 2 = 1 /\ k < end_cnt -> buf[k + 1]
                          [] k % 2 = 0 /\ k <= end_cnt -> buf[k - 1]
                          [] OTHER -> buf[k]]

\* sane_read hands out the left over byte and returns, scanning or not.
ReadLeftOver(h) == /\ Swapped /\ left_over > -1
                   /\ left_over' = -1
                   /\ UNCHANGED << shared, hang_over, frames, nin >>
                   /\ Returns(h, << left_over >>)

\* read(2) has returned n bytes.
Received(h, n) == [k \in 1..n |-> Byte(h, nin[h] + k - 1)]

Read(h, n) == /\ ~(Swapped /\ left_over > -1)
              /\ data[h] /\ n <= Total - nin[h]
              /\ nin' = [nin EXCEPT ![h] = @ + n]
              /\ UNCHANGED << shared, frames >>

ReadPlain(h, n) == /\ Read(h, n) /\ ~Swapped
                   /\ Returns(h, Received(h, n))
                   /\ UNCHANGED << hang_over, left_over >>

Holding == hang_over > -1

\* One byte, none kept: it is kept and *length is 0.
ReadKept(h) == /\ Read(h, 1) /\ Swapped /\ ~Holding
               /\ hang_over' = Received(h, 1)[1]
               /\ Returns(h, << >>)
               /\ UNCHANGED left_over

\* One byte completes the sample: it is returned, the kept one follows.
ReadPair(h) == /\ Read(h, 1) /\ Swapped /\ Holding
               /\ Returns(h, Received(h, 1))
               /\ left_over' = hang_over
               /\ hang_over' = -1

ReadMany(h, n) ==
  /\ Read(h, n) /\ Swapped /\ n # 1 /\ (~Holding \/ n = 0)
  /\ LET buf == Received(h, n)
         length == n - (n % 2)
     IN  /\ hang_over' = IF n % 2 = 0 THEN hang_over ELSE buf[n]
         /\ Returns(h, SubSeq(swap(buf, length), 1, length))
  /\ UNCHANGED left_over

\* With a byte kept: memmove the data up by one and put it in front.
ReadManyKept(h, n) ==
  /\ Read(h, n) /\ Swapped /\ n > 1 /\ Holding
  /\ LET last == Received(h, n)[n]
         buf == << hang_over >> \o Received(h, n - 1)
     IN  IF n % 2 = 0
         THEN /\ left_over' = buf[n]
              /\ Returns(h, swap([buf EXCEPT ![n] = last], n - 2))
              /\ hang_over' = -1
         ELSE /\ hang_over' = last
              /\ Returns(h, swap(buf, n - 1))
              /\ left_over' = -1

Next == \E h \in Handles :
          \/ sane_start(h) \/ sane_get_parameters(h) \/ do_cancel(h)
          \/ ReadLeftOver(h) \/ ReadKept(h) \/ ReadPair(h)
          \/ \E n \in 0..MaxLength :
               ReadPlain(h, n) \/ ReadMany(h, n) \/ ReadManyKept(h, n)

Spec == Init /\ [][Next]_vars

-------------------------------------------------------------------------------
(* Properties.                                                             *)

Kept == { b \in {hang_over, left_over} : b > -1 }

(***************************************************************************)
(* No byte is lost, handed out twice or taken from another scan, however   *)
(* read(2) cuts the data, if the frontend uses no other handle meanwhile   *)
(* and asks for the parameters before it reads: every byte received is in  *)
(* out exactly once or kept, and at most one is kept.  The scans before    *)
(* may have been interleaved, cancelled with a byte kept, of another depth *)
(* or from a server with another byte order.                               *)
(***************************************************************************)
BytesConserved ==
  \A h \in {alone} \ {None} :
    /\ ToSet(out) \cup Kept = { Byte(h, k) : k \in 0..(nin[h] - 1) }
    /\ ToSet(out) \cap Kept = {}
    /\ IsInjective(out)
    /\ hang_over = -1 \/ left_over = -1

\* The bytes handed out so far are in order, those of 16 bit samples from a
\* server of the other byte order with the two of a sample exchanged, and so is
\* the byte that is to go out next: "the client is responsible for adjusting
\* the byte-order" (doc/net.tex).
InOrder(h) ==
  LET Exchange == h \in Deep /\ (h \in Big) # client_big_endian
      Place(k) == Byte(h, IF ~Exchange THEN k - 1 ELSE IF k % 2 = 1 THEN k ELSE k - 2)
  IN  /\ \A k \in DOMAIN out : out[k] = Place(k)
      /\ left_over > -1 => left_over = Place(Len(out) + 1)
      /\ hang_over > -1 => hang_over = Byte(h, Len(out))

(***************************************************************************)
(* In such a scan the calls that receive one byte, or any number with none *)
(* kept, or hand out a byte left over, put the samples in order, and       *)
(* sane_start leaves nothing behind that could spoil it.  The one case     *)
(* that does not is a read of two or more bytes with one kept from the     *)
(* call before.                                                            *)
(***************************************************************************)
SwapInOrder ==
  [][\A h \in Handles :
       /\ alone' = h
       /\ alone = h /\ scan'[h] = scan[h] => InOrder(h)
       /\ ~(\E n \in 0..MaxLength : ReadManyKept(h, n))
       => InOrder(h)']_vars
===============================================================================
