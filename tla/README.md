# A TLA+ verification of SANE's concurrent parts

This directory holds TLA+ models of the parts of sane-backends where several
processes, or a process and its signal handlers, have to work together: the
scanner daemon `saned` (`frontend/saned.c`) and the `net` backend
(`backend/net.c`) that talks to it, the parent process of a stand-alone
`saned`, the lock files that keep its children off each other's scanner
(`sanei/sanei_access.c`), the SCSI command queue (`sanei/sanei_scsi.c`) and
`scanimage` with a driver that reads in a process of its own.  TLC checks the
models on small instances; TLAPS proves the most important properties for
every value of the constants.

`PROJECT.json` maps every definition to the source lines it models and lists
the runs, the hazards, the findings and the theorems.

## The system

SANE puts a C interface (`sane_open`, `sane_start`, `sane_read`, ...,
`doc/sane.tex`) between frontends and scanner drivers.  The net backend
implements that interface by remote procedure calls to a `saned` process on
another host, which calls the real driver there.

```
 frontend -- sane_* --> net backend ==control connection==> saned -- sane_* --> driver
 (scanimage)                ^                                 | ^                 |
                            +======== data connection ========+ | fork        reader process
                                                                |                 |
                                                   stand-alone parent     SCSI queue, lock file
```

Requests and replies travel on the control connection, one at a time.
`NET_START` makes `saned` listen on a second port; the client connects to it
and image data flows there as records (`doc/net.tex`): a four byte length and
the data, at the end the length `0xffffffff` and a status byte.  A driver reads
from the scanner in a process of its own, which writes to a pipe and is ended
with SIGTERM; scanners on a SCSI bus are driven through a queue of commands,
and a USB scanner is protected by a lock file.

### Inventory

| component | state | operations | hard parts | what makes it correct |
|---|---|---|---|---|
| `do_scan` (saned.c 1640-1802) | 8192 byte ring, `reader`, `writer`, `bytes_in_buf`, `status`, `status_dirty`, the backend's descriptor | select, write, `sane_read`, append status, serve a request | wrap-around of lengths, data and end record; a backend that closes its descriptor; a write that blocks; the client leaving | the bytes on the wire are the image as records in order with one end record; requests are still answered |
| net `sane_read` (net.c 2107-2324) | `reclen_buf`, `bytes_remaining`, data socket | read length, status, body; close on error or end | short reads at every position, non-blocking mode, a server that vanishes | the frontend gets the image in order, EOF after all of it, and in the end some final status |
| net byte swapping (net.c 1850, 1878-1936, 2130-2146, 2235-2319) | `hang_over`, `left_over`, `depth`, `server_big_endian`, shared by all handles | swap pairs, keep odd bytes, reset at a start | odd reads in a row; what an earlier scan has left | samples in order with swapped bytes, none lost or from another scan |
| handle table (saned.c 480-545) | `handle[]`, `num_handles`, `last_handle_checked` | find or allocate, close, decode | search round the table, growth, failed realloc | the search ends and finds a free entry if there is one |
| requests (saned.c 1804-2171, 2237-2282, `start_scan`, `quit`) | `handle[h]`: `inuse`, `scanning`, `docancel`, backend handle; C stack | one per procedure; accept; nested `do_scan`; exit | requests served from inside a scan, so scans nest; accept fails; watchdog and SIGPIPE | a scan reads only an open device, one reader per device, no device stays open or busy, every request is answered |
| authorization (saned.c 335-448, net.c 637-695, sanei_auth.c) | `can_authorize`, `auth_active` | challenge inside another call | a second request and reply in the middle of a call; the client leaving | the call still returns, client and server stay in step |
| net calls (net.c 546-634, 1116-1182, 1357-1995, 2327-2339) | list of `Net_Scanner`, one shared wire | open + fetch_options, close, start + connect, cancel, options, exit | connect fails, no memory after the server opened, server gone | client and server agree on the open handles |
| daemon (saned.c 2174-2354, 2922-3167) | list of children, `numchildren`, `avahi_pid` | poll, accept, fork, reap, bail out | a signal on top of the reaping; a list and a counter that disagree | every child is reaped, shutdown ends |
| lock files (sanei_access.c) and their use by plustek | lock file | lock with retries, unlock; attach, start, buttons, close | dead owners, reused process numbers, two processes meeting a dead owner's lock, half-written files | mutual exclusion; a dead owner's lock goes away |
| SCSI queue (sanei_scsi.c 1866-2472) and the mustek reader | `sane_qhead`, `sane_free_list`, `sg_queue_used`; two buffers | enter, issue, wait, flush | commands refused or put off, answers missing, SIGTERM at any point | commands run once and in order, the image is in order, the reader ends and leaves nothing behind |
| test backend, sanei_thread.c | reader process, pipe, `scanning`, `cancelled` | start, read, cancel, finish_pass | sane_cancel from a signal handler in the middle of anything | one reader at a time, killed once, none left |
| scanimage (batch mode) | page number, .part file | start, read, rename, signal handler | signals at any point, to the program or to its readers too | a page with its final name is complete; the program ends |
| `init`, `check_host`, configuration (saned.c) | none after start | name resolution, files | - | only listed hosts get in |
| wire (sanei_wire.c, codecs) | buffer, direction, allocation list | space, flush, arrays, call, reply, free | buffer limits, memory cap | what is decoded is what was encoded; memory is bounded and freed |
| dll (dll.c) | list of backends, `loaded`, `inited` | load and init on demand, exit | failed version checks | init and exit of each backend pair up |
| sanei_usb.c | table of devices | I/O | - | plain I/O |
| hardware backends | per device | the device's command set | defined by hardware | not modelled |

## The modules

Network scanning:

| module | models | variables and actions |
|---|---|---|
| `RecordFormat` | status codes, record length, end record | operators only; `0xffffffff` stays a byte sequence because it does not fit TLC's integers |
| `DoScan` | `do_scan`, `store_reclen` | the C locals under their names; `pc` says where the loop waits: in `select`, in the blocking `write`, or before the test of the control descriptor. `SelectBadFd`, `SelectError`, `WriteBegin/Some/Return/Fail/Sigpipe`, `ReadGood`, `ReadEnd`, `Idle` and `ProcessRequest` are the branches of one iteration; each one but the write includes appending the end record (`StoreStatus`), as in the code |
| `RecordStream` | what `do_scan` promises | a queue of bytes, no ring |
| `NetRead` | `sane_read`, `do_cancel`, `sane_cancel` of the net backend | the `Net_Scanner` fields; one action per `read(2)` and outcome |
| `ImageTransfer` | what a frontend may rely on | bytes got so far, last status |
| `ScanLink` | `DoScan` and `NetRead` joined by both connections, and the main loop of `handle_connection` | shares `sock`, `peer`, `ctl` |
| `SanedHandles` | `get_free_handle`, `close_handle` | one step per turn of the search loop |
| `Saned` | `process_request`, `start_scan`, `auth_callback`, `handle_connection`, `quit`, the outer shape of `do_scan` | `stack` is the C stack of nested `do_scan` calls; `handle` is the table; `lost` says that its pointer is NULL after a failed allocation (`OpenNoEntry`), so that the next access ends the process (`Segfault`, `OpenSegfault`, `quit`); `asked` is the request that waits in `auth_callback` |
| `NetClient` | the calls of net.c over one control connection | `scn` is the list of `Net_Scanner`s, `call` the call in progress |
| `Session` | `Saned` and `NetClient` joined | `may`, the faults and habits of the behaviour, is chosen once from `Settings` |
| `ByteSwap` | 16 bit byte swapping in `sane_read`, with the static variables that `sane_start` and `sane_get_parameters` set | `hang_over`, `left_over`, `depth`, `server_big_endian` shared by the handles; `alone` and `out` are history |

Processes, locks and drivers:

| module | models | variables and actions |
|---|---|---|
| `Processes` | the kernel's process table | free, running, zombie; `ProcSpec` is what the lock files assume of it |
| `SanedChildren` | `run_standalone`, `handle_client`, `add_child`, `wait_child`, `bail_out`, the signal handler | the list `children`, the counter `numchildren`, and `got`: waitpid has returned and the books are not done, the gap a signal can fall into |
| `AccessLock` | `sanei_access_lock`, `get_lock_status`, `sanei_access_unlock` | the lock file and, for each process, where it is in the retry loop; every system call is a step |
| `PlustekLock` | the use of the lock in plustek's `attach`, `sane_start`, `drvclose`, `sane_close` and button options | one action per path through these, the leaking ones included |
| `ScsiQueue` | `issue`, `sanei_scsi_req_enter2`, `sanei_scsi_req_wait`, `sanei_scsi_req_flush_all` | the lists, `sg_queue_used`, the call in progress; the SG driver of version 2 (commands and answers) or 3 (`SG_IO`) |
| `MustekReader` | `reader_process` of mustek.c with its SIGTERM handler | two buffers, line and block counters |
| `TestBackend` | `sane_start`, `sane_read`, `sane_cancel`, `finish_pass`, `reader_task` of test.c; begin, kill and waitpid of sanei_thread.c | the `Test_Device`, the readers with their pipes; two contexts, main program and signal handler |
| `ScanImage` | the batch loop of `main`, `scan_it` as a consumer, `sighandler` of scanimage.c | page, frame, .part file, pages finished |

`DoScanProofs`, `SanedHandlesProofs`, `SessionProofs`, `ByteSwapProofs`,
`SanedChildrenProofs`, `PlustekLockProofs`, `MustekReaderProofs` and
`ScanImageProofs` hold the proofs; `MCDoScan` and `MCScanLink` the images for TLC.

A definition whose comment begins with "Mutant" is a faulty version of the
definition that follows it, as a plausible bug would leave it; each property
is known to be violated when one of them takes the original's place.

### Abstractions

* Bytes of the image are small distinct numbers; lengths and the end record
  are real bytes, so framing errors show up as wrong image bytes.
* The driver behind `saned` is an environment: `sane_read` returns any amount
  that fits, or EOF when the frame is over, or an error, and `*length` on an
  error is taken from `ErrLen` (`doc/sane.tex` says that a backend must set it
  to zero; `do_scan` does not rely on it, and `do_scan` is checked and proved
  for other values too).
  It may close its select descriptor with the last data or after it.
* A TCP connection is a queue of at most `SockCap` bytes; select calls it
  writable when `LowWater` bytes are free.
* `data_fd` is in blocking mode: `F_SETFL` with 1 does not set `O_NONBLOCK`.
* In `Saned` a request is served in one step, except for `NET_START` (accept),
  the scan and the wait for a password.  A signal whose handler is `quit` may
  come at any time.  `GET_DEVICES` has no effect on the state and is not an
  action.  Whether a password is right is left open: an authorized request
  may succeed or be refused.  The acknowledgement of `SANE_NET_AUTHORIZE` is
  always followed by the reply of the call and travels with it.  A call is
  challenged once.
* In `NetClient` a frontend is well behaved as `doc/sane.tex` asks: it calls
  `sane_cancel` after a scan, before it closes the device or starts another.
  "closeActive" and "overlap" in `may` relax this.  It does not call
  `sane_cancel` from its own authorization callback.
* `Processes`: a process keeps its number as a zombie until it is waited for;
  then the number may be given out again.  `Foreign` in `AccessLock` is a
  process outside this model whose number a half-read lock file may show.
* `PlustekLock`: one handle for each process.  `spoilt` is a history variable
  that becomes true at the three events after which mutual exclusion is gone:
  a file is read before its number is written, a file is removed whose owner
  lives (it was judged when an older file was there), attach's second unlock
  removes another process's file.
* `ScsiQueue`: a step is what lies between two points where a signal may come
  (the `ATOMIC` blocks).  `mishaps` records what the driver has done to us, so
  that a property can say under which circumstances it holds.
* `TestBackend`: the handler runs to its end while main stands still, at any
  point between two steps of main.  The reader is a forked process.

## The runs

Passing runs:

| run | question | bounds |
|---|---|---|
| `do_scan` | does the ring stay consistent, and does `do_scan` implement `RecordStream`? | ring of 10 bytes, image of 6, connection of 3: lengths, data and end record all wrap at every offset and every write is cut |
| `scan_link` | does the frontend see an `ImageTransfer`? | ring 9, image 5, reads of 1 or 2 bytes, 1 other request, all failures (7 million states) |
| `scan_link_live` | are requests answered and does the scan end? | a connection that takes a whole ring at a time (`SockCap = LowWater = 9`), image 2, no failures |
| `session` | do client and server agree on handles, is no device leaked, read twice or cancelled by mistake, do calls return, does the server follow its client? | 2 handles, 3 successful opens (one reuse of a handle); three settings: well-behaved frontend, passwords and every failure but that of accept; any frontend and every failure but lack of memory; any frontend, no failure but that of the table's allocation and no watchdog |
| `handles` | is the search thorough, and does it end? | increment 3, table up to 6 (two allocations) |
| `byte_swap` | are bytes conserved, in order and free of earlier scans' bytes? | 3 handles (16 bit from both kinds of server, 8 bit), 3 scans, 3 samples, reads of up to 4 bytes |
| `scsi_queue` | are commands executed once and in order, is the image in order, does the reader end? | queue depth 1 and 2, 2 attempts per command, 7 lines in buffers of 2 (a short last buffer), blocks of 3 buffers, both driver versions, single and double buffering, one SIGTERM |
| `scan_program` | is a finished page complete, is no reader left, does the program end? | 2 pages of 1 or 3 frames, frames of 2 bytes through a pipe of 1, 4 readers, 2 signals |
| `daemon` | does the list of children stay right, does shutdown end, is every child reaped? | 3 process numbers and 4 connections (one number is used again), 2 sockets, with and without Avahi |
| `device_lock` | mutual exclusion and progress with dead owners | 2 processes, up to 3 tries; numbers are used again without limit. The inductive invariant was also checked with 3 processes |

Runs that show a disagreement between code and documentation (expected
violations; `findings` quotes the lines):

| run | what happens |
|---|---|
| `scan_blocks` | the server hangs in `write` while the client waits for the reply to a request |
| `unlocks_own` | plustek's attach unlocks a second time and removes the lock another process has taken in between |

### Known limits of the code

The passing properties say where they stop.  These are the cases they leave
out; in each TLC finds a violation when the exception is dropped:

* `ReadsOpenHandle` asks for a well-behaved frontend.  `sane_close` during a
  scan sends `NET_CLOSE` without a cancel (net.c 1662), and `do_scan` goes on
  reading a closed device, although `doc/sane.tex` says "After this function
  returns, handle h must not be used anymore".  With overlapping scans a
  reopened handle clears `docancel`, with the same effect.
* `BusyMeansScanning` asks for an accept that works: after a failed one
  `getpeername` fails too and `process_request` returns before the lines that
  reset `scanning`.  It also leaves out a stranger on the data port of a scan
  that was started from inside another one: `process_request` returns -1
  there (saned.c 2082) before these lines, and `do_scan` does not look at the
  result, so the server lives on with the mark set.
* `BackendsAccounted` leaves out a table that cannot be made larger.  When
  malloc or realloc fails in `get_free_handle` (saned.c 512) after `sane_open`
  has succeeded, the client gets `SANE_STATUS_NO_MEM` (1922) and the backend
  handle stays open in no entry; nobody closes it.  The old table is lost with
  the pointer, `num_handles` has grown, and the next access to the table, that
  of `quit` included, is a segmentation fault that closes no device.  The
  property says that the handle just opened is the only one in no entry.
* `CallReturns` assumes that a server inside a scan serves the requests that
  come.  When it is blocked in `write` instead (`scan_blocks`) only the
  watchdog, an hour later, ends it and with it the call.
* `OpenReturns` leaves out a full table whose entry 0 was given out last: the
  loop condition (saned.c 503) is never met and the search goes round for ever.
* `SwapInOrder` leaves out a read of two or more bytes with one byte kept: the
  cases for even and odd numbers are the wrong way round (net.c 2268).
* `BytesConserved` and `SwapInOrder` leave out a scan during which another
  handle is used: the byte kept for one scan is handed out in the other, a
  `sane_start` of any handle, refused or not, drops it, and
  `sane_get_parameters` of an 8 bit device ends the swapping for a 16 bit one.
* `ScanEnds` fails with "select" in `Faults`: the server leaves `do_scan`
  without an end record and `sane_read` returns GOOD with no data for ever.
* With the ring at the wrong offset the four bytes counted in excess after a
  failing `sane_read` (saned.c 1766) are written after the end record; a client
  that closes at once, as `doc/net.tex` asks, makes that write a SIGPIPE that
  ends the session.
* `BailOutEnds` leaves out a signal between the waitpid that returns the Avahi
  process and its booking (saned.c 2181): `numchildren` stays 1 and bail_out's
  loop does not end.  `numchildren` counts only Avahi, so "all children exited"
  is logged while connections still run.
* `Exclusive` leaves out the three events of `spoilt` above.  A `sane_start`
  that fails after taking the lock leaks it (plustek.c 2619, 2635): the device
  is denied to others until that process ends.
* `UsedIsExact` and `ImageInOrder` leave out `Upset` drivers: with SG version 3
  a command refused ("game over", sanei_scsi.c 1930) stays counted or is taken
  as executed; with version 2 an interrupted select leaves an answer that the
  next wait takes for its own.  `ReaderEnds` leaves out version 2 with a
  command that is put off for good: select waits for an answer that will not come.
* `NoReaderLeft` leaves out a cancel in the middle of `sane_start`, between
  `scanning = TRUE` (test.c 2530) and the assignment of the reader's pid: that
  reader sleeps for ever.  `CompletePages` leaves out SIGINT from a terminal,
  which the reader gets too: it ends, and the page is taken as complete.

Deadlock checking is on for `scsi_queue` and `scan_program`, whose ends are
explicit steps.  Elsewhere a finished or abandoned scan, a server that has
exited and a fully delivered frame are ends of the system.

### Fairness

* `ScanLink`: the server and the frontend are processes that run (weak
  fairness of their steps as long as they can go on); the frontend keeps
  calling `sane_read`; the scanner delivers something new again and again when
  asked again and again (strong fairness of `ScannerDelivers`, since polling
  and idle turns come in between).  Nothing is assumed of cancels, requests or
  failures.
* `Session`: the server serves a request that is there, the client takes a
  reply that is there (and its authorization callback returns), a scan ends
  (its image is finite; strong, since requests come in between), and the alarm
  of `reset_watchdog` goes off while the server sits in `accept` or waits for a
  password.  Without "signal" in `may` there is no watchdog.  `Session` has no
  data connection, so the write that may block in the middle of a scan is not
  part of it (see the known limits).
* `SanedHandles`: the loop goes on.
* `SanedChildren`: poll returns within half a second and the parent goes on;
  the Avahi process dies of the SIGTERM it is sent; init waits for orphans.
  Nothing says that clients come or connections end.
* `PlustekLock`: processes inside `sanei_access_lock` go on and their sleep
  ends; a process that has ended is waited for, which is what `daemon` shows
  of the stand-alone `saned` (`ProcSpec`).
* `MustekReader`: the reader runs, the driver returns from calls, the scanner
  executes commands, a signal is delivered once it is not blocked (strong, as
  it is blocked in between).
* `ScanImage`: main, handler and readers run, signals are delivered.

## The proofs

`DoScanProofs`, for every ring of at least nine bytes, every image, every
connection and every set of failures (the named assumptions of `DoScan`):

* `TypeCorrect`: `Spec => []TypeOK`.
* `RingSafe`: `Spec => []RingAligned`: data goes in right behind the bytes that
  wait.
* `RegionsSafe`: `Spec => []RegionsInBuf`: what `write` and `sane_read` get lies
  inside the buffer.
* `WaitingStatusIsEof`: `Spec => []DirtyMeansEof`: a status that waits for room
  is the EOF of an image read to its end.
* `ImplementsStream`: `Spec => StreamSpec`, the refinement of `RecordStream`.

The inductive invariant is `IInv`, the conjunction of `TypeOK`, `RingAligned`,
`RegionsInBuf` and `DirtyMeansEof`.  `RingAligned` is not inductive alone:
that storing the end record keeps it needs to know when `status_dirty` can
still be set (`DirtyMeansEof`), and the type of `reader` needs the region that
`sane_read` got (`RegionsInBuf`).  The refinement is proved action by action
from lemmas on the ring: what `Content` returns after `Store`, how it splits
when some bytes are sent, and that the rest is untouched.  `ErrLen <= Size - 9`
is what `do_scan` needs of drivers: with a larger `*length` on an error the end
record would have to wait for room and could overwrite what waits.

`SanedHandlesProofs`: `TableGrowsWhenFull` shows `TypeOK` and
`SearchIsThorough` for every increment.  They are inductive together; the
proof follows the search round the end of the table.

`SessionProofs`, for every number of handles, every frontend and every set of
failures:

* `DevicesAccounted`: `Spec => []BackendsAccounted`;
* `ScansApart`: `Spec => []OneReader`;
* `HandlesKnown`: `Spec => []HandlesAgree`;
* `CancelsWanted`: `Spec => []CancelIsWanted`;
* `ReadsOpen`: `Spec => []ReadsOpenHandle`;
* `BusyIsScanning`: `Spec => []BusyMeansScanning`.

The first two are about the server alone.  `BackendsAccounted` is inductive with
`Numbered`; it includes a table that is lost, whose last contents `handle` keeps
so that the handles nobody can close any more still count.  `OneReader` is not inductive: a
nested NET_START must not find the device of an outer `do_scan` free.  `IInv`
adds that an open device that is being read is in the entry of that `do_scan`
and marked as scanning (`FrameMarked`).  Keeping the mark is the point of the
proof: an inner scan of the same entry clears it when it ends, but then it has
a later device of the entry than the outer one (`FrameOrder`), and the entry
never goes back to an earlier one (`FrameOld`, `Numbered`), so the outer scan's
device is closed.

The other four need the client.  `CInv` says how the two take turns on the
control connection, with a challenge in the middle of a call or without
(`Turns`), what the server has done when a reply is on its way (`Answered`),
and which handles each of the two knows of at every point of a call, not only
between calls (`Known`, `NoneLost`).  `CancelIsWanted` becomes inductive as
`Wanted`, which speaks of every handle at all times.  For `ReadsOpenHandle`
the proof shows more than it needs: with a frontend that cancels each scan
before it closes the scanner or starts another, scans do not nest
(`OneFrame`), because the scan of an earlier call has either ended or is about
to return because of its docancel.  There is a lemma for each action of the
server and for each kind of call, reply and departure of the client.

`ByteSwapProofs`, for every set of handles, byte order, frame size and way to
cut the data:

* `BytesSafe`: `Spec => []BytesConserved`;
* `OrderHolds`: `Spec => SwapInOrder`.

`IInv` adds to `BytesConserved` that as many bytes have been received as were
handed out and kept (`Counted`), and that the shared variables `depth` and
`server_big_endian` are those of this scan, or nothing has been received yet,
and a byte is kept only if it has to be exchanged (`Modes`).  The proofs rest on lemmas about rearranged sequences: what is handed
out and what is kept hold the bytes received, each once (`Reordered`).

`SanedChildrenProofs`, for every set of process numbers, and every number of
connections and sockets:

* `ListHoldsChildren`: `Spec => []StaleIsLast`.

`StaleIsLast` needs that no process is in the list twice in front of its last
element (`Distinct`): `wait_child` takes off the first entry with a number, and
a second one would stay.  A number can be given out again only after it was
waited for, which the list in turn records.

`PlustekLockProofs`, for every set of process numbers and every timeout:

* `LockTypes`: `Spec => []TypeOK`;
* `LockExcludes`: `Spec => []Exclusive`.

`Exclusive` is not inductive: two processes inside are excluded because each
owns the one file.  `IInv` adds that (`Owned`, which includes a process about
to be let in because it has found its own number), that a number in the file
is its creator's (`LockNamed`), and that the retry loop is never entered
without a try left (`LoopLeft`, for the type of `left`).  There is a lemma for
each action.

`ScanImageProofs`, for every size of frames, number of pages, readers and
signals, and every capacity of the pipe:

* `TypesHold`: `Spec => []ScanTypeOK`;
* `OwnReader`: `Spec => []KillsOwnReader`;
* `NoneLeft`: `Spec => []NoReaderLeft`;
* `PagesComplete`: `Spec => []CompletePages`;
* `PartsRemoved`: `Spec => []PartRemoved`;
* `CancelHolds`: `Spec => CancelStops`.

All six come from one inductive invariant.  `Control` says where main can be
while the handler is in `finish_pass`, and what `scanning`, `cancelled` and
`eof` say then: `scanning` is the lock that lets only one of the two into
`finish_pass`.  `Pids` follows the reader's pid through `sane_start` and
`finish_pass`, `Orphans` says that a living reader is the one of the pass
that is still to be finished.  `Bytes`, `Image`, `Writer` and `Frame` count the
bytes of the page: a frame can end early only when the reader has died, and a
cancel makes `sane_read` fail before the page is taken as complete
(`Stopped`).

`MustekReaderProofs`, for every number of lines, size of buffers and blocks,
depth of the host adapter's queue and set of addresses, with both versions of
the SG driver, one buffer or two, and a SIGTERM anywhere:

* `WaitsHold`: `Spec => []WaitsForHead`, the assertion of
  `sanei_scsi_req_wait`;
* `RunsHold`: `Spec => []RunsInOrder`;
* `NonePending`: `Spec => []NothingPending`;
* `UsedExact`: `Spec => []UsedIsExact`;
* `ImageOrdered`: `Spec => []ImageInOrder`.

The invariant is built in layers, each inductive together with those before it:

1. `Base`: types (the reader never has more than two commands in the queue),
   the arguments of the call in progress, that no request is in two lists or
   twice in one (`Alloc`), that issue() hands commands out from the front
   (`Prefix`), and which buffer's command is at which place of the queue at
   each point of `reader_process` (`Shape`).  The buffer entered last is marked
   as the end of its block exactly when no more commands are wanted
   (`Newest`); that is what makes a `ready` that is never reset harmless.
   `WaitsForHead` follows.
2. `Order`: what has run, what the driver has and what waits are sorted, one
   behind the other.  `RunsInOrder` is its first conjunct.
3. `Fate`: once an answer was missed the reader is on its way out.
4. `Answering`: with version 2 and no answer missed, the answers still to be
   read, followed by the commands the driver still has, are those of the
   queue's running commands, in order.  `NothingPending` follows, as the queue
   is empty when the handler exits.
5. `Used`: `sg_queue_used` counts these commands, and the head of the queue is
   one of them when its wait begins.
6. `Outcome`: the data a wait ends with is that of the head of the queue, or
   the status is not GOOD.
7. `Image`: the commands in the queue continue the lines written so far, and
   `s->line` stands behind them all, so the reader has written everything when
   it finds no line left to read.

Only model-checked: liveness (`RequestAnswered`, `ScanEnds`, `CallReturns`,
`ServerFollows`, `OpenReturns`, `KillEnds`, `ReaderEnds`, `ProgramEnds`,
`BailOutEnds`, `DeadLockBroken`, and `ProcSpec`, whose point is that every child
is waited for in the end), which is out of the prover's reach; and the end-to-end refinement `TransferSpec` of
`scan_link`.

## Not modelled

Configuration, name resolution, host access lists, device lists, the option
payloads, password files, the wire codecs, the meta backend `dll` (sequential:
one flag for each backend), the USB layer and the command sets of about eighty
hardware drivers, which make up most of the repository and are defined by the
devices only; the pthread variant of `sanei_thread.c`; the SCSI code of other
operating systems; plustek's calibration thread and several handles of one
process on one lock.  `PROJECT.json` gives the reason for each.

## Plan

1. (done) `DoScan`, `RecordStream` and the proofs; `NetRead`, `ScanLink`,
   `ImageTransfer`; `SanedHandles`; `Saned`, `NetClient`, `Session`; `ByteSwap`.
2. (done) Authorization in `Session`; `SanedChildren`, `Processes`,
   `AccessLock`, `PlustekLock` and the proof of mutual exclusion; `ScsiQueue`
   with `MustekReader`; `TestBackend` with `ScanImage`;
   `SessionProofs`.
3. (done) Proofs: the remaining invariants of `DoScan` and `Session`; the list
   of children; `ScanImage`; `ByteSwap`; the SCSI queue
   with the mustek reader.
4. Proofs: `TransferSpec`, on top of `ImplementsStream`.
5. A next frame's NET_START racing the end of `do_scan`; buffering and the
   allocation accounting of `sanei_wire.c`.
