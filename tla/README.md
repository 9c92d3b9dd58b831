# Specifications of Server_programming

The repository is a class project about fast file transfer. It holds one
finished download client (`final/`), its predecessor (`test04/`), the Tsunami
UDP file transfer (`test05/`), and smaller experiments by the team's members.
This directory holds TLA+ models of the parts with logic of their own, TLC runs
over small instances, and proofs, checked by TLAPS, of what holds for all sizes.

Contents: [the system](#the-system) · [modules](#modules) · [ServerSide](#serverside) ·
[URFT](#urft) · [Tsunami ring](#tsunami-ring) · [Tsunami transfer](#tsunami-transfer) ·
[Tsunami session](#tsunami-session) · [small programs](#small-programs) · [runs](#runs) · [proofs](#proofs) · [findings](#findings) · [limits](#what-is-not-modelled) ·
[plan](#plan)

## The system

| Component | State it keeps | Operations | Interacts by | Hard part |
|---|---|---|---|---|
| ServerSide engine (`final/client/ServerSide/{ServerSide,conn,http}.c`; `test04` `axel.c` is its ancestor) | per connection: `currentbyte`, `lastbyte`, `enabled`, `state`, socket; `bytes_done`, `ready`; output file, `.st` state file | open, divide, start, do (save, poll, check, tally), close | shared fields between the main thread and one setup thread per connection, without locks; sockets; two files that outlive the process | races on `enabled`/`state`, asynchronous cancellation, drops and restarts, kill and resume |
| ServerSide search (`search.c`, `text.c`) | per mirror: speed or a negative code, start time; `running`, `done`, `correct` | measure the mirrors, sort them, choose | one thread per mirror, polled without a lock; `pthread_cancel` | a timeout racing with a result; a comparison that may be no order |
| ServerSide FTP (`ftp.c`, `conn.c`) | control and data connection, `status`, `cwd`; links followed | connect, change directory, ask for the size, restart, retrieve | commands and replies that do not name each other; threads cancelled in mid-dialogue | the next thread goes on on what the last one left behind |
| ServerSide front end (`text.c`, `conf.c`), TCP (`tcp.c`) | options | main, parsing, output | calls of the engine | signals; the exit status |
| File server (`final/server/microhttpd`) | none between requests | one callback | vendored library | answers 200 whatever range is asked for |
| Tsunami client ring (`client/ring.c`, `disk_thread`) | slots, `base_data`, `count_data`, `count_reserved`, two flags | full, reserve, confirm, peek, pop | mutex and two condition variables; slots used outside the mutex | lost wakeups, slot reuse, stop block, failing disk |
| Tsunami transfer (`client/command.c`, both `protocol.c`, `server/main.c`) | `received`, `next_block`, `gapless_to_block`, table of requests, restart range; the server's `block` | receive a datagram, ask for gaps, repeat or restart, end; send, serve a request, heartbeat timeout | blocks over UDP, requests over TCP | loss, duplication, reordering; late requests; table limit; ending |
| Tsunami session (`client/{main,command,protocol}.c`, `server/{main,protocol}.c`, `common.c`) | session, file, port; the child's file and socket | connect, authenticate, DIR, GET, GET \*, CLOSE, QUIT | TCP messages without types; UDP datagrams without transfer numbers | keeping in step; what a failure, a kill or a timeout leaves behind |
| URFT (`test(우주)`, Java) | phase, `bookmark`, last packet; the server's file, last packet | descriptor, pieces, FIN cycle; answers | UDP with one-second timeouts | loss, duplication, late answers, int arithmetic, ending |
| UDP program (`test(준우)`), TCP upload (`test(수민)`), exchange (`161101`) | one open file each | send a file | UDP without answers; TCP by counted calls of `recv` | lost datagrams; a `recv` returns any part |
| One-line servers (`test01`-`test03`), Tsunami variants and tools, vendored code | - | - | - | - |

What makes each part correct:

* ServerSide: every byte of the remote file is written at its position, or a lost race is to
  blame and the damage stays in that connection's segment; progress is
  never claimed that is not on disk, across kills; a download that calls itself
  ready is whole; one that is left alone ends.
* Tsunami ring: a bounded queue; no block that was accepted is lost; a slot in use
  is left alone; both threads end.
* Tsunami transfer: a lossless transfer ends only when whole; a block that was
  passed and is missing is asked for; a restart skips nothing; both sides end unless restarts go on for ever.
* Tsunami session: client and child are at the same place of the dialogue; the child
  serves the file that was asked for; no block of one file gets into another, except those the network delays past a reply;
  commands return, children end.
* Search: each mirror is counted once; the fastest usable ones are chosen; it ends.
* FTP: the data that come are those the connection will write next.
* TCP and UDP uploads: the receiver's file is the sender's, under the condition the code relies on.
* URFT: the server's file is at all times a beginning of the client's; an answer proves
  storage; the FIN means the whole file; the client ends.

## Modules

| Module | Role |
|---|---|
| `ServerSide` | the download engine; `MCServerSide` adds the sets of kill points |
| `ServerSideProofs` | its theorems |
| `Upload`, `Urft` | what an upload promises; the stop-and-wait protocol that implements it |
| `UrftProofs` | its theorems and the refinement |
| `BoundedQueue`, `TsunamiRing` | a queue; the ring and its two threads that implement it |
| `TsunamiRingProofs` | its theorems and the refinement |
| `FileTransfer`, `TsunamiTransfer` | what a block transfer promises; the protocol that implements it |
| `TsunamiTransferProofs` | its theorems and the refinement |
| `TsunamiSession` | the control connection: one client process, the server's children, the datagrams between them |
| `TsunamiSessionProofs` | its theorems |
| `SpeedTest` | the choice of mirrors |
| `FtpDialogue`, `FtpDialogueProofs` | one FTP connection of ServerSide and its server; its theorems |
| `PieceCount`, `PieceCountProofs`, `DatagramFile` | the TCP upload and its theorems; the UDP upload |
| `MCUrft`, `MCTsunamiRing`, `MCTsunamiTransfer`, `MCTsunamiSession` | the modules the configurations are for |
| `MCPrograms` | the last four programs in one run; a behaviour is one of them |
| `ProgramsProofs` | theorems about the choice of mirrors and the UDP upload, and about `MCPrograms` as a whole |

`PROJECT.json` maps each definition to the lines it stands for, and lists the
hazards of the code with the properties aimed at them.

In every module a byte or a block is its position in the original file, so
"the right byte at the right place" is `file[p] = p`.

Where a definition has a sibling with a longer name (`Advance` and
`AdvanceTooFar`, `Disconnect` and `DisconnectOnly`, ...) the sibling is a
plausible bug. No specification uses it; it takes the definition's place when we
ask whether a property would notice.

## ServerSide

One main thread (`pc`, `k`) and one setup thread per connection (`thread[i]`).
`ServerSide_do` is one round of `Do`, an optional `save` phase, `poll` over the
connections, `check` over the connections (`conn_check`, inlined) and `Tally`.
`final/` skips a round with a probability of 1/20 to imitate packet loss; a skipped
round changes nothing, and is a stuttering step.

* The unsynchronised accesses are steps of their own: `CheckEnabled` and
  `CheckState` read `enabled` and `state` apart when `TornCheck` holds, and a
  setup thread writes `enabled` (`Enable`) and `state` (`ClearState`) apart.
* `dying` is an asynchronous `pthread_cancel`: the thread may run on for any number of
  steps before `Die`, so it may still enable the connection.
* `socket[i]` says what the next bytes are: a reply header, the body from `pos[i]`,
  an error page. A setup thread that finds an open socket does not open it
  again, and its `http_exec` then reads bytes of the body (`ReadBody`).
* `ReplyEnd` is where the server's answer to a ranged request ends.
* `st` is the state file: the values written so far of a truncated and rewritten
  file. `Crash` ends the process at the points of `CrashPoints`; only `file` and `st` stay.
* `DivideLoop` chooses between `axel_divide` (`test04`) and `ServerSide_divide`
  (`final/`), which has lost its loop. The two engines are otherwise the same.

Bounds: two connections, so that segments, races and restarts of one connection next
to another happen; 2 to 4 bytes and reads of up to 2, so that a read crosses, meets or
misses the end of a segment; two launches; up to two failures, so that a retry may
fail. `IntMax` only has to be larger than the file.

Two races let a connection have two readers, or a socket that is used again in the middle of a reply: `conn_check` cancels a setup thread
that may still enable the connection (ServerSide.c:395), and it reads `enabled` before and `state` after a setup thread has written both, so that it restarts a
connection that is served (ServerSide.c:366-368). Both are in `ss_safety` (`TornCheck`, `SlowSetup`), and no property can forbid
what they do. `raced[i]` is not in the code: it is the last launch in which either happened to connection `i`, and 0 if none since the
output file was created. `BytesInPlace` confines the damage: a byte at a wrong position lies in the segment of a connection that raced. `HeaderReadSparesData`
says that no other connection's setup thread reads a header from a socket that is past it. Without the clauses on `raced` TLC finds both
properties violated. The count, the state file and readiness are not affected by these races (`NothingSkipped`,
`StateFileHonest`, `CountMatches`, `ReadyMeansWhole`).

Fairness (`ss_quiet`, `ss_final_divide`): the scheduler runs both kinds of threads; what is on a
socket gets to the main thread, because `select` reports it; the user starts an
interrupted program again, at most `MaxRuns` times. Failures, kills, and
setups slower than `reconnect_delay` are never owed. `Finishes` leaves out a
connection that was lost with exactly one byte to go: `conn_check` compares
`currentbyte < lastbyte` (ServerSide.c:366), the start compares with `<=`, and nobody restarts
such a connection in that run. `Finishes` needs that no thread runs between the two reads of `conn_check` (`TornCheck = FALSE`): with
them apart, and no failure at all, TLC finds a download that never ends. The torn check restarts a live connection, the new thread reads
the body for a header and closes the socket, the connection times out and is set up again, and the same happens again, for ever. With
`SlowSetup = TRUE` instead, `Finishes` holds; that takes too long for a run.

## URFT

`UrftClient` and `UrftServer` are two processes with a last packet each that a timeout
sends again. `toServer` and `toClient` are sets of packets that may be received
and stay (duplicated, late), be received and go, or be lost. `bookmark`, an `int`, wraps at `IntMax`.
The server appends whatever piece ends beyond its file and answers every
packet, also when the write failed (`DiskFails`).

Bounds: five bytes in pieces of two, so that the last piece is short; three FINs.
Fairness: the clocks run, and a packet sent again and again is received in the end.
`Ends` asks nothing of a server whose client ran out of FINs: it waits for ever.

## Tsunami ring

Each critical section of `ring.c` is one step; the copy into a slot and the write to disk
are steps between them. Waiting and waking are explicit (`asleep`, `woken`), with
spurious wakeups, so a lost signal is a deadlock of the model. Datagrams are arbitrary: any
block, any number of times, in any order. Failing receives leave the previous datagram in the
buffer, as the code does, which is a block 0 before the first one; the properties about ends leave out
the runs in which that block was taken (`0 \in received`).
After the abort path the disk thread's next access is undefined; `Stray` shows that it is reached.

Bounds: four blocks, three slots: the ring wraps and fills. Fairness: both threads run; the server sends
a missing block, and the last one, until it is taken.

## Tsunami transfer

The server (`Transmit`, `Serve`, `HeartbeatLost`) sends the next block when no request is there;
after the last block it repeats the last one. `wire` is a set of datagrams that may be lost, read twice
or read in any order. `ctl` is the TCP stream of requests.

The client's record `rx` is changed by operators that follow the code function by function: `Requested`
(`ttp_request_retransmit` over a range, silently dropping at the table's limit), `Repeated` and `Sent`
(`ttp_repeat_retransmit`: compaction, or a restart when there are too many), `GapQueued`,
`Advanced`, `AtEnd` (the branches of `command_get`). `SendStats` is the repetition "on every 50th datagram
after 350 ms": it may happen or not. The three modes are lossless, lossy, and lossy with a window,
where the measured rate is unknown and `Earliest` offers every possible first block, including the unsigned
wrap-around when `gapless_to_block` is ahead of the block. `rx.forgotten` is not in the code: it remembers what the
table's limit dropped.

`block` is the block sent last. A restart sets it to the block asked for, so the server goes on with the one
*after* it; the block itself arrives only as a retransmission once the client notices the gap. `MissingIsRequested`
and `KeepsPromise` show that nothing is lost by this, but it can keep a transfer from ending (below).

Bounds: three blocks, restarts at two open requests, a table of two, one block on the wire, a window of one. `MaxRequests` stands for the
back-pressure of TCP: with two unread requests the client waits and the server reads before it sends on.

The transfer may fail to end, in this instance too, without any fault of the network that goes on for ever: when the gap that a
restart leaves is as large as the limit of requests, the client asks for the same restart again whenever a copy of the last block arrives, and
the server goes on behind the block asked for and never sends it. `Ends` names this case: it
holds of every behaviour in which the client does not ask for restarts infinitely often (without that condition TLC finds the endless
restart in this instance; with a limit of three and three blocks it happens not to occur). The code's
limit is 2048 (`MAX_RETRANSMISSION_BUFFER`, tsunami-client.h:107): such a gap needs 2048 missing blocks and a late copy of the last one in each round.

The table is filled and never overflows here. Four blocks with the same limits overflow, and `Ends` and the invariants still hold, but the run takes
close to four minutes; a dropped request is therefore left to the theorem `NothingMissingIsForgotten`, which is about every number of blocks and every limit.

Fairness: the server's loop goes on, requests arrive, and every block that is sent again and again is in the
end handled (not lost, not met by a full ring). `Ends` says nothing once the server has given up after
`hb_timeout`: the client then waits in `recvfrom`, which has no timeout, although command.c:448 prepares for one
("Apparently frozen transfer, trying to do retransmit request").

## Tsunami session

`TsunamiSession` models the control connection around a transfer. `pc` is where the one client process is in a
command, `child[s]` where the server's child of connection `s` is, `up[s]` and `down[s]` are the messages between them, `air[s]`
the blocks on their way, known by the file they are of. The data loop itself is one state on each side (`data`): it is
`TsunamiTransfer`'s subject, which in turn takes a transfer from the open port to the stop request.

* A message is a kind and a value. Readers of fixed lengths and `read_line` take any bytes, so a message of another kind
  than the reader waits for is handled where the code can meet it: a stray request read as file names (`ReadStray`), a command
  read as a port (`OpenPort`).
* `fault[s]` is not in the code. It marks a session in which something happened that one end does not tell the other:
  a local file or socket that does not open, an abort, a heartbeat timeout, a read error, a kill. What the code
  promises afterwards is nothing: the next command may hang (`CommandsReturn` excludes those sessions).
* The client's end of a connection is closed by CLOSE, QUIT, a failed connect, a kill. The child sees it at its next read,
  in the data loop perhaps only after the heartbeat timeout, in `full_read` perhaps never (`spin`): common.c:373-380 takes the end
  of the connection for a short read and asks again.

Bounds: four commands over two connections, so that a GET follows a GET, a DIR, a CLOSE and a reconnect; a list of two
files, of none, and of one that does not exist; two revisions; one kill.
Fairness: both programs run; what has no socket is gone in the end; blocks are sent and the last missing one arrives
(`Ends` of `TsunamiTransfer` is the reason); the heartbeat of a child whose client has left runs out. The user owes
no command, and failures are never owed.

Datagrams keep no order with the connection: one that was sent before a message may arrive any time after it, or never. A block that
is still in the air when the reply to the next `GET` has come finds the next file's socket open, and goes into the next file, since datagrams carry
no number of their transfer. `overtaken` remembers those files, and `NoLateBlock` says that no other foreign block of the session gets in: the socket is
closed before the stop request and opened only after the reply, which the child sends after it has read that request. TLC finds the case: `NoLateBlock` without
`overtaken` is violated. The same happens when the user reconnects while an old child still sends to the port; `NoLateBlock` therefore speaks of one session.

The acknowledgement of a list is written without `fflush` (client/command.c:239). It stays in the buffer (`unflushed`), with the child in `full_read`,
until the next command on that connection writes and flushes, or until CLOSE or QUIT; a reconnect leaves it there until the process ends, and a kill loses it (`Killed`).

The server runs with and without `--allhook` (`AllHook`), and with nothing to list, two files, or one that is gone. With `--allhook` the program is run at each
request, without it the names are those of the command line. `GET *` at a server with nothing to list and no `--allhook` waits for ever:
the server for "got list" (server/protocol.c:507-514), the client for a failure byte (client/command.c:328). No fault happened there; `CommandsReturn` names this
deadlock (`EachWaits`), and is violated without it.

## Small programs

`MCPrograms` runs four programs without a common state, one in each behaviour, so that one run covers them.

**The choice of mirrors** (`SpeedTest`). A step of the main thread is the body of the loop of `search_getspeeds` for one result; a
measuring thread writes its speed in one step at any time, also while the main thread is between `pthread_cancel` and its own
write (`phase = "cancelled"`), and after it. Three mirrors, two threads, two of them chosen, two speeds.
`late` is not in the code: the mirrors whose threads wrote after their cancellation was counted, which nothing in the code excludes. `CountersAgree`
says what such a write does: `done` is one too high and `running` one too low for each of them, for good, and everything else is counted
once. `FastestChosen` claims nothing once there is one, since `search_getspeeds` then returns before every mirror is settled. Also seen: the limit `search_top` is applied only inside `if (verbose)` (text.c:185-188); after a failed
`pthread_create` a zero speed is among the results and the comparison of `search_sortlist_qsort` is no order, so
`Choose` leaves the order open there; the list is freed while threads may still write to it. Fairness: the main thread runs, and the time limit of a
measurement passes. Nothing is asked of the threads.

**One FTP connection** (`FtpDialogue`). The setup thread writes a command (`say`) and waits for a reply (`hear`); the server answers what it
receives in order, in any way the code distinguishes. A reply does not name its command. The main thread cancels a slow setup
and starts another on the same `conn`, which finds an open control connection with commands under way, or half a reply.
`ServedInPlace` says that this is harmless: the new thread connects its own data port, and the
`REST` it sends takes effect before the `RETR`. The main thread is `ServerSide_do` on this connection: it tests `enabled` (`Check`), then `state` (`Join`,
or `Wait` for a setup under way), waits for the thread to end, and starts another (`Restart`) without looking at `enabled` again, which the thread may have set
meanwhile. A thread started over a connection that is served finds the data connection, fails in `ftp_data` and closes both; the descriptors are marked only
after they are closed (`HangUp`, `CloseData`, `GiveUp`; in the main thread `Leave`, `Left`), and the main thread may read from what is closed, or the thread be killed in between. A file of two bytes, two links, three cancelled threads or lost connections.
The cancel type is asynchronous (ServerSide.c:494-496): a cancelled thread goes on for any number of steps and dies at any of them, in the
middle of a reply too. `strayed` is not in the code. It marks a connection on which a thread without data connection died between an answer and its next
command, or before it gave the connection up; `ServedInPlace` then promises the position but neither the data connection nor the directory, and rightly so: a thread that dies
between the answer to TYPE and its CWD leaves a connection on which the next one retrieves from the wrong directory. Both places
of death are needed: without either, TLC finds the property violated. Assumed of the server: one that accepts `REST 1` accepts `REST 0`, whose
answer is not looked at (conn.c:269-270). Not modelled: a descriptor number that
is closed twice and belongs to another file by then, and the message buffer that a thread killed between `free` and the assignment (ftp.c:46-50) leaves dangling.
The dialogue promises no end: a server without `REST` refuses every restart of a dropped connection.

**The TCP upload** (`PieceCount`) counts calls of `recv`, and `recv` returns any part of what has come. `short` records a call that could have
returned more later; without one, `file_size / BUF_SIZE + 1` calls take the whole file, for sizes that are multiples of the buffer too. With one, the
rest of the file stays unread. A header that comes in part (server.c:73-74) gives `atol` too few digits or what the buffer held behind them: any number of calls up to one
too many, or a negative one (`Endless`), with which the loop never meets zero. A broken connection gives `fwrite` a length of -1 (`Break`).

**The UDP upload** (`DatagramFile`) numbers nothing: `upset` records a lost, doubled or overtaken datagram, or a failed `recvfrom` (whose -1 is given to `fwrite` as a length), and
without one the file is whole and the receiver ends. One datagram is doubled at most. Files of one to four bytes with a buffer of two, so that the last piece is short, full and empty.
Fairness of both: the programs go on while they can.

## Runs

| Run | Instance | Properties | Shows |
|---|---|---|---|
| `ss_safety` | 2 connections, 3 bytes, 2 launches, 2 faults, all races and kill points outside `save_state` | `TypeOK` `NothingSkipped` `StateFileHonest` `CountMatches` `ReadyMeansWhole` `BytesInPlace` `HeaderReadSparesData` | file, state file and count agree; ready means whole; a byte out of place lies where a race was lost |
| `ss_quiet` | 4 bytes, 1 fault, 2 launches, no torn check, no slow setup | `Finishes` | the download ends |
| `ss_final_divide` | the division of `final/` | `Finishes`, violated | a download by two connections never ends |
| `ss_unsupported` | a server without ranges | `BytesInPlace`, violated | bytes at wrong positions |
| `urft_upload` | 5 bytes, pieces of 2 | `TypeOK` `InOrder` `ConfirmedIsStored` `FinMeansWhole` `KeepsPromise` `Ends` | the protocol implements `Upload` and ends |
| `urft_2gib` | a file longer than `IntMax` | `Ends`, violated | the client never ends |
| `ring` | 4 blocks, 3 slots, all faults | `TypeOK` `ReceivedIsKept` `FeedbackGoesOn` `EndsWhole` `KeepsOrder` `HeldSlotIsStable` `Ends` | the ring implements `BoundedQueue`, both threads end |
| `transfer` | 3 blocks, three modes, a table and a limit of 2 | `TypeOK` `GaplessIsWhole` `MissingIsRequested` `KeepsPromise` `Ends` | the protocol implements `FileTransfer`; both sides end unless the server gives up or restarts go on for ever |
| `session` | 4 commands, 2 connections, all faults, with and without `--allhook` | `TypeOK` `InStep` `ServesTheWanted` `NoLateBlock` `CommandsReturn` `ChildEnds` | client and child keep in step, commands return, children end |
| `session_heartbeat` | 2 commands | `SilentClientIsDropped`, violated | after the heartbeat timeout the connection is not closed |
| `session_eof` | 2 commands, a kill | `EndOfFileStopsSending`, violated | the end of the connection does not stop the sending |
| `programs` | see above | `ProgramsTyped` `CountersAgree` `FastestChosen` `ServedInPlace` `FullCallsSuffice` `WholeUnlessUpset` `ProgramsEnd` | the four small programs |

`CHECK_DEADLOCK FALSE` stands where the programs may stop: all of them end.
The count of a resumed download is safe only when `save_state` is not interrupted: `ss_safety` kills the
process everywhere else. `StateFileHonest` and `NothingSkipped` are proved without that assumption.

## Proofs

TLAPS checks them for all values of the constants that satisfy the modules' assumptions.

* `ServerSideProofs`. `TypeCorrect`; `NothingIsSkipped` and `StateFileIsHonest` from the invariant `NoGap`: for every
  connection and for every field of the state file, the positions from the segment's first one to just before the recorded one are in the
  file. It is inductive because `PollData` writes before it advances and `SaveField` copies a value that already satisfies it;
  no assumption on races, servers or kills.
  `HeaderReadIsSafe` assumes nothing: `StagedInv` says of each connection that has not raced in this launch (`Calm(i)`) how its thread's
  stage, its socket and `enabled` go together, in every phase of the main thread. `EveryByteInPlace` assumes `Segmented`: a server with ranges, and segments that do not run backwards
  (`ss_unsupported` shows that the first is needed). That a thread in setup and an enabled connection have `pos = currentbyte` (`Aligned`) is part of it, since the one becomes the other. `PlacedInv` adds
  to `StagedInv` that every connection, raced or not, stays `Within` its segment: one that raced writes at its own `currentbyte`, whatever it reads.
  `BytesAreCounted` assumes that no kill falls inside `save_state`. The sum over the connections is a recursive function of
  their number; that it exists, moves by n when one term does, and is bounded term by term is shown with the least element of the counterexamples. `CountInv` says of each phase
  how far `bytes_done` is from the sum (`Tally` runs last in a round), and that a whole state file was written by one save.
  `ReadyIsWhole` further assumes the division loop of `axel.c`, a server with ranges, and segments that do not overrun the file: `axel_divide` makes each segment one byte longer than the
  quota, so a file of 4 bytes with 4 connections gives the last one a start at 5 (`First(NumConn - 1) <= Size`). Then segments follow each other and no
  connection passes its end, so the sum can be the size only if every connection has reached its end; with `NothingIsSkipped` the file is whole.
* `UrftProofs`. `UrftTypeCorrect`, for every size, width of `int` and disk; under `Sound` (the file fits an `int`, the disk works) `StoredInOrder`, `AnswerProves`,
  `FinAfterWhole`, `ImplementsUpload`. `UrftInv` says of each packet in flight that it is stored already or the very next piece, and
  ties the client's phase to what the server can have; late copies make every weaker statement fail.
* `TsunamiRingProofs`. `RingTypeCorrect`, `FeedbackNeverWaits`, `HeldSlotIsLeftAlone`, `NothingReceivedIsLost`, `RingIsQueue`,
  `EndMeansWhole`. `RingInv` ties flags to counters, the chosen and the peeked slot to their places, and the
  network thread's position to its loop; two more invariants add the contents and the end of a transfer.
* `TsunamiTransferProofs`. `TransferTypeCorrect`, `GaplessIsHonest`, `NothingMissingIsForgotten`, `TransferKeepsPromise`.
  `TransferInv` joins the types with `Honest`: below `gapless` everything is received, below `next` everything is received, listed, or
  dropped at the limit. The two need each other: a restart empties the list and sets `next` just behind `gapless`. Each operator on `rx` has a
  lemma that it preserves `Honest`. The table's compaction is a recursive function; what it keeps is shown with the
  least-element principle (`LeastElement`, from the well-foundedness of `<`), as an induction scheme cannot be instantiated.
* `TsunamiSessionProofs`. `SessionTyped`, `AlwaysInStep`, `ServerServesTheWanted`, `NeverALateBlock`, from `SessionAssumption` alone: every
  number of sessions, with and without `--allhook`, whatever stray requests the user leaves behind. `InStep` speaks of the heads of the two streams only, so the invariant says for
  each pair of places of client and child everything that is on the connection (`Dialogue`), and that a session the client left holds at most what its
  child had still to read (`Orphan`). All this is lost in a session in which something failed (`fault`), but `NoLateBlock` speaks of those too:
  it rests on `Live`, what a client can rely on whatever failed before. Parameters that are on their way are the only message, and come from a child that has the wanted file open; a child that
  sends data sends that file or has not seen yet that its client is gone; while blocks are received those in the air are of the wanted file or were overtaken by its reply. A small invariant of its own
  (`Buffered`) says that only a session that was connected has a message in a buffer, so that a kill that loses it marks a session.
* `FtpDialogueProofs`. `DialogueTyped` and `DataInPlace`, for every size, `MAX_REDIR` and number of faults. Both rest on `Inv`: types, which thread may be where, and what is
  under way; threads may be killed anywhere. The argument: a setup thread is in one of three situations. It is in step with its server: at most one command or its answer is under way, and
  the place and `verb` of the thread say what the server will have done once it is read. It inherits from killed threads: either they had connected a data port, and
  the next setup fails on the open descriptor, or the answers under way are at most one to the opening of the dialogue, and then those to `PASV`, one for each dead thread (`Queue`). Or it is late: it took an
  old port for its own, so that an answer to `PASV`, of class 2, stands where that to `RETR` should, and the thread gives up before it enables the connection.
  Only a thread in step enables it, and then the server's position is the connection's. No `REST` outlives its thread, for it is sent over a connection that has a
  data port; so the position is right even where the directory is not (`strayed`). Descriptors that are closed and still marked as open give the next setup nothing that it accepts (`Shut`), and
  a thread started for a connection that is served fails in `ftp_data` and closes it before it has said anything (`Serving`).
* `ProgramsProofs`. `ChoiceTypeCorrect`, `ChoiceCounts`, `FastestAreChosen`. The counters are cardinalities of sets of results that threads
  change at any time, so each step comes down to one element entering or leaving a set. `FastestAreChosen` needs that at the return every result is settled,
  so that no zero is left, the comparison is an order and the usable mirrors come first; it uses only that qsort sorts by an order.
  `ProgramsTypeCorrect`, `ChoiceInPrograms`, `FtpServedInPlace`, `CountedCallsSuffice`, `DatagramsWhole` are about `ProgramsSpec`, which the run checks; all assume `ProgramsSane` only
  (a buffer that holds something, numbers for bounds). Since one program runs at a time, a step of `ProgramsSpec` is a step or a stutter of each, and the invariants of the parts carry over; the two uploads share
  variables and keep theirs while they run. For the UDP upload the invariant says that, as long as nothing is upset, the file and what is on the wire
  are consecutive pieces, and that the piece that ends the receiver is the last.
* `PieceCountProofs`. `CountTypeCorrect`, `CallsAreEnough`: the server's file is the first f bytes, the stream is the rest of what was sent, and either
  f plus the calls left times the buffer is the total, or the file is complete and the sender has closed.

Only model-checked: the liveness properties (`Finishes`, `Ends`, `CommandsReturn`, `ChildEnds`, `ProgramsEnd`), since the prover does not deal with
fairness. Every invariant and every action property of a passing run is a theorem, under the assumptions named here.

## Findings

1. `final/` divides the file for connection 0 only (`ss_final_divide`): ServerSide.c:538-544 against axel.c:586-594.
2. Without ranges a reconnect writes bytes at wrong positions (`ss_unsupported`). The project's own file server is such a server: `ahc_echo`
   (fileserver_example_dirs.c:83-180) answers 200 with the whole file.
3. URFT cannot send files of 2 GiB (`urft_2gib`).
4. A silent client is not disconnected, as USAGE.txt:231 says, but awaited for another file name (`session_heartbeat`): server/main.c:395-397.
5. The end of the control connection does not end the transfer "immediately" (USAGE.txt:232-233) when `errno` is left from an earlier read
   (`session_eof`): server/main.c:285-288.

Seen while modelling, without a run of their own: a kill within `save_state` makes the resumed count wrong, and with it the equality that decides `ready`
(`ss_safety` with `CrashPoints <- Anywhere`); `conn_check` may restart a live connection, which puts bytes at wrong positions
(`raced` in `ss_safety`) and can go on for ever (`TornCheck = TRUE` in `ss_quiet`); URFT
acknowledges what it failed to write (`DiskFails = TRUE` in `urft_upload`); the remarks in the sections above; a connection lost with one byte to go is not restarted (ServerSide.c:366);
`disk_thread` ends on a failed write and `command_get` still reports the transfer as complete (command.c:961);
a Tsunami restart goes on one block after the one asked for, although
README.txt:92 of Tsunami says "restart transfer at block [nn]" and client/protocol.c:355 "restart from first missing block".

## What is not modelled

* In ServerSide: proxies, several URLs in the engine, `max_speed`, messages, the wording of requests and replies; the list of mirrors that
  `search_makelist` takes from a web page is an input of `SpeedTest`. In the Tsunami transfer: the sending rate and its error reports, failing
  sockets, transcripts. In the session: several clients at a time, SET, a fork that fails.
* The exchange of `161101` (two blocking programs in lock-step) has one behaviour when each message comes in one `recv`, and no
  guarantee when one does not: a message that is split is compared with the announced length and rejected. There is nothing between for a model to explore; the announced file of 2048 bytes never fits the
  2047 bytes the server asks for (server, lines 66-119).
* Options, configuration files and terminal output of ServerSide; the commands, transcripts and statistics of Tsunami.
* The file server's callback keeps no state; `test01` to `test03` start library servers. The real-time and recorder variants of
  Tsunami share the modelled loop. Other code is vendored.

## Plan

Done: `ServerSide`, `Urft`, `TsunamiRing`, `TsunamiTransfer` with their abstract specifications and theorems; `TsunamiSession`, `SpeedTest`,
`FtpDialogue`, `PieceCount`, `DatagramFile`. Left, in this order:

1. `TsunamiClient`, composing `TsunamiRing` and `TsunamiTransfer` over their shared `received` and a full ring, and `TsunamiSession` refined by
   `TsunamiTransfer` in its data loop.
2. Mirrors with different files or servers: a restarted connection takes the next URL of the ring (ServerSide.c:373-374). `ServerSide` lets any
   request fail and any header be late, which covers mirrors of one file that all honour ranges, or all do not.
