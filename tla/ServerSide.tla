------------------------------ MODULE ServerSide ------------------------------
(***************************************************************************)
(* The download engine of the client: one main thread that polls the       *)
(* connections and writes what arrives into the output file, one setup     *)
(* thread per connection that sends the request and reads the reply        *)
(* header, the output file, and the state file a later run resumes from.   *)
(*                                                                         *)
(* A byte of the remote file is its position.  A run of the program ends   *)
(* by finishing, by a signal, by an error or by being killed; the user may *)
(* start it again, and only the two files survive.                         *)
(***************************************************************************)
EXTENDS Integers, FiniteSets

CONSTANTS
  NumConnections, \* conf->num_connections, when the server supports ranges
  Size,           \* number of bytes of the remote file
  BufferSize,     \* conf->buffer_size: most bytes one read returns
  IntMax,         \* INT_MAX: the size the client assumes when it cannot ask
  Supported,      \* does the server honour a start offset
  DivideLoop,     \* TRUE: axel_divide (test04), FALSE: ServerSide_divide (final)
  TornCheck,      \* may a setup thread run between the two reads of conn_check
  SlowSetup,      \* may a setup outlast reconnect_delay
  CrashPoints,    \* where the main thread may be when the process is killed
  MaxFaults,      \* bound on network, file and thread-creation failures
  MaxRuns         \* bound on launches of the program

ASSUME ServerSideAssumption ==
  /\ NumConnections \in Nat \ {0}
  /\ Size \in Nat \ {0}
  /\ BufferSize \in Nat \ {0}
  /\ IntMax \in Nat /\ Size < IntMax
  /\ Supported \in BOOLEAN /\ DivideLoop \in BOOLEAN
  /\ TornCheck \in BOOLEAN /\ SlowSetup \in BOOLEAN
  /\ MaxFaults \in Nat /\ MaxRuns \in Nat

VARIABLES
  pc,          \* where the main thread is
  k,           \* its loop index over the connections
  ready,       \* 0 running, 1 finished, -1 failed
  bytes_done,  \* bytes counted as downloaded
  currentbyte, \* per connection: next position to write
  enabled,     \* per connection: the main thread may read its socket
  state,       \* per connection: 1 while a setup thread is thought to run
  thread,      \* per connection: where its setup thread is
  dying,       \* per connection: pthread_cancel was called on that thread
  socket,      \* per connection: closed, or what its next bytes are
  pos,         \* per connection: next body byte the socket will deliver
  file,        \* the output file: the written positions, and the byte at each
  st,          \* the state file
  faults,      \* failures so far
  runs,        \* launches so far
  raced        \* history, per connection: the last launch that cancelled its setup
               \* or restarted it while enabled, 0 for none in this output file

mainVars == <<pc, k, ready, bytes_done, currentbyte>>
connVars == <<enabled, state, thread, dying, socket, pos>>
diskVars == <<file, st>>
vars == <<mainVars, connVars, diskVars, faults, runs, raced>>
-----------------------------------------------------------------------------
(* The division of the file into one segment per connection. *)

NumConn == IF Supported THEN NumConnections ELSE 1
Conn    == 0 .. NumConn - 1
size    == IF Supported THEN Size ELSE IntMax
Quota   == size \div NumConn

\* The recurrence of axel_divide in closed form: every segment after the first
\* is one byte longer than the quota, and the last one ends at the file's end.
First(i) == IF DivideLoop /\ i > 0 THEN Quota + (i - 1) * (Quota + 1) ELSE 0

Last(i) == IF i = 0 THEN Quota - 1
           ELSE IF ~DivideLoop THEN 0
           ELSE IF i = NumConn - 1 THEN size - 1
           ELSE First(i) + Quota

Start == [i \in Conn |-> First(i)]

\* Where the reply to connection i ends.  A request without a start offset asks
\* for the whole file, one without a last byte for the rest of it; a resumed
\* connection 0 is given the longer of its two possible replies.
ReplyEnd(i) == IF Supported /\ i > 0 /\ Last(i) \in 1 .. Size - 1 THEN Last(i) + 1
                                                                 ELSE Size

\* A state file is its bytes_done and the first of the currentbyte values, as
\* many as were written; an unwritten field reads as ServerSide_open leaves it.
NoState    == [exists |-> FALSE, fields |-> 0, done |-> 0, cur |-> Start]
EmptyState == [exists |-> TRUE,  fields |-> 0, done |-> 0, cur |-> Start]
Whole      == NumConn + 1
StateFile  == [exists : BOOLEAN, fields : 0 .. Whole, done : Int, cur : [Conn -> Int]]
-----------------------------------------------------------------------------
Init ==
  /\ pc = "open" /\ k = 0 /\ ready = 0
  /\ bytes_done = 0 /\ currentbyte = Start
  /\ enabled = [i \in Conn |-> FALSE]
  /\ state = [i \in Conn |-> 0]
  /\ thread = [i \in Conn |-> "none"]
  /\ dying = [i \in Conn |-> FALSE]
  /\ socket = [i \in Conn |-> "closed"]
  /\ pos = [i \in Conn |-> 0]
  /\ file = [p \in {} |-> 0] /\ st = NoState
  /\ faults = 0 /\ runs = 1 /\ raced = [i \in Conn |-> 0]

\* Everything but the files is lost when the process ends; r is the ready value
\* it ended with.
ProcessEnds(r) ==
  /\ pc' = "exit" /\ k' = 0 /\ ready' = r
  /\ bytes_done' = 0 /\ currentbyte' = Start
  /\ enabled' = [i \in Conn |-> FALSE]
  /\ state' = [i \in Conn |-> 0]
  /\ thread' = [i \in Conn |-> "none"]
  /\ dying' = [i \in Conn |-> FALSE]
  /\ socket' = [i \in Conn |-> "closed"]
  /\ pos' = [i \in Conn |-> 0]

Fault   == faults < MaxFaults /\ faults' = faults + 1
NoFault == UNCHANGED faults

AdvanceTooFar(here, label) ==
  IF k < NumConn THEN k' = k + 1 /\ pc' = here ELSE k' = 0 /\ pc' = label

\* The loop over the connections: the next one at here, or out of it at label.
Advance(here, label) ==
  IF k < NumConn - 1 THEN k' = k + 1 /\ pc' = here ELSE k' = 0 /\ pc' = label
-----------------------------------------------------------------------------
(* The main thread: opening, starting, and the three parts of ServerSide_do. *)

\* The launched program found the file and its size; a file without a state
\* file (or an unsupported server) makes it choose another, new file name.
Open ==
  /\ pc = "open"
  /\ \/ Supported /\ st.exists /\ UNCHANGED <<diskVars, raced>>
     \/ /\ ~(Supported /\ st.exists)
        /\ file' = [p \in {} |-> 0] /\ st' = NoState /\ raced' = [i \in Conn |-> 0]
  /\ bytes_done' = st'.done
  /\ currentbyte' = st'.cur
  /\ pc' = "start"
  /\ NoFault /\ UNCHANGED <<k, ready, connVars, runs>>

\* A failed pthread_create leaves state at 1 with no thread, and its ready = -1
\* is overwritten at the end.
StartDownload ==
  /\ pc = "start"
  /\ LET wanted == {i \in Conn : currentbyte[i] <= Last(i)}
     IN \E failed \in {f \in SUBSET wanted : Cardinality(f) <= MaxFaults - faults} :
          /\ state' = [i \in Conn |-> IF i \in wanted THEN 1 ELSE 0]
          /\ thread' = [i \in Conn |-> IF i \in wanted \ failed THEN "setup" ELSE "none"]
          /\ faults' = faults + Cardinality(failed)
  /\ ready' = 0 /\ pc' = "do"
  /\ UNCHANGED <<k, bytes_done, currentbyte, enabled, dying, socket, pos, diskVars,
                 runs, raced>>

\* A call of ServerSide_do.  The call that rand() skips changes nothing, so it
\* is a stuttering step.
Do ==
  /\ pc = "do" /\ ready = 0
  /\ \/ pc' = "poll" /\ UNCHANGED st
     \/ Supported /\ pc' = "save" /\ st' = EmptyState
  /\ NoFault /\ UNCHANGED <<k, ready, bytes_done, currentbyte, connVars, file, runs,
                            raced>>

\* What save_state writes for connection i.
SavedAhead(i) == IF enabled[i] THEN currentbyte[i] + 1 ELSE currentbyte[i]
Saved(i) == currentbyte[i]

\* save_state writes one value at a time into the truncated file.
SaveField ==
  /\ pc \in {"save", "close"} /\ st.fields < Whole
  /\ st' = IF st.fields = 0
             THEN [st EXCEPT !.fields = 1, !.done = bytes_done]
             ELSE [st EXCEPT !.fields = @ + 1,
                             !.cur[st.fields - 1] = Saved(st.fields - 1)]
  /\ NoFault /\ UNCHANGED <<mainVars, connVars, file, runs, raced>>

SaveDone ==
  /\ pc = "save" /\ st.fields = Whole
  /\ pc' = "poll"
  /\ NoFault /\ UNCHANGED <<k, ready, bytes_done, currentbyte, connVars, diskVars,
                            runs, raced>>

-----------------------------------------------------------------------------
(* Handling connection k after select(). *)

\* Not enabled, or select() did not report it and it has not timed out.
PollIdle ==
  /\ pc = "poll"
  /\ Advance("poll", IF ready = 0 THEN "check" ELSE "do")
  /\ NoFault /\ UNCHANGED <<ready, bytes_done, currentbyte, connVars, diskVars, runs,
                            raced>>

Readable == pc = "poll" /\ enabled[k] /\ socket[k] # "closed"

DisconnectOnly(i) ==
  /\ enabled' = [enabled EXCEPT ![i] = FALSE]
  /\ UNCHANGED socket

\* conn_disconnect of an enabled connection.
Disconnect(i) ==
  /\ enabled' = [enabled EXCEPT ![i] = FALSE]
  /\ socket' = [socket EXCEPT ![i] = "closed"]

\* What the socket delivers next: the body from pos, or bytes of a reply header
\* (or of an error page) that are no byte of the remote file.
Junk == -1
Incoming(n) == IF socket[k] = "body" THEN [j \in 1 .. n |-> pos[k] + j - 1]
                                     ELSE [j \in 1 .. n |-> Junk]

\* The output file after the first w of these bytes are written at currentbyte.
StoredShort(data, w) ==
  LET target == currentbyte[k] .. currentbyte[k] + w - 2
  IN [p \in DOMAIN file \cup target |->
        IF p \in target THEN data[p - currentbyte[k] + 1] ELSE file[p]]

Stored(data, w) ==
  LET target == currentbyte[k] .. currentbyte[k] + w - 1
  IN [p \in DOMAIN file \cup target |->
        IF p \in target THEN data[p - currentbyte[k] + 1] ELSE file[p]]

\* What a read of n bytes of which w were written adds to bytes_done.
CountedAllRead(n, w) == bytes_done + n
Counted(n, w) == bytes_done + w

Remaining == Last(k) - currentbyte[k] + 1

\* n bytes were read.  More than remaining ends the connection, and only
\* remaining bytes are written.
PollData ==
  /\ Readable
  /\ \E n \in 1 .. BufferSize :
       LET w == IF Remaining < n THEN Remaining ELSE n
       IN /\ \/ /\ socket[k] = "body" /\ pos[k] + n <= ReplyEnd(k)
                /\ pos' = [pos EXCEPT ![k] = @ + n]
             \/ /\ socket[k] # "body"
                /\ UNCHANGED pos
          /\ \/ Remaining < n /\ Disconnect(k)
             \/ Remaining >= n /\ UNCHANGED <<enabled, socket>>
             \/ /\ Remaining >= n /\ socket[k] = "header" /\ UNCHANGED enabled
                /\ socket' = [socket EXCEPT ![k] = "body"]
          /\ file' = Stored(Incoming(n), w)
          /\ currentbyte' = [currentbyte EXCEPT ![k] = @ + w]
          /\ bytes_done' = Counted(n, w)
  /\ Advance("poll", IF ready = 0 THEN "check" ELSE "do")
  /\ NoFault /\ UNCHANGED <<ready, state, thread, dying, st, runs, raced>>

\* The server closed the connection: after the last byte it was asked for, or
\* early.  With an unsupported server that is the end of the download.
PollEnd ==
  /\ Readable
  /\ IF socket[k] = "body" /\ pos[k] <= Last(k) /\ pos[k] < Size THEN Fault ELSE NoFault
  /\ ready' = IF Supported THEN ready ELSE 1
  /\ Disconnect(k)
  /\ Advance("poll", IF ready' = 0 THEN "check" ELSE "do")
  /\ UNCHANGED <<bytes_done, currentbyte, state, thread, dying, pos, diskVars, runs,
                 raced>>

\* read() failed, or nothing arrived for connection_timeout.  An enabled
\* connection whose socket its setup thread closed can only time out.
PollLost ==
  /\ pc = "poll" /\ enabled[k]
  /\ IF socket[k] = "closed" THEN NoFault ELSE Fault
  /\ Disconnect(k)
  /\ Advance("poll", IF ready = 0 THEN "check" ELSE "do")
  /\ UNCHANGED <<ready, bytes_done, currentbyte, state, thread, dying, pos, diskVars,
                 runs, raced>>

\* select() failed, or write() did after storing fewer bytes than it was given.
PollFails ==
  /\ pc = "poll" /\ Fault
  /\ \/ UNCHANGED file
     \/ \E w \in 1 .. BufferSize - 1 :
          /\ Readable /\ w < Remaining
          /\ socket[k] = "body" => pos[k] + w < ReplyEnd(k)
          /\ file' = Stored(Incoming(w), w)
  /\ ready' = -1 /\ k' = 0 /\ pc' = "do"
  /\ UNCHANGED <<bytes_done, currentbyte, connVars, st, runs, raced>>

-----------------------------------------------------------------------------
(* conn_check: looking for aborted connections. *)

AbortedUnlessShort(i) == ~enabled[i] /\ currentbyte[i] < Last(i) - 1
Aborted(i) == ~enabled[i] /\ currentbyte[i] < Last(i)

\* The first half of the condition reads enabled, the byte range follows.
CheckEnabled ==
  /\ pc = "check"
  /\ IF Aborted(k)
       THEN pc' = "aborted" /\ UNCHANGED k
       ELSE Advance("check", "tally")
  /\ NoFault /\ UNCHANGED <<ready, bytes_done, currentbyte, connVars, diskVars, runs,
                            raced>>

\* state, and then what it calls for: a join, patience, or a cancellation.
CheckState ==
  /\ pc = "aborted"
  /\ \/ /\ state[k] = 0
        /\ pc' = "join"
        /\ NoFault /\ UNCHANGED <<k, state, dying, raced>>
     \/ /\ state[k] = 1
        /\ Advance("check", "tally")
        /\ NoFault /\ UNCHANGED <<state, dying, raced>>
     \/ /\ state[k] = 1 /\ thread[k] # "none" /\ SlowSetup
        /\ dying' = [dying EXCEPT ![k] = TRUE]
        /\ state' = [state EXCEPT ![k] = 0]
        /\ raced' = [raced EXCEPT ![k] = runs]
        /\ Advance("check", "tally")
        /\ Fault
  /\ UNCHANGED <<ready, bytes_done, currentbyte, enabled, thread, socket, pos,
                 diskVars, runs>>

\* reconnect_delay after a failed start: pthread_cancel of no thread at all.
CancelNothing ==
  /\ pc = "aborted" /\ state[k] = 1 /\ thread[k] = "none"
  /\ ProcessEnds(0)
  /\ NoFault /\ UNCHANGED <<diskVars, runs, raced>>

\* pthread_join, and a new setup thread.  Since enabled was read, the earlier
\* one may have set it.
Restart ==
  /\ pc = "join" /\ thread[k] = "done"
  /\ \/ /\ NoFault
        /\ thread' = [thread EXCEPT ![k] = "setup"]
        /\ UNCHANGED ready
     \/ /\ Fault
        /\ thread' = [thread EXCEPT ![k] = "none"]
        /\ ready' = -1
  /\ state' = [state EXCEPT ![k] = 1]
  /\ dying' = [dying EXCEPT ![k] = FALSE]
  /\ raced' = IF enabled[k] THEN [raced EXCEPT ![k] = runs] ELSE raced
  /\ Advance("check", "tally")
  /\ UNCHANGED <<bytes_done, currentbyte, enabled, socket, pos, diskVars, runs>>

AllButOne == bytes_done >= size - 1
AllDone   == bytes_done = size

Tally ==
  /\ pc = "tally" /\ pc' = "do"
  /\ ready' = IF AllDone THEN 1 ELSE ready
  /\ NoFault /\ UNCHANGED <<k, bytes_done, currentbyte, connVars, diskVars, runs,
                            raced>>
-----------------------------------------------------------------------------
(* The end of a run: ServerSide_close, or a kill. *)

Running(i) == thread[i] \notin {"none", "done"}

\* The download is over, or a signal made the loop stop.
Close ==
  /\ pc = "do" /\ (ready # 0 \/ runs < MaxRuns)
  /\ \/ /\ ready = 1
        /\ st' = NoState
        /\ ProcessEnds(ready)
     \/ /\ ready # 1 /\ bytes_done > 0 /\ Supported
        /\ st' = EmptyState
        /\ pc' = "close"
        /\ dying' = [i \in Conn |-> Running(i)]
        /\ UNCHANGED <<k, ready, bytes_done, currentbyte, enabled, state, thread,
                       socket, pos>>
     \/ /\ ready # 1 /\ ~(bytes_done > 0 /\ Supported)
        /\ ProcessEnds(ready)
        /\ UNCHANGED st
  /\ NoFault /\ UNCHANGED <<file, runs, raced>>

CloseDone ==
  /\ pc = "close" /\ st.fields = Whole
  /\ ProcessEnds(ready)
  /\ NoFault /\ UNCHANGED <<diskVars, runs, raced>>

Crash ==
  /\ pc \in CrashPoints /\ runs < MaxRuns
  /\ ProcessEnds(0)
  /\ NoFault /\ UNCHANGED <<diskVars, runs, raced>>

Relaunch ==
  /\ pc = "exit" /\ ready # 1 /\ runs < MaxRuns
  /\ pc' = "open" /\ ready' = 0 /\ runs' = runs + 1
  /\ NoFault /\ UNCHANGED <<k, bytes_done, currentbyte, connVars, diskVars, raced>>
-----------------------------------------------------------------------------
(* A setup thread.  Cancelled, it may still take any number of steps. *)

\* Without TornCheck nothing happens between the two reads of conn_check.
At(i, where) == thread[i] = where /\ (pc = "aborted" => TornCheck)

threadFrame == <<mainVars, diskVars, runs, raced>>

\* conn_setup, and the request http_exec sends: on a new socket the reply
\* starts at currentbyte, if the server can.  A socket that an earlier thread
\* left open is not opened again, and its server answers one request only.
Request(i) ==
  /\ At(i, "setup")
  /\ \/ /\ socket[i] = "closed" /\ NoFault
        /\ socket' = [socket EXCEPT ![i] = "header"]
        /\ pos' = [pos EXCEPT ![i] = IF Supported THEN currentbyte[i] ELSE 0]
        /\ thread' = [thread EXCEPT ![i] = "reply"]
     \/ /\ socket[i] = "closed" /\ Fault
        /\ thread' = [thread EXCEPT ![i] = "failed"]
        /\ UNCHANGED <<socket, pos>>
     \/ /\ socket[i] # "closed" /\ NoFault
        /\ thread' = [thread EXCEPT ![i] = "reply"]
        /\ UNCHANGED <<socket, pos>>
  /\ UNCHANGED <<threadFrame, enabled, state, dying>>

\* http_exec reads the reply up to an empty line and looks at its status.  No
\* byte to send is answered with an error status.
ReadHeader(i) ==
  /\ At(i, "reply") /\ socket[i] = "header"
  /\ \/ /\ pos[i] < Size /\ NoFault
        /\ thread' = [thread EXCEPT ![i] = "ok"]
        /\ socket' = [socket EXCEPT ![i] = "body"]
     \/ /\ IF pos[i] < Size THEN Fault ELSE NoFault
        /\ thread' = [thread EXCEPT ![i] = "failed"]
        /\ socket' = [socket EXCEPT ![i] = "error"]
  /\ UNCHANGED <<threadFrame, enabled, state, dying, pos>>

\* The socket is past its header: the thread eats body bytes until an empty
\* line (status is then the one of the earlier reply) or until the end.
ReadBody(i) ==
  /\ At(i, "reply") /\ socket[i] # "header"
  /\ \/ /\ socket[i] = "body"
        /\ \E n \in 1 .. Size :
             /\ pos[i] + n <= ReplyEnd(i)
             /\ pos' = [pos EXCEPT ![i] = @ + n]
             /\ \/ thread' = [thread EXCEPT ![i] = "ok"]
                \/ pos[i] + n = ReplyEnd(i) /\ thread' = [thread EXCEPT ![i] = "failed"]
     \/ /\ socket[i] # "body" \/ pos[i] >= ReplyEnd(i)
        /\ thread' = [thread EXCEPT ![i] = "failed"]
        /\ UNCHANGED pos
  /\ NoFault /\ UNCHANGED <<threadFrame, enabled, state, dying, socket>>

Enable(i) ==
  /\ At(i, "ok")
  /\ enabled' = [enabled EXCEPT ![i] = TRUE]
  /\ thread' = [thread EXCEPT ![i] = "clear"]
  /\ NoFault /\ UNCHANGED <<threadFrame, state, dying, socket, pos>>

GiveUp(i) ==
  /\ At(i, "failed")
  /\ socket' = [socket EXCEPT ![i] = "closed"]
  /\ thread' = [thread EXCEPT ![i] = "clear"]
  /\ NoFault /\ UNCHANGED <<threadFrame, enabled, state, dying, pos>>

ClearState(i) ==
  /\ At(i, "clear")
  /\ state' = [state EXCEPT ![i] = 0]
  /\ thread' = [thread EXCEPT ![i] = "done"]
  /\ NoFault /\ UNCHANGED <<threadFrame, enabled, dying, socket, pos>>

\* The asynchronous cancellation takes effect.
Die(i) ==
  /\ Running(i) /\ dying[i] /\ (pc = "aborted" => TornCheck)
  /\ thread' = [thread EXCEPT ![i] = "done"]
  /\ NoFault /\ UNCHANGED <<threadFrame, enabled, state, dying, socket, pos>>
-----------------------------------------------------------------------------
SetupThread(i) ==
  Request(i) \/ ReadHeader(i) \/ ReadBody(i) \/ Enable(i) \/ GiveUp(i)
    \/ ClearState(i) \/ Die(i)

MainThread ==
  \/ Open \/ StartDownload \/ Do \/ SaveField \/ SaveDone
  \/ PollIdle \/ PollData \/ PollEnd \/ PollLost \/ PollFails
  \/ CheckEnabled \/ CheckState \/ CancelNothing \/ Restart \/ Tally
  \/ Close \/ CloseDone

Next ==
  \/ MainThread
  \/ \E i \in Conn : SetupThread(i)
  \/ Crash
  \/ Relaunch

Spec == Init /\ [][Next]_vars

\* What is on connection i's socket eventually reaches the main thread.
Serve(i) == k = i /\ (PollData \/ (PollEnd /\ NoFault) \/ (PollLost /\ NoFault))

\* The scheduler runs both kinds of threads, the network delivers, and the user
\* starts the program again.  Failures, kills and slow setups are never owed.
FairSpec ==
  /\ Spec
  /\ WF_vars(MainThread /\ NoFault)
  /\ WF_vars(Relaunch)
  /\ SF_vars(CancelNothing)
  /\ \A i \in Conn : SF_vars(SetupThread(i) /\ NoFault) /\ SF_vars(Serve(i))
-----------------------------------------------------------------------------
(* Properties. *)

TypeOK ==
  /\ pc \in {"open", "start", "do", "save", "poll", "check", "aborted", "join",
             "tally", "close", "exit"}
  /\ k \in Conn /\ ready \in {-1, 0, 1}
  /\ bytes_done \in Int /\ currentbyte \in [Conn -> Int]
  /\ enabled \in [Conn -> BOOLEAN] /\ state \in [Conn -> {0, 1}]
  /\ thread \in [Conn -> {"none", "setup", "reply", "ok", "failed", "clear", "done"}]
  /\ dying \in [Conn -> BOOLEAN]
  /\ socket \in [Conn -> {"closed", "header", "body", "error"}]
  /\ pos \in [Conn -> Int]
  /\ DOMAIN file \subseteq Int /\ file = [p \in DOMAIN file |-> file[p]]
  /\ st \in StateFile
  /\ faults \in Nat /\ runs \in Nat \ {0} /\ raced \in [Conn -> Nat]

\* Progress lost in no run: what a connection has passed is in the file.
Claimed(cur) == \A i \in Conn : First(i) .. cur[i] - 1 \subseteq DOMAIN file

\* ServerSide_do writes at currentbyte before it advances it, and a resumed run
\* starts from the saved values: every position a connection has passed was
\* written, in this run or in an earlier one.
NothingSkipped == Claimed(currentbyte)

\* Whatever instant the program is killed at, even halfway through save_state,
\* the state file never claims a position the data file lacks.
StateFileHonest == st.exists => Claimed(st.cur)

Progress(cur) == LET gain[i \in -1 .. NumConn - 1] ==
                       IF i < 0 THEN 0 ELSE gain[i - 1] + (cur[i] - First(i))
                 IN gain[NumConn - 1]

\* bytes_done, which alone decides that the download is ready, is the sum of
\* what the connections have passed.
CountMatches == bytes_done = Progress(currentbyte)

\* A download that ends as ready left no gap: every byte of the remote file has
\* its position in the output file.
ReadyMeansWhole == ready = 1 => 0 .. Size - 1 \subseteq DOMAIN file

\* A byte at a position it does not belong to lies in the segment of a connection
\* that lost a race with its setup thread: what the two reads of conn_check and
\* the asynchronous cancellation let happen stays within that segment.
BytesInPlace ==
  \A p \in DOMAIN file :
    file[p] = p \/ \E i \in Conn : raced[i] > 0 /\ p \in First(i) .. Last(i)

\* Unless it lost such a race in this run, a connection's setup thread never
\* reads a reply header from a socket that is past it.
HeaderReadSparesData ==
  \A i \in Conn : thread[i] = "reply" /\ socket[i] = "body" => raced[i] = runs

\* An aborted connection, its setup thread over, with bytes still to fetch.
Lost(i) ==
  /\ pc \notin {"open", "start", "exit"}
  /\ ~enabled[i] /\ ~Running(i) /\ currentbyte[i] <= Last(i)

\* Left alone, the program ends: connections that fail are restarted until all
\* their bytes arrived, unless one was lost with one byte to go.
Finishes == <>[](pc = "exit" \/ \E i \in Conn : Lost(i) /\ currentbyte[i] = Last(i))
=============================================================================
