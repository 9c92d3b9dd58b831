--------------------------- MODULE TsunamiSession ---------------------------
(***************************************************************************)
(* The control connection of Tsunami: the commands of one client process    *)
(* (client/command.c, client/protocol.c), the child that the server forks   *)
(* for each connection (server/main.c, server/protocol.c) and the datagrams *)
(* the children send to the client's UDP port.                              *)
(*                                                                          *)
(* A message is a record of a kind and a value.  The reader of a            *)
(* fixed-length message blocks until it is whole, and read_line takes any   *)
(* bytes up to a zero or a newline: what a reader does with a message of    *)
(* another kind than it waits for follows from the lengths, and is modelled *)
(* where the code can meet it.  A datagram is known by the file its block   *)
(* is of; which block is sent when, and that the last one comes, is the     *)
(* subject of TsunamiTransfer.                                              *)
(***************************************************************************)
EXTENDS Integers, Sequences

CONSTANTS MaxSessions,   \* bound: connections
          Files,         \* names a user may ask for
          Exists,        \* the names fopen succeeds with at the server
          Listings,      \* what the server may list: the names on its command
                         \* line, or what the --allhook program prints
          AllHook,       \* may the server be started with --allhook, without
          Strays,        \* zero bytes in a request of 12 bytes read as lines
          Revisions,     \* revisions the client may be setup with
          Revision,      \* the server's
          MaxCommands,   \* bound: commands the user types
          MaxUnread,     \* bound: messages a client in the data loop leaves unread
          MaxKills,      \* bound: clients killed in a command
          Faults         \* kinds of failure that may happen

ASSUME SessionAssumption ==
    /\ MaxSessions \in Nat
    /\ Exists \subseteq Files
    /\ Listings \subseteq Seq(Files)
    /\ AllHook \subseteq BOOLEAN
    /\ "*" \notin Files /\ "!#DIR??" \notin Files
    /\ Strays \in Nat
    /\ {MaxCommands, MaxUnread, MaxKills} \subseteq Nat

Sessions == 1 .. MaxSessions

VARIABLES setup,     \* the client's PROTOCOL_REVISION; whether the server has
                     \* --allhook; what it may list: what the program prints,
                     \* or the one list of its command line
          pc,        \* what the client process does
          sess,      \* its session, 0 when the pointer is NULL
          want,      \* the file of the get under way
          queue,     \* the files a GET * has still to request
          got,       \* whose blocks are in the local file
          overtaken, \* the files of datagrams that were still in the air when
                     \* the reply to the get under way had arrived
          unflushed, \* sessions whose last message is in a stdio buffer still
          child,     \* what each server child does
          file,      \* the file each child has open
          listed,    \* the names a child answers a GET * with
          aimed,     \* the child sends to the client's UDP port
          up, down,  \* messages written to the child, to the client
          air,       \* datagrams on their way from the child
          closed,    \* the client's end of the connection is closed
          fault,     \* a failure has happened to the session
          commands, kills

client == <<setup, pc, sess, want, queue, got, overtaken, unflushed>>
server == <<child, file, listed, aimed>>
bounds == <<commands, kills>>
vars == <<client, server, up, down, air, closed, fault, bounds>>

None == "none"
ConnectSteps == {"revision", "challenge", "verdict"}
Reading == ConnectSteps \cup
           {"list", "count", "refusal", "names", "result", "reply"}

Msg(k, v) == [kind |-> k, value |-> v]
Line(v) == <<Msg("line", v)>>

Connected == sess # 0 /\ ~closed[sess]
Fresh == {s \in Sessions : child[s] = "none"}

Init ==
    /\ \E r \in Revisions, h \in AllHook :
          \E o \in IF h THEN {Listings} ELSE {{l} : l \in Listings} :
             setup = [revision |-> r, allhook |-> h, offers |-> o]
    /\ pc = "prompt" /\ sess = 0 /\ want = None /\ queue = <<>> /\ got = {}
    /\ overtaken = {} /\ unflushed = {}
    /\ child = [s \in Sessions |-> "none"]
    /\ file = [s \in Sessions |-> None]
    /\ listed = [s \in Sessions |-> <<>>]
    /\ aimed = [s \in Sessions |-> FALSE]
    /\ up = [s \in Sessions |-> <<>>]
    /\ down = [s \in Sessions |-> <<>>]
    /\ air = [s \in Sessions |-> {}]
    /\ closed = [s \in Sessions |-> FALSE]
    /\ fault = [s \in Sessions |-> FALSE]
    /\ commands = 0 /\ kills = 0

(***************************************************************************)
(* The client.  It reads from its session's connection only what has        *)
(* arrived.  Datagrams keep no order with it: one that was sent before a    *)
(* message may arrive after it.                                             *)
(*                                                                          *)
(* Whatever command follows first flushes the stream of its session (fread  *)
(* does, before it waits for an answer, and fclose); exit flushes all.      *)
(***************************************************************************)
Hears(k) == down[sess] # <<>> /\ Head(down[sess]).kind = k
Heard == Head(down[sess]).value
Take == down[sess] # <<>> /\ down' = [down EXCEPT ![sess] = Tail(@)]
Write(msgs) == up' = [up EXCEPT ![sess] = @ \o msgs]
Send(msgs) == Write(msgs) /\ unflushed' = unflushed \ {sess}
Trouble(s) == fault' = [fault EXCEPT ![s] = TRUE]

Type == /\ pc = "prompt" /\ commands < MaxCommands
        /\ commands' = commands + 1 /\ kills' = kills
KeepTransfer == UNCHANGED <<want, queue, got, overtaken>>
KeepClient == UNCHANGED <<setup, sess>> /\ KeepTransfer
\* the command returns; its transfer is of no use to the next (memset)
Return == pc' = "prompt" /\ want' = None /\ queue' = <<>> /\ got' = {}
          /\ overtaken' = {}
KeepNet == UNCHANGED <<air, closed, fault>>

\* command_connect: a session replaces the one there was, which stays open
Connect ==
    /\ Type
    /\ \E s \in Fresh :
          /\ \A t \in Fresh : s <= t
          /\ sess' = s /\ pc' = "revision"
          /\ child' = [child EXCEPT ![s] = "start"]
          /\ up' = [up EXCEPT ![s] = <<Msg("revision", setup.revision)>>]
    /\ UNCHANGED <<setup, unflushed, file, listed, aimed, down>>
    /\ KeepTransfer /\ KeepNet

\* (mutant) the session is marked as none with another number
ConnectRefusedMarked ==
    /\ Type /\ sess # 0 /\ sess' = -1
    /\ UNCHANGED <<setup, pc, unflushed, server, up, down>>
    /\ KeepTransfer /\ KeepNet

\* no server answers: the pointer to the old session is lost all the same
ConnectRefused ==
    /\ Type /\ sess # 0 /\ sess' = 0
    /\ UNCHANGED <<setup, pc, unflushed, server, up, down>>
    /\ KeepTransfer /\ KeepNet

\* fclose: what is unwritten is flushed, what is unread is discarded
Disconnect == /\ closed' = [closed EXCEPT ![sess] = TRUE]
              /\ down' = [down EXCEPT ![sess] = <<>>]
              /\ unflushed' = unflushed \ {sess}

CommandClose ==
    /\ Type /\ Connected /\ Disconnect
    /\ UNCHANGED <<pc, server, up, air, fault>> /\ KeepClient

\* command_connect gives the session up and returns NULL
ConnectFails == Disconnect /\ pc' = "prompt" /\ sess' = 0

Negotiate ==
    /\ pc = "revision" /\ Hears("revision")
    /\ \/ /\ Heard = setup.revision /\ Take
          /\ pc' = "challenge" /\ UNCHANGED <<sess, closed, unflushed>>
       \/ /\ Heard # setup.revision /\ ConnectFails
    /\ KeepTransfer /\ UNCHANGED <<setup, server, up, air, fault, bounds>>

\* the passphrase is the server's or another
Authenticate ==
    /\ pc = "challenge" /\ Hears("challenge") /\ Take
    /\ \E good \in BOOLEAN : Send(<<Msg("digest", good)>>)
    /\ pc' = "verdict"
    /\ UNCHANGED <<server, bounds>> /\ KeepClient /\ KeepNet

Verdict ==
    /\ pc = "verdict"
    /\ \/ /\ Hears("ok") /\ Take
          /\ pc' = "prompt" /\ UNCHANGED <<sess, closed, unflushed>>
       \/ /\ Hears("fail") /\ ConnectFails
    /\ KeepTransfer /\ UNCHANGED <<setup, server, up, air, fault, bounds>>

\* command_dir
CommandDir ==
    /\ Type /\ Connected /\ Send(Line("!#DIR??")) /\ pc' = "list"
    /\ UNCHANGED <<server, down>> /\ KeepClient /\ KeepNet

\* (mutant) no byte is sent to confirm the list
ReadListSilent ==
    /\ pc = "list" /\ Take /\ pc' = "prompt"
    /\ Hears("list") \/ Hears("fail")
    /\ UNCHANGED <<unflushed, server, up, bounds>> /\ KeepClient /\ KeepNet

\* fwrite without fflush: the byte stays in the buffer, and the child waits
ReadList ==
    /\ pc = "list" /\ Take /\ pc' = "prompt"
    /\ \/ /\ Hears("list") /\ Write(<<Msg("ack", None)>>)
          /\ unflushed' = unflushed \cup {sess}
       \/ Hears("fail") /\ UNCHANGED <<up, unflushed>>
    /\ UNCHANGED <<server, bounds>> /\ KeepClient /\ KeepNet

\* command_get: a file is requested and its result byte awaited
Request(f, rest, before) ==
    /\ Send(before \o Line(f)) /\ pc' = "result"
    /\ want' = f /\ queue' = rest /\ got' = {} /\ overtaken' = {}
    /\ UNCHANGED <<setup, sess, server>> /\ KeepNet

CommandGet ==
    /\ Type /\ Connected
    /\ \E f \in Files : Request(f, <<>>, <<>>)
    /\ UNCHANGED down

CommandGetAll ==
    /\ Type /\ Connected /\ Send(Line("*")) /\ pc' = "count"
    /\ UNCHANGED <<server, down>> /\ KeepClient /\ KeepNet

ReadCount ==
    /\ pc = "count" /\ Hears("count") /\ Take
    /\ Send(<<Msg("gotSize", None)>>)
    /\ pc' = IF Heard = 0 THEN "refusal" ELSE "names"
    /\ UNCHANGED <<server, bounds>> /\ KeepClient /\ KeepNet

\* "get the \x008 failure signal"
ReadRefusal ==
    /\ pc = "refusal" /\ Hears("fail") /\ Take /\ pc' = "prompt"
    /\ UNCHANGED <<unflushed, server, up, bounds>> /\ KeepClient /\ KeepNet

ReadNames ==
    /\ pc = "names" /\ Hears("names") /\ Take
    /\ Request(Head(Heard), Tail(Heard), <<Msg("gotList", None)>>)
    /\ UNCHANGED bounds

\* ttp_open_transfer, to the parameters
ReadResult ==
    /\ pc = "result" /\ Take
    /\ \/ /\ Hears("ok") /\ Send(<<Msg("param", None)>>) /\ pc' = "reply"
          /\ KeepTransfer
       \/ Hears("fail") /\ Return /\ UNCHANGED <<up, unflushed>>
    /\ UNCHANGED <<setup, sess, server, bounds>> /\ KeepNet

\* the end of ttp_open_transfer, and ttp_open_port: the local file or the
\* UDP socket may fail, and the server is not told
ReadReply ==
    /\ pc = "reply" /\ Hears("reply") /\ Take
    /\ \/ /\ Send(<<Msg("port", None)>>) /\ pc' = "data"
          /\ overtaken' = air[sess] /\ UNCHANGED <<want, queue, got, fault>>
       \/ /\ "local" \in Faults /\ Trouble(sess) /\ Return
          /\ UNCHANGED <<up, unflushed>>
    /\ UNCHANGED <<setup, sess, server, air, closed, bounds>>

\* ttp_repeat_retransmit, ttp_update_stats
Feedback == /\ up[sess] = <<>> /\ Len(down[sess]) < MaxUnread
            /\ Send(<<Msg("feedback", None)>>)

\* (mutant) the socket is open from the request of the file on
ReceiveBlockEarly(s, f) ==
    /\ pc \in {"result", "reply", "data"} /\ f \in air[s]
    /\ air' = [air EXCEPT ![s] = @ \ {f}]
    /\ got' = got \cup {[file |-> f, from |-> s]}
    /\ UNCHANGED <<setup, sess, want, queue, overtaken, server, down, closed, fault,
                   bounds>>

\* a datagram reaches the open UDP socket, whichever child sent it; with the
\* last block the socket is closed and the server told to stop
ReceiveBlock(s, f) ==
    /\ pc = "data" /\ f \in air[s]
    /\ air' = [air EXCEPT ![s] = @ \ {f}]
    /\ got' = got \cup {[file |-> f, from |-> s]}
    /\ UNCHANGED <<setup, sess, want, queue, overtaken, server, down, closed, fault,
                   bounds>>

\* (mutant) the loop goes on after the stop request
LastBlockGoesOn(s, f) ==
    ReceiveBlock(s, f) /\ Send(<<Msg("stop", None)>>) /\ UNCHANGED pc

LastBlock(s, f) ==
    ReceiveBlock(s, f) /\ Send(<<Msg("stop", None)>>) /\ pc' = "next"

EarlierBlock(s, f) ==
    ReceiveBlock(s, f) /\ (UNCHANGED <<up, unflushed>> \/ Feedback) /\ UNCHANGED pc

\* the abort label: no stop request is sent
Abort ==
    /\ pc = "data" /\ "abort" \in Faults /\ Trouble(sess) /\ Return
    /\ UNCHANGED <<setup, sess, unflushed, server, up, down, air, closed, bounds>>

NextFile ==
    /\ pc = "next"
    /\ \/ /\ queue = <<>> /\ Return
          /\ UNCHANGED <<setup, sess, unflushed, server, up>> /\ KeepNet
       \/ /\ queue # <<>> /\ Request(Head(queue), Tail(queue), <<>>)
    /\ UNCHANGED <<down, bounds>>

\* fread finds the end of the stream: the command returns
EndOfStream ==
    /\ pc \in Reading
    /\ child[sess] = "ended" /\ down[sess] = <<>>
    /\ IF pc \in ConnectSteps THEN ConnectFails /\ KeepTransfer
       ELSE Return /\ UNCHANGED <<sess, unflushed, closed, down>>
    /\ UNCHANGED <<setup, server, up, air, fault, bounds>>

\* the process ends, and the user starts another
Restart ==
    /\ closed' = [s \in Sessions |-> closed[s] \/ child[s] # "none"]
    /\ down' = [s \in Sessions |-> <<>>]
    /\ sess' = 0 /\ Return /\ unflushed' = {}
    /\ UNCHANGED <<setup, server, air>>

CommandQuit == Type /\ Restart /\ UNCHANGED <<up, fault>>

WithoutLast(q) == SubSeq(q, 1, Len(q) - 1)

\* a kill flushes nothing
Killed == /\ pc # "prompt" \/ unflushed # {}
          /\ kills < MaxKills
          /\ kills' = kills + 1 /\ commands' = commands
          /\ up' = [s \in Sessions |-> IF s \in unflushed THEN WithoutLast(up[s])
                                                       ELSE up[s]]
          /\ fault' = [s \in Sessions |-> fault[s] \/ s \in unflushed \/ s = sess]
          /\ Restart

(***************************************************************************)
(* A server child.                                                          *)
(***************************************************************************)
Arrived(s) == up[s] # <<>> /\ (s \in unflushed => Len(up[s]) > 1)
Gets(s, k) == Arrived(s) /\ Head(up[s]).kind = k
Asked(s) == Head(up[s]).value
Answer(s, msgs) == IF closed[s] THEN UNCHANGED down
                   ELSE down' = [down EXCEPT ![s] = @ \o msgs]
Becomes(s, c) == child' = [child EXCEPT ![s] = c]
Consume(s) == up' = [up EXCEPT ![s] = Tail(@)]
ChildStep == UNCHANGED <<client, closed, bounds>>
Talks == ChildStep /\ UNCHANGED <<listed, aimed, air, fault>>
\* the end of the data loop: the file is closed and the transfer cleared
Finish(s) == /\ Becomes(s, "line") /\ file' = [file EXCEPT ![s] = None]
             /\ aimed' = [aimed EXCEPT ![s] = FALSE]

Greet(s) ==
    /\ child[s] = "start" /\ Becomes(s, "revision")
    /\ Answer(s, <<Msg("revision", Revision)>>)
    /\ Talks /\ UNCHANGED <<file, up>>

CheckRevision(s) ==
    /\ child[s] = "revision" /\ Gets(s, "revision") /\ Consume(s)
    /\ \/ /\ Asked(s) = Revision /\ Becomes(s, "digest")
          /\ Answer(s, <<Msg("challenge", None)>>)
       \/ /\ Asked(s) # Revision /\ Becomes(s, "ended") /\ UNCHANGED down
    /\ Talks /\ UNCHANGED file

CheckDigest(s) ==
    /\ child[s] = "digest" /\ Gets(s, "digest") /\ Consume(s)
    /\ \/ /\ Asked(s) /\ Becomes(s, "line") /\ Answer(s, <<Msg("ok", None)>>)
       \/ /\ ~Asked(s) /\ Becomes(s, "ended") /\ Answer(s, <<Msg("fail", None)>>)
    /\ Talks /\ UNCHANGED file

\* the end of ttp_open_transfer up to the result byte
OpenFile(s, f) ==
    \/ /\ f \in Exists /\ Becomes(s, "param")
       /\ Answer(s, <<Msg("ok", None)>>) /\ file' = [file EXCEPT ![s] = f]
    \/ /\ f \notin Exists /\ Becomes(s, "line")
       /\ Answer(s, <<Msg("fail", None)>>) /\ UNCHANGED file

ReadFilename(s) ==
    /\ child[s] = "line" /\ Gets(s, "line") /\ Asked(s) \in Files /\ Consume(s)
    /\ OpenFile(s, Asked(s)) /\ Talks

SendList(s) ==
    /\ child[s] = "line" /\ Gets(s, "line") /\ Asked(s) = "!#DIR??" /\ Consume(s)
    /\ Answer(s, <<Msg("list", None)>>) /\ Becomes(s, "ack")
    /\ Talks /\ UNCHANGED file

ReadAck(s) ==
    /\ child[s] = "ack" /\ Gets(s, "ack") /\ Consume(s) /\ Becomes(s, "line")
    /\ Talks /\ UNCHANGED <<file, down>>

SendCount(s) ==
    /\ child[s] = "line" /\ Gets(s, "line") /\ Asked(s) = "*" /\ Consume(s)
    /\ \E l \in setup.offers :
          /\ listed' = [listed EXCEPT ![s] = l]
          /\ Answer(s, <<Msg("count", Len(l))>>)
    /\ Becomes(s, "gotSize")
    /\ ChildStep /\ UNCHANGED <<file, aimed, air, fault>>

\* (mutant) with no names the server waits for the client's answer always
ReadGotSizeAlways(s) ==
    /\ child[s] = "gotSize" /\ Gets(s, "gotSize") /\ Consume(s)
    /\ Answer(s, IF listed[s] = <<>> THEN <<>> ELSE <<Msg("names", listed[s])>>)
    /\ Becomes(s, "gotList") /\ UNCHANGED file
    /\ Talks

\* with --allhook and no names the request is still for the file "*"
ReadGotSize(s) ==
    /\ child[s] = "gotSize" /\ Gets(s, "gotSize") /\ Consume(s)
    /\ \/ /\ setup.allhook /\ listed[s] = <<>> /\ OpenFile(s, "*")
       \/ /\ ~setup.allhook \/ listed[s] # <<>>
          /\ Answer(s, IF listed[s] = <<>> THEN <<>>
                       ELSE <<Msg("names", listed[s])>>)
          /\ Becomes(s, "gotList") /\ UNCHANGED file
    /\ Talks

ReadGotList(s) ==
    /\ child[s] = "gotList" /\ Gets(s, "gotList") /\ Consume(s)
    /\ Becomes(s, "name") /\ listed' = [listed EXCEPT ![s] = <<>>]
    /\ ChildStep /\ UNCHANGED <<file, aimed, down, air, fault>>

\* the read_line after a list: "*" and the DIR name have no meaning here
ReadListed(s) ==
    /\ child[s] = "name" /\ Gets(s, "line") /\ Consume(s)
    /\ OpenFile(s, Asked(s)) /\ Talks

\* read_line meets a request of the data loop: each zero byte ends a line,
\* and each line names a file that does not exist
ReadStray(s) ==
    /\ child[s] \in {"line", "name"}
    /\ Gets(s, "stop") \/ Gets(s, "feedback")
    /\ Consume(s) /\ Becomes(s, "line")
    /\ Answer(s, [i \in 1 .. Strays |-> Msg("fail", None)])
    /\ Talks /\ UNCHANGED file

ReadParameters(s) ==
    /\ child[s] = "param" /\ Gets(s, "param") /\ Consume(s)
    /\ Answer(s, <<Msg("reply", file[s])>>) /\ Becomes(s, "port")
    /\ Talks /\ UNCHANGED file

\* ttp_open_port: two bytes of anything are a port
OpenPort(s) ==
    /\ child[s] = "port"
    /\ Gets(s, "port") \/ Gets(s, "line")
    /\ Consume(s)
    /\ \/ /\ aimed' = [aimed EXCEPT ![s] = Gets(s, "port")]
          /\ Becomes(s, "data") /\ UNCHANGED fault
       \/ /\ "socket" \in Faults /\ Trouble(s)
          /\ Becomes(s, "line") /\ UNCHANGED aimed
    /\ ChildStep /\ UNCHANGED <<file, listed, down, air>>

SendBlock(s) ==
    /\ child[s] = "data" /\ aimed[s] /\ ~Arrived(s)
    /\ air' = [air EXCEPT ![s] = @ \cup {file[s]}]
    /\ ChildStep /\ UNCHANGED <<server, up, down, fault>>

\* the read of the data loop; a request it cannot make out is ignored
ReadRequest(s) ==
    /\ child[s] = "data" /\ Arrived(s) /\ Consume(s)
    /\ \/ Gets(s, "stop") /\ Finish(s)
       \/ ~Gets(s, "stop") /\ UNCHANGED <<child, file, aimed>>
    /\ ChildStep /\ UNCHANGED <<listed, down, air, fault>>

\* no feedback for hb_timeout seconds: back to waiting for a file name
HeartbeatTimeout(s) ==
    /\ child[s] = "data"
    /\ "heartbeat" \in Faults \/ closed[s]
    /\ Finish(s) /\ Trouble(s)
    /\ ChildStep /\ UNCHANGED <<listed, up, down, air>>

\* build_datagram cannot read the file: the child exits
ReadFails(s) ==
    /\ child[s] = "data" /\ "disk" \in Faults
    /\ Becomes(s, "ended") /\ Trouble(s)
    /\ ChildStep /\ UNCHANGED <<file, listed, aimed, up, down, air>>

Awaited == [revision |-> {"revision"}, digest |-> {"digest"}, ack |-> {"ack"},
            gotSize |-> {"gotSize"}, gotList |-> {"gotList"},
            param |-> {"param"}, port |-> {"port", "line"}]

\* (mutant) a failed read_line is an empty name
SeeEndOfData(s) ==
    /\ closed[s]
    /\ \/ /\ child[s] = "data" /\ up[s] = <<>>
          /\ Becomes(s, "ended")
       \/ /\ child[s] \in DOMAIN Awaited
          /\ up[s] # <<>> => Head(up[s]).kind \notin Awaited[child[s]]
          /\ \E c \in {"spin", "ended"} : Becomes(s, c)
    /\ Talks /\ UNCHANGED <<file, up, down>>

\* the connection's end: read_line fails and the child exits; the data loop
\* exits unless errno is still EAGAIN from an earlier read; full_read asks
\* again for ever, or returns short when the connection was reset
SeeEnd(s) ==
    /\ closed[s]
    /\ \/ /\ child[s] \in {"line", "name", "data"} /\ up[s] = <<>>
          /\ Becomes(s, "ended")
       \/ /\ child[s] \in DOMAIN Awaited
          /\ up[s] # <<>> => Head(up[s]).kind \notin Awaited[child[s]]
          /\ \E c \in {"spin", "ended"} : Becomes(s, c)
    /\ Talks /\ UNCHANGED <<file, up, down>>

\* the network loses a datagram, or the host finds no socket for it
LoseDatagram(s, f) ==
    /\ f \in air[s] /\ air' = [air EXCEPT ![s] = @ \ {f}]
    /\ UNCHANGED <<client, server, up, down, closed, fault, bounds>>

-----------------------------------------------------------------------------
Commands == \/ Connect \/ ConnectRefused \/ CommandClose \/ CommandDir
            \/ CommandGet \/ CommandGetAll \/ CommandQuit
Replies == \/ Negotiate \/ Authenticate \/ Verdict \/ ReadList \/ ReadCount
           \/ ReadRefusal \/ ReadNames \/ ReadResult \/ ReadReply
           \/ NextFile \/ EndOfStream
Serve(s) == \/ Greet(s) \/ CheckRevision(s) \/ CheckDigest(s)
            \/ ReadFilename(s) \/ SendList(s) \/ ReadAck(s) \/ SendCount(s)
            \/ ReadGotSize(s) \/ ReadGotList(s) \/ ReadListed(s)
            \/ ReadStray(s) \/ ReadParameters(s) \/ OpenPort(s)
            \/ ReadRequest(s)

Next ==
    \/ Commands \/ Replies \/ Abort \/ Killed
    \/ \E s \in Sessions :
          \/ Serve(s) \/ SendBlock(s)
          \/ HeartbeatTimeout(s) \/ ReadFails(s) \/ SeeEnd(s)
          \/ \E f \in Files :
                LastBlock(s, f) \/ EarlierBlock(s, f) \/ LoseDatagram(s, f)

Spec == Init /\ [][Next]_vars

-----------------------------------------------------------------------------
(***************************************************************************)
(* Fairness: the processes run; a datagram for which there is no socket is  *)
(* gone in the end; the server sends the blocks again while it is asked to, *)
(* and the last one missing arrives in the end (TsunamiTransfer's Ends);    *)
(* the heartbeat timer runs out at a child whose client has left.           *)
(***************************************************************************)
FairSpec ==
    /\ Spec /\ WF_vars(Replies)
    /\ \A s \in Sessions :
          /\ WF_vars(Serve(s)) /\ WF_vars(SeeEnd(s))
          /\ WF_vars(closed[s] /\ HeartbeatTimeout(s))
          /\ WF_vars(pc # "data" /\ \E f \in Files : LoseDatagram(s, f))
          /\ SF_vars(SendBlock(s)) /\ SF_vars(\E f \in Files : LastBlock(s, f))

(***************************************************************************)
(* Properties.                                                              *)
(***************************************************************************)
ChildStates == {"none", "start", "line", "name", "data", "ended", "spin"}
               \cup DOMAIN Awaited
Kinds == {"revision", "challenge", "digest", "ok", "fail", "list", "ack",
          "count", "gotSize", "names", "gotList", "line", "param", "reply",
          "port", "stop", "feedback"}

\* The variables have their types.
TypeOK ==
    /\ pc \in Reading \cup {"prompt", "data", "next"}
    /\ sess \in Sessions \cup {0}
    /\ want \in Files \cup {None} /\ queue \in Seq(Files)
    /\ got \subseteq [file : Files, from : Sessions] /\ overtaken \subseteq Files
    /\ unflushed \subseteq Sessions
    /\ child \in [Sessions -> ChildStates]
    /\ file \in [Sessions -> Files \cup {None}]
    /\ listed \in [Sessions -> Seq(Files)]
    /\ aimed \in [Sessions -> BOOLEAN]
    /\ \A s \in Sessions : \A i \in 1 .. Len(up[s]) : up[s][i].kind \in Kinds
    /\ \A s \in Sessions : \A i \in 1 .. Len(down[s]) : down[s][i].kind \in Kinds
    /\ air \in [Sessions -> SUBSET Files]
    /\ closed \in [Sessions -> BOOLEAN] /\ fault \in [Sessions -> BOOLEAN]

ChildHandles ==
    [start |-> {"revision"}, revision |-> {"revision"}, digest |-> {"digest"},
     line |-> {"line"}, name |-> {"line"}, ack |-> {"ack"},
     gotSize |-> {"gotSize"}, gotList |-> {"gotList"}, param |-> {"param"},
     port |-> {"port"}, data |-> {"stop", "feedback"}]
ClientHandles ==
    [revision |-> {"revision"}, challenge |-> {"challenge"},
     verdict |-> {"ok", "fail"}, list |-> {"list"}, count |-> {"count"},
     refusal |-> {"fail"}, names |-> {"names"}, result |-> {"ok", "fail"},
     reply |-> {"reply"}]

\* Client and child never fall out of step while nothing fails: what a reader
\* finds on the connection is the message it waits for, a port is never read
\* out of a command, and nothing is left over when a command returns
\* (full_read and read_line take any bytes).
InStep ==
    \A s \in Sessions : ~fault[s] =>
        /\ up[s] # <<>> => /\ child[s] \in DOMAIN ChildHandles
                           /\ Head(up[s]).kind \in ChildHandles[child[s]]
        /\ s = sess /\ down[s] # <<>> =>
              pc \in DOMAIN ClientHandles /\ Head(down[s]).kind \in ClientHandles[pc]

\* While the client takes datagrams its child serves the file that was asked
\* for and sends it to the client's port, unless something has failed.
ServesTheWanted ==
    pc = "data" /\ ~fault[sess] =>
        /\ child[sess] \in {"port", "data"} /\ file[sess] = want
        /\ child[sess] = "data" => aimed[sess]

\* Datagrams carry no name.  A session puts a block of an earlier file into a
\* later one only if that block was still in the air when the later file's reply
\* had arrived, overtaken by it: the socket is closed before the stop request
\* and opened only after the reply.
NoLateBlock ==
    pc \in {"data", "next"} =>
        \A b \in got : b.from = sess => b.file \in {want} \cup overtaken

\* Without --allhook a server with nothing to list waits for the confirmation of
\* the list, and the client for the failure: neither will ever come.
EachWaits(s) == ~setup.allhook /\ pc = "refusal" /\ child[s] = "gotList"

\* A command returns, unless something fails in its session or it is the GET * of
\* a server that has no files and no --allhook.
CommandsReturn ==
    \A s \in Sessions :
        (sess = s /\ pc # "prompt") ~> (pc = "prompt" \/ fault[s] \/ EachWaits(s))

\* The child of a client that has closed its connection ends; one that asks
\* full_read for more of a message for ever is left only by a failure.
ChildEnds ==
    \A s \in Sessions :
        closed[s] ~> (child[s] = "ended" \/ (fault[s] /\ child[s] = "spin"))

\* "If no heartbeat is received within the hbtimeout time, the connection is
\* closed" (USAGE.txt): a child leaves the data loop for another file only
\* when told to stop.
SilentClientIsDropped ==
    [][\A s \in Sessions :
          child[s] = "data" /\ child'[s] = "line" => Gets(s, "stop")]_vars

\* "If an EOF of the TCP connection is encountered, the connection is closed
\* immediately without timeout checks" (USAGE.txt): nothing is sent after it.
EndOfFileStopsSending ==
    [][\A s \in Sessions :
          closed[s] /\ up[s] = <<>> => air'[s] \subseteq air[s]]_vars
=============================================================================
