---------------------------- MODULE FtpDialogue ----------------------------
(***************************************************************************)
(* One FTP connection of final/client/ServerSide: the commands and replies   *)
(* of ftp.c and conn.c between a setup thread and a server, the main thread  *)
(* that cancels a slow setup and starts another one on what it left behind,  *)
(* and the bytes that come over the data connection.                        *)
(*                                                                         *)
(* A reply does not name its command: the client takes the next one that    *)
(* comes as the answer to the last command it sent.                         *)
(***************************************************************************)
EXTENDS Integers, Sequences

CONSTANTS Size,        \* bytes the connection has to fetch
          MaxRedir,    \* MAX_REDIR
          MaxFaults    \* bound on cancelled threads and lost connections

VARIABLES info,        \* conn_info: "asking", then "done" or "failed"
          pc, verb,    \* where the thread is, in which command
          dying,       \* pthread_cancel has been called on it
          strayed,     \* on this connection one was killed between two answers
          main,        \* what the main thread does about this connection
          state, enabled, currentbyte,   \* fields of conn
          fd, data_fd, \* their descriptors are positive: of the control connection,
                       \* of the data connection (its port)
          status,      \* code of the last reply that was parsed
          redir,       \* links ftp_size may still follow
          up, down,    \* commands and replies on their way
          server, faults

client == <<pc, verb, status>>
conn == <<state, enabled, currentbyte>>
wire == <<fd, data_fd, strayed, up, down, server>>
vars == <<info, client, dying, main, conn, redir, wire, faults>>

Codes == {150, 200, 227, 331, 350, 425, 502, 550}
Class(c) == c \div 100
Command(v, n) == [verb |-> v, at |-> n]

\* The server's end of the connections, Closed when the client has closed both.
\* rest is the position a RETR starts at, sends the one of the next byte on the
\* data connection made to the port called on
NewServer == [open |-> TRUE, user |-> "new", dir |-> FALSE, rest |-> 0,
              port |-> 0, sends |-> 0, on |-> 0]
Closed == [NewServer EXCEPT !.open = FALSE]

\* connection 0 asks for the file's size first, the others are set up at once
Init ==
    /\ \/ info = "asking" /\ state = 0
       \/ info = "done" /\ state = 1
    /\ pc = "setup" /\ verb = "greeting" /\ dying = FALSE /\ main = "free"
    /\ enabled = FALSE /\ currentbyte \in 0 .. Size - 1
    /\ fd = FALSE /\ strayed = FALSE /\ data_fd = 0 /\ status = 0 /\ redir = MaxRedir
    /\ up = <<>> /\ down = <<>> /\ server = Closed /\ faults = 0

Say(v) == pc' = "say" /\ verb' = v
Fail == pc' = "fail" /\ UNCHANGED verb
\* ftp_disconnect closes the descriptors, and then marks them as closed
CloseBoth == up' = <<>> /\ down' = <<>> /\ strayed' = FALSE /\ server' = Closed
Mark == fd' = FALSE /\ data_fd' = 0

(***************************************************************************)
(* conn_setup, conn_init, ftp_connect and ftp_data, up to the first write.   *)
(***************************************************************************)
Setup ==
    /\ pc = "setup"
    /\ \/ /\ ~fd /\ fd' = TRUE /\ server' = NewServer
          /\ up' = <<Command("greeting", 0)>> /\ pc' = "hear" /\ verb' = "greeting"
          /\ UNCHANGED <<data_fd, strayed, down>>
       \/ ~fd /\ Fail /\ UNCHANGED wire                   \* tcp_connect fails
       \/ fd /\ pc' = "data" /\ UNCHANGED <<verb, wire>>   \* for one that is open
    /\ UNCHANGED <<info, dying, main, conn, redir, status, faults>>

\* ftp_data: a data connection that is there already makes it fail
OpenData ==
    /\ pc = "data"
    /\ IF data_fd = 0 THEN Say("PASV") ELSE Fail
    /\ UNCHANGED <<info, dying, main, conn, redir, status, wire, faults>>

\* ftp_command; only the caller that sends RETR looks at its result
Write ==
    /\ pc = "say"
    /\ LET n == CASE verb = "REST" -> currentbyte [] verb = "REST1" -> 1 [] OTHER -> 0
       IN  IF server.open THEN up' = Append(up, Command(verb, n)) ELSE up' = up
    /\ IF ~server.open /\ verb = "RETR" THEN Fail
                                        ELSE pc' = "hear" /\ UNCHANGED verb
    /\ UNCHANGED <<info, dying, main, conn, redir, status, fd, data_fd, strayed,
                   down, server, faults>>

AcceptedEndlessly(r, s) ==
    CASE verb = "USER" -> Class(r) = 2 \/ Class(s) = 3
      [] verb = "REST" -> Class(r) = 3 \/ Class(s) = 2
      [] verb \in {"RETR", "LIST"} -> Class(r) = 1
      [] verb \in {"REST1", "REST0"} -> TRUE
      [] verb = "SIZE" -> Class(r) = 2 \/ s \div 10 = 50
      [] OTHER -> Class(r) = 2

\* does the caller of ftp_wait go on, when it returned r and left s in status
Accepted(r, s) ==
    CASE verb = "USER" -> Class(r) = 2 \/ Class(s) = 3
      [] verb = "REST" -> Class(r) = 3 \/ Class(s) = 2
      [] verb \in {"RETR", "LIST"} -> Class(r) = 1
      [] verb \in {"REST1", "REST0"} -> TRUE
      [] verb = "SIZE" -> Class(r) = 2 \/ (s \div 10 = 50 /\ redir > 0)
      [] OTHER -> Class(r) = 2

Following == [greeting |-> "USER", PASS |-> "TYPE", TYPE |-> "CWD", REST |-> "RETR"]

\* the next command of the dialogue
Continue(r, s) ==
    CASE verb \in DOMAIN Following -> Say(Following[verb])
      [] verb = "USER" -> Say(IF Class(r) = 2 THEN "TYPE" ELSE "PASS")
      [] verb = "CWD" -> Say(IF info = "asking" THEN "REST1" ELSE "PASV")
      [] verb = "REST1" -> Say(IF Class(r) = 3 \/ Class(s) = 2 THEN "REST0" ELSE "SIZE")
      [] verb = "REST0" -> \/ Say("SIZE") \/ Say("PASV")      \* a wildcard
      [] verb = "SIZE" -> IF Class(r) = 2 THEN pc' = "known" /\ UNCHANGED verb
                                          ELSE Say("PASV")
      [] verb = "LIST" -> pc' = "listing" /\ UNCHANGED verb
      [] verb = "226" -> \/ pc' = "known" /\ UNCHANGED verb    \* one file
                         \/ Fail                               \* none, or several
                         \/ Say("SIZE")                         \* a link
      [] verb = "RETR" -> pc' = "enable" /\ UNCHANGED verb

\* ftp_data with the ports p of the reply it took: the connection may be refused
DataConnect(p) ==
    \/ Fail /\ UNCHANGED data_fd
    \/ /\ p # 0 /\ data_fd' = p
       /\ Say(IF info = "asking" THEN "LIST" ELSE IF currentbyte > 0 THEN "REST" ELSE "RETR")

Conclude(r, s, p) ==
    /\ status' = s
    /\ IF ~Accepted(r, s) THEN Fail /\ UNCHANGED data_fd
       ELSE IF verb = "PASV" THEN DataConnect(p)
       ELSE Continue(r, s) /\ UNCHANGED data_fd
    /\ redir' = IF verb' = "SIZE" /\ verb = "226" THEN redir - 1 ELSE redir

(***************************************************************************)
(* ftp_wait.  What is left of a reply that an earlier thread began to read   *)
(* has no code: status keeps its value, and the reply ends with that line or *)
(* with a later one that has this code.  Only the first line is kept.       *)
(***************************************************************************)
Hear ==
    /\ pc = "hear" /\ down # <<>> /\ Head(down).whole
    /\ down' = Tail(down)
    /\ Conclude(Head(down).code, Head(down).code, Head(down).port)
    /\ UNCHANGED <<info, dying, main, strayed, conn, fd, up, server, faults>>

HearRest ==
    /\ pc = "hear" /\ down # <<>> /\ ~Head(down).whole
    /\ \E n \in DOMAIN down : /\ n > 1 => down[n].code = status
                              /\ down' = SubSeq(down, n + 1, Len(down))
    /\ \E p \in {0, Head(down).port} : Conclude(status, status, p)
    /\ UNCHANGED <<info, dying, main, strayed, conn, fd, up, server, faults>>

HearGone ==
    /\ pc = "hear" /\ down = <<>> /\ ~server.open /\ Conclude(-1, status, 0)
    /\ UNCHANGED <<info, dying, main, strayed, conn, fd, up, down, server, faults>>

\* ftp_size reads the listing to its end and closes the data connection
ReadListing ==
    /\ pc = "listing" /\ pc' = "hear" /\ verb' = "226" /\ data_fd' = 0
    /\ UNCHANGED <<info, dying, main, strayed, conn, redir, status, fd, up, down, server, faults>>

\* conn_info returns 1, and ServerSide_start creates the setup thread
SizeKnown ==
    /\ pc = "known" /\ info' = "done" /\ state' = 1 /\ pc' = "setup"
    /\ currentbyte' \in 0 .. Size - 1
    /\ UNCHANGED <<verb, status, dying, main, enabled, redir, wire, faults>>

\* the end of setup_thread, which marks the connection before it is done
Enable ==
    /\ pc = "enable" /\ enabled' = TRUE /\ pc' = "done"
    /\ UNCHANGED <<info, verb, status, dying, main, state, currentbyte, redir, wire, faults>>

Done ==
    /\ pc = "done" /\ state' = 0 /\ pc' = "ended"
    /\ UNCHANGED <<info, verb, status, dying, main, enabled, currentbyte, redir, wire,
                   faults>>

\* (mutant) the control connection is left open
HangUpData ==
    /\ pc = "fail" /\ pc' = "ended" /\ data_fd' = 0 /\ state' = 0
    /\ info' = IF info = "asking" THEN "failed" ELSE info
    /\ UNCHANGED <<verb, status, dying, main, enabled, currentbyte, redir, faults,
                   fd, strayed, up, down, server>>

\* conn_disconnect: the control connection is closed, the data connection, and then
\* both are marked
HangUp ==
    /\ pc = "fail" /\ pc' = "closing" /\ up' = <<>> /\ down' = <<>>
    /\ server' = [server EXCEPT !.open = FALSE]
    /\ UNCHANGED <<info, verb, status, dying, main, conn, redir, fd, data_fd, strayed,
                   faults>>

CloseData ==
    /\ pc = "closing" /\ pc' = "marking" /\ CloseBoth
    /\ UNCHANGED <<info, verb, status, dying, main, conn, redir, fd, data_fd, faults>>

GiveUp ==
    /\ pc = "marking" /\ pc' = "ended" /\ Mark /\ state' = 0
    /\ info' = IF info = "asking" THEN "failed" ELSE info
    /\ UNCHANGED <<verb, status, dying, main, enabled, currentbyte, redir, faults,
                   strayed, up, down, server>>

\* A cancelled thread goes on until it is killed, and ServerSide.c:494-496 allows
\* that anywhere.  While it waits that may be in the middle of a reply.
Die ==
    /\ dying /\ pc # "ended" /\ pc' = "ended"
    /\ \/ UNCHANGED down
       \/ pc = "hear" /\ down # <<>> /\ down' = [down EXCEPT ![1].whole = FALSE]
    /\ strayed' = (strayed \/ (fd /\ data_fd = 0 /\ pc \in {"say", "fail"}))
    /\ UNCHANGED <<info, verb, status, dying, main, conn, redir, fd, data_fd, up, server,
                   faults>>

(***************************************************************************)
(* The main thread: ServerSide_do on this connection.  It tests enabled,    *)
(* then state, waits for the thread to end, and starts another; enabled may  *)
(* have been set meanwhile.                                                 *)
(***************************************************************************)
Fault == faults < MaxFaults /\ faults' = faults + 1
Goes(m) == main' = m /\ UNCHANGED <<info, client, currentbyte, redir>>

Check ==
    /\ main = "free" /\ info = "done" /\ ~enabled /\ currentbyte < Size
    /\ Goes("check") /\ UNCHANGED <<dying, state, enabled, wire, faults>>

\* the setup under way is given more time, or it is cancelled
Wait ==
    /\ main = "check" /\ state = 1 /\ Goes("free")
    /\ \/ UNCHANGED <<dying, state, faults>>
       \/ Fault /\ state' = 0 /\ dying' = TRUE
    /\ UNCHANGED <<enabled, wire>>

Join ==
    /\ main = "check" /\ state = 0
    /\ Goes("join") /\ UNCHANGED <<dying, state, enabled, wire, faults>>

Restart ==
    /\ main = "join" /\ pc = "ended" /\ main' = "free"
    /\ pc' = "setup" /\ dying' = FALSE /\ state' = 1
    /\ UNCHANGED <<info, verb, status, enabled, currentbyte, redir, wire, faults>>

Receive ==
    /\ main = "free" /\ enabled /\ server.on > 0 /\ data_fd = server.on
    /\ \E n \in 1 .. Size - currentbyte :
          /\ currentbyte' = currentbyte + n
          /\ server' = [server EXCEPT !.sends = @ + n]
    /\ UNCHANGED <<info, client, dying, main, state, enabled, redir, fd, data_fd,
                   strayed, up, down, faults>>

\* read gives the end or an error, or the segment is complete: enabled is cleared
\* first; time is up: it is cleared last
Leave ==
    /\ main = "free" /\ enabled /\ enabled' \in BOOLEAN /\ CloseBoth
    /\ Goes("leave") /\ UNCHANGED <<dying, state, fd, data_fd, faults>>

Left ==
    /\ main = "leave" /\ enabled' = FALSE /\ Mark
    /\ Goes("free") /\ UNCHANGED <<dying, state, strayed, up, down, server, faults>>

(***************************************************************************)
(* The server: it answers its commands in order, as it likes, and a server   *)
(* that takes one restart position takes another.                           *)
(***************************************************************************)
Replies(c) ==
    CASE c.verb = "greeting" -> {200, 425}
      [] c.verb = "USER" -> {200, 331, 550}
      [] c.verb = "PASS" -> IF server.user = "named" THEN {200, 550} ELSE {502}
      [] OTHER -> IF server.user # "in" THEN {550} ELSE
            CASE c.verb \in {"TYPE", "CWD"} -> {200, 550}
              [] c.verb = "PASV" -> {227, 550}
              [] c.verb = "REST0" -> {350}
              [] c.verb \in {"REST", "REST1"} -> {350, 502}
              [] c.verb = "SIZE" -> {200, 502, 550}
              [] c.verb \in {"LIST", "RETR"} -> {150, 425, 550}

After(c, code) ==
    CASE c.verb = "USER" /\ code = 331 -> [server EXCEPT !.user = "named"]
      [] c.verb \in {"USER", "PASS"} /\ code = 200 -> [server EXCEPT !.user = "in"]
      [] c.verb = "CWD" /\ code = 200 -> [server EXCEPT !.dir = TRUE]
      [] code = 227 -> [server EXCEPT !.port = @ + 1]
      [] code = 350 -> [server EXCEPT !.rest = c.at]
      [] c.verb = "RETR" /\ code = 150 ->
             [server EXCEPT !.sends = server.rest, !.on = server.port, !.rest = 0]
      [] OTHER -> server

Reply(code, p) == [code |-> code, port |-> p, whole |-> TRUE]

Answer ==
    /\ server.open /\ up # <<>> /\ up' = Tail(up)
    /\ \E code \in Replies(Head(up)) :
          /\ server' = After(Head(up), code)
          /\ down' = down \o <<Reply(code, IF code = 227 THEN server'.port ELSE 0)>>
                          \o (IF Head(up).verb = "LIST" /\ code = 150
                              THEN <<Reply(200, 0)>> ELSE <<>>)
    /\ UNCHANGED <<info, client, dying, main, strayed, conn, redir, fd, data_fd, faults>>

ServerCloses ==
    /\ server.open /\ Fault /\ server' = [server EXCEPT !.open = FALSE]
    /\ UNCHANGED <<info, client, dying, main, strayed, conn, redir, fd, data_fd, up,
                   down>>

Thread == \/ Setup \/ OpenData \/ Write \/ Hear \/ HearRest \/ HearGone
          \/ ReadListing \/ SizeKnown \/ Enable \/ Done \/ HangUp \/ CloseData
          \/ GiveUp \/ Die

Main == Check \/ Wait \/ Join \/ Restart \/ Receive \/ Leave \/ Left

Next == Thread \/ Main \/ Answer \/ ServerCloses

Spec == Init /\ [][Next]_vars

\* The variables have their types; ftp_size follows MAX_REDIR links at most.
TypeOK ==
    /\ info \in {"asking", "done", "failed"}
    /\ pc \in {"setup", "data", "say", "hear", "listing", "known", "enable", "done",
              "fail", "closing", "marking", "ended"}
    /\ main \in {"free", "check", "join", "leave"}
    /\ {dying, strayed, enabled, fd} \subseteq BOOLEAN /\ state \in 0 .. 1
    /\ currentbyte \in 0 .. Size /\ status \in Codes \cup {0}
    /\ redir \in 0 .. MaxRedir /\ faults \in 0 .. MaxFaults
    /\ server.port \in Nat /\ data_fd \in Nat
    /\ fd \/ (up = <<>> /\ down = <<>> /\ ~strayed)

\* A connection the main thread reads from delivers the byte it will write next,
\* whatever commands and replies killed setup threads left on the control
\* connection, wherever they were killed (conn.c:208-225), and whether or not a
\* thread has been started for it while it was served (ServerSide.c:366-382).  The
\* bytes come over the data connection the server sends on, from the directory the
\* client asked for, unless a thread without data connection was killed between two
\* answers.  A descriptor that has been closed delivers nothing.
ServedInPlace ==
    enabled /\ server # Closed =>
        /\ server.sends = currentbyte
        /\ strayed \/ (server.on = data_fd /\ server.dir)
=============================================================================
