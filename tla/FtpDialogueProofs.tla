------------------------- MODULE FtpDialogueProofs -------------------------
(***************************************************************************)
(* The dialogue of one FTP connection: what the main thread reads from a data *)
(* connection belongs where it writes it, for every file size, every MAX_REDIR *)
(* and any number of lost connections, of setups killed at any point and of  *)
(* setups started for a connection that is served.                          *)
(*                                                                         *)
(* The argument: a setup thread is in step with its server, so that at most  *)
(* one command or its answer is under way; or it works on what killed threads *)
(* left behind.  If one of them had a data connection, the next setup fails.  *)
(* If not, what is under way are answers to the opening of the dialogue, and  *)
(* then to PASV, one for each thread (Queue).  The next thread goes on only   *)
(* with an answer that has a port.  If it was the last one under way, the     *)
(* thread is in step again.  If not, an answer to PASV stands where the one to *)
(* RETR should, the thread does not find a code of class 1, and gives the      *)
(* connection up.  No restart position is ever left behind, for REST follows  *)
(* the data connection; login, directory and port may be wrong only where a   *)
(* thread without data connection was killed between two answers (strayed).   *)
(* Descriptors that are closed and still marked as open give the next setup   *)
(* nothing it accepts (Shut), and one that is started for a connection that   *)
(* is served fails in ftp_data and closes it before anything is said (Serving). *)
(***************************************************************************)
EXTENDS FtpDialogue, SequenceTheorems, TLAPS

Positive == Nat \ {0}

\* A bound of at least one link, and numbers of bytes and of faults.
Numbers == MaxRedir \in Positive /\ MaxFaults \in Nat /\ Size \in Nat

\* The first digit of a code.
LEMMA Classes ==
  /\ Class(150) = 1 /\ Class(200) = 2 /\ Class(227) = 2 /\ Class(331) = 3 /\ Class(350) = 3
  /\ Class(425) = 4 /\ Class(502) = 5 /\ Class(550) = 5 /\ Class(0) = 0 /\ Class(-1) = -1
<1>1. \A c \in Int : Class(c) \in Int /\ 100 * Class(c) <= c /\ c < 100 * Class(c) + 100
  BY DEF Class
<1>2. Class(-1) = -1
  BY <1>1
<1>3. QED
  BY <1>2 DEF Class

\* The codes of the positive replies.
LEMMA ClassOf ==
  ASSUME NEW c \in Codes
  PROVE  /\ Class(c) = 1 <=> c = 150
         /\ Class(c) = 2 <=> c \in {200, 227}
         /\ Class(c) = 3 <=> c \in {331, 350}
BY Classes DEF Codes

-----------------------------------------------------------------------------
(***************************************************************************)
(* The invariant: the types, which thread is where, and what is under way.   *)
(***************************************************************************)

Verbs == {"greeting", "USER", "PASS", "TYPE", "CWD", "REST1", "REST0", "SIZE",
          "PASV", "LIST", "226", "REST", "RETR"}
Commands == [verb : Verbs \ {"226"}, at : Int]
Notices == [code : Codes, port : Nat, whole : BOOLEAN]
Servers == [open : BOOLEAN, user : {"new", "named", "in"}, dir : BOOLEAN,
            rest : Int, port : Nat, sends : Int, on : Nat]

Typed ==
    /\ info \in {"asking", "done", "failed"}
    /\ pc \in {"setup", "data", "say", "hear", "listing", "known", "enable", "done",
              "fail", "closing", "marking", "ended"}
    /\ main \in {"free", "check", "join", "leave"}
    /\ dying \in BOOLEAN /\ enabled \in BOOLEAN /\ fd \in BOOLEAN /\ state \in 0 .. 1
    /\ strayed \in BOOLEAN /\ currentbyte \in 0 .. Size /\ status \in Codes \cup {0}
    /\ redir \in 0 .. MaxRedir /\ faults \in 0 .. MaxFaults
    /\ verb \in Verbs /\ server \in Servers /\ data_fd \in Nat
    /\ up \in Seq(Commands) /\ down \in Seq(Notices)

\* Commands of the search for the size only, and those that follow it.
Asking == {"REST1", "REST0", "SIZE", "LIST", "226"}
Opening == {"greeting", "USER", "PASS", "TYPE", "CWD"}
Data == {"LIST", "REST", "RETR"}

\* Both connections are closed, and nothing is under way.
Shut == up = <<>> /\ down = <<>> /\ ~strayed /\ server = Closed

\* Where the thread of a connection that is served may be: it has not ended yet, or
\* it was started although the one before had finished the setup.
Serving == {"setup", "data", "fail", "closing", "marking", "done", "ended"}

\* Which thread is where: only the setup of a connection whose file's size is
\* known is cancelled; ftp_size has links left as long as it needs them; a thread
\* for a connection that is served finds its data connection.
Control ==
    /\ ~fd => data_fd = 0 /\ Shut
    /\ pc \in {"listing", "known", "enable"} => fd
    /\ pc \in {"say", "hear"} => fd \/ (verb = "PASV" /\ info = "done")
    /\ pc = "setup" /\ fd => info = "done"
    /\ pc = "closing" => up = <<>> /\ down = <<>> /\ ~server.open
    /\ pc = "marking" => Shut
    /\ pc = "done" => enabled \/ Shut
    /\ enabled => /\ info = "done" /\ pc \in Serving
                  /\ pc \in {"setup", "data", "fail"} => data_fd # 0
    /\ main \in {"check", "join"} /\ enabled => pc \in {"done", "ended"} /\ data_fd # 0
    /\ main = "leave" => /\ Shut /\ pc \in Serving
                         /\ pc \in {"setup", "data", "fail"} => data_fd # 0
    /\ main # "free" => info = "done"
    /\ dying => info = "done" /\ state = 0
    /\ strayed => info = "done"
    /\ pc = "ended" => state = 0
    /\ info = "asking" => pc \notin {"data", "enable", "done", "ended"}
    /\ info = "failed" => pc = "ended" /\ ~fd
    /\ pc \in {"known", "listing"} => info = "asking"
    /\ pc = "say" => verb # "226"
    /\ pc \in {"say", "hear"} =>
          /\ info = "asking" => verb \notin {"REST", "RETR"}
          /\ info = "done" => verb \notin Asking
          /\ verb \in {"REST", "RETR"} => data_fd # 0
    /\ pc = "enable" => data_fd # 0
    /\ info = "asking" =>
          /\ pc = "setup" => redir = MaxRedir
          /\ pc \in {"say", "hear"} =>
                /\ verb \in Opening \cup {"REST1", "REST0"} => redir = MaxRedir
                /\ verb \in {"PASV", "LIST", "226"} => redir > 0
          /\ pc = "listing" => redir > 0

AtFile == server.user = "in" /\ server.dir
FromStart == server.rest = 0 \/ ~server.open
Connected(v) ==
    IF v \in Data THEN data_fd # 0 /\ (strayed \/ data_fd = server.port) ELSE data_fd = 0

\* What the client has brought about before the server reads its v,
Before(v) ==
    /\ v = "USER" => status = 200
    /\ v = "PASS" => server.user = "named"
    /\ v \notin {"greeting", "USER", "PASS"} => strayed \/ server.user = "in"
    /\ v \notin Opening => strayed \/ server.dir
    /\ v \notin {"REST", "RETR", "REST0"} => FromStart
    /\ v = "RETR" => server.rest = currentbyte \/ ~server.open
    /\ Connected(v)

\* and after it has answered with r.
Matches(v, r) ==
    /\ r.whole /\ Connected(v)
    /\ v = "greeting" => r.code \in {200, 425}
    /\ v = "USER" => r.code \in {200, 331, 550}
    /\ v \in {"USER", "PASS"} /\ r.code = 200 => server.user = "in"
    /\ v = "USER" /\ r.code = 331 => server.user = "named"
    /\ v \notin {"greeting", "USER", "PASS"} => strayed \/ server.user = "in"
    /\ v = "CWD" /\ r.code = 200 => server.dir
    /\ v \notin Opening => strayed \/ server.dir
    /\ v \notin {"REST", "RETR", "REST1"} => FromStart
    /\ v = "REST1" /\ r.code # 350 => FromStart
    /\ v = "REST" => r.code \in {350, 502, 550}
    /\ v = "REST" /\ r.code = 350 => server.rest = currentbyte
    /\ v = "RETR" /\ r.code = 150 =>
          server.sends = currentbyte /\ (strayed \/ server.on = data_fd)
    /\ v = "PASV" => r.code = 550 \/ (r.code = 227 /\ r.port = server.port)
    /\ v # "PASV" => r.port = 0 /\ r.code # 227

At(v) == CASE v = "REST" -> currentbyte [] v = "REST1" -> 1 [] OTHER -> 0

\* Nothing is under way but the command of the thread, or the answer to it.
Unsaid == down = <<>> /\ (up = <<>> \/ ~server.open)
Said == pc = "hear" /\ down = <<>> /\ Len(up) = 1 /\ up[1] = Command(verb, At(verb))
Replied ==
    /\ pc = "hear" /\ up = <<>> /\ Len(down) > 0 /\ Matches(verb, down[1])
    /\ IF verb = "LIST" /\ down[1].code = 150
       THEN Len(down) = 2 /\ down[2] = Reply(200, 0)
       ELSE Len(down) = 1
InStep ==
    /\ info = "done" => verb # "PASV"
    /\ \/ Unsaid /\ (pc = "say" \/ ~server.open) /\ Before(verb)
       \/ Said /\ Before(verb)
       \/ Replied

\* What killed threads left under way: commands of the opening, at most one of them
\* unanswered, and then only PASV, for each thread that found the connection open.
Queue ==
    /\ FromStart
    /\ server.open => \A i \in 1 .. Len(up) :
          /\ up[i].verb \in Opening \cup {"PASV"}
          /\ i > 1 \/ Len(down) > 0 => up[i].verb = "PASV"
    /\ \A i \in 1 .. Len(down) : /\ i > 1 => down[i].whole /\ down[i].code \in {227, 550}
                                 /\ down[i].port # 0 => down[i].code = 227

\* The thread found a connection on which others had asked for data ports.
Settled ==
    /\ AtFile /\ FromStart /\ status = 200
    /\ server.open => \A i \in 1 .. Len(up) : up[i].verb = "PASV"
    /\ \A i \in 1 .. Len(down) : /\ down[i].code \in {227, 550}
                                 /\ down[i].code = 550 => down[i].port = 0
                                 /\ i > 1 => down[i].whole
    /\ Len(down) > 0 /\ down[Len(down)].code = 227 => down[Len(down)].port = server.port

\* The next answer is none to PASV.
Barren ==
    \/ Len(down) > 0 /\ down[1].port = 0
    \/ Len(down) = 0 /\ Len(up) > 0 /\ up[1].verb # "PASV"
    \/ Len(down) = 0 /\ ~server.open

\* The next answer is not the one to RETR.
Late ==
    /\ info = "done" /\ data_fd # 0 /\ verb \in {"REST", "RETR"}
    /\ \/ ~server.open /\ (verb = "REST" \/ pc = "say")
       \/ /\ \A i \in 1 .. Len(down) : down[i].whole
          /\ \A i \in 1 .. Len(up) : up[i].verb # "LIST"
          /\ Len(down) > 0 => down[1].code # 150
          /\ Len(down) = 0 => Len(up) > 0 /\ up[1].verb # "RETR"
          /\ verb = "REST" \/ pc = "say" =>
                /\ \A i \in 1 .. Len(up) : up[i].verb # "RETR"
                /\ \A i \in 1 .. Len(down) : down[i].code # 150
          /\ verb = "REST" /\ pc = "hear" => Len(up) + Len(down) > 1

Delivers == /\ up = <<>> /\ server.sends = currentbyte
            /\ strayed \/ (server.on = data_fd /\ server.dir)
Inherited == data_fd = 0 /\ Queue /\ (strayed \/ Barren \/ Settled)

Placed ==
    /\ enabled /\ server # Closed => Delivers
    /\ pc = "enable" => Delivers
    /\ pc = "fail" /\ fd /\ info = "done" => data_fd # 0 \/ Queue
    /\ pc \in {"setup", "data", "ended"} /\ fd /\ ~enabled => data_fd # 0 \/ Inherited
    /\ pc \in {"say", "hear"} =>
          InStep \/ Late \/ (info = "done" /\ verb = "PASV" /\ Inherited)
    /\ pc = "known" => data_fd = 0 /\ Unsaid /\ AtFile /\ FromStart /\ status = 200
    /\ pc = "listing" =>
          /\ verb = "LIST" /\ AtFile /\ FromStart
          /\ up = <<>> /\ Len(down) = 1 /\ down[1] = Reply(200, 0)

\* The part that says nothing of what is under way, and all of it.
Orderly == Typed /\ Control
Inv == Typed /\ Control /\ Placed

\* The types do not depend on where the commands and replies are.
LEMMA InvOrderly == Inv => Orderly
BY DEF Inv, Orderly

\* A connection whose control connection is closed, with nothing under way, has an
\* end of the connection for the next setup.
LEMMA ClosedInherited ==
  ASSUME data_fd = 0, up = <<>>, down = <<>>, ~server.open
  PROVE  Inherited
BY DEF Inherited, Queue, FromStart, Barren

\* A closed connection is not open.
LEMMA ClosedFacts ==
  /\ ~Closed.open /\ Closed.on = 0 /\ [Closed EXCEPT !.open = FALSE] = Closed
  /\ Closed \in Servers
<1>1. NewServer \in Servers /\ NewServer.on = 0
  BY DEF NewServer, Servers
<1>2. PICK n \in Servers : n = NewServer /\ n.on = 0
  BY <1>1
<1>3. Closed = [n EXCEPT !.open = FALSE]
  BY <1>2 DEF Closed
<1>4. Closed \in Servers /\ ~Closed.open /\ Closed.on = 0
  BY <1>2, <1>3 DEF Servers
<1>5. [Closed EXCEPT !.open = FALSE] = Closed
  BY <1>2, <1>3 DEF Servers
<1>6. QED
  BY <1>4, <1>5

\* Where nothing is open, nothing comes.
LEMMA ShutFacts ==
  ASSUME Shut
  PROVE  /\ ~server.open /\ server.on = 0 /\ server = Closed
         /\ up = <<>> /\ down = <<>> /\ ~strayed
BY ClosedFacts DEF Shut

-----------------------------------------------------------------------------
\* The outcomes of a call of ftp_wait that returned r and left s in status.
Heard(r, s, p) ==
    \/ pc' = "fail" /\ verb' = verb /\ data_fd' = data_fd
    \/ /\ pc' = "say" /\ data_fd' = data_fd
       /\ \/ verb \in {"greeting", "PASS", "TYPE"} /\ Class(r) = 2 
               /\ verb' = (CASE verb = "greeting" -> "USER" [] verb = "PASS" -> "TYPE" [] OTHER -> "CWD")
          \/ verb = "USER" /\ Class(r) = 2 /\ verb' = "TYPE"
          \/ verb = "USER" /\ Class(s) = 3 /\ verb' = "PASS"
          \/ verb = "CWD" /\ Class(r) = 2 /\ verb' = (IF info = "asking" THEN "REST1" ELSE "PASV")
          \/ verb = "REST1" /\ verb' = "REST0"
          \/ verb = "REST1" /\ Class(r) # 3 /\ verb' = "SIZE"
          \/ verb = "REST0" /\ verb' \in {"SIZE", "PASV"}
          \/ verb = "SIZE" /\ redir > 0 /\ verb' = "PASV"
          \/ verb = "226" /\ Class(r) = 2 /\ verb' = "SIZE"
          \/ verb = "REST" /\ (Class(r) = 3 \/ Class(s) = 2) /\ verb' = "RETR"
    \/ /\ pc' = "say" /\ verb = "PASV" /\ Class(r) = 2 /\ p # 0 /\ data_fd' = p
       /\ verb' = (IF info = "asking" THEN "LIST"
                  ELSE IF currentbyte > 0 THEN "REST" ELSE "RETR")
    \/ /\ pc' = "known" /\ verb \in {"SIZE", "226"} /\ Class(r) = 2
       /\ verb' = verb /\ data_fd' = data_fd
    \/ /\ pc' = "listing" /\ verb = "LIST" /\ Class(r) = 1 /\ verb' = verb /\ data_fd' = data_fd
    \/ /\ pc' = "enable" /\ verb = "RETR" /\ Class(r) = 1 /\ verb' = verb /\ data_fd' = data_fd

\* The commands that follow without a question.
LEMMA FollowingFacts ==
  /\ DOMAIN Following = {"greeting", "PASS", "TYPE", "REST"}
  /\ Following["greeting"] = "USER" /\ Following["PASS"] = "TYPE"
  /\ Following["TYPE"] = "CWD" /\ Following["REST"] = "RETR"
BY DEF Following

\* Where the caller of ftp_wait goes on, for each command.
LEMMA Continued ==
  ASSUME NEW r, NEW s, Continue(r, s)
  PROVE  /\ verb = "greeting" => Say("USER")
         /\ verb = "PASS" => Say("TYPE")
         /\ verb = "TYPE" => Say("CWD")
         /\ verb = "REST" => Say("RETR")
         /\ verb = "USER" => (Say(IF Class(r) = 2 THEN "TYPE" ELSE "PASS"))
         /\ verb = "CWD" => (Say(IF info = "asking" THEN "REST1" ELSE "PASV"))
         /\ verb = "REST1" => (Say(IF Class(r) = 3 \/ Class(s) = 2 THEN "REST0" ELSE "SIZE"))
         /\ verb = "REST0" => (Say("SIZE") \/ Say("PASV"))
         /\ verb = "SIZE" => (IF Class(r) = 2 THEN pc' = "known" /\ verb' = verb ELSE Say("PASV"))
         /\ verb = "226" => ((pc' = "known" /\ verb' = verb) \/ Fail \/ Say("SIZE"))
         /\ verb = "LIST" => (pc' = "listing" /\ verb' = verb)
         /\ verb = "RETR" => (pc' = "enable" /\ verb' = verb)
<1>1. ASSUME verb = "greeting" PROVE Say("USER")
  BY <1>1, FollowingFacts DEF Continue
<1>2. ASSUME verb = "PASS" PROVE Say("TYPE")
  BY <1>2, FollowingFacts DEF Continue
<1>3. ASSUME verb = "TYPE" PROVE Say("CWD")
  BY <1>3, FollowingFacts DEF Continue
<1>4. ASSUME verb = "REST" PROVE Say("RETR")
  BY <1>4, FollowingFacts DEF Continue
<1>5. ASSUME verb = "USER" PROVE Say(IF Class(r) = 2 THEN "TYPE" ELSE "PASS")
  BY <1>5, FollowingFacts DEF Continue
<1>6. ASSUME verb = "CWD" PROVE Say(IF info = "asking" THEN "REST1" ELSE "PASV")
  BY <1>6, FollowingFacts DEF Continue
<1>7. ASSUME verb = "REST1" PROVE Say(IF Class(r) = 3 \/ Class(s) = 2 THEN "REST0" ELSE "SIZE")
  BY <1>7, FollowingFacts DEF Continue
<1>8. ASSUME verb = "REST0" PROVE Say("SIZE") \/ Say("PASV")
  BY <1>8, FollowingFacts DEF Continue
<1>9. ASSUME verb = "SIZE" PROVE IF Class(r) = 2 THEN pc' = "known" /\ verb' = verb ELSE Say("PASV")
  BY <1>9, FollowingFacts DEF Continue
<1>10. ASSUME verb = "226" PROVE (pc' = "known" /\ verb' = verb) \/ Fail \/ Say("SIZE")
  BY <1>10, FollowingFacts DEF Continue
<1>11. ASSUME verb = "LIST" PROVE pc' = "listing" /\ verb' = verb
  BY <1>11, FollowingFacts DEF Continue
<1>12. ASSUME verb = "RETR" PROVE pc' = "enable" /\ verb' = verb
  BY <1>12, FollowingFacts DEF Continue
<1>13. QED
  BY <1>1, <1>2, <1>3, <1>4, <1>5, <1>6, <1>7, <1>8, <1>9, <1>10, <1>11, <1>12

\* What a caller of ftp_wait does, without what it need not look at.
LEMMA ConcludeHeard ==
  ASSUME NEW r, NEW s, NEW p, verb \in Verbs, Conclude(r, s, p)
  PROVE  /\ Heard(r, s, p) /\ status' = s
         /\ redir' = redir \/ (verb = "226" /\ verb' = "SIZE" /\ redir' = redir - 1)
<1>1. /\ status' = s
      /\ redir' = redir \/ (verb = "226" /\ verb' = "SIZE" /\ redir' = redir - 1)
  BY DEF Conclude
<1>2. CASE ~Accepted(r, s)
  BY <1>2 DEF Conclude, Fail, Heard
<1>3. CASE Accepted(r, s) /\ verb = "PASV"
  <2>1. Class(r) = 2
    BY <1>3 DEF Accepted
  <2>2. DataConnect(p)
    BY <1>3 DEF Conclude
  <2>3. QED
    BY <1>1, <1>3, <2>1, <2>2 DEF DataConnect, Fail, Say, Heard
<1>4. CASE Accepted(r, s) /\ verb # "PASV"
  <2>1. Continue(r, s) /\ data_fd' = data_fd
    BY <1>4 DEF Conclude
  <2>2. CASE verb \in {"greeting", "PASS", "TYPE", "REST"}
    <3>1. Say(Following[verb])
      BY <2>1, <2>2, FollowingFacts DEF Continue
    <3>2. QED
      BY <1>1, <1>4, <2>1, <2>2, <3>1, FollowingFacts DEF Say, Accepted, Heard
  <2>3. CASE verb = "USER"
    <3>1. Say(IF Class(r) = 2 THEN "TYPE" ELSE "PASS")
      BY <2>1, <2>3, Continued
    <3>2. Class(r) = 2 \/ Class(s) = 3
      BY <1>4, <2>3 DEF Accepted
    <3>3. QED
      BY <1>1, <2>1, <2>3, <3>1, <3>2 DEF Say, Fail, Heard
  <2>4. CASE verb = "CWD"
    <3>1. Say(IF info = "asking" THEN "REST1" ELSE "PASV")
      BY <2>1, <2>4, Continued
    <3>2. Class(r) = 2
      BY <1>4, <2>4 DEF Accepted
    <3>3. QED
      BY <1>1, <2>1, <2>4, <3>1, <3>2 DEF Say, Fail, Heard
  <2>5. CASE verb = "REST1"
    <3>1. Say(IF Class(r) = 3 \/ Class(s) = 2 THEN "REST0" ELSE "SIZE")
      BY <2>1, <2>5, Continued
    <3>2. QED
      BY <1>1, <2>1, <2>5, <3>1 DEF Say, Fail, Heard
  <2>6. CASE verb = "REST0"
    <3>1. Say("SIZE") \/ Say("PASV")
      BY <2>1, <2>6, Continued
    <3>2. QED
      BY <1>1, <2>1, <2>6, <3>1 DEF Say, Fail, Heard
  <2>7. CASE verb = "SIZE"
    <3>1. IF Class(r) = 2 THEN pc' = "known" /\ verb' = verb ELSE Say("PASV")
      BY <2>1, <2>7, Continued
    <3>2. Class(r) = 2 \/ redir > 0
      BY <1>4, <2>7 DEF Accepted
    <3>3. QED
      BY <1>1, <2>1, <2>7, <3>1, <3>2 DEF Say, Fail, Heard
  <2>8. CASE verb = "226"
    <3>1. (pc' = "known" /\ verb' = verb) \/ Fail \/ Say("SIZE")
      BY <2>1, <2>8, Continued
    <3>2. Class(r) = 2
      BY <1>4, <2>8 DEF Accepted
    <3>3. QED
      BY <1>1, <2>1, <2>8, <3>1, <3>2 DEF Say, Fail, Heard
  <2>9. CASE verb = "LIST"
    <3>1. pc' = "listing" /\ verb' = verb
      BY <2>1, <2>9, Continued
    <3>2. Class(r) = 1
      BY <1>4, <2>9 DEF Accepted
    <3>3. QED
      BY <1>1, <2>1, <2>9, <3>1, <3>2 DEF Say, Fail, Heard
  <2>10. CASE verb = "RETR"
    <3>1. pc' = "enable" /\ verb' = verb
      BY <2>1, <2>10, Continued
    <3>2. Class(r) = 1
      BY <1>4, <2>10 DEF Accepted
    <3>3. QED
      BY <1>1, <2>1, <2>10, <3>1, <3>2 DEF Say, Fail, Heard
  <2>11. QED
    BY <1>1, <1>4, <2>2, <2>3, <2>4, <2>5, <2>6, <2>7, <2>8, <2>9, <2>10 DEF Verbs
<1>5. QED
  BY <1>2, <1>3, <1>4

-----------------------------------------------------------------------------
(* Queues. *)

\* The elements of a sequence.
LEMMA Lengths ==
  ASSUME NEW S, NEW q \in Seq(S)
  PROVE  /\ Len(q) \in Nat /\ DOMAIN q = 1 .. Len(q) /\ (Len(q) = 0 <=> q = <<>>)
         /\ \A i \in 1 .. Len(q) : q[i] \in S
BY EmptySeq, LenProperties, ElementOfSeq

\* The first element is taken.
LEMMA Taken ==
  ASSUME NEW S, NEW q \in Seq(S), q # <<>>
  PROVE  /\ Len(q) > 0 /\ Head(q) = q[1] /\ Tail(q) \in Seq(S) /\ Len(Tail(q)) = Len(q) - 1
         /\ \A i \in 1 .. Len(q) - 1 : Tail(q)[i] = q[i + 1]
BY Lengths, HeadTailProperties

\* An element is appended.
LEMMA Appended ==
  ASSUME NEW S, NEW q \in Seq(S), NEW e \in S
  PROVE  /\ Append(q, e) \in Seq(S) /\ Len(Append(q, e)) = Len(q) + 1
         /\ Append(q, e)[Len(q) + 1] = e /\ q \o <<e>> = Append(q, e)
         /\ \A i \in 1 .. Len(q) : Append(q, e)[i] = q[i]
BY AppendProperties, AppendIsConcat

\* The first n elements are taken.
LEMMA Behind ==
  ASSUME NEW S, NEW q \in Seq(S), NEW n \in 1 .. Len(q), NEW t, t = SubSeq(q, n + 1, Len(q))
  PROVE  /\ t \in Seq(S) /\ Len(t) = Len(q) - n
         /\ \A i \in 1 .. Len(q) - n : t[i] = q[i + n]
<1>1. PICK m \in Int, k \in Int : m = n + 1 /\ k = Len(q)
  BY Lengths
<1>2. t = SubSeq(q, m, k) /\ \A i \in m .. k : q[i] \in S
  BY <1>1, Lengths
<1>3. /\ t \in Seq(S) /\ Len(t) = IF m <= k THEN k - m + 1 ELSE 0
      /\ \A i \in 1 .. k - m + 1 : t[i] = q[m + i - 1]
  <2>1. /\ SubSeq(q, m, k) \in Seq(S)
        /\ Len(SubSeq(q, m, k)) = IF m <= k THEN k - m + 1 ELSE 0
        /\ \A i \in 1 .. k - m + 1 : SubSeq(q, m, k)[i] = q[m + i - 1]
    BY <1>2, SubSeqProperties
  <2>2. QED
    BY <1>2, <2>1
<1>4. Len(q) \in Nat
  BY Lengths
<1>5. Len(t) = Len(q) - n
  BY <1>1, <1>3, <1>4
<1>6. ASSUME NEW i \in 1 .. Len(q) - n PROVE t[i] = q[i + n]
  <2>1. i \in 1 .. k - m + 1 /\ m + i - 1 = i + n
    BY <1>1, <1>4
  <2>2. QED
    BY <1>3, <2>1
<1>7. QED
  BY <1>3, <1>5, <1>6

\* The queues and their elements.
LEMMA TypedFacts ==
  ASSUME Typed
  PROVE  /\ Len(up) \in Nat /\ (Len(up) = 0 <=> up = <<>>)
         /\ \A i \in 1 .. Len(up) : up[i] \in Commands
         /\ Len(down) \in Nat /\ (Len(down) = 0 <=> down = <<>>)
         /\ \A i \in 1 .. Len(down) : down[i] \in Notices
         /\ DOMAIN down = 1 .. Len(down)
BY Lengths DEF Typed

-----------------------------------------------------------------------------
(* The thread hears an answer. *)

\* Whatever it heard, the thread is where it may be, and has links left.
LEMMA HeardControl ==
  ASSUME Numbers, Orderly, pc = "hear", NEW r, NEW s \in Codes \cup {0},
         NEW p \in Nat, Conclude(r, s, p), fd \/ (r = -1 /\ down' = down),
         UNCHANGED <<info, dying, main, strayed, conn, fd, up, server, faults>>
  PROVE  /\ Control'
         /\ pc' \in {"fail", "say", "known", "listing", "enable"} /\ verb' \in Verbs
         /\ redir' \in 0 .. MaxRedir /\ data_fd' \in Nat /\ status' = s
<1>1. /\ Heard(r, s, p) /\ status' = s /\ verb \in Verbs
      /\ redir' = redir \/ (verb = "226" /\ verb' = "SIZE" /\ redir' = redir - 1)
  BY ConcludeHeard DEF Orderly, Typed
<1>2. /\ redir \in 0 .. MaxRedir /\ MaxRedir \in Nat /\ MaxRedir > 0
      /\ data_fd \in Nat /\ info \in {"asking", "done", "failed"}
  BY DEF Orderly, Typed, Numbers, Positive
<1>3. Control /\ info # "failed" /\ ~enabled /\ ~enabled' /\ main # "leave"
  BY DEF Orderly, Control, Serving, conn
<1>4. /\ info = "asking" => verb \notin {"REST", "RETR"}
      /\ info = "done" => verb \notin {"REST1", "REST0", "SIZE", "LIST", "226"}
      /\ info = "asking" => /\ verb \in Opening \cup {"REST1", "REST0"} => redir = MaxRedir
                            /\ verb \in {"PASV", "LIST", "226"} => redir > 0
      /\ verb \in {"REST", "RETR"} => data_fd # 0
  BY <1>3 DEF Control, Asking
<1>5. pc' \in {"fail", "say", "known", "listing", "enable"} /\ data_fd' \in Nat
  BY <1>1, <1>2 DEF Heard
<1>6. verb' \in Verbs
  BY <1>1 DEF Heard, Verbs
<1>7. redir' \in 0 .. MaxRedir
  <2>1. CASE redir' = redir
    BY <1>2, <2>1
  <2>2. CASE verb = "226" /\ redir' = redir - 1
    <3>1. redir > 0
      BY <1>2, <1>3, <1>4, <2>2
    <3>2. QED
      BY <1>2, <2>2, <3>1
  <2>3. QED
    BY <1>1, <2>1, <2>2
<1>8. pc' \in {"known", "listing"} => info = "asking"
  BY <1>1, <1>2, <1>3, <1>4 DEF Heard
<1>9. pc' = "enable" => info = "done" /\ data_fd' # 0
  BY <1>1, <1>2, <1>3, <1>4 DEF Heard
<1>10. pc' = "say" =>
         /\ info = "asking" => verb' \notin {"REST", "RETR"}
         /\ info = "done" => verb' \notin Asking
         /\ verb' \in {"REST", "RETR"} => data_fd' # 0
  <2>1. CASE info = "asking"
    BY <1>1, <1>4, <2>1 DEF Heard
  <2>2. CASE info = "done"
    BY <1>1, <1>4, <2>2 DEF Heard, Asking
  <2>3. QED
    BY <1>2, <1>3, <2>1, <2>2
<1>11. ASSUME info = "asking"
       PROVE  /\ pc' = "say" =>
                    /\ verb' \in Opening \cup {"REST1", "REST0"} => redir' = MaxRedir
                    /\ verb' \in {"PASV", "LIST", "226"} => redir' > 0
              /\ pc' = "listing" => redir' > 0
  BY <1>1, <1>2, <1>4, <1>11 DEF Heard, Opening
<1>12. pc' = "say" => verb' # "226"
  BY <1>1 DEF Heard
<1>13. fd \/ (pc' = "fail" /\ data_fd' = 0 /\ down' = <<>> /\ Shut)
  <2>1. ASSUME ~fd PROVE verb = "PASV" /\ r = -1 /\ data_fd = 0 /\ down' = down /\ Shut
    BY <1>3, <2>1 DEF Control
  <2>2. ASSUME ~fd PROVE pc' = "fail" /\ data_fd' = data_fd
    BY <1>1, <2>1, <2>2, Classes DEF Heard
  <2>3. QED
    BY <2>1, <2>2 DEF Shut
<1>14. ~fd => Shut'
  BY <1>13 DEF Shut
<1>15. Control'
  BY <1>2, <1>3, <1>5, <1>8, <1>9, <1>10, <1>11, <1>12, <1>13, <1>14 DEF Control, conn
<1>16. QED
  BY <1>1, <1>5, <1>6, <1>7, <1>15

\* What a thread that goes on says next, after which answer.
LEMMA GoesOn ==
  ASSUME NEW r \in Notices, NEW p, Matches(verb, r), verb # "PASV",
         Heard(r.code, r.code, p), pc' = "say"
  PROVE  /\ data_fd' = data_fd
         /\ \/ verb = "greeting" /\ r.code = 200 /\ verb' = "USER"
            \/ verb = "USER" /\ r.code = 200 /\ verb' = "TYPE"
            \/ verb = "USER" /\ r.code = 331 /\ verb' = "PASS"
            \/ verb = "PASS" /\ r.code = 200 /\ verb' = "TYPE"
            \/ verb = "TYPE" /\ verb' = "CWD"
            \/ verb = "CWD" /\ r.code = 200 /\ info = "asking" /\ verb' = "REST1"
            \/ verb = "CWD" /\ r.code = 200 /\ info # "asking" /\ verb' = "PASV"
            \/ verb = "REST1" /\ verb' = "REST0"
            \/ verb = "REST1" /\ r.code # 350 /\ verb' = "SIZE"
            \/ verb = "REST0" /\ verb' \in {"SIZE", "PASV"}
            \/ verb = "SIZE" /\ verb' = "PASV"
            \/ verb = "226" /\ verb' = "SIZE"
            \/ verb = "REST" /\ r.code = 350 /\ verb' = "RETR"
<1>1. r.code \in Codes /\ r.code # 227
  BY DEF Notices, Matches, Opening
<1>2. /\ Class(r.code) = 2 => r.code = 200
      /\ Class(r.code) = 3 => r.code \in {331, 350}
      /\ r.code = 350 => Class(r.code) = 3
  BY <1>1, ClassOf
<1>3. /\ verb = "USER" => r.code # 350
      /\ verb = "REST" => r.code \in {350, 502, 550}
  BY DEF Matches, Opening
<1>4. QED
  BY <1>1, <1>2, <1>3 DEF Heard

\* Its server is ready for that.
LEMMA ReadyFor ==
  ASSUME NEW r \in Notices, NEW p, Matches(verb, r), verb # "PASV",
         Heard(r.code, r.code, p), pc' = "say", server' = server, currentbyte' = currentbyte,
         status' = r.code, strayed' = strayed
  PROVE  Before(verb)'
<1>1. /\ verb' = "USER" => r.code = 200
      /\ verb' = "PASS" => server.user = "named"
      /\ verb' \notin {"USER", "PASS"} => strayed \/ server.user = "in"
  BY GoesOn DEF Matches, Opening
<1>2. verb' \notin Opening => strayed \/ server.dir
  BY GoesOn DEF Matches, Opening
<1>3. verb' \notin {"REST", "RETR", "REST0"} => FromStart
  BY GoesOn DEF Matches, Opening
<1>4. verb' = "RETR" => server.rest = currentbyte
  BY GoesOn DEF Matches, Opening
<1>5. Connected(verb)'
  BY GoesOn DEF Matches, Connected, Data, Opening
<1>6. QED
  BY <1>1, <1>2, <1>3, <1>4, <1>5 DEF Before, FromStart, Opening

\* Nothing under way, and no restart position left.
LEMMA EmptyQueue ==
  ASSUME FromStart', up' = <<>>, down' = <<>>
  PROVE  Queue'
BY DEF Queue

\* A thread in step has heard the answer to its command.
LEMMA RepliedHeard ==
  ASSUME Numbers, Inv, pc = "hear", Replied, info = "done" => verb # "PASV",
         Heard(down[1].code, down[1].code, down[1].port),
         status' = down[1].code, down' = Tail(down),
         UNCHANGED <<info, conn, strayed, up, server>>, ~enabled
  PROVE  Placed'
<1> DEFINE r == down[1]
<1>1. /\ down # <<>> /\ Len(down') = Len(down) - 1 /\ (Len(down') = 0 <=> down' = <<>>)
      /\ \A i \in 1 .. Len(down) - 1 : down'[i] = down[i + 1]
      /\ Len(down) \in Nat /\ r \in Notices
  <2>1. down \in Seq(Notices) /\ down # <<>>
    BY TypedFacts DEF Inv, Typed, Replied
  <2>2. down' \in Seq(Notices)
    BY <2>1, Taken
  <2>3. QED
    BY <2>1, <2>2, Taken, Lengths, TypedFacts DEF Inv, Replied
<1>2. /\ Matches(verb, r) /\ Heard(r.code, r.code, r.port) /\ status' = r.code
  BY DEF Replied
<1>3. ASSUME verb # "LIST" \/ r.code # 150 PROVE down' = <<>>
  <2>1. Len(down) = 1
    BY <1>3 DEF Replied
  <2>2. QED
    BY <1>1, <2>1
<1>4. /\ ~enabled' /\ info' = info /\ up' = up /\ server' = server /\ currentbyte' = currentbyte
      /\ up = <<>> /\ info \in {"asking", "done", "failed"} /\ strayed' = strayed
  BY DEF conn, Replied, Inv, Typed
<1>5. r.code \in Codes /\ Control
  BY <1>1 DEF Notices, Inv
<1> HIDE DEF r
<1>6. CASE pc' = "fail"
  <2>1. data_fd' = data_fd
    BY <1>2, <1>6 DEF Heard
  <2>2. ASSUME info = "done", data_fd = 0 PROVE Queue'
    <3>1. verb \notin Asking /\ verb \in Verbs
      BY <1>5, <2>2 DEF Control, Inv, Typed
    <3>2. verb \notin Data
      BY <1>2, <2>2 DEF Matches, Connected
    <3>3. verb \in Opening
      BY <2>2, <3>1, <3>2 DEF Asking, Verbs, Data, Opening
    <3>4. FromStart /\ verb # "LIST"
      BY <1>2, <3>3 DEF Matches, Opening
    <3>5. down' = <<>>
      BY <1>3, <3>4
    <3>6. QED
      BY <1>1, <1>4, <3>4, <3>5, EmptyQueue DEF FromStart
  <2>3. QED
    BY <1>4, <1>6, <2>1, <2>2 DEF Placed
<1>7. CASE pc' = "say" /\ verb # "PASV"
  <2>1. Before(verb)'
    BY <1>1, <1>2, <1>4, <1>7, ReadyFor
  <2>2. /\ verb # "LIST" /\ verb' \notin Data \ {"RETR"} /\ data_fd' = data_fd
        /\ info = "done" /\ verb' = "PASV" => data_fd = 0 /\ r.code = 200
    <3>1. Control /\ Connected(verb)
      BY <1>2, <1>5 DEF Matches
    <3>2. data_fd' = data_fd /\ verb # "LIST" /\ verb' \notin {"LIST", "REST"}
      BY <1>1, <1>2, <1>7, GoesOn
    <3>3. info = "done" => verb \notin {"REST1", "REST0", "SIZE"}
      BY <1>7, <3>1 DEF Control, Asking, Replied
    <3>4. info = "done" /\ verb' = "PASV" => verb = "CWD" /\ r.code = 200
      BY <1>1, <1>2, <1>7, <3>3, GoesOn
    <3>5. verb = "CWD" => data_fd = 0
      BY <3>1 DEF Connected, Data
    <3>6. QED
      BY <3>2, <3>4, <3>5 DEF Data
  <2>3. down' = <<>>
    BY <1>3, <2>2
  <2>4. CASE info = "done" /\ verb' = "PASV"
    <3>1. FromStart' /\ (strayed' \/ AtFile') /\ status' = 200
      BY <1>2, <2>1, <2>2, <2>4 DEF Before, Opening, AtFile
    <3>2. Queue'
      BY <1>4, <2>3, <3>1, EmptyQueue
    <3>3. strayed' \/ Settled'
      BY <1>1, <1>4, <2>3, <3>1 DEF Settled
    <3>4. QED
      BY <1>4, <1>7, <2>2, <2>4, <3>2, <3>3 DEF Placed, Inherited
  <2>5. CASE ~(info = "done" /\ verb' = "PASV")
    <3>1. InStep'
      BY <1>4, <1>7, <2>1, <2>3, <2>5 DEF InStep, Unsaid
    <3>2. QED
      BY <1>4, <1>7, <3>1 DEF Placed
  <2>6. QED
    BY <2>4, <2>5
<1>8. CASE pc' = "say" /\ verb = "PASV"
  <2>1. /\ info # "done" /\ info = "asking" /\ verb' = "LIST"
        /\ r.code = 227 /\ data_fd' = r.port /\ data_fd' = server.port /\ data_fd' # 0
    BY <1>2, <1>4, <1>5, <1>8, ClassOf DEF Heard, Matches, Opening, Control
  <2>2. Before(verb)'
    BY <1>2, <1>4, <1>8, <2>1 DEF Before, Matches, Opening, Connected, Data, FromStart
  <2>3. down' = <<>>
    BY <1>8, <1>3
  <2>4. InStep'
    BY <1>4, <1>8, <2>1, <2>2, <2>3 DEF InStep, Unsaid
  <2>5. QED
    BY <1>4, <1>8, <2>4 DEF Placed
<1>9. CASE pc' = "known"
  <2>1. verb \in {"SIZE", "226"} /\ r.code = 200 /\ data_fd' = data_fd /\ data_fd = 0
    BY <1>2, <1>5, <1>9, ClassOf DEF Heard, Matches, Opening, Connected, Data
  <2>2. AtFile /\ FromStart
    <3>1. ~strayed
      BY <1>4, <1>5, <2>1 DEF Control, Asking
    <3>2. QED
      BY <1>2, <2>1, <3>1 DEF AtFile, Matches, Opening
  <2>3. QED
    BY <1>2, <1>4, <1>9, <1>3, <2>1, <2>2 DEF Placed, Unsaid, AtFile, FromStart
<1>10. CASE pc' = "listing"
  <2>1. verb = "LIST" /\ r.code = 150 /\ verb' = verb
    BY <1>2, <1>5, <1>10, ClassOf DEF Heard
  <2>2. AtFile /\ FromStart
    <3>1. ~strayed
      BY <1>4, <1>5, <2>1 DEF Control, Asking
    <3>2. QED
      BY <1>2, <2>1, <3>1 DEF AtFile, Matches, Opening
  <2>3. Len(down) = 2 /\ down[2] = Reply(200, 0)
    BY <2>1 DEF Replied, r
  <2>4. Len(down') = 1 /\ down'[1] = Reply(200, 0)
    <3>1. 1 \in 1 .. Len(down) - 1 /\ Len(down) - 1 = 1 /\ 1 + 1 = 2
      BY <2>3
    <3>2. Len(down') = 1
      BY <1>1, <3>1
    <3>3. down'[1] = down[2]
      BY <1>1, <3>1
    <3>4. QED
      BY <2>3, <3>2, <3>3, Zenon
  <2>5. QED
    BY <1>4, <1>10, <2>1, <2>2, <2>4 DEF Placed, AtFile, FromStart
<1>11. CASE pc' = "enable"
  <2>1. verb = "RETR" /\ r.code = 150 /\ data_fd' = data_fd
    BY <1>2, <1>5, <1>11, ClassOf DEF Heard
  <2>2. Delivers' /\ data_fd' # 0
    BY <1>2, <1>4, <2>1 DEF Delivers, Matches, Opening, Connected, Data
  <2>3. QED
    BY <1>4, <1>11, <2>2 DEF Placed
<1>12. QED
  BY <1>2, <1>6, <1>7, <1>8, <1>9, <1>10, <1>11 DEF Heard

\* n replies are taken off the queue.
Dropped(n) ==
    /\ n \in 1 .. Len(down) /\ down' \in Seq(Notices) /\ Len(down') = Len(down) - n
    /\ \A i \in 1 .. Len(down) - n : down'[i] = down[i + n]

\* What killed threads left, without the first replies.
LEMMA QueueDropped ==
  ASSUME Typed, Queue, NEW n, Dropped(n), UNCHANGED <<up, server>>
  PROVE  /\ Queue'
         /\ \A i \in 1 .. Len(down') : down'[i].whole /\ down'[i].code \in {227, 550}
         /\ server.open => \A i \in 1 .. Len(up) : up[i].verb = "PASV"
<1>1. Len(down) \in Nat /\ n \in 1 .. Len(down) /\ Len(down') = Len(down) - n
  BY TypedFacts DEF Dropped
<1>2. ASSUME NEW i \in 1 .. Len(down')
      PROVE  /\ down'[i].whole /\ down'[i].code \in {227, 550}
             /\ down'[i].port # 0 => down'[i].code = 227
  <2>1. i \in 1 .. Len(down) - n /\ i + n \in 1 .. Len(down) /\ i + n > 1
    BY <1>1
  <2>2. down'[i] = down[i + n]
    BY <2>1 DEF Dropped
  <2>3. QED
    BY <2>1, <2>2 DEF Queue
<1>3. server.open => \A i \in 1 .. Len(up) : up[i].verb = "PASV"
  BY <1>1 DEF Queue
<1>4. Queue'
  BY <1>2, <1>3 DEF Queue, FromStart
<1>5. QED
  BY <1>2, <1>3, <1>4

\* A thread on a connection that others left has heard something.
LEMMA InheritedHeard ==
  ASSUME Numbers, Inv, pc = "hear", info = "done", verb = "PASV", Inherited, ~enabled,
         NEW c, NEW p, Heard(c, c, p), p \in {0, down[1].port}, NEW n, Dropped(n),
         Settled => n = 1, status' = c, UNCHANGED <<info, conn, strayed, up, server>>
  PROVE  Placed'
<1>1. /\ ~enabled' /\ info' = info /\ up' = up /\ server' = server /\ currentbyte' = currentbyte
      /\ strayed' = strayed
  BY DEF conn
<1>2. Queue /\ Typed
  BY DEF Inherited, Inv
<1>3. /\ Queue'
      /\ \A i \in 1 .. Len(down') : down'[i].whole /\ down'[i].code \in {227, 550}
      /\ server.open => \A i \in 1 .. Len(up) : up[i].verb = "PASV"
  BY <1>1, <1>2, QueueDropped
<1>4. CASE pc' = "fail"
  BY <1>1, <1>3, <1>4 DEF Placed
<1>5. CASE pc' = "say"
  <2>1. p # 0 /\ data_fd' = p /\ verb' \in {"REST", "RETR"} /\ p = down[1].port
        /\ verb' = (IF currentbyte > 0 THEN "REST" ELSE "RETR")
    BY <1>5 DEF Heard
  <2>2. /\ Len(up) \in Nat /\ (Len(up) = 0 <=> up = <<>>) /\ Len(down) \in Nat
        /\ n \in 1 .. Len(down) /\ Len(down') = Len(down) - n /\ Len(down') \in Nat
        /\ (Len(down') = 0 <=> down' = <<>>)
    BY <1>2, TypedFacts, Lengths DEF Dropped
  <2>3. strayed \/ Settled
    BY <2>1, <2>2 DEF Inherited, Barren
  <2>4. CASE ~server.open
    <3>1. Late'
      BY <1>1, <1>5, <2>1, <2>4 DEF Late
    <3>2. QED
      BY <1>1, <1>5, <3>1 DEF Placed
  <2>5. CASE up = <<>> /\ Len(down') = 0
    <3>1. FromStart
      BY <1>2 DEF Queue
    <3>2. verb' = "RETR" => server.rest = currentbyte \/ ~server.open
      <4>1. ~(currentbyte > 0) => currentbyte = 0
        BY <1>2 DEF Typed, Numbers
      <4>2. QED
        BY <2>1, <3>1, <4>1 DEF FromStart
    <3>3. strayed \/ (AtFile /\ p = server.port)
      <4>1. ASSUME Settled PROVE AtFile /\ p = server.port
        <5>1. Len(down) = 1
          BY <2>2, <2>5, <4>1
        <5>2. down[1].code = 227
          BY <1>2, <2>1, <2>2 DEF Queue
        <5>3. QED
          BY <2>1, <4>1, <5>1, <5>2 DEF Settled
      <4>2. QED
        BY <2>3, <4>1
    <3>4. Before(verb)'
      BY <1>1, <2>1, <3>2, <3>3 DEF AtFile, Before, Opening, Connected, Data
    <3>5. InStep'
      BY <1>1, <1>5, <2>1, <2>2, <2>5, <3>4 DEF InStep, Unsaid
    <3>6. QED
      BY <1>1, <1>5, <3>5 DEF Placed
  <2>6. CASE server.open /\ (up # <<>> \/ Len(down') # 0)
    <3>1. Len(down') > 0 => 1 \in 1 .. Len(down')
      BY <2>2
    <3>2. Late'
      <4>1. info' = "done" /\ data_fd' # 0 /\ verb' \in {"REST", "RETR"} /\ pc' = "say"
        BY <1>1, <1>5, <2>1
      <4>2. /\ \A i \in 1 .. Len(up') : up'[i].verb \notin {"LIST", "RETR"}
            /\ \A i \in 1 .. Len(down') : down'[i].whole /\ down'[i].code # 150
        BY <1>1, <1>3, <2>6
      <4>3. Len(down') = 0 => Len(up') > 0 /\ up'[1].verb # "RETR"
        BY <1>1, <2>2, <2>6, <4>2
      <4>4. QED
        BY <3>1, <4>1, <4>2, <4>3 DEF Late
    <3>3. QED
      BY <1>1, <1>5, <3>2 DEF Placed
  <2>7. QED
    BY <2>4, <2>5, <2>6
<1>6. QED
  BY <1>4, <1>5 DEF Heard

\* A thread that is out of step has heard something.
LEMMA LateHeard ==
  ASSUME Numbers, Inv, pc = "hear", Late, ~enabled, NEW r, NEW s, NEW p, Heard(r, s, p),
         \/ ~server.open /\ (verb = "REST" \/ r = -1)
         \/ Len(down) > 0 /\ down[1].whole /\ r = down[1].code /\ Dropped(1),
         UNCHANGED <<info, conn, strayed, up, server>>
  PROVE  Placed'
<1>1. /\ ~enabled' /\ info' = info /\ up' = up /\ server' = server /\ currentbyte' = currentbyte
  BY DEF conn
<1>2. CASE pc' = "fail"
  BY <1>1, <1>2 DEF Placed, Late, Heard
<1>3. CASE verb = "RETR" /\ pc' # "fail"
  <2>1. Class(r) = 1
    BY <1>3 DEF Heard
  <2>2. r # -1
    BY <2>1, Classes
  <2>3. Len(down) > 0 /\ r = down[1].code /\ down[1].code # 150 /\ down[1] \in Notices
    BY <1>3, <2>2, TypedFacts DEF Late, Inv
  <2>4. QED
    BY <2>1, <2>3, ClassOf DEF Notices
<1>4. CASE verb = "REST" /\ pc' # "fail"
  <2>1. pc' = "say" /\ verb' = "RETR" /\ data_fd' = data_fd
    BY <1>4 DEF Heard
  <2>2. Late'
    <3>1. CASE ~server.open
      BY <1>1, <2>1, <3>1 DEF Late
    <3>2. CASE server.open
      <4>1. /\ Len(up) + Len(down) > 1 /\ \A i \in 1 .. Len(down) : down[i].whole /\ down[i].code # 150
            /\ \A i \in 1 .. Len(up) : up[i].verb # "RETR"
        BY <1>4, <3>2 DEF Late
      <4>2. Dropped(1) /\ Len(up) \in Nat /\ Len(down) \in Nat
        BY <3>2, TypedFacts DEF Inv
      <4>3. /\ Len(up) + Len(down') > 0
            /\ \A i \in 1 .. Len(down') : down'[i].whole /\ down'[i].code # 150
        BY <4>1, <4>2 DEF Dropped
      <4>4. QED
        BY <1>1, <2>1, <4>1, <4>2, <4>3 DEF Late, Dropped
    <3>3. QED
      BY <3>1, <3>2
  <2>3. QED
    BY <1>1, <2>1, <2>2 DEF Placed
<1>5. QED
  BY <1>2, <1>3, <1>4 DEF Late

\* A thread in step finds the connection closed.
LEMMA GoneHeard ==
  ASSUME Numbers, Inv, pc = "hear", ~server.open, down = <<>>, ~enabled,
         info = "done" => verb # "PASV", Before(verb), Heard(-1, status, 0),
         UNCHANGED <<info, conn, strayed, up, down, server>>
  PROVE  Placed'
<1>1. /\ ~enabled' /\ info' = info /\ up' = up /\ down' = <<>> /\ server' = server
      /\ currentbyte' = currentbyte /\ info \in {"asking", "done", "failed"}
  BY DEF conn, Inv, Typed
<1>2. CASE pc' = "fail"
  <2>1. data_fd' = data_fd
    BY <1>2, Classes DEF Heard
  <2>2. ASSUME info = "done", data_fd = 0 PROVE Queue'
    <3>1. verb \notin Asking /\ verb # "REST" /\ verb # "RETR"
      BY <2>2 DEF Inv, Control, Before, Connected, Data
    <3>2. FromStart
      BY <3>1 DEF Before, Asking
    <3>3. QED
      BY <1>1, <3>2 DEF Queue, FromStart
  <2>3. QED
    BY <1>1, <1>2, <2>1, <2>2 DEF Placed
<1>3. CASE pc' # "fail"
  <2>1. /\ pc' = "say" /\ data_fd' = data_fd
        /\ \/ verb \in {"REST1", "REST0", "SIZE"} /\ verb' \in {"REST0", "SIZE", "PASV"}
           \/ verb = "REST" /\ verb' = "RETR"
    BY <1>3, Classes DEF Heard, Before, Opening
  <2>2. info = "done" => verb' # "PASV"
    BY <2>1 DEF Inv, Control, Asking
  <2>3. Before(verb)'
    BY <1>1, <2>1 DEF Before, Opening, Connected, Data, FromStart
  <2>4. InStep'
    BY <1>1, <2>1, <2>2, <2>3 DEF InStep, Unsaid
  <2>5. QED
    BY <1>1, <2>1, <2>4 DEF Placed
<1>4. QED
  BY <1>2, <1>3

-----------------------------------------------------------------------------
(* The steps of the thread. *)

\* ftp_wait takes a whole reply: what the thread may be doing then.
LEMMA HearTypes ==
  ASSUME Numbers, Orderly, Hear
  PROVE  Orderly'
<1> DEFINE r == down[1]
<1>1. /\ pc = "hear" /\ down # <<>> /\ down \in Seq(Notices)
      /\ up \in Seq(Commands) /\ server \in Servers
  BY DEF Hear, Orderly, Typed
<1>2. /\ Len(down) > 0 /\ Head(down) = r /\ down' = Tail(down) /\ r \in Notices
      /\ down' \in Seq(Notices) /\ Len(down') = Len(down) - 1 /\ Len(down) \in Nat
      /\ \A i \in 1 .. Len(down) - 1 : down'[i] = down[i + 1]
  BY <1>1, Taken, Lengths DEF Hear
<1>3. r.code \in Codes \cup {0} /\ r.port \in Nat /\ fd
  BY <1>1, <1>2 DEF Notices, Orderly, Control, Shut
<1>4. /\ Conclude(r.code, r.code, r.port)
      /\ UNCHANGED <<info, dying, main, strayed, conn, fd, up, server, faults>>
  BY <1>2 DEF Hear
<1>5. /\ Control'
      /\ pc' \in {"fail", "say", "known", "listing", "enable"} /\ verb' \in Verbs
      /\ redir' \in 0 .. MaxRedir /\ data_fd' \in Nat /\ status' = r.code
  BY <1>1, <1>3, <1>4, HeardControl
<1>6. Typed'
  BY <1>2, <1>3, <1>4, <1>5 DEF Orderly, Typed, conn
<1>7. QED
  BY <1>5, <1>6 DEF Orderly

\* ftp_wait takes a whole reply.
LEMMA HearStep ==
  ASSUME Numbers, Inv, Hear
  PROVE  Inv'
<1> DEFINE r == down[1]
<1>1. /\ pc = "hear" /\ down # <<>> /\ down \in Seq(Notices)
      /\ up \in Seq(Commands) /\ server \in Servers
  BY DEF Hear, Inv, Typed
<1>2. /\ Len(down) > 0 /\ Head(down) = r /\ down' = Tail(down) /\ r \in Notices /\ r.whole
      /\ Dropped(1) /\ Len(down) \in Nat
  <2>1. /\ Len(down) > 0 /\ Head(down) = r /\ down' = Tail(down) /\ r \in Notices /\ r.whole
        /\ Len(down) \in Nat
    BY <1>1, Taken, Lengths DEF Hear
  <2>2. down' \in Seq(Notices) /\ Len(down') = Len(down) - 1
    BY <1>1, <2>1, Taken
  <2>3. \A i \in 1 .. Len(down) - 1 : down'[i] = down[i + 1]
    BY <1>1, <2>1, Taken
  <2>4. QED
    BY <2>1, <2>2, <2>3 DEF Dropped
<1>3. /\ r.code \in Codes /\ r.port \in Nat
  BY <1>1, <1>2 DEF Notices
<1>4. /\ Conclude(r.code, r.code, r.port)
      /\ UNCHANGED <<info, dying, main, strayed, conn, fd, up, server, faults>>
  BY <1>2 DEF Hear
<1>5. /\ Heard(r.code, r.code, r.port) /\ status' = r.code
  BY <1>4, ConcludeHeard DEF Inv, Typed
<1>6. Typed' /\ Control'
  BY InvOrderly, HearTypes DEF Orderly
<1>7. ~enabled
  BY <1>1 DEF Inv, Control, Serving
<1>8. Placed'
  <2>1. CASE InStep
    <3>1. Replied /\ (info = "done" => verb # "PASV")
      BY <1>1, <2>1 DEF InStep, Unsaid, Said
    <3>2. QED
      BY <1>1, <1>2, <1>4, <1>5, <1>7, <3>1, RepliedHeard
  <2>2. CASE Late
    BY <1>1, <1>2, <1>4, <1>5, <1>7, <2>2, LateHeard
  <2>3. CASE info = "done" /\ verb = "PASV" /\ Inherited
    BY <1>1, <1>2, <1>4, <1>5, <1>7, <2>3, InheritedHeard
  <2>4. QED
    BY <1>1, <2>1, <2>2, <2>3 DEF Inv, Placed
<1>9. QED
  BY <1>6, <1>8 DEF Inv

\* ftp_wait takes the rest of a reply: what the thread may be doing then.
LEMMA HearRestTypes ==
  ASSUME Numbers, Orderly, HearRest
  PROVE  Orderly'
<1> DEFINE r == down[1]
<1>1. /\ pc = "hear" /\ down # <<>> /\ down \in Seq(Notices)
      /\ server \in Servers /\ status \in Codes \cup {0}
  BY DEF HearRest, Orderly, Typed
<1>2. /\ Len(down) > 0 /\ Head(down) = r /\ r \in Notices
      /\ Len(down) \in Nat /\ DOMAIN down = 1 .. Len(down)
  BY <1>1, Taken, Lengths DEF HearRest
<1>3. PICK n \in 1 .. Len(down) : down' = SubSeq(down, n + 1, Len(down))
  BY <1>2 DEF HearRest
<1>4. /\ down' \in Seq(Notices) /\ Len(down') = Len(down) - n
      /\ \A i \in 1 .. Len(down) - n : down'[i] = down[i + n]
  BY <1>1, <1>3, Behind
<1>5. PICK p \in {0, r.port} : Conclude(status, status, p)
  BY <1>2 DEF HearRest
<1>6. UNCHANGED <<info, dying, main, strayed, conn, fd, up, server, faults>>
  BY DEF HearRest
<1>7. /\ Control'
      /\ pc' \in {"fail", "say", "known", "listing", "enable"} /\ verb' \in Verbs
      /\ redir' \in 0 .. MaxRedir /\ data_fd' \in Nat /\ status' = status
  <2>1. p \in Nat /\ fd
    BY <1>1, <1>2, <1>5 DEF Orderly, Control, Shut, Notices
  <2>2. QED
    BY <1>1, <1>5, <1>6, <2>1, HeardControl
<1>8. Typed'
  BY <1>1, <1>4, <1>6, <1>7 DEF Orderly, Typed, conn
<1>9. QED
  BY <1>7, <1>8 DEF Orderly

\* ftp_wait takes the rest of a reply, and what it reads on to.
LEMMA HearRestStep ==
  ASSUME Numbers, Inv, HearRest
  PROVE  Inv'
<1> DEFINE r == down[1]
<1>1. /\ pc = "hear" /\ down # <<>> /\ down \in Seq(Notices)
      /\ up \in Seq(Commands) /\ server \in Servers /\ status \in Codes \cup {0}
  BY DEF HearRest, Inv, Typed
<1>2. /\ Len(down) > 0 /\ Head(down) = r /\ r \in Notices /\ ~r.whole
      /\ Len(down) \in Nat /\ DOMAIN down = 1 .. Len(down)
  BY <1>1, Taken, Lengths DEF HearRest
<1>3. PICK n \in 1 .. Len(down) : /\ n > 1 => down[n].code = status
                                  /\ down' = SubSeq(down, n + 1, Len(down))
  BY <1>2 DEF HearRest
<1>4. /\ down' \in Seq(Notices) /\ Len(down') = Len(down) - n
      /\ \A i \in 1 .. Len(down) - n : down'[i] = down[i + n]
  BY <1>1, <1>3, Behind
<1>5. PICK p \in {0, r.port} : Conclude(status, status, p)
  BY <1>2 DEF HearRest
<1>6. UNCHANGED <<info, dying, main, strayed, conn, fd, up, server, faults>>
  BY DEF HearRest
<1>7. Heard(status, status, p) /\ status' = status
  BY <1>5, ConcludeHeard DEF Inv, Typed
<1>8. Typed' /\ Control'
  BY InvOrderly, HearRestTypes DEF Orderly
<1>9. ~enabled
  BY <1>1 DEF Inv, Control, Serving
<1>10. Placed'
  <2>1. CASE InStep
    BY <1>1, <1>2, <2>1 DEF InStep, Unsaid, Said, Replied, Matches
  <2>2. CASE Late
    <3>1. ~server.open /\ verb = "REST"
      BY <1>1, <1>2, <2>2 DEF Late
    <3>2. QED
      BY <1>1, <1>6, <1>7, <1>9, <2>2, <3>1, LateHeard
  <2>3. CASE info = "done" /\ verb = "PASV" /\ Inherited
    <3>1. Settled => n = 1
      BY <1>2, <1>3 DEF Settled
    <3>2. Dropped(n)
      BY <1>4 DEF Dropped
    <3>3. QED
      BY <1>1, <1>2, <1>5, <1>6, <1>7, <1>9, <2>3, <3>1, <3>2, InheritedHeard
  <2>4. QED
    BY <1>1, <2>1, <2>2, <2>3 DEF Inv, Placed
<1>11. QED
  BY <1>8, <1>10 DEF Inv

\* ftp_wait finds the end of the connection: what the thread may be doing then.
LEMMA HearGoneTypes ==
  ASSUME Numbers, Orderly, HearGone
  PROVE  Orderly'
<1>1. /\ pc = "hear" /\ down = <<>> /\ Conclude(-1, status, 0)
      /\ UNCHANGED <<info, dying, main, strayed, conn, fd, up, down, server, faults>>
      /\ server \in Servers /\ status \in Codes \cup {0} /\ down' = down
  BY DEF HearGone, Orderly, Typed
<1>2. /\ Control'
      /\ pc' \in {"fail", "say", "known", "listing", "enable"} /\ verb' \in Verbs
      /\ redir' \in 0 .. MaxRedir /\ data_fd' \in Nat /\ status' = status
  BY <1>1, HeardControl
<1>3. Typed'
  BY <1>1, <1>2 DEF Orderly, Typed, conn
<1>4. QED
  BY <1>2, <1>3 DEF Orderly

\* ftp_wait finds the end of the control connection.
LEMMA HearGoneStep ==
  ASSUME Numbers, Inv, HearGone
  PROVE  Inv'
<1>1. /\ pc = "hear" /\ down = <<>> /\ ~server.open /\ Conclude(-1, status, 0)
      /\ UNCHANGED <<info, dying, main, strayed, conn, fd, up, down, server, faults>>
      /\ server \in Servers /\ status \in Codes \cup {0} /\ down' = down
  BY DEF HearGone, Inv, Typed
<1>2. Heard(-1, status, 0) /\ status' = status
  BY <1>1, ConcludeHeard DEF Inv, Typed
<1>3. Typed' /\ Control'
  BY InvOrderly, HearGoneTypes DEF Orderly
<1>4. ~enabled /\ Len(down) = 0
  BY <1>1, TypedFacts DEF Inv, Control, Serving
<1>5. Placed'
  <2>1. CASE InStep
    <3>1. Before(verb) /\ (info = "done" => verb # "PASV")
      BY <1>4, <2>1 DEF InStep, Replied
    <3>2. QED
      BY <1>1, <1>2, <1>4, <3>1, GoneHeard
  <2>2. CASE Late
    BY <1>1, <1>2, <1>4, <2>2, LateHeard
  <2>3. CASE info = "done" /\ verb = "PASV" /\ Inherited
    <3>1. pc' = "fail"
      BY <1>2, <2>3, Classes DEF Heard
    <3>2. ~enabled'
      BY <1>1, <1>4 DEF conn
    <3>3. Queue'
      BY <1>1, <2>3 DEF Inherited, Queue, FromStart
    <3>4. QED
      BY <3>1, <3>2, <3>3 DEF Placed
  <2>4. QED
    BY <1>1, <2>1, <2>2, <2>3 DEF Inv, Placed
<1>6. QED
  BY <1>3, <1>5 DEF Inv

\* A sequence of one.
LEMMA Single ==
  ASSUME NEW S, NEW e \in S
  PROVE  <<e>> \in Seq(S) /\ Len(<<e>>) = 1 /\ <<e>>[1] = e /\ <<e>> # <<>>
OBVIOUS

\* A setup thread begins, with what it may find open.
LEMMA SetupTypes ==
  ASSUME Numbers, Orderly, Setup
  PROVE  Orderly'
<1>1. /\ pc = "setup" /\ info \in {"asking", "done", "failed"}
      /\ UNCHANGED <<info, dying, main, conn, redir, status, faults>>
  BY DEF Setup, Orderly, Typed
<1>2. info # "failed" /\ enabled' = enabled /\ Typed /\ Control
  BY <1>1 DEF Orderly, Control, conn
<1>3. CASE /\ ~fd /\ fd' = TRUE /\ server' = NewServer
           /\ up' = <<Command("greeting", 0)>> /\ pc' = "hear" /\ verb' = "greeting"
           /\ UNCHANGED <<data_fd, strayed, down>>
  <2>1. /\ data_fd = 0 /\ down = <<>> /\ Command("greeting", 0) \in Commands
        /\ down' = down /\ ~enabled /\ main # "leave" /\ ~strayed
    BY <1>1, <1>2, <1>3 DEF Control, Shut, Commands, Command, Verbs
  <2>2. up' \in Seq(Commands)
    BY <1>3, <2>1, Single
  <2>3. Typed'
    BY <1>1, <1>2, <1>3, <2>1, <2>2, TypedFacts DEF Typed, conn, Verbs, NewServer, Servers
  <2>4. Control'
    BY <1>1, <1>2, <1>3, <2>1 DEF Control, Asking, Opening, conn
  <2>5. QED
    BY <2>3, <2>4 DEF Orderly
<1>4. CASE ~fd /\ Fail /\ UNCHANGED wire
  <2>1. ~enabled /\ main # "leave"
    BY <1>1, <1>2, <1>4 DEF Control
  <2>2. Typed' /\ Control'
    BY <1>1, <1>2, <1>4, <2>1 DEF Typed, Control, Shut, Fail, wire, conn
  <2>3. QED
    BY <2>2 DEF Orderly
<1>5. CASE fd /\ pc' = "data" /\ UNCHANGED <<verb, wire>>
  <2>1. Typed'
    BY <1>1, <1>2, <1>5 DEF Typed, wire, conn
  <2>2. Control'
    BY <1>1, <1>2, <1>5 DEF Control, Shut, Serving, wire, conn
  <2>3. QED
    BY <2>1, <2>2 DEF Orderly
<1>6. QED
  BY <1>3, <1>4, <1>5 DEF Setup

\* A setup thread begins: on no connection, and on one that is open.
LEMMA SetupStep ==
  ASSUME Numbers, Inv, Setup
  PROVE  Inv'
<1>1. Typed' /\ Control'
  BY InvOrderly, SetupTypes DEF Orderly
<1>2. /\ pc = "setup" /\ info \in {"asking", "done", "failed"}
      /\ UNCHANGED <<info, dying, main, conn, redir, status, faults>>
  BY DEF Setup, Inv, Typed
<1>3. info # "failed" /\ enabled' = enabled /\ (~fd => ~enabled)
  BY <1>2 DEF Inv, Control, conn
<1>4. CASE /\ ~fd /\ fd' = TRUE /\ server' = NewServer
           /\ up' = <<Command("greeting", 0)>> /\ pc' = "hear" /\ verb' = "greeting"
           /\ UNCHANGED <<data_fd, strayed, down>>
  <2>1. data_fd = 0 /\ down = <<>> /\ Command("greeting", 0) \in Commands /\ down' = down
    BY <1>4 DEF Inv, Control, Shut, Commands, Command, Verbs
  <2>2. /\ up' \in Seq(Commands) /\ Len(up') = 1 /\ up'[1] = Command("greeting", 0)
    BY <1>4, <2>1, Single
  <2>3. InStep'
    <3>1. Before(verb)'
      BY <1>4, <2>1 DEF Before, Opening, Connected, Data, FromStart, NewServer
    <3>2. Said'
      BY <1>4, <2>1, <2>2 DEF Said, At
    <3>3. QED
      BY <1>4, <3>1, <3>2 DEF InStep
  <2>4. Placed'
    BY <1>3, <1>4, <2>3 DEF Placed
  <2>5. QED
    BY <1>1, <2>4 DEF Inv
<1>5. CASE ~fd /\ Fail /\ UNCHANGED wire
  <2>1. Placed'
    BY <1>3, <1>5 DEF Placed, Fail, wire
  <2>2. QED
    BY <1>1, <2>1 DEF Inv
<1>6. CASE fd /\ pc' = "data" /\ UNCHANGED <<verb, wire>>
  <2>1. Inherited => Inherited'
    BY <1>2, <1>6 DEF Inherited, Queue, Barren, Settled, AtFile, FromStart, wire
  <2>2. Delivers => Delivers'
    BY <1>2, <1>6 DEF Delivers, wire, conn
  <2>3. fd' = fd /\ data_fd' = data_fd /\ server' = server
    BY <1>6 DEF wire
  <2>4. Placed'
    BY <1>2, <1>3, <1>6, <2>1, <2>2, <2>3 DEF Inv, Placed
  <2>5. QED
    BY <1>1, <2>4 DEF Inv
<1>7. QED
  BY <1>4, <1>5, <1>6 DEF Setup

\* ftp_data begins.
LEMMA OpenDataTypes ==
  ASSUME Numbers, Orderly, OpenData
  PROVE  Orderly'
<1>1. /\ pc = "data" /\ Typed /\ Control /\ info = "done" /\ enabled' = enabled
      /\ UNCHANGED <<info, dying, main, conn, redir, status, wire, faults>>
  BY DEF OpenData, Orderly, Typed, Control, conn
<1>2. CASE data_fd = 0 /\ Say("PASV")
  <2>1. ~enabled /\ main # "leave"
    BY <1>1, <1>2 DEF Control
  <2>2. Typed'
    BY <1>1, <1>2 DEF Typed, Say, wire, conn, Verbs
  <2>3. Control'
    BY <1>1, <1>2, <2>1 DEF Control, Shut, Say, wire, conn, Asking
  <2>4. QED
    BY <2>2, <2>3 DEF Orderly
<1>3. CASE data_fd # 0 /\ Fail
  <2>1. Typed'
    BY <1>1, <1>3 DEF Typed, Fail, wire, conn
  <2>2. Control'
    BY <1>1, <1>3 DEF Control, Shut, Serving, Fail, wire, conn
  <2>3. QED
    BY <2>1, <2>2 DEF Orderly
<1>4. QED
  BY <1>2, <1>3 DEF OpenData

\* ftp_data begins: on what others left without data connection it asks for a port.
LEMMA OpenDataStep ==
  ASSUME Numbers, Inv, OpenData
  PROVE  Inv'
<1>1. Typed' /\ Control'
  BY InvOrderly, OpenDataTypes DEF Orderly
<1>2. /\ pc = "data" /\ Control /\ info = "done" /\ enabled' = enabled
      /\ UNCHANGED <<info, dying, main, conn, redir, status, wire, faults>>
      /\ UNCHANGED <<fd, data_fd, server, status, up, down, strayed>>
  BY DEF OpenData, Inv, Typed, Control, conn, wire
<1>3. Delivers => Delivers'
  BY <1>2 DEF Delivers, conn
<1>4. CASE data_fd = 0 /\ Say("PASV")
  <2>1. ~enabled
    BY <1>2, <1>4 DEF Control
  <2>2. Inherited
    <3>1. CASE fd
      BY <1>2, <1>4, <2>1, <3>1 DEF Inv, Placed
    <3>2. CASE ~fd
      BY <1>2, <1>4, <3>2, ShutFacts, ClosedInherited DEF Control
    <3>3. QED
      BY <3>1, <3>2
  <2>3. Inherited'
    BY <1>2, <2>2 DEF Inherited, Queue, Barren, Settled, AtFile, FromStart
  <2>4. Placed'
    BY <1>2, <1>4, <2>1, <2>3 DEF Placed, Say
  <2>5. QED
    BY <1>1, <2>4 DEF Inv
<1>5. CASE data_fd # 0 /\ Fail
  <2>1. Placed'
    BY <1>2, <1>3, <1>5 DEF Inv, Placed, Fail
  <2>2. QED
    BY <1>1, <2>1 DEF Inv
<1>6. QED
  BY <1>4, <1>5 DEF OpenData

\* The queues when a command is sent.
LEMMA Sent ==
  ASSUME Typed, NEW e \in Commands, up' = Append(up, e)
  PROVE  /\ up' \in Seq(Commands) /\ Len(up') = Len(up) + 1 /\ up'[Len(up) + 1] = e
         /\ \A i \in 1 .. Len(up) : up'[i] = up[i]
BY Appended DEF Typed

\* ftp_command leaves the thread waiting, or failing.
LEMMA WriteTypes ==
  ASSUME Numbers, Orderly, Write
  PROVE  Orderly'
<1> DEFINE e == Command(verb, At(verb))
<1>1. /\ pc = "say" /\ Typed /\ Control
      /\ UNCHANGED <<info, dying, main, conn, redir, status, fd, data_fd, strayed, down, server, faults>>
      /\ currentbyte \in 0 .. Size /\ Size \in Nat /\ verb \in Verbs /\ verb # "226"
  BY DEF Write, Orderly, Typed, Control, Numbers
<1>2. /\ IF server.open THEN up' = Append(up, e) ELSE up' = up
      /\ IF ~server.open /\ verb = "RETR" THEN Fail ELSE pc' = "hear" /\ UNCHANGED verb
  BY DEF Write, At
<1>3. e \in Commands
  BY <1>1 DEF Commands, Command, At
<1> HIDE DEF e
<1>4. ~enabled' /\ info # "failed" /\ verb' = verb /\ pc' \in {"hear", "fail"}
  BY <1>1, <1>2 DEF Control, Serving, conn, Fail
<1>5. Typed'
  <2>1. up' \in Seq(Commands)
    BY <1>1, <1>2, <1>3, Sent DEF Typed
  <2>2. QED
    BY <1>1, <1>4, <2>1 DEF Typed, conn
<1>6. ~fd => up' = <<>> /\ Shut
  BY <1>1, <1>2, ShutFacts DEF Control
<1>7. main # "leave"
  BY <1>1 DEF Control, Serving
<1>8. Control'
  BY <1>1, <1>4, <1>6, <1>7 DEF Control, Shut, conn
<1>9. QED
  BY <1>5, <1>8 DEF Orderly

\* ftp_command sends the command of the thread.
LEMMA WriteStep ==
  ASSUME Numbers, Inv, Write
  PROVE  Inv'
<1> DEFINE e == Command(verb, At(verb))
<1>1. /\ pc = "say" /\ info \in {"asking", "done", "failed"}
      /\ UNCHANGED <<info, dying, main, conn, redir, status, fd, data_fd, strayed, down, server, faults>>
      /\ currentbyte \in 0 .. Size /\ Size \in Nat /\ verb \in Verbs
  BY DEF Write, Inv, Typed, Numbers
<1>2. /\ IF server.open THEN up' = Append(up, e) ELSE up' = up
      /\ IF ~server.open /\ verb = "RETR" THEN Fail ELSE pc' = "hear" /\ UNCHANGED verb
  BY DEF Write, At
<1>3. e \in Commands /\ e.verb = verb
  <2>1. verb # "226"
    BY <1>1 DEF Inv, Control
  <2>2. QED
    BY <1>1, <2>1 DEF Commands, Command, At
<1> HIDE DEF e
<1>4. ~enabled /\ ~enabled' /\ info # "failed" /\ verb' = verb /\ pc' \in {"hear", "fail"}
  BY <1>1, <1>2 DEF Inv, Control, Serving, conn, Fail
<1>5. Typed' /\ Control'
  BY InvOrderly, WriteTypes DEF Orderly
<1>6. Placed'
  <2>1. CASE ~server.open /\ verb = "RETR"
    <3>1. data_fd # 0 /\ data_fd' = data_fd
      BY <1>1, <2>1 DEF Inv, Placed, InStep, Replied, Late, Before, Connected, Data
    <3>2. QED
      BY <1>2, <1>4, <2>1, <3>1 DEF Placed, Fail
  <2>2. CASE ~server.open /\ verb # "RETR"
    <3>1. pc' = "hear" /\ up' = up
      BY <1>2, <2>2
    <3>2. InStep => InStep'
      BY <1>1, <1>4, <2>2, <3>1
         DEF InStep, Unsaid, Said, Replied, Before, Opening, Connected, Data, FromStart
    <3>3. Late => Late'
      BY <1>1, <1>4, <2>2, <3>1 DEF Late
    <3>4. Inherited => Inherited'
      BY <1>1, <1>4, <2>2, <3>1 DEF Inherited, Queue, Barren, Settled, AtFile, FromStart
    <3>5. QED
      BY <1>1, <1>4, <3>1, <3>2, <3>3, <3>4 DEF Inv, Placed
  <2>3. CASE server.open
    <3>1. pc' = "hear" /\ up' = Append(up, e)
      BY <1>2, <2>3
    <3>2. /\ Len(up') = Len(up) + 1 /\ up'[Len(up) + 1] = e /\ Len(up) \in Nat
          /\ \A i \in 1 .. Len(up) : up'[i] = up[i]
          /\ (Len(up) = 0 <=> up = <<>>) /\ Len(down) \in Nat
      BY <1>3, <3>1, Sent, TypedFacts DEF Inv
    <3>3. /\ down' = down /\ server' = server /\ info' = info /\ data_fd' = data_fd
          /\ strayed' = strayed
      BY <1>1
    <3>4. ASSUME InStep PROVE InStep'
      <4>1. up = <<>> /\ down = <<>> /\ Before(verb) /\ (info = "done" => verb # "PASV")
        BY <1>1, <2>3, <3>4 DEF InStep, Unsaid, Said, Replied
      <4>2. Len(up') = 1 /\ up'[1] = e
        BY <3>2, <4>1
      <4>3. Said'
        BY <1>1, <1>4, <3>1, <4>1, <4>2 DEF Said, At, e, conn
      <4>4. Before(verb)'
        BY <1>1, <1>4, <4>1 DEF Before, Opening, Connected, Data, FromStart, conn
      <4>5. QED
        BY <1>1, <1>4, <4>1, <4>3, <4>4 DEF InStep
    <3>5. ASSUME Late PROVE Late'
      <4>1. /\ info = "done" /\ data_fd # 0 /\ verb \in {"REST", "RETR"}
            /\ \A i \in 1 .. Len(down) : down[i].whole /\ down[i].code # 150
            /\ \A i \in 1 .. Len(up) : up[i].verb \notin {"LIST", "RETR"}
            /\ Len(down) = 0 => Len(up) > 0
        BY <1>1, <2>3, <3>5 DEF Late
      <4>2. \A i \in 1 .. Len(up') : /\ (verb = "RETR" /\ i = Len(up) + 1) \/ up'[i].verb # "RETR"
                                     /\ up'[i].verb # "LIST"
        BY <1>3, <3>2, <4>1
      <4>3. Len(up') + Len(down) > 1
        BY <3>2, <4>1
      <4>4. /\ Len(down) > 0 => down[1].code # 150
            /\ Len(down) = 0 => Len(up') > 0 /\ up'[1].verb # "RETR"
        BY <3>2, <4>1
      <4>5. QED
        BY <1>4, <3>1, <3>3, <4>1, <4>2, <4>3, <4>4 DEF Late
    <3>6. ASSUME info = "done", verb = "PASV", Inherited PROVE Inherited'
      <4>1. Queue'
        <5>1. \A i \in 1 .. Len(up') : /\ up'[i].verb \in Opening \cup {"PASV"}
                                       /\ i > 1 \/ Len(down) > 0 => up'[i].verb = "PASV"
          BY <1>3, <2>3, <3>2, <3>6 DEF Inherited, Queue
        <5>2. QED
          BY <3>3, <3>6, <5>1 DEF Inherited, Queue, FromStart
      <4>2. ASSUME Barren PROVE Barren'
        BY <2>3, <3>2, <3>3, <4>2 DEF Barren
      <4>3. ASSUME Settled PROVE Settled'
        <5>1. \A i \in 1 .. Len(up') : up'[i].verb = "PASV"
          BY <1>3, <2>3, <3>6, <3>2, <4>3 DEF Settled
        <5>2. QED
          BY <1>1, <3>3, <4>3, <5>1 DEF Settled, AtFile, FromStart
      <4>4. QED
        BY <3>3, <3>6, <4>1, <4>2, <4>3 DEF Inherited
    <3>7. QED
      BY <1>1, <1>4, <3>1, <3>4, <3>5, <3>6 DEF Inv, Placed
  <2>4. QED
    BY <2>1, <2>2, <2>3
<1>7. QED
  BY <1>5, <1>6 DEF Inv

\* ftp_size has read the listing.
LEMMA ReadListingTypes ==
  ASSUME Numbers, Orderly, ReadListing
  PROVE  Orderly'
<1>1. /\ pc = "listing" /\ pc' = "hear" /\ verb' = "226" /\ data_fd' = 0
      /\ UNCHANGED <<info, dying, main, strayed, conn, redir, status, fd, up, down, server, faults>>
      /\ Typed /\ Control /\ server \in Servers
  BY DEF ReadListing, Orderly, Typed
<1>2. ~enabled' /\ info = "asking" /\ ~dying /\ main = "free" /\ fd
  BY <1>1 DEF Control, Typed, conn
<1>3. Typed'
  BY <1>1 DEF Typed, conn, Verbs, Servers
<1>4. Control'
  BY <1>1, <1>2 DEF Control, Asking, Opening
<1>5. QED
  BY <1>3, <1>4 DEF Orderly

\* ftp_size has read the listing, whose last reply is still to be heard.
LEMMA ReadListingStep ==
  ASSUME Numbers, Inv, ReadListing
  PROVE  Inv'
<1>1. /\ pc = "listing" /\ pc' = "hear" /\ verb' = "226" /\ data_fd' = 0
      /\ UNCHANGED <<info, dying, main, strayed, conn, redir, status, fd, up, down, server, faults>>
      /\ server \in Servers
  BY DEF ReadListing, Inv, Typed
<1>2. /\ ~enabled /\ ~enabled' /\ info = "asking" /\ AtFile /\ FromStart /\ ~dying
      /\ up = <<>> /\ Len(down) = 1 /\ down[1] = Reply(200, 0)
  BY <1>1 DEF Inv, Placed, Control, conn
<1>3. Typed' /\ Control'
  BY InvOrderly, ReadListingTypes DEF Orderly
<1>4. Replied'
  BY <1>1, <1>2 DEF Replied, Matches, Reply, Opening, Connected, Data, AtFile, FromStart
<1>5. Placed'
  BY <1>1, <1>2, <1>4 DEF Placed, InStep
<1>6. QED
  BY <1>3, <1>5 DEF Inv

\* ftp_size has the size, and the first setup begins.
LEMMA SizeKnownTypes ==
  ASSUME Numbers, Orderly, SizeKnown
  PROVE  Orderly'
<1>1. /\ pc = "known" /\ info' = "done" /\ state' = 1 /\ pc' = "setup"
      /\ currentbyte' \in 0 .. Size - 1 /\ Typed /\ Control
      /\ UNCHANGED <<verb, status, dying, main, enabled, redir, fd, data_fd, strayed, up, down, server, faults>>
  BY DEF SizeKnown, wire, Orderly
<1>2. ~enabled' /\ ~dying /\ main = "free" /\ fd /\ info = "asking"
  BY <1>1 DEF Control, Typed
<1>3. Typed'
  BY <1>1 DEF Typed, Numbers
<1>4. Control'
  BY <1>1, <1>2 DEF Control
<1>5. QED
  BY <1>3, <1>4 DEF Orderly

\* ftp_size has the size: nothing is under way, and the first setup begins.
LEMMA SizeKnownStep ==
  ASSUME Numbers, Inv, SizeKnown
  PROVE  Inv'
<1>1. /\ pc = "known" /\ info' = "done" /\ state' = 1 /\ pc' = "setup"
      /\ currentbyte' \in 0 .. Size - 1
      /\ UNCHANGED <<verb, status, dying, main, enabled, redir, fd, data_fd, strayed, up, down, server, faults>>
  BY DEF SizeKnown, wire
<1>2. /\ ~enabled /\ info = "asking" /\ ~dying
      /\ data_fd = 0 /\ Unsaid /\ AtFile /\ FromStart /\ status = 200
  BY <1>1 DEF Inv, Placed, Control
<1>3. Typed' /\ Control'
  BY InvOrderly, SizeKnownTypes DEF Orderly
<1>4. Inherited'
  <2>1. Len(down) = 0 /\ (server.open => Len(up) = 0)
    BY <1>2, TypedFacts DEF Unsaid, Inv
  <2>2. Settled'
    BY <1>1, <1>2, <2>1 DEF Settled, AtFile, FromStart
  <2>3. Queue'
    BY <1>1, <1>2, <2>1 DEF Queue, FromStart
  <2>4. QED
    BY <1>1, <1>2, <2>2, <2>3 DEF Inherited
<1>5. Placed'
  BY <1>1, <1>2, <1>4 DEF Placed
<1>6. QED
  BY <1>3, <1>5 DEF Inv

\* The setup is over, and the connection is marked.
LEMMA EnableTypes ==
  ASSUME Numbers, Orderly, Enable
  PROVE  Orderly'
<1>1. /\ pc = "enable" /\ enabled' = TRUE /\ pc' = "done" /\ Typed /\ Control
      /\ UNCHANGED <<info, verb, status, dying, main, state, currentbyte, redir,
                     fd, data_fd, strayed, up, down, server, faults>>
  BY DEF Enable, wire, Orderly
<1>2. info = "done" /\ fd /\ data_fd # 0 /\ main # "leave"
  BY <1>1 DEF Typed, Control, Serving
<1>3. Typed'
  BY <1>1 DEF Typed
<1>4. Control'
  BY <1>1, <1>2 DEF Control, Serving
<1>5. QED
  BY <1>3, <1>4 DEF Orderly

\* The setup is over: the data connection delivers what is wanted.
LEMMA EnableStep ==
  ASSUME Numbers, Inv, Enable
  PROVE  Inv'
<1>1. /\ pc = "enable" /\ enabled' = TRUE /\ pc' = "done"
      /\ UNCHANGED <<info, verb, status, dying, main, state, currentbyte, redir,
                     fd, data_fd, strayed, up, down, server, faults>>
  BY DEF Enable, wire
<1>2. Delivers
  BY <1>1 DEF Inv, Placed
<1>3. Typed' /\ Control'
  BY InvOrderly, EnableTypes DEF Orderly
<1>4. Placed'
  BY <1>1, <1>2 DEF Placed, Delivers
<1>5. QED
  BY <1>3, <1>4 DEF Inv

\* The thread ends.
LEMMA DoneTypes ==
  ASSUME Numbers, Orderly, Done
  PROVE  Orderly'
<1>1. /\ pc = "done" /\ state' = 0 /\ pc' = "ended" /\ Typed /\ Control
      /\ UNCHANGED <<info, verb, status, dying, main, enabled, currentbyte, redir,
                     fd, data_fd, strayed, up, down, server, faults>>
  BY DEF Done, wire, Orderly
<1>2. info = "done"
  BY <1>1 DEF Typed, Control
<1>3. Typed'
  BY <1>1 DEF Typed
<1>4. Control'
  BY <1>1, <1>2 DEF Control, Shut, Serving
<1>5. QED
  BY <1>3, <1>4 DEF Orderly

\* The thread ends, of a connection that is served or has been left.
LEMMA DoneStep ==
  ASSUME Numbers, Inv, Done
  PROVE  Inv'
<1>1. /\ pc = "done" /\ state' = 0 /\ pc' = "ended" /\ Control
      /\ UNCHANGED <<info, verb, status, dying, main, enabled, currentbyte, redir,
                     fd, data_fd, strayed, up, down, server, faults>>
  BY DEF Done, wire, Inv
<1>2. Typed' /\ Control'
  BY InvOrderly, DoneTypes DEF Orderly
<1>3. Delivers => Delivers'
  BY <1>1 DEF Delivers
<1>4. ~enabled' => data_fd' # 0 \/ Inherited'
  <2>1. ASSUME ~enabled PROVE up' = <<>> /\ down' = <<>> /\ ~server'.open
    BY <1>1, <2>1, ShutFacts DEF Control
  <2>2. QED
    BY <1>1, <2>1 DEF Inherited, Queue, FromStart, Barren
<1>5. Placed'
  BY <1>1, <1>3, <1>4 DEF Inv, Placed
<1>6. QED
  BY <1>2, <1>5 DEF Inv

\* The setup thread closes the control connection.
LEMMA HangUpTypes ==
  ASSUME Numbers, Orderly, HangUp
  PROVE  Orderly'
<1>1. /\ pc = "fail" /\ pc' = "closing" /\ up' = <<>> /\ down' = <<>>
      /\ server' = [server EXCEPT !.open = FALSE] /\ Typed /\ Control /\ server \in Servers
      /\ UNCHANGED <<info, verb, status, dying, main, state, enabled, currentbyte, redir,
                     fd, data_fd, strayed, faults>>
  BY DEF HangUp, conn, Orderly, Typed
<1>2. server' \in Servers /\ ~server'.open
  BY <1>1 DEF Servers
<1>3. Shut => Shut'
  <2>1. ASSUME server = Closed PROVE server' = Closed
    BY <1>1, <2>1, ClosedFacts
  <2>2. QED
    BY <1>1, <2>1 DEF Shut
<1>4. Typed'
  BY <1>1, <1>2 DEF Typed
<1>5. Control'
  BY <1>1, <1>2, <1>3 DEF Control, Serving
<1>6. QED
  BY <1>4, <1>5 DEF Orderly

\* What is left is at most a data connection.
LEMMA HangUpStep ==
  ASSUME Numbers, Inv, HangUp
  PROVE  Inv'
<1>1. /\ pc = "fail" /\ pc' = "closing" /\ up' = <<>> /\ down' = <<>>
      /\ server' = [server EXCEPT !.open = FALSE] /\ server \in Servers
      /\ UNCHANGED <<info, verb, status, dying, main, state, enabled, currentbyte, redir,
                     fd, data_fd, strayed, faults>>
  BY DEF HangUp, conn, Inv, Typed
<1>2. Typed' /\ Control'
  BY InvOrderly, HangUpTypes DEF Orderly
<1>3. /\ server'.sends = server.sends /\ server'.on = server.on /\ server'.dir = server.dir
  BY <1>1 DEF Servers
<1>4. server = Closed => server' = Closed
  BY <1>1, ClosedFacts
<1>5. Delivers => Delivers'
  BY <1>1, <1>3 DEF Delivers
<1>6. Placed'
  BY <1>1, <1>4, <1>5 DEF Inv, Placed
<1>7. QED
  BY <1>2, <1>6 DEF Inv

\* Both connections are closed.
LEMMA CloseBothShut ==
  ASSUME CloseBoth
  PROVE  /\ Shut' /\ ~server'.open /\ server' = Closed /\ server' \in Servers
         /\ up' = <<>> /\ down' = <<>> /\ strayed' \in BOOLEAN
         /\ up' \in Seq(Commands) /\ down' \in Seq(Notices)
<1>1. up' = <<>> /\ down' = <<>> /\ strayed' = FALSE /\ server' = Closed
  BY DEF CloseBoth
<1>2. up' \in Seq(Commands) /\ down' \in Seq(Notices)
  BY <1>1
<1>3. QED
  BY <1>1, <1>2, ClosedFacts DEF Shut

\* The setup thread closes the data connection.
LEMMA CloseDataTypes ==
  ASSUME Numbers, Orderly, CloseData
  PROVE  Orderly'
<1>1. /\ pc = "closing" /\ pc' = "marking" /\ CloseBoth /\ Typed /\ Control
      /\ UNCHANGED <<info, verb, status, dying, main, state, enabled, currentbyte, redir,
                     fd, data_fd, faults>>
  BY DEF CloseData, conn, Orderly
<1>2. Typed'
  BY <1>1, CloseBothShut DEF Typed
<1>3. ~strayed'
  BY <1>1 DEF CloseBoth
<1>4. Control'
  BY <1>1, <1>3, CloseBothShut DEF Control, Serving
<1>5. QED
  BY <1>2, <1>4 DEF Orderly

\* Nothing is left.
LEMMA CloseDataStep ==
  ASSUME Numbers, Inv, CloseData
  PROVE  Inv'
<1>1. pc' = "marking" /\ CloseBoth
  BY DEF CloseData
<1>2. Typed' /\ Control'
  BY InvOrderly, CloseDataTypes DEF Orderly
<1>3. Placed'
  BY <1>1, CloseBothShut DEF Placed
<1>4. QED
  BY <1>2, <1>3 DEF Inv

\* The connection is given up, and marked as closed.
LEMMA GiveUpTypes ==
  ASSUME Numbers, Orderly, GiveUp
  PROVE  Orderly'
<1>1. /\ pc = "marking" /\ pc' = "ended" /\ fd' = FALSE /\ data_fd' = 0 /\ state' = 0
      /\ info' = (IF info = "asking" THEN "failed" ELSE info) /\ Typed /\ Control
      /\ UNCHANGED <<verb, status, dying, main, enabled, currentbyte, redir, faults,
                     strayed, up, down, server>>
  BY DEF GiveUp, Mark, Orderly
<1>2. Shut' /\ ~fd' /\ fd' \in BOOLEAN
  BY <1>1 DEF Control, Shut
<1>3. main \notin {"check", "join"} \/ ~enabled
  BY <1>1 DEF Control
<1>4. Typed'
  BY <1>1, <1>2 DEF Typed
<1>5. Control'
  BY <1>1, <1>2, <1>3 DEF Control, Serving, Typed
<1>6. QED
  BY <1>4, <1>5 DEF Orderly

\* A setup has failed, and leaves nothing behind.
LEMMA GiveUpStep ==
  ASSUME Numbers, Inv, GiveUp
  PROVE  Inv'
<1>1. pc = "marking" /\ pc' = "ended" /\ ~fd' /\ server' = server
  BY DEF GiveUp, Mark
<1>2. Typed' /\ Control'
  BY InvOrderly, GiveUpTypes DEF Orderly
<1>3. server' = Closed
  BY <1>1 DEF Inv, Control, Shut
<1>4. Placed'
  BY <1>1, <1>3 DEF Placed
<1>5. QED
  BY <1>2, <1>4 DEF Inv

-----------------------------------------------------------------------------
(* The steps of the main thread. *)

\* Where the main thread is matters to no command and no reply.
LEMMA PlacedStays ==
  ASSUME Placed, UNCHANGED <<info, pc, verb, status, enabled, currentbyte, redir,
                             fd, data_fd, strayed, up, down, server>>
  PROVE  Placed'
BY DEF Placed, Delivers, Inherited, Queue, InStep, Late, Barren, Settled, AtFile,
   FromStart, Unsaid, Said, Replied, Before, Matches, Connected, At

\* The main thread tests enabled, and then state.
LEMMA CheckTypes ==
  ASSUME Numbers, Orderly, Check \/ Join
  PROVE  Orderly'
<1>1. /\ Typed /\ Control
      /\ UNCHANGED <<info, pc, verb, status, dying, state, enabled, currentbyte, redir,
                     fd, data_fd, strayed, up, down, server, faults>>
      /\ \/ main = "free" /\ main' = "check" /\ info = "done" /\ ~enabled
         \/ main = "check" /\ main' = "join"
  BY DEF Check, Join, Goes, client, wire, Orderly
<1>2. Typed'
  BY <1>1 DEF Typed
<1>3. Control'
  BY <1>1 DEF Control, Shut
<1>4. QED
  BY <1>2, <1>3 DEF Orderly

\* It finds a setup to restart, or none.
LEMMA CheckStep ==
  ASSUME Numbers, Inv, Check \/ Join
  PROVE  Inv'
<1>1. UNCHANGED <<info, pc, verb, status, enabled, currentbyte, redir,
                  fd, data_fd, strayed, up, down, server>>
  BY DEF Check, Join, Goes, client, wire
<1>2. Typed' /\ Control'
  BY InvOrderly, CheckTypes DEF Orderly
<1>3. QED
  BY <1>1, <1>2, PlacedStays DEF Inv

\* The main thread lets a setup go on, or cancels it wherever it is.
LEMMA WaitTypes ==
  ASSUME Numbers, Orderly, Wait
  PROVE  Orderly'
<1>1. /\ Typed /\ Control /\ main = "check" /\ main' = "free"
      /\ UNCHANGED <<info, pc, verb, status, enabled, currentbyte, redir,
                     fd, data_fd, strayed, up, down, server>>
      /\ \/ UNCHANGED <<dying, state, faults>>
         \/ faults < MaxFaults /\ faults' = faults + 1 /\ state' = 0 /\ dying' = TRUE
  BY DEF Wait, Goes, Fault, client, wire, Orderly
<1>2. /\ dying \in BOOLEAN /\ state \in 0 .. 1 /\ faults \in 0 .. MaxFaults
      /\ MaxFaults \in Nat
  BY <1>1 DEF Typed, Numbers
<1>3. dying' \in BOOLEAN /\ state' \in 0 .. 1 /\ faults' \in 0 .. MaxFaults
  <2>1. CASE UNCHANGED <<dying, state, faults>>
    BY <1>2, <2>1
  <2>2. CASE faults < MaxFaults /\ faults' = faults + 1 /\ state' = 0 /\ dying' = TRUE
    <3>1. dying' \in BOOLEAN
      BY <2>2
    <3>2. QED
      BY <1>2, <2>2, <3>1
  <2>3. QED
    BY <1>1, <2>1, <2>2
<1>4. Typed'
  BY <1>1, <1>3 DEF Typed
<1>5. Control'
  BY <1>1 DEF Control, Shut
<1>6. QED
  BY <1>4, <1>5 DEF Orderly

\* A cancelled setup goes on for now.
LEMMA WaitStep ==
  ASSUME Numbers, Inv, Wait
  PROVE  Inv'
<1>1. UNCHANGED <<info, pc, verb, status, enabled, currentbyte, redir,
                  fd, data_fd, strayed, up, down, server>>
  BY DEF Wait, Goes, client, wire
<1>2. Typed' /\ Control'
  BY InvOrderly, WaitTypes DEF Orderly
<1>3. QED
  BY <1>1, <1>2, PlacedStays DEF Inv

\* The main thread starts another setup.
LEMMA RestartTypes ==
  ASSUME Numbers, Orderly, Restart
  PROVE  Orderly'
<1>1. /\ main = "join" /\ pc = "ended" /\ main' = "free" /\ pc' = "setup"
      /\ dying' = FALSE /\ state' = 1 /\ Typed /\ Control
      /\ UNCHANGED <<info, verb, status, enabled, currentbyte, redir,
                     fd, data_fd, strayed, up, down, server, faults>>
  BY DEF Restart, wire, Orderly
<1>2. info = "done" /\ (enabled => data_fd # 0) /\ dying' \in BOOLEAN
  BY <1>1 DEF Control
<1>3. Typed'
  BY <1>1, <1>2 DEF Typed
<1>4. Control'
  BY <1>1, <1>2 DEF Control, Shut, Serving
<1>5. QED
  BY <1>3, <1>4 DEF Orderly

\* The main thread starts another one on what is left, and perhaps on a connection
\* that has been enabled meanwhile.
LEMMA RestartStep ==
  ASSUME Numbers, Inv, Restart
  PROVE  Inv'
<1>1. /\ pc = "ended" /\ pc' = "setup"
      /\ UNCHANGED <<info, verb, status, enabled, currentbyte, redir,
                     fd, data_fd, strayed, up, down, server, faults>>
  BY DEF Restart, wire
<1>2. Typed' /\ Control'
  BY InvOrderly, RestartTypes DEF Orderly
<1>3. Inherited => Inherited'
  BY <1>1 DEF Inherited, Queue, Barren, Settled, AtFile, FromStart
<1>4. Delivers => Delivers'
  BY <1>1 DEF Delivers
<1>5. Placed'
  BY <1>1, <1>3, <1>4 DEF Inv, Placed
<1>6. QED
  BY <1>2, <1>5 DEF Inv

\* The client stays within its file.
LEMMA ReceiveTypes ==
  ASSUME Numbers, Orderly, Receive
  PROVE  Orderly'
<1>1. /\ enabled /\ main = "free" /\ server.on > 0 /\ Typed /\ Control
      /\ UNCHANGED <<info, pc, verb, status, dying, main, state, enabled, redir,
                     fd, data_fd, strayed, up, down, faults>>
      /\ server \in Servers /\ currentbyte \in 0 .. Size /\ Size \in Nat
  BY DEF Receive, client, Orderly, Typed, Numbers
<1>2. PICK n \in 1 .. Size - currentbyte :
        /\ currentbyte' = currentbyte + n
        /\ server' = [server EXCEPT !.sends = @ + n]
  BY DEF Receive
<1>3. server' \in Servers /\ server'.open = server.open /\ currentbyte' \in 0 .. Size
  BY <1>1, <1>2 DEF Servers
<1>4. ~Shut
  BY <1>1, ShutFacts
<1>5. Typed'
  BY <1>1, <1>3 DEF Typed
<1>6. Control'
  BY <1>1, <1>3, <1>4 DEF Control, Serving
<1>7. QED
  BY <1>5, <1>6 DEF Orderly

\* The data connection and the client advance by the same number of bytes.
LEMMA ReceiveStep ==
  ASSUME Numbers, Inv, Receive
  PROVE  Inv'
<1>1. /\ enabled /\ server.on > 0 /\ Control
      /\ UNCHANGED <<info, pc, verb, status, dying, main, state, enabled, redir,
                     fd, data_fd, strayed, up, down, faults>>
  BY DEF Receive, client, Inv
<1>2. PICK n \in 1 .. Size - currentbyte :
        /\ currentbyte' = currentbyte + n
        /\ server' = [server EXCEPT !.sends = @ + n]
  BY DEF Receive
<1>3. server # Closed /\ Delivers /\ server \in Servers /\ currentbyte \in 0 .. Size /\ Size \in Nat
  BY <1>1, ClosedFacts DEF Inv, Placed, Typed, Numbers
<1>4. /\ server' \in Servers /\ server'.on = server.on
      /\ server'.dir = server.dir /\ server'.sends = server.sends + n
  BY <1>2, <1>3 DEF Servers
<1>5. Typed' /\ Control'
  BY InvOrderly, ReceiveTypes DEF Orderly
<1>6. pc \in Serving
  BY <1>1 DEF Control
<1>7. Delivers'
  BY <1>1, <1>2, <1>3, <1>4 DEF Delivers, Servers
<1>8. Placed'
  <2>1. enabled' /\ pc' = pc
    BY <1>1
  <2>2. pc = "fail" => data_fd' # 0
    BY <1>1 DEF Control
  <2>3. QED
    BY <1>6, <1>7, <2>1, <2>2 DEF Placed, Serving
<1>9. QED
  BY <1>5, <1>8 DEF Inv

\* The main thread begins to leave a connection.
LEMMA LeaveTypes ==
  ASSUME Numbers, Orderly, Leave
  PROVE  Orderly'
<1>1. /\ enabled /\ main = "free" /\ enabled' \in BOOLEAN /\ CloseBoth /\ main' = "leave"
      /\ Typed /\ Control
      /\ UNCHANGED <<info, pc, verb, status, dying, state, currentbyte, redir,
                     fd, data_fd, faults>>
  BY DEF Leave, Goes, client, Orderly
<1>2. Typed'
  BY <1>1, CloseBothShut DEF Typed
<1>3. ~strayed'
  BY <1>1 DEF CloseBoth
<1>4. Control'
  BY <1>1, <1>3, CloseBothShut DEF Control, Serving
<1>5. QED
  BY <1>2, <1>4 DEF Orderly

\* The main thread closes the connections: nothing is under way.
LEMMA LeaveStep ==
  ASSUME Numbers, Inv, Leave
  PROVE  Inv'
<1>1. /\ enabled /\ CloseBoth /\ Control
      /\ UNCHANGED <<info, pc, verb, status, dying, state, currentbyte, redir,
                     fd, data_fd, faults>>
  BY DEF Leave, Goes, client, Inv
<1>2. Typed' /\ Control'
  BY InvOrderly, LeaveTypes DEF Orderly
<1>3. /\ pc' \in Serving /\ (pc' \in {"setup", "data", "fail"} => data_fd' # 0)
      /\ server' = Closed
  BY <1>1, CloseBothShut DEF Control
<1>4. data_fd' # 0 \/ Inherited'
  <2>1. up' = <<>> /\ down' = <<>> /\ ~server'.open
    BY <1>1, CloseBothShut
  <2>2. QED
    BY <2>1 DEF Inherited, Queue, FromStart, Barren
<1>5. Placed'
  BY <1>3, <1>4 DEF Placed, Serving
<1>6. QED
  BY <1>2, <1>5 DEF Inv

\* The main thread has left the connection.
LEMMA LeftTypes ==
  ASSUME Numbers, Orderly, Left
  PROVE  Orderly'
<1>1. /\ main = "leave" /\ enabled' = FALSE /\ fd' = FALSE /\ data_fd' = 0 /\ main' = "free"
      /\ Typed /\ Control
      /\ UNCHANGED <<info, pc, verb, status, dying, state, currentbyte, redir,
                     strayed, up, down, server, faults>>
  BY DEF Left, Goes, Mark, client, Orderly
<1>2. Shut /\ Shut' /\ ~fd' /\ ~enabled' /\ pc \in Serving /\ info = "done" /\ ~server'.open
  BY <1>1, ShutFacts DEF Control, Shut
<1>3. fd' \in BOOLEAN /\ enabled' \in BOOLEAN
  BY <1>1
<1>4. Typed'
  BY <1>1, <1>3 DEF Typed
<1>5. Control'
  BY <1>1, <1>2 DEF Control, Serving
<1>6. QED
  BY <1>4, <1>5 DEF Orderly

\* Nothing is left of it.
LEMMA LeftStep ==
  ASSUME Numbers, Inv, Left
  PROVE  Inv'
<1>1. /\ main = "leave" /\ ~enabled' /\ ~fd' /\ pc' = pc /\ Control
  BY DEF Left, Goes, Mark, client, Inv
<1>2. Typed' /\ Control'
  BY InvOrderly, LeftTypes DEF Orderly
<1>3. pc' \in Serving
  BY <1>1 DEF Control
<1>4. Placed'
  BY <1>1, <1>3 DEF Placed, Serving
<1>5. QED
  BY <1>2, <1>4 DEF Inv

\* The server goes away.
LEMMA ServerClosesTypes ==
  ASSUME Numbers, Orderly, ServerCloses
  PROVE  Orderly'
<1>1. /\ faults < MaxFaults /\ faults' = faults + 1 /\ Typed /\ Control
      /\ UNCHANGED <<info, pc, verb, status, dying, main, state, enabled, currentbyte, redir,
                     fd, data_fd, strayed, up, down>>
      /\ server \in Servers /\ server.open
  BY DEF ServerCloses, Fault, client, conn, Orderly, Typed
<1>2. server' \in Servers /\ ~server'.open
  BY <1>1 DEF ServerCloses, Servers
<1>3. ~Shut
  BY <1>1, ShutFacts
<1>4. Typed'
  BY <1>1, <1>2 DEF Typed, Numbers
<1>5. Control'
  BY <1>1, <1>2, <1>3 DEF Control
<1>6. QED
  BY <1>4, <1>5 DEF Orderly

\* The server goes away: its queue of replies is all there will be.
LEMMA ServerClosesStep ==
  ASSUME Numbers, Inv, ServerCloses
  PROVE  Inv'
<1>1. /\ server.open /\ faults < MaxFaults /\ faults' = faults + 1
      /\ UNCHANGED <<info, pc, verb, status, dying, main, state, enabled, currentbyte, redir,
                     fd, data_fd, strayed, up, down>>
      /\ server \in Servers
  BY DEF ServerCloses, Fault, client, conn, Inv, Typed
<1>2. /\ server' \in Servers /\ ~server'.open /\ server'.user = server.user
      /\ server'.dir = server.dir /\ server'.rest = server.rest /\ server'.port = server.port
      /\ server'.sends = server.sends /\ server'.on = server.on
  BY <1>1 DEF ServerCloses, Servers
<1>3. Typed' /\ Control'
  BY InvOrderly, ServerClosesTypes DEF Orderly
<1>4. Delivers => Delivers'
  BY <1>1, <1>2 DEF Delivers
<1>5. Inherited => Inherited'
  BY <1>1, <1>2 DEF Inherited, Queue, Barren, Settled, AtFile, FromStart
<1>6. Late => Late'
  BY <1>1, <1>2 DEF Late
<1>7. InStep => InStep'
  <2>1. \A v : Before(v) => Before(v)'
    BY <1>1, <1>2 DEF Before, FromStart, Connected
  <2>2. Unsaid => Unsaid'
    BY <1>1, <1>2 DEF Unsaid
  <2>3. Said => Said'
    BY <1>1 DEF Said, At
  <2>4. Replied => Replied'
    BY <1>1, <1>2 DEF Replied, Matches, FromStart, Connected
  <2>5. QED
    BY <1>1, <1>2, <2>1, <2>2, <2>3, <2>4 DEF InStep
<1>8. Placed'
  <2>1. (Unsaid => Unsaid') /\ (AtFile => AtFile') /\ (FromStart => FromStart')
    BY <1>1, <1>2 DEF Unsaid, AtFile, FromStart
  <2>2. Queue => Queue'
    BY <1>1, <1>2 DEF Queue, FromStart
  <2>3. server # Closed
    BY <1>1, ClosedFacts
  <2>4. QED
    BY <1>1, <1>4, <1>5, <1>6, <1>7, <2>1, <2>2, <2>3 DEF Inv, Placed
<1>9. QED
  BY <1>3, <1>8 DEF Inv

\* A thread dies in the middle of a reply.
LEMMA Torn ==
  ASSUME Typed, down # <<>>, down' = [down EXCEPT ![1].whole = FALSE]
  PROVE  /\ down' \in Seq(Notices) /\ Len(down') = Len(down) /\ Len(down) > 0
         /\ \A i \in 1 .. Len(down) : /\ down'[i].code = down[i].code
                                      /\ down'[i].port = down[i].port
                                      /\ i > 1 => down'[i] = down[i]
<1>1. PICK n \in Notices : n = [down[1] EXCEPT !.whole = FALSE]
  <2>1. down[1] \in Notices
    BY TypedFacts
  <2>2. QED
    BY <2>1 DEF Notices
<1>2. n.code = down[1].code /\ n.port = down[1].port
  <2>1. down[1] \in Notices
    BY TypedFacts
  <2>2. QED
    BY <1>1, <2>1 DEF Notices
<1>3. down' = [down EXCEPT ![1] = n] /\ down \in Seq(Notices) /\ 1 \in 1 .. Len(down)
  BY <1>1, TypedFacts DEF Typed
<1>4. /\ down' \in Seq(Notices) /\ Len(down') = Len(down)
      /\ \A i \in 1 .. Len(down) : down'[i] = IF i = 1 THEN n ELSE down[i]
  <2>1. /\ [down EXCEPT ![1] = n] \in Seq(Notices) /\ Len([down EXCEPT ![1] = n]) = Len(down)
        /\ \A i \in 1 .. Len(down) : [down EXCEPT ![1] = n][i] = IF i = 1 THEN n ELSE down[i]
    BY <1>3, ExceptSeq
  <2>2. QED
    BY <1>3, <2>1
<1>5. QED
  BY <1>2, <1>3, <1>4

\* A cancelled thread ends, wherever it is.
LEMMA DieTypes ==
  ASSUME Numbers, Orderly, Die
  PROVE  Orderly'
<1>1. /\ dying /\ pc' = "ended" /\ Typed /\ Control
      /\ UNCHANGED <<info, verb, status, dying, main, state, enabled, currentbyte, redir,
                     fd, data_fd, up, server, faults>>
      /\ strayed' \in BOOLEAN
      /\ (strayed' => strayed \/ (fd /\ data_fd = 0 /\ pc \in {"say", "fail"}))
      /\ down' = down \/ (down # <<>> /\ down' = [down EXCEPT ![1].whole = FALSE])
  BY DEF Die, conn, Orderly, Typed
<1>2. down' \in Seq(Notices) /\ (down = <<>> => down' = <<>>)
  <2>1. CASE down' = down
    BY <1>1, <2>1 DEF Typed
  <2>2. CASE down # <<>> /\ down' = [down EXCEPT ![1].whole = FALSE]
    BY <1>1, <2>2, Torn
  <2>3. QED
    BY <1>1, <2>1, <2>2
<1>3. Typed'
  BY <1>1, <1>2 DEF Typed
<1>4. info = "done" /\ state = 0
  BY <1>1 DEF Control
<1>5. ~fd => Shut'
  BY <1>1, <1>2 DEF Control, Shut
<1>6. main = "leave" => Shut'
  <2>1. ASSUME main = "leave" PROVE ~strayed' /\ Shut
    BY <1>1, <2>1 DEF Control, Shut, Serving
  <2>2. QED
    BY <1>1, <1>2, <2>1 DEF Shut
<1>7. Control'
  BY <1>1, <1>4, <1>5, <1>6 DEF Control, Serving
<1>8. QED
  BY <1>3, <1>7 DEF Orderly

\* In step and without data connection, a thread is in the opening of the dialogue.
LEMMA StepAtStart ==
  ASSUME Inv, info = "done", InStep, data_fd = 0, pc \in {"say", "hear"}
  PROVE  verb \in Opening /\ Queue
<1>1. /\ Len(down) \in Nat /\ (Len(down) = 0 <=> down = <<>>)
      /\ Len(up) \in Nat /\ (Len(up) = 0 <=> up = <<>>)
  BY TypedFacts, Lengths DEF Inv
<1>2. verb \in Verbs /\ verb # "PASV" /\ verb \notin Asking
  BY DEF Inv, Typed, Control, InStep
<1>3. Connected(verb)
  BY DEF InStep, Before, Replied, Matches
<1>4. verb \in Opening
  BY <1>2, <1>3 DEF Verbs, Opening, Asking, Connected, Data
<1>5. FromStart
  BY <1>4 DEF InStep, Before, Replied, Matches, Opening
<1>6. CASE Unsaid
  BY <1>1, <1>4, <1>5, <1>6 DEF Unsaid, Queue
<1>7. CASE Said
  <2>1. Len(up) = 1 /\ Len(down) = 0 /\ up[1].verb = verb
    BY <1>1, <1>7 DEF Said, Command
  <2>2. QED
    BY <1>4, <1>5, <2>1 DEF Queue
<1>8. CASE Replied
  <2>1. Len(up) = 0 /\ Len(down) = 1 /\ down[1].port = 0
    BY <1>1, <1>4, <1>8 DEF Replied, Matches, Opening
  <2>2. QED
    BY <1>4, <1>5, <2>1 DEF Queue
<1>9. QED
  BY <1>6, <1>7, <1>8 DEF InStep

\* A cancelled thread ends: what it waited for is no answer to PASV, or an old one.
LEMMA DieStep ==
  ASSUME Numbers, Inv, Die
  PROVE  Inv'
<1>1. /\ dying /\ pc # "ended" /\ pc' = "ended"
      /\ UNCHANGED <<info, verb, status, dying, main, state, enabled, currentbyte, redir,
                     fd, data_fd, up, server, faults>>
      /\ strayed => strayed'
      /\ fd /\ pc \in {"say", "fail"} => data_fd # 0 \/ strayed'
      /\ down' = down \/ (pc = "hear" /\ down # <<>> /\ down' = [down EXCEPT ![1].whole = FALSE])
  BY DEF Die, conn
<1>2. info = "done" /\ enabled' = enabled /\ Control
  BY <1>1 DEF Inv, Control
<1>3. /\ down' \in Seq(Notices) /\ Len(down') = Len(down)
      /\ \A i \in 1 .. Len(down) : /\ down'[i].code = down[i].code
                                   /\ down'[i].port = down[i].port
                                   /\ i > 1 => down'[i] = down[i]
  <2>1. CASE down' = down
    BY <2>1 DEF Inv, Typed
  <2>2. CASE down # <<>> /\ down' = [down EXCEPT ![1].whole = FALSE]
    BY <2>2, Torn DEF Inv
  <2>3. QED
    BY <1>1, <2>1, <2>2
<1>4. /\ Len(down) \in Nat /\ (Len(down) = 0 <=> down = <<>>)
      /\ Len(up) \in Nat /\ (Len(up) = 0 <=> up = <<>>) /\ (Len(down') = 0 <=> down' = <<>>)
  BY <1>3, TypedFacts, Lengths DEF Inv
<1>5. Typed' /\ Control'
  BY InvOrderly, DieTypes DEF Orderly
<1>6. Barren => Barren'
  BY <1>1, <1>3, <1>4 DEF Barren
<1>7. Queue => Queue'
  BY <1>1, <1>3, <1>4 DEF Queue, FromStart
<1>8. Inherited => Inherited'
  <2>1. Settled => Settled'
    BY <1>1, <1>3, <1>4 DEF Settled, AtFile, FromStart
  <2>2. QED
    BY <1>1, <1>6, <1>7, <2>1 DEF Inherited
<1>9. ASSUME enabled PROVE Placed'
  <2>1. down' = down
    BY <1>1, <1>2, <1>9 DEF Control, Serving
  <2>2. Delivers => Delivers'
    BY <1>1, <2>1 DEF Delivers
  <2>3. QED
    BY <1>1, <1>2, <1>9, <2>2 DEF Inv, Placed
<1>10. ASSUME ~enabled PROVE Placed'
  <2>1. CASE data_fd # 0 \/ ~fd
    BY <1>1, <1>2, <1>10, <2>1 DEF Placed
  <2>2. CASE pc \in {"setup", "data"} /\ fd
    BY <1>1, <1>2, <1>8, <1>10, <2>2 DEF Inv, Placed
  <2>3. CASE pc \in {"say", "hear"} /\ data_fd = 0 /\ ~InStep
    <3>1. Inherited
      BY <2>3 DEF Inv, Placed, Late
    <3>2. QED
      BY <1>1, <1>2, <1>10, <1>8, <3>1 DEF Placed
  <2>4. CASE pc = "hear" /\ data_fd = 0 /\ InStep
    <3>1. verb \in Opening
      BY <1>2, <2>4, StepAtStart
    <3>2. Barren
      BY <1>4, <2>4, <3>1 DEF InStep, Unsaid, Said, Replied, Matches, Barren, Command, Opening
    <3>3. Queue
      BY <1>2, <2>4, StepAtStart
    <3>4. QED
      BY <1>1, <1>2, <1>10, <1>6, <1>7, <2>4, <3>2, <3>3 DEF Placed, Inherited
  <2>5. CASE pc = "say" /\ fd /\ data_fd = 0 /\ InStep
    <3>1. Queue /\ strayed'
      BY <1>1, <1>2, <2>5, StepAtStart
    <3>2. QED
      BY <1>1, <1>2, <1>10, <1>7, <2>5, <3>1 DEF Placed, Inherited
  <2>6. CASE pc = "fail" /\ fd /\ data_fd = 0
    <3>1. Queue /\ strayed'
      BY <1>1, <1>2, <2>6 DEF Inv, Placed
    <3>2. QED
      BY <1>1, <1>2, <1>10, <1>7, <2>6, <3>1 DEF Placed, Inherited
  <2>7. CASE pc \in {"closing", "marking", "done"} /\ data_fd = 0
    <3>1. up = <<>> /\ down = <<>> /\ ~server.open
      BY <1>2, <1>10, <2>7, ShutFacts DEF Control
    <3>2. down' = down
      BY <1>1, <2>7
    <3>3. Inherited'
      BY <1>1, <2>7, <3>1, <3>2 DEF Inherited, Queue, FromStart, Barren
    <3>4. QED
      BY <1>1, <1>2, <1>10, <3>3 DEF Placed
  <2>8. CASE pc \in {"enable", "known", "listing"}
    BY <1>2, <1>1, <1>10, <2>1, <2>8 DEF Control
  <2>9. QED
    BY <1>1, <2>1, <2>2, <2>3, <2>4, <2>5, <2>6, <2>7, <2>8 DEF Inv, Typed
<1>11. QED
  BY <1>5, <1>9, <1>10 DEF Inv

-----------------------------------------------------------------------------
(* The server answers. *)

\* The replies a command has.
LEMMA RepliesOf ==
  ASSUME NEW c \in Commands, NEW code \in Replies(c)
  PROVE  /\ code \in Codes
         /\ code = 150 => c.verb \in {"LIST", "RETR"}
         /\ code = 227 => c.verb = "PASV"
         /\ code = 331 => c.verb = "USER"
         /\ code = 350 => c.verb \in {"REST", "REST0", "REST1"}
         /\ c.verb = "greeting" => code \in {200, 425}
         /\ c.verb = "USER" => code \in {200, 331, 550}
         /\ c.verb = "PASS" /\ server.user = "named" => code \in {200, 550}
         /\ c.verb = "PASV" => code \in {227, 550}
         /\ c.verb = "REST" => code \in {350, 502, 550}
         /\ server.user = "in" /\ c.verb = "REST0" => code = 350
<1>1. c.verb \in Verbs \ {"226"}
  BY DEF Commands
<1>2. QED
  BY <1>1 DEF Replies, Verbs, Codes

\* What the server becomes.
LEMMA Afterwards ==
  ASSUME NEW c \in Commands, NEW code \in Replies(c), server \in Servers,
         server' = After(c, code)
  PROVE  /\ server' \in Servers /\ (server.open => server'.open)
         /\ server'.port = IF code = 227 THEN server.port + 1 ELSE server.port
         /\ server'.rest = IF code = 350 THEN c.at
                           ELSE IF c.verb = "RETR" /\ code = 150 THEN 0 ELSE server.rest
         /\ server'.user = IF c.verb = "USER" /\ code = 331 THEN "named"
                           ELSE IF c.verb \in {"USER", "PASS"} /\ code = 200 THEN "in"
                           ELSE server.user
         /\ server.dir \/ (c.verb = "CWD" /\ code = 200) => server'.dir
         /\ c.verb = "RETR" /\ code = 150 => server'.sends = server.rest /\ server'.on = server.port
<1>1. c.at \in Int /\ code \in Int
  BY RepliesOf DEF Commands, Codes
<1>2. CASE c.verb = "USER" /\ code = 331
  <2>1. server' = [server EXCEPT !.user = "named"]
    BY <1>2 DEF After
  <2>2. QED
    BY <1>2, <2>1 DEF Servers
<1>3. CASE c.verb \in {"USER", "PASS"} /\ code = 200
  <2>1. server' = [server EXCEPT !.user = "in"]
    BY <1>3 DEF After
  <2>2. QED
    BY <1>1, <1>3, <2>1 DEF Servers
<1>4. CASE c.verb = "CWD" /\ code = 200
  <2>1. server' = [server EXCEPT !.dir = TRUE]
    BY <1>4 DEF After
  <2>2. QED
    <3>1. server' \in Servers /\ server'.dir
      BY <2>1 DEF Servers
    <3>2. /\ server'.open = server.open /\ server'.user = server.user
          /\ server'.rest = server.rest /\ server'.port = server.port
      BY <2>1 DEF Servers
    <3>3. QED
      BY <1>1, <1>4, <3>1, <3>2
<1>5. CASE code = 227
  BY <1>5, RepliesOf DEF After, Servers
<1>6. CASE code = 350
  BY <1>1, <1>6, RepliesOf DEF After, Servers
<1>7. CASE c.verb = "RETR" /\ code = 150
  <2>1. server' = [server EXCEPT !.sends = server.rest, !.on = server.port, !.rest = 0]
    BY <1>7 DEF After
  <2>2. QED
    <3>1. server' \in Servers /\ server'.sends = server.rest /\ server'.on = server.port
      <4>1. PICK a \in Int, b \in Nat : a = server.rest /\ b = server.port
        BY DEF Servers
      <4>2. server' = [server EXCEPT !.sends = a, !.on = b, !.rest = 0]
        BY <2>1, <4>1
      <4>3. server' \in Servers
        <5>1. PICK d \in BOOLEAN, o \in BOOLEAN : d = server.dir /\ o = server.open
          BY DEF Servers
        <5>2. server' = [open |-> o, user |-> server.user, dir |-> d, rest |-> 0,
                         port |-> server.port, sends |-> a, on |-> b]
          BY <4>2, <5>1 DEF Servers
        <5>3. QED
          BY <4>1, <5>2 DEF Servers
      <4>4. server'.sends = a /\ server'.on = b
        BY <4>2 DEF Servers
      <4>5. QED
        BY <4>1, <4>3, <4>4
    <3>2. /\ server'.open = server.open /\ server'.user = server.user
          /\ server'.rest = 0 /\ server'.port = server.port /\ server'.dir = server.dir
      BY <2>1 DEF Servers
    <3>3. QED
      BY <1>1, <1>7, <3>1, <3>2
<1>8. CASE /\ ~(c.verb = "USER" /\ code = 331) /\ ~(c.verb \in {"USER", "PASS"} /\ code = 200)
           /\ ~(c.verb = "CWD" /\ code = 200) /\ code # 227 /\ code # 350
           /\ ~(c.verb = "RETR" /\ code = 150)
  <2>1. server' = server
    BY <1>8 DEF After
  <2>2. QED
    BY <1>8, <2>1
<1>9. QED
  BY <1>2, <1>3, <1>4, <1>5, <1>6, <1>7, <1>8

\* The answer c gets, with what is on its way afterwards.
Answered(c, code) ==
    /\ c \in Commands /\ code \in Replies(c) /\ server' = After(c, code)
    /\ Len(up) > 0 /\ c = up[1] /\ up' \in Seq(Commands) /\ Len(up') = Len(up) - 1
    /\ \A i \in 1 .. Len(up) - 1 : up'[i] = up[i + 1]
    /\ down' \in Seq(Notices)
    /\ \A i \in 1 .. Len(down) : down'[i] = down[i]
    /\ down'[Len(down) + 1] = Reply(code, IF code = 227 THEN server'.port ELSE 0)
    /\ IF c.verb = "LIST" /\ code = 150
       THEN Len(down') = Len(down) + 2 /\ down'[Len(down) + 2] = Reply(200, 0)
       ELSE Len(down') = Len(down) + 1

\* The same, of the server that has given its answer.
LEMMA AnsweredServer ==
  ASSUME server \in Servers, NEW c, NEW code, Answered(c, code)
  PROVE  /\ server' \in Servers /\ (server.open => server'.open)
         /\ server'.port = IF code = 227 THEN server.port + 1 ELSE server.port
         /\ server'.rest = IF code = 350 THEN c.at
                           ELSE IF c.verb = "RETR" /\ code = 150 THEN 0 ELSE server.rest
         /\ server'.user = IF c.verb = "USER" /\ code = 331 THEN "named"
                           ELSE IF c.verb \in {"USER", "PASS"} /\ code = 200 THEN "in"
                           ELSE server.user
         /\ server.dir \/ (c.verb = "CWD" /\ code = 200) => server'.dir
         /\ c.verb = "RETR" /\ code = 150 => server'.sends = server.rest /\ server'.on = server.port
<1>1. c \in Commands /\ code \in Replies(c) /\ server' = After(c, code)
  BY DEF Answered
<1>2. QED
  BY <1>1, Afterwards

\* What the server sends is a reply.
LEMMA ReplyNotice ==
  ASSUME NEW code \in Codes, NEW p \in Nat
  PROVE  Reply(code, p) \in Notices
BY DEF Reply, Notices

\* An answer takes a command from one queue and puts a reply, or two, on the other.
LEMMA AnswerQueues ==
  ASSUME Typed, Answer
  PROVE  \E c, code : Answered(c, code)
<1>1. /\ up \in Seq(Commands) /\ up # <<>> /\ down \in Seq(Notices) /\ server \in Servers
      /\ up' = Tail(up)
  BY DEF Answer, Typed
<1>2. /\ Len(up) > 0 /\ Head(up) = up[1] /\ up' \in Seq(Commands) /\ Len(up') = Len(up) - 1
      /\ \A i \in 1 .. Len(up) - 1 : up'[i] = up[i + 1]
      /\ up[1] \in Commands /\ Len(down) \in Nat
  BY <1>1, Taken, Lengths
<1>3. PICK c \in Commands : c = Head(up) /\ c = up[1]
  BY <1>2, Zenon
<1>4. PICK code \in Replies(Head(up)) :
        /\ server' = After(Head(up), code)
        /\ down' = down \o <<Reply(code, IF code = 227 THEN server'.port ELSE 0)>>
                        \o (IF Head(up).verb = "LIST" /\ code = 150
                            THEN <<Reply(200, 0)>> ELSE <<>>)
  BY Zenon DEF Answer
<1>5. code \in Replies(c) /\ server' = After(c, code) /\ Head(up).verb = c.verb
  BY <1>3, <1>4, Zenon
<1>6. PICK e \in Notices : e = Reply(code, IF code = 227 THEN server'.port ELSE 0)
  <2>1. server'.port \in Nat /\ code \in Codes
    BY <1>1, <1>5, RepliesOf, Afterwards DEF Servers
  <2>2. PICK p \in Nat : p = IF code = 227 THEN server'.port ELSE 0
    BY <2>1
  <2>3. QED
    BY <2>1, <2>2, ReplyNotice
<1>7. PICK f \in Notices : f = Reply(200, 0)
  <2>1. 200 \in Codes /\ 0 \in Nat
    BY DEF Codes
  <2>2. QED
    BY <2>1, ReplyNotice
<1>8. PICK one \in Seq(Notices) : one = Append(down, e)
  BY <1>1, Appended
<1>9. /\ Len(one) = Len(down) + 1 /\ one[Len(down) + 1] = e /\ down \o <<e>> = one
      /\ \A i \in 1 .. Len(down) : one[i] = down[i]
      /\ down \o <<Reply(code, IF code = 227 THEN server'.port ELSE 0)>> = one
  <2>1. /\ Len(one) = Len(down) + 1 /\ one[Len(down) + 1] = e /\ down \o <<e>> = one
        /\ \A i \in 1 .. Len(down) : one[i] = down[i]
    BY <1>1, <1>8, Appended
  <2>2. QED
    BY <1>6, <2>1, Zenon
<1>10. CASE c.verb = "LIST" /\ code = 150
  <2>1. down' = one \o <<f>>
    <3>1. (IF Head(up).verb = "LIST" /\ code = 150 THEN <<Reply(200, 0)>> ELSE <<>>) = <<f>>
      BY <1>5, <1>7, <1>10
    <3>2. QED
      BY <1>4, <1>9, <3>1, Zenon
  <2>2. /\ down' \in Seq(Notices) /\ Len(down') = Len(one) + 1 /\ down'[Len(one) + 1] = f
        /\ \A i \in 1 .. Len(one) : down'[i] = one[i]
    BY <2>1, Appended
  <2>3. /\ \A i \in 1 .. Len(down) : down'[i] = down[i]
        /\ down'[Len(down) + 1] = e /\ down'[Len(down) + 2] = f /\ Len(down') = Len(down) + 2
    BY <1>2, <1>9, <2>2
  <2>4. down'[Len(down) + 1] = Reply(code, IF code = 227 THEN server'.port ELSE 0)
    BY <1>6, <2>3
  <2>5. down'[Len(down) + 2] = Reply(200, 0)
    BY <1>7, <2>3
  <2>6. Answered(c, code)
    BY <1>2, <1>3, <1>5, <1>10, <2>2, <2>3, <2>4, <2>5 DEF Answered
  <2>7. QED
    BY <2>6
<1>11. CASE ~(c.verb = "LIST" /\ code = 150)
  <2>1. down' = one
    <3>1. (IF Head(up).verb = "LIST" /\ code = 150 THEN <<Reply(200, 0)>> ELSE <<>>) = <<>>
      BY <1>5, <1>11
    <3>2. down' = one \o <<>>
      BY <1>4, <1>9, <3>1, Zenon
    <3>3. QED
      BY <1>8, <3>2, ConcatEmptySeq
  <2>2. down'[Len(down) + 1] = Reply(code, IF code = 227 THEN server'.port ELSE 0)
    BY <1>6, <1>9, <2>1
  <2>3. /\ down' \in Seq(Notices) /\ Len(down') = Len(down) + 1
        /\ \A i \in 1 .. Len(down) : down'[i] = down[i]
    BY <1>8, <1>9, <2>1
  <2>4. Answered(c, code)
    BY <1>2, <1>3, <1>5, <1>11, <2>2, <2>3 DEF Answered
  <2>5. QED
    BY <2>4
<1>12. QED
  BY <1>10, <1>11

\* The thread in step gets the answer to its command.
LEMMA SaidAnswered ==
  ASSUME Inv, Said, Before(verb), server.open, NEW c, NEW code, Answered(c, code),
         UNCHANGED <<info, client, dying, main, strayed, conn, redir, fd, data_fd, faults>>
  PROVE  Replied'
<1>1. /\ pc = "hear" /\ Len(down) = 0 /\ Len(up) = 1 /\ c = Command(verb, At(verb))
      /\ currentbyte \in 0 .. Size /\ server \in Servers /\ verb \in Verbs
  BY TypedFacts DEF Said, Answered, Inv, Typed
<1>2. c.verb = verb /\ c.at = At(verb)
  BY <1>1 DEF Command
<1>3. /\ pc' = "hear" /\ verb' = verb /\ currentbyte' = currentbyte /\ data_fd' = data_fd
      /\ code \in Replies(c) /\ c \in Commands
  BY <1>1 DEF client, conn, Answered
<1>4. /\ up' = <<>> /\ Len(down') > 0
      /\ down'[1] = Reply(code, IF code = 227 THEN server'.port ELSE 0)
      /\ IF verb = "LIST" /\ code = 150
         THEN Len(down') = 2 /\ down'[2] = Reply(200, 0)
         ELSE Len(down') = 1
  <2>1. Len(up') = 0 /\ up' \in Seq(Commands)
    BY <1>1 DEF Answered
  <2>2. up' = <<>>
    BY <2>1, Lengths
  <2>3. QED
    BY <1>1, <1>2, <2>2 DEF Answered
<1> DEFINE r == down'[1]
<1>5. r.whole /\ r.code = code /\ r.port = IF code = 227 THEN server'.port ELSE 0
  BY <1>4 DEF Reply
<1>6. /\ server'.port = (IF code = 227 THEN server.port + 1 ELSE server.port)
      /\ server'.rest = (IF code = 350 THEN c.at
                         ELSE IF verb = "RETR" /\ code = 150 THEN 0 ELSE server.rest)
      /\ server'.user = (IF verb = "USER" /\ code = 331 THEN "named"
                         ELSE IF verb \in {"USER", "PASS"} /\ code = 200 THEN "in" ELSE server.user)
      /\ server.dir \/ (verb = "CWD" /\ code = 200) => server'.dir
      /\ verb = "RETR" /\ code = 150 => server'.sends = server.rest /\ server'.on = server.port
  BY <1>1, <1>2, AnsweredServer
<1>7. /\ code = 227 => verb = "PASV"
      /\ code = 350 => verb \in {"REST", "REST0", "REST1"}
      /\ verb = "greeting" => code \in {200, 425}
      /\ verb = "USER" => code \in {200, 331, 550}
      /\ verb = "PASV" => code \in {227, 550}
      /\ verb = "REST" => code \in {350, 502, 550}
      /\ server.user = "in" /\ verb = "REST0" => code = 350
  BY <1>2, <1>3, RepliesOf
<1> HIDE DEF r
<1>8. /\ Connected(verb)' /\ (strayed => strayed') /\ (strayed' => strayed)
      /\ verb = "REST0" => ~strayed
  <2>1. (strayed => strayed') /\ (strayed' => strayed)
    OBVIOUS
  <2>2. verb = "REST0" => ~strayed
    BY <1>1 DEF Inv, Typed, Control, Asking
  <2>3. QED
    BY <1>3, <1>6, <1>7, <2>1, <2>2 DEF Before, Connected, Data
<1>9. /\ verb \in {"USER", "PASS"} /\ code = 200 => server'.user = "in"
      /\ verb = "USER" /\ code = 331 => server'.user = "named"
      /\ verb \notin {"greeting", "USER", "PASS"} => strayed' \/ server'.user = "in"
      /\ verb = "CWD" /\ code = 200 => server'.dir
      /\ verb \notin Opening => strayed' \/ server'.dir
  BY <1>6, <1>8 DEF Before
<1>10. /\ verb \notin {"REST", "RETR", "REST1"} => server'.rest = 0
       /\ verb = "REST1" /\ code # 350 => server'.rest = 0
  <2>1. verb \notin {"REST", "RETR", "REST0"} => server.rest = 0
    BY DEF Before, FromStart
  <2>2. verb = "REST0" => code = 350 /\ c.at = 0
    BY <1>2, <1>7, <1>8 DEF Before, Opening, At
  <2>3. QED
    BY <1>6, <1>7, <2>1, <2>2
<1>11. /\ verb = "REST" /\ code = 350 => server'.rest = currentbyte
       /\ verb = "RETR" /\ code = 150 =>
             server'.sends = currentbyte /\ (strayed' \/ server'.on = data_fd)
  <2>1. verb = "RETR" => server.rest = currentbyte /\ (strayed' \/ data_fd = server.port)
    BY <1>8 DEF Before, Connected, Data
  <2>2. verb = "REST" => c.at = currentbyte
    BY <1>2 DEF At
  <2>3. QED
    BY <1>6, <1>7, <2>1, <2>2
<1>12. /\ verb = "PASV" => code = 550 \/ (code = 227 /\ r.port = server'.port)
       /\ verb # "PASV" => r.port = 0 /\ code # 227
  BY <1>5, <1>7
<1>13. Matches(verb, down[1])'
  BY <1>3, <1>5, <1>7, <1>8, <1>9, <1>10, <1>11, <1>12 DEF Matches, FromStart, r
<1>14. QED
  BY <1>3, <1>4, <1>5, <1>13 DEF Replied, r

\* The server answers, and numbers its ports upwards.
LEMMA AnswerTypes ==
  ASSUME Numbers, Orderly, Answer
  PROVE  Orderly'
<1>1. /\ UNCHANGED <<info, pc, verb, status, dying, main, state, enabled, currentbyte,
                     redir, fd, data_fd, strayed, faults>>
      /\ server \in Servers /\ up # <<>> /\ Typed /\ Control
  BY DEF Answer, client, conn, Orderly, Typed
<1>2. PICK c, code : Answered(c, code)
  BY <1>1, AnswerQueues
<1>3. /\ c \in Commands /\ code \in Replies(c) /\ c = up[1] /\ ~Shut
  BY <1>1, <1>2 DEF Answered, Shut
<1>4. server' \in Servers
  BY <1>1, <1>2, AnsweredServer
<1>5. Typed'
  BY <1>1, <1>2, <1>4 DEF Typed, Answered
<1>6. up # <<>> /\ pc \notin {"closing", "marking"} /\ main # "leave" /\ fd /\ (pc = "done" => enabled)
  BY <1>1, <1>3 DEF Control
<1>7. Control'
  BY <1>1, <1>3, <1>6 DEF Control
<1>8. QED
  BY <1>5, <1>7 DEF Orderly

\* The server answers the command that was sent first.
LEMMA AnswerStep ==
  ASSUME Numbers, Inv, Answer
  PROVE  Inv'
<1>1. /\ server.open /\ UNCHANGED <<info, pc, verb, status, dying, main, state, enabled, currentbyte,
                                    redir, fd, data_fd, strayed, faults>>
      /\ server \in Servers /\ up # <<>>
  BY DEF Answer, client, conn, Inv, Typed
<1>2. PICK c, code : Answered(c, code)
  BY AnswerQueues DEF Inv
<1>3. /\ Len(up) \in Nat /\ Len(down) \in Nat /\ Len(up) > 0 /\ Len(up') = Len(up) - 1
      /\ (Len(up') = 0 <=> up' = <<>>) /\ (Len(down') = 0 <=> down' = <<>>)
      /\ (Len(down) = 0 <=> down = <<>>)
      /\ c \in Commands /\ code \in Replies(c) /\ c = up[1]
  BY <1>2, TypedFacts, Lengths DEF Inv, Answered
<1>4. /\ server' \in Servers /\ server'.open
      /\ server'.port = IF code = 227 THEN server.port + 1 ELSE server.port
  BY <1>1, <1>2, <1>3, AnsweredServer
<1>5. /\ Len(down') \in {Len(down) + 1, Len(down) + 2}
      /\ c.verb # "LIST" => Len(down') = Len(down) + 1
      /\ \A i \in 1 .. Len(down) : down'[i] = down[i]
      /\ \A i \in 1 .. Len(up') : up'[i] = up[i + 1] /\ i + 1 \in 1 .. Len(up)
      /\ \A i \in 1 .. Len(down') : i > Len(down) =>
            \/ down'[i] = Reply(code, IF code = 227 THEN server'.port ELSE 0) /\ i = Len(down) + 1
            \/ down'[i] = Reply(200, 0) /\ c.verb = "LIST"
  BY <1>2, <1>3 DEF Answered
<1>6. /\ fd /\ ~enabled /\ info \in {"asking", "done", "failed"}
      /\ pc \notin {"known", "enable", "listing"}
  <2>1. server # Closed /\ ~Shut
    BY <1>1, ClosedFacts DEF Shut
  <2>2. QED
    BY <1>1, <2>1 DEF Inv, Typed, Control, Placed, Delivers, Unsaid
<1>7. Typed' /\ Control'
  BY InvOrderly, AnswerTypes DEF Orderly
<1>8. ASSUME Queue PROVE Queue'
  <2>1. /\ FromStart /\ c.verb \in Opening \cup {"PASV"} /\ (Len(down) > 0 => c.verb = "PASV")
        /\ \A i \in 1 .. Len(up) : i > 1 => up[i].verb = "PASV"
        /\ \A i \in 1 .. Len(down) : /\ i > 1 => down[i].whole /\ down[i].code \in {227, 550}
                                     /\ down[i].port # 0 => down[i].code = 227
    BY <1>1, <1>3, <1>8 DEF Queue
  <2>2. /\ c.verb = "PASV" => code \in {227, 550}
        /\ code # 350 /\ ~(c.verb = "RETR" /\ code = 150)
    BY <1>3, <2>1, RepliesOf DEF Opening
  <2>3. server'.rest = server.rest
    BY <1>1, <1>2, <1>3, <2>2, AnsweredServer
  <2>4. /\ Len(down') = Len(down) + 1
        /\ down'[Len(down) + 1] = Reply(code, IF code = 227 THEN server'.port ELSE 0)
    BY <1>2, <1>5, <2>1 DEF Answered, Opening
  <2>5. ASSUME NEW i \in 1 .. Len(down')
        PROVE  /\ i > 1 => down'[i].whole /\ down'[i].code \in {227, 550}
               /\ down'[i].port # 0 => down'[i].code = 227
    <3>1. CASE i <= Len(down)
      BY <1>3, <1>5, <2>1, <3>1
    <3>2. CASE i = Len(down) + 1
      BY <1>3, <2>1, <2>2, <2>4, <3>2 DEF Reply
    <3>3. QED
      BY <1>3, <2>4, <3>1, <3>2
  <2>6. ASSUME NEW i \in 1 .. Len(up') PROVE up'[i].verb = "PASV"
    <3>1. up'[i] = up[i + 1] /\ i + 1 \in 1 .. Len(up) /\ i + 1 > 1
      BY <1>5
    <3>2. QED
      BY <2>1, <3>1
  <2>7. QED
    BY <1>1, <1>4, <2>1, <2>3, <2>5, <2>6 DEF Queue, FromStart
<1>9. ASSUME Inherited PROVE Inherited'
  <2>1. CASE Barren
    <3>1. c.verb # "PASV" \/ Len(down) > 0
      BY <1>1, <1>3, <2>1 DEF Barren
    <3>2. CASE Len(down) > 0
      <4>1. Len(down') > 0 /\ down'[1].port = 0
        BY <1>3, <1>5, <2>1, <3>2 DEF Barren
      <4>2. QED
        BY <1>1, <1>8, <1>9, <4>1 DEF Inherited, Barren
    <3>3. CASE Len(down) = 0
      <4>1. code # 227
        BY <1>3, <3>1, <3>3, RepliesOf
      <4>2. Len(down') > 0 /\ down'[1].port = 0
        BY <1>2, <1>3, <1>5, <3>3, <4>1 DEF Answered, Reply
      <4>3. QED
        BY <1>1, <1>8, <1>9, <4>2 DEF Inherited, Barren
    <3>4. QED
      BY <1>3, <3>2, <3>3
  <2>2. CASE Settled
    <3>1. c.verb = "PASV" /\ server.user = "in" /\ server.dir /\ server.rest = 0 /\ status = 200
      BY <1>1, <1>3, <2>2 DEF Settled, AtFile, FromStart
    <3>2. code \in {227, 550}
      BY <1>3, <3>1, RepliesOf
    <3>3. server'.user = "in" /\ server'.dir /\ server'.rest = 0
      BY <1>1, <1>2, <1>3, <3>1, <3>2, AnsweredServer
    <3>4. /\ Len(down') = Len(down) + 1
          /\ down'[Len(down) + 1] = Reply(code, IF code = 227 THEN server'.port ELSE 0)
      BY <1>2, <1>5, <3>1 DEF Answered
    <3>5. \A i \in 1 .. Len(down') : /\ down'[i].code \in {227, 550}
                                     /\ down'[i].code = 550 => down'[i].port = 0
                                     /\ i > 1 => down'[i].whole
      BY <1>3, <1>5, <2>2, <3>2, <3>4 DEF Settled, Reply
    <3>6. down'[Len(down')].code = 227 => down'[Len(down')].port = server'.port
      BY <3>4 DEF Reply
    <3>7. \A i \in 1 .. Len(up') : up'[i].verb = "PASV"
      BY <1>1, <1>5, <2>2 DEF Settled
    <3>8. Settled'
      BY <1>1, <3>1, <3>3, <3>5, <3>6, <3>7 DEF Settled, AtFile, FromStart
    <3>9. QED
      BY <1>1, <1>8, <1>9, <3>8 DEF Inherited
  <2>3. CASE strayed
    <3>1. strayed'
      BY <1>1, <2>3
    <3>2. QED
      BY <1>1, <1>8, <1>9, <3>1 DEF Inherited
  <2>4. QED
    BY <1>9, <2>1, <2>2, <2>3 DEF Inherited
<1>10. ASSUME Late PROVE Late'
  <2>1. /\ info = "done" /\ data_fd # 0 /\ verb \in {"REST", "RETR"}
        /\ \A i \in 1 .. Len(down) : down[i].whole
        /\ \A i \in 1 .. Len(up) : up[i].verb # "LIST"
        /\ Len(down) > 0 => down[1].code # 150
        /\ Len(down) = 0 => up[1].verb # "RETR"
        /\ verb = "REST" \/ pc = "say" =>
              /\ \A i \in 1 .. Len(up) : up[i].verb # "RETR"
              /\ \A i \in 1 .. Len(down) : down[i].code # 150
        /\ verb = "REST" /\ pc = "hear" => Len(up) + Len(down) > 1
    BY <1>1, <1>10 DEF Late
  <2>2. /\ c.verb # "LIST" /\ Len(down') = Len(down) + 1
        /\ down'[Len(down) + 1] = Reply(code, IF code = 227 THEN server'.port ELSE 0)
    BY <1>2, <1>3, <1>5, <2>1 DEF Answered
  <2>3. c.verb # "RETR" => code # 150
    BY <1>3, <2>2, RepliesOf
  <2>4. \A i \in 1 .. Len(down') : down'[i].whole
    BY <1>3, <1>5, <2>1, <2>2 DEF Reply
  <2>5. ASSUME NEW i \in 1 .. Len(up') PROVE up'[i].verb # "LIST"
    <3>1. up'[i] = up[i + 1] /\ i + 1 \in 1 .. Len(up)
      BY <1>5
    <3>2. QED
      BY <2>1, <3>1
  <2>6. Len(down') > 0 /\ down'[1].code # 150
    BY <1>3, <1>5, <2>1, <2>2, <2>3 DEF Reply
  <2>7. ASSUME verb = "REST" \/ pc = "say"
        PROVE  /\ \A i \in 1 .. Len(up') : up'[i].verb # "RETR"
               /\ \A i \in 1 .. Len(down') : down'[i].code # 150
    <3>1. c.verb # "RETR" /\ code # 150
      BY <1>3, <2>1, <2>3, <2>7
    <3>2. ASSUME NEW i \in 1 .. Len(up') PROVE up'[i].verb # "RETR"
      <4>1. up'[i] = up[i + 1] /\ i + 1 \in 1 .. Len(up)
        BY <1>5
      <4>2. QED
        BY <2>1, <2>7, <4>1
    <3>3. ASSUME NEW i \in 1 .. Len(down') PROVE down'[i].code # 150
      <4>1. CASE i <= Len(down)
        BY <1>3, <1>5, <2>1, <2>7, <4>1
      <4>2. CASE i = Len(down) + 1
        BY <2>2, <3>1, <4>2 DEF Reply
      <4>3. QED
        BY <1>3, <2>2, <4>1, <4>2
    <3>4. QED
      BY <3>2, <3>3
  <2>8. Len(up') + Len(down') = Len(up) + Len(down)
    BY <1>3, <2>2
  <2>9. QED
    BY <1>1, <2>1, <2>4, <2>5, <2>6, <2>7, <2>8 DEF Late
<1>11. ASSUME InStep, pc \in {"say", "hear"} PROVE InStep'
  <2>1. Said /\ Before(verb) /\ (info = "done" => verb # "PASV")
    BY <1>1, <1>11 DEF InStep, Unsaid, Replied
  <2>2. Replied'
    <3>1. UNCHANGED <<info, client, dying, main, strayed, conn, redir, fd, data_fd, faults>>
      BY DEF Answer
    <3>2. QED
      BY <1>1, <1>2, <2>1, <3>1, SaidAnswered
  <2>3. QED
    BY <1>1, <2>1, <2>2 DEF InStep
<1>12. Placed'
  BY <1>1, <1>6, <1>8, <1>9, <1>10, <1>11 DEF Inv, Placed
<1>13. QED
  BY <1>7, <1>12 DEF Inv

-----------------------------------------------------------------------------
(* The theorems. *)

\* Nothing has happened.
LEMMA InitTypes ==
  ASSUME Numbers, Init
  PROVE  Typed /\ Control
<1>1. /\ info \in {"asking", "done"} /\ state \in 0 .. 1 /\ pc = "setup" /\ verb = "greeting"
      /\ dying = FALSE /\ enabled = FALSE /\ currentbyte \in 0 .. Size
      /\ fd = FALSE /\ strayed = FALSE /\ data_fd = 0 /\ status = 0 /\ redir = MaxRedir
      /\ up = <<>> /\ down = <<>> /\ server = Closed /\ faults = 0 /\ main = "free"
      /\ MaxRedir \in Nat /\ MaxRedir > 0 /\ MaxFaults \in Nat
  BY DEF Init, Numbers, Positive
<1>2. server \in Servers /\ server.port = 0
  <2>1. NewServer \in Servers /\ NewServer.port = 0
    BY DEF NewServer, Servers
  <2>2. server = [NewServer EXCEPT !.open = FALSE]
    BY <1>1 DEF Closed
  <2>3. QED
    BY <2>1, <2>2 DEF Servers
<1>3. Typed
  <2>1. up \in Seq(Commands) /\ down \in Seq(Notices) /\ Len(down) = 0
    BY <1>1
  <2>2. {dying, enabled, fd, strayed} \subseteq BOOLEAN
    BY <1>1
  <2>3. QED
    BY <1>1, <1>2, <2>1, <2>2 DEF Typed, Verbs
<1>4. Control
  BY <1>1 DEF Control, Shut
<1>5. QED
  BY <1>3, <1>4

\* Nothing is under way.
LEMMA InitInv ==
  ASSUME Numbers, Init
  PROVE  Inv
<1>1. Typed /\ Control
  BY InitTypes DEF Numbers
<1>2. Placed
  BY DEF Init, Placed
<1>3. QED
  BY <1>1, <1>2 DEF Inv

\* Every step keeps the invariant.
LEMMA NextInv ==
  ASSUME Numbers, Inv, [Next]_vars
  PROVE  Inv'
<1>1. CASE Setup
  BY <1>1, SetupStep
<1>2. CASE OpenData
  BY <1>2, OpenDataStep
<1>3. CASE Write
  BY <1>3, WriteStep
<1>4. CASE Hear
  BY <1>4, HearStep
<1>5. CASE HearRest
  BY <1>5, HearRestStep
<1>6. CASE HearGone
  BY <1>6, HearGoneStep
<1>7. CASE ReadListing
  BY <1>7, ReadListingStep
<1>8. CASE SizeKnown
  BY <1>8, SizeKnownStep
<1>9. CASE Enable
  BY <1>9, EnableStep
<1>10. CASE Done
  BY <1>10, DoneStep
<1>11. CASE HangUp
  BY <1>11, HangUpStep
<1>12. CASE CloseData
  BY <1>12, CloseDataStep
<1>13. CASE GiveUp
  BY <1>13, GiveUpStep
<1>14. CASE Die
  BY <1>14, DieStep
<1>15. CASE Check \/ Join
  BY <1>15, CheckStep
<1>16. CASE Wait
  BY <1>16, WaitStep
<1>17. CASE Restart
  BY <1>17, RestartStep
<1>18. CASE Receive
  BY <1>18, ReceiveStep
<1>19. CASE Leave
  BY <1>19, LeaveStep
<1>20. CASE Left
  BY <1>20, LeftStep
<1>21. CASE Answer
  BY <1>21, AnswerStep
<1>22. CASE ServerCloses
  BY <1>22, ServerClosesStep
<1>23. CASE UNCHANGED vars
  <2>1. UNCHANGED <<info, pc, verb, status, dying, main, state, enabled, currentbyte,
                    redir, fd, data_fd, strayed, up, down, server, faults>>
    BY <1>23 DEF vars, client, conn, wire
  <2>2. Typed' /\ Control'
    BY <2>1 DEF Inv, Typed, Control, Shut
  <2>3. QED
    BY <2>1, <2>2, PlacedStays DEF Inv
<1>24. QED
  BY <1>1, <1>2, <1>3, <1>4, <1>5, <1>6, <1>7, <1>8, <1>9, <1>10, <1>11, <1>12,
     <1>13, <1>14, <1>15, <1>16, <1>17, <1>18, <1>19, <1>20, <1>21, <1>22, <1>23
     DEF Next, Thread, Main

\* So it holds at all times.
LEMMA Always == Numbers => (Spec => []Inv)
<1>1. ASSUME Numbers PROVE Spec => []Inv
  <2>1. Init => Inv
    BY <1>1, InitInv
  <2>2. Inv /\ [Next]_vars => Inv'
    BY <1>1, NextInv
  <2>3. QED
    BY <2>1, <2>2, PTL DEF Spec
<1>2. QED
  BY <1>1

\* The types of FtpDialogue are among those of the invariant.
LEMMA OrderlyTyped == Orderly => TypeOK
BY DEF Orderly, Typed, Control, Shut, TypeOK, Servers

\* The invariant says what an enabled connection delivers.
LEMMA InvPlaced == Inv => ServedInPlace
BY DEF Inv, Placed, Delivers, ServedInPlace

\* The variables have their types, and ftp_size follows MAX_REDIR links at most
\* (the loop of ftp_size in ftp.c), wherever a thread is cancelled.
THEOREM DialogueTyped == Numbers => (Spec => []TypeOK)
BY InvOrderly, OrderlyTyped, Always, PTL

\* A connection the main thread reads from delivers the byte it will write next,
\* whatever commands and replies killed setups left on the control connection and
\* wherever they were killed (conn.c:208-225); they come over the data connection
\* it asked for, from the right directory, unless a thread without data connection
\* was killed between two answers.
THEOREM DataInPlace == Numbers => (Spec => []ServedInPlace)
BY InvPlaced, Always, PTL
=============================================================================
