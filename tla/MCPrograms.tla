----------------------------- MODULE MCPrograms -----------------------------
(***************************************************************************)
(* Four small programs, one in each behaviour: the choice of mirrors and one *)
(* FTP connection of ServerSide, and the uploads of test(수민) and test(준우). *)
(***************************************************************************)
EXTENDS SpeedTest

CONSTANTS Buffer, Sizes, Size, MaxRedir, MaxFaults

VARIABLES program,   \* the one that runs
          size, sender, stream, wire, receiver, left, file, short, upset,
          info, pc, verb, dying, main, strayed, state, enabled, currentbyte, fd,
          data_fd, status, redir, up, down, server, faults

Count == INSTANCE PieceCount
Datagram == INSTANCE DatagramFile
Ftp == INSTANCE FtpDialogue

uploads == <<size, sender, stream, wire, receiver, left, file, short, upset>>
ftp == <<info, pc, verb, dying, main, strayed, state, enabled, currentbyte, fd,
         data_fd, status, redir, up, down, server, faults>>
all == <<program, vars, uploads, ftp>>

Programs == {"choice", "count", "datagram", "ftp"}

\* a program that does not run stays in one of its initial states
ProgramsInit ==
    /\ program \in Programs
    /\ Init /\ (program # "choice" => count = 1 /\ verbose /\ speed[1] = 1)
    /\ IF program = "datagram" THEN Datagram!Init /\ stream = <<>> /\ left = 0 /\ short = FALSE
                               ELSE Count!Init /\ wire = <<>> /\ upset = FALSE
    /\ program \notin {"count", "datagram"} => size = 1
    /\ Ftp!Init /\ (program # "ftp" => info = "asking" /\ currentbyte = 0)

Runs(p, action) == program = p /\ action /\ UNCHANGED program

Choice(A) == Runs("choice", A) /\ UNCHANGED <<uploads, ftp>>
Upload(p, A) == Runs(p, A) /\ UNCHANGED <<vars, ftp>>

ProgramsNext ==
    \/ Choice(Next)
    \/ Upload("count", Count!Next /\ UNCHANGED <<wire, upset>>)
    \/ Upload("datagram", Datagram!Next /\ UNCHANGED <<stream, left, short>>)
    \/ Runs("ftp", Ftp!Next) /\ UNCHANGED <<vars, uploads>>

\* the fairness of SpeedTest, and programs that go on while they can
ProgramsSpec ==
    /\ ProgramsInit /\ [][ProgramsNext]_all
    /\ WF_all(Choice(Scan \/ Return \/ Choose))
    /\ \A i \in 1 .. MaxMirrors : SF_all(Choice(i <= count /\ Cancel(i)))
    /\ WF_all(Upload("count", (Count!Client \/ Count!Server) /\ UNCHANGED <<wire, upset>>))
    /\ WF_all(Upload("datagram", Datagram!Next /\ UNCHANGED <<stream, left, short>>))

\* The variables of the four programs have their types.
ProgramsTyped == /\ TypeOK /\ Ftp!TypeOK
                 /\ program = "count" => Count!TypeOK
                 /\ program = "datagram" => Datagram!TypeOK

\* See FtpDialogue: what a connection delivers belongs where it is written.
ServedInPlace == Ftp!ServedInPlace

\* See PieceCount: file_size / BUF_SIZE + 1 full calls of recv are enough.
FullCallsSuffice == program = "count" => Count!FullCallsSuffice

\* See DatagramFile: without loss, doubling, reordering and a failed recvfrom the
\* file is whole.
WholeUnlessUpset == program = "datagram" => Datagram!WholeUnlessUpset

\* The choice of mirrors ends whatever the mirrors do, and so do the receivers of
\* the uploads: the one that counts calls unless it read a negative size in part of
\* a header, the other unless upset.
ProgramsEnd == /\ program = "choice" => ChoiceEnds
               /\ program = "count" => Count!Ends
               /\ program = "datagram" => Datagram!EndsUnlessUpset
=============================================================================
