----------------------------- MODULE PieceCount -----------------------------
(***************************************************************************)
(* The TCP upload of test(수민): the client sends a header of Buffer bytes   *)
(* with the file's size and then the file, Buffer bytes a call; the server    *)
(* counts calls of recv.  TCP keeps the bytes and their order, and a recv     *)
(* returns any number of those that have come.                              *)
(***************************************************************************)
EXTENDS Integers, Sequences

CONSTANTS Buffer,   \* BUF_SIZE of both programs
          Sizes     \* sizes of the file to send

VARIABLES size,     \* file_size
          sender,   \* next byte to send, 0 for the header, Closed after the end
          stream,   \* bytes sent and not yet received: 0 for the header, or a place
          receiver, \* what the server does next
          left,     \* calls of recv that the server still makes, or Endless
          file,     \* what the server has written
          short     \* a recv came back with less than the buffer holds

vars == <<size, sender, stream, receiver, left, file, short>>

Closed == size + 2
Endless == -1       \* a negative number of calls, which the count never meets
Bytes(a, b) == [i \in 1 .. b - a + 1 |-> a + i - 1]

Init == /\ size \in Sizes /\ sender = 0 /\ stream = <<>>
        /\ receiver = "header" /\ left = 0 /\ file = <<>> /\ short = FALSE

SendHeader ==
    /\ sender = 0 /\ sender' = 1 /\ stream' = [i \in 1 .. Buffer |-> 0]
    /\ UNCHANGED <<size, receiver, left, file, short>>

\* one turn of the loop over fread, and the close after the last
SendPiece ==
    /\ sender \in 1 .. size
    /\ LET end == IF sender + Buffer > size THEN size ELSE sender + Buffer - 1
       IN  sender' = end + 1 /\ stream' = stream \o Bytes(sender, end)
    /\ UNCHANGED <<size, receiver, left, file, short>>

Close == /\ sender = size + 1 /\ sender' = Closed
         /\ UNCHANGED <<size, stream, receiver, left, file, short>>

\* the outcomes of recv: at least one byte, or none after the end
Received(n) ==
    /\ n <= Len(stream) /\ (n = 0 => stream = <<>> /\ sender = Closed)
    /\ stream' = SubSeq(stream, n + 1, Len(stream))

CallsRoundedDown(s) == s \div Buffer
Calls(s) == s \div Buffer + 1

\* a header that comes in part gives atol a number of which digits are missing, or
\* that goes on with what the buffer held (bound: one call too many at most)
RecvHeader ==
    /\ receiver = "header" /\ receiver' = "piece"
    /\ \E n \in 1 .. Buffer : Received(n) /\ short' = (n < Buffer)
    /\ left' \in IF short' THEN Endless .. Calls(size) + 1 ELSE {Calls(size)}
    /\ UNCHANGED <<size, sender, file>>

RecvPieceCountingData ==
    /\ receiver = "piece" /\ left # 0
    /\ \E n \in 0 .. Buffer :
          /\ Received(n) /\ file' = file \o SubSeq(stream, 1, n)
          /\ left' = IF n = 0 THEN left ELSE left - 1
          /\ short' = (short \/ (n < Buffer /\ (stream' # <<>> \/ sender # Closed)))
    /\ UNCHANGED <<size, sender, receiver>>

RecvPiece ==
    /\ receiver = "piece" /\ left # 0
    /\ left' = IF left = Endless THEN left ELSE left - 1
    /\ \E n \in 0 .. Buffer :
          /\ Received(n) /\ file' = file \o SubSeq(stream, 1, n)
          /\ short' = (short \/ (n < Buffer /\ (stream' # <<>> \/ sender # Closed)))
    /\ UNCHANGED <<size, sender, receiver>>

Finish == /\ receiver = "piece" /\ left = 0 /\ receiver' = "ended"
          /\ UNCHANGED <<size, sender, stream, left, file, short>>

\* the connection breaks: fwrite is given -1 as a length before -1 is tested.  If it
\* breaks at the header there may be no call of recv left to find that out.
Break ==
    /\ \/ receiver = "piece" /\ left # 0 /\ receiver' = "crashed" /\ UNCHANGED short
       \/ receiver = "header" /\ receiver' \in {"crashed", "ended"} /\ short' = TRUE
    /\ UNCHANGED <<size, sender, stream, left, file>>

Client == SendHeader \/ SendPiece \/ Close
Server == RecvHeader \/ RecvPiece \/ Finish
Next == Client \/ Server \/ Break

TypeOK == /\ sender \in 0 .. Closed
          /\ receiver \in {"header", "piece", "ended", "crashed"}
          /\ left \in Endless .. Calls(size) + 1 /\ short \in BOOLEAN
          /\ \A i \in DOMAIN file : file[i] \in 0 .. size
          /\ \A i \in DOMAIN stream : stream[i] \in 0 .. size

\* A server that has made its calls has the whole file if TCP filled the buffer
\* in each, up to the end of the stream: file_size / BUF_SIZE + 1 calls suffice
\* for every size, a multiple of BUF_SIZE too (server.c:75-90).
FullCallsSuffice ==
    receiver = "ended" /\ ~short => file = Bytes(1, size)

\* The server ends, whatever TCP makes of the stream, unless it takes part of a
\* header for a negative size (server.c:74, 79).
Ends == <>(receiver \in {"ended", "crashed"} \/ left = Endless)
=============================================================================
