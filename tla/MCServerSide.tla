---------------------------- MODULE MCServerSide ----------------------------
EXTENDS ServerSide
OutsideSave == {"do", "poll", "check", "join"}
Anywhere == OutsideSave \cup {"save", "close"}
=============================================================================
