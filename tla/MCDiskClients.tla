--------------------------- MODULE MCDiskClients ---------------------------
(***************************************************************************)
(* Lines for DiskClients on a disk of two cylinders with one sector each.  *)
(***************************************************************************)
EXTENDS DiskClients

\* Reads of a block, of one that does not exist, and writes of a whole block, of
\* a part of one and of nothing.
Reads == {Line("R", 1, 0, "0", <<>>), Line("R", -1, 0, "0", <<>>)}
Writes == {Line("W", 0, 1, "0", <<"x", "y">>), Line("W", 0, 1, "x", <<"0">>),
           Line("W", 0, 0, "0", <<>>)}
\* Refused: the cylinder is too large; the data is too long, and contains a word
\* that is a command, or is itself a write that is carried out: two answers come
\* back, and a client that leaves after the first one resets the connection.
WriteAsData == <<"W", " ", "0", " ", "0", " ", "1", " ", "x">>
Refused == {Line("W", 0, 2, "0", <<"I">>), Line("W", 0, 0, "0", <<"x", " ", "R">>),
            Line("W", 0, 0, "0", WriteAsData)}
AllLines == {Line("I", 0, 0, "0", <<>>)} \cup Reads \cup Writes \cup Refused
=============================================================================
