--------------------------- MODULE MCClientTransfers ---------------------------
(***************************************************************************)
(* The finite instances of ClientTransfers.                                *)
(***************************************************************************)
EXTENDS ClientTransfers

\* A wave of two kinds of subjects, and one subject after it; an upload
\* in parts has two, and a download that says its length may end before its
\* one piece.
Put == [kind |-> "put", parts |-> 1, sized |-> TRUE]
Multipart == [kind |-> "multipart", parts |-> 2, sized |-> TRUE]
Download == [kind |-> "download", parts |-> 1, sized |-> TRUE]
Unsized == [kind |-> "download", parts |-> 1, sized |-> FALSE]
PairThenOne == {<<Put, Multipart, Put>>, <<Put, Download, Multipart>>,
                <<Multipart, Download, Unsized>>}

================================================================================
