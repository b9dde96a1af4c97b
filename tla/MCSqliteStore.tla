------------------------------ MODULE MCSqliteStore ------------------------------
(***************************************************************************)
(* Properties of SqliteStore and its finite instances.                     *)
(***************************************************************************)
EXTENDS SqliteStore, TLC

Symmetry == Permutations(Clients)

\* The faults of each run.
NoFaults == {<<>>}
EachKind == {<<"power">>, <<"process", "process">>, <<"device">>,
             <<"catalog">>, <<"busy">>}

(***************************************************************************)
(* Action properties                                                       *)
(***************************************************************************)
\* A copy that published its destination and met no fault answers Success.
PublishedCopySucceeds ==
    [][\A c \in Clients :
        (Return(c) /\ calls[c].committed /\ faults = <<>>) => calls[c].ok]_vars

=============================================================================
