------------------------------ MODULE MCFilesStore ------------------------------
(***************************************************************************)
(* Properties of FilesStore and its finite instances.                      *)
(***************************************************************************)
EXTENDS FilesStore

(* The faults of each run: a power loss from any state; a death of the     *)
(* process or an error of the device, and another one while it recovers.   *)
NoFaults == {<<>>}
EachKind == {<<"power", "power">>, <<"process", "process">>, <<"process", "device">>,
             <<"device", "process">>}

(***************************************************************************)
(* Liveness                                                                *)
(***************************************************************************)
\* Whatever fails, the gate is released and the store is open again.
GateReleased == []<>(open /\ op = None)

=============================================================================
