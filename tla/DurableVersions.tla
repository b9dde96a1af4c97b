---------------------------- MODULE DurableVersions ----------------------------
(***************************************************************************)
(* What a durable versioned store promises for one key, whatever its files *)
(* look like: a table from version identities to values, where identity 0  *)
(* is the null version.  An operation replaces the value of one version in *)
(* one step.  Until the change is settled a power loss may undo it, each   *)
(* version independently and only to a value that version had.             *)
(***************************************************************************)
EXTENDS Integers

CONSTANTS Identities, \* opaque version identities, positive numbers
          Values,     \* what a version may hold: [body, marker, tag, order]
          Absent      \* the version does not exist

Keys == Identities \union {0}

VARIABLES table,   \* the value of each version
          fallback \* the values a power loss may return each version to

Present == {k \in Keys : table[k] # Absent}

\* Only version k changes, and only its former value joins what may come
\* back.
Move(k) ==
    /\ table' \in [Keys -> Values \union {Absent}]
    /\ \A j \in Keys \ {k} : table'[j] = table[j]
    /\ fallback' \in [Keys -> SUBSET (Values \union {Absent})]
    /\ \A j \in Keys \ {k} : fallback'[j] \subseteq fallback[j]
    /\ fallback'[k] \subseteq fallback[k] \union {table[k]}

\* A new version is the newest one; the null version replaces an older one,
\* an opaque version never does.
Publish(k) ==
    /\ Move(k)
    /\ table'[k] # Absent
    /\ IF k # 0 THEN table[k] = Absent /\ table'[k].order = k
       ELSE 0 \in Present => table[0].order <= table'[0].order
    /\ \A j \in Present \ {k} : table[j].order < table'[k].order

Remove(k) == k \in Present /\ Move(k) /\ table'[k] = Absent

Retag(k) ==
    /\ k \in Present
    /\ Move(k)
    /\ table'[k] # Absent
    /\ table'[k] = [table[k] EXCEPT !.tag = table'[k].tag]

Settle ==
    /\ fallback' \in [Keys -> SUBSET (Values \union {Absent})]
    /\ \A j \in Keys : fallback'[j] \subseteq fallback[j]
    /\ UNCHANGED table

PowerLoss ==
    /\ table' \in [Keys -> Values \union {Absent}]
    /\ \A j \in Keys : table'[j] \in fallback[j] \union {table[j]}
    /\ fallback' = [j \in Keys |-> {}]

Init ==
    /\ table = [k \in Keys |-> Absent]
    /\ fallback = [k \in Keys |-> {}]

Next ==
    \/ Settle
    \/ \E k \in Keys : Publish(k) \/ Remove(k) \/ Retag(k)
    \/ PowerLoss

Spec == Init /\ [][Next]_<<table, fallback>>

=============================================================================
