-------------------------- MODULE MCManagementConsole --------------------------
(***************************************************************************)
(* Properties of ManagementConsole and its finite instances.               *)
(***************************************************************************)
EXTENDS ManagementConsole

CONSTANTS b1, b2

\* A bucket with two pages of objects and an empty one.
OneFull == [b \in Buckets |-> IF b = b1 THEN 2 ELSE 0]

\* Everything at once, one click after the other; and browsing and deleting
\* with more fetches under way, with and without failures.
EachVisit ==
    {[clicks |-> AllClicks, calls |-> 2, loads |-> 2, logins |-> 1,
      failures |-> 1, changes |-> 1],
     [clicks |-> {"browse"}, calls |-> 3, loads |-> 4, logins |-> 0,
      failures |-> 0, changes |-> 0],
     [clicks |-> {"browse", "delete", "refresh"}, calls |-> 3, loads |-> 1,
      logins |-> 0, failures |-> 0, changes |-> 0],
     [clicks |-> {"browse", "refresh"}, calls |-> 3, loads |-> 1, logins |-> 0,
      failures |-> 1, changes |-> 0]}

\* A session that has ended is noticed: the sign-in form comes up.
SessionEnds == ui.view = "workbench" /\ cookie \notin live
EndedSessionNoticed == SessionEnds ~> (ui.view = "login" \/ cookie \in live)

\* The buttons that the end of a fetch enables.
Enables(call) ==
    CASE call = Idle           -> {}
      [] call.kind = "login"  -> {"submit"}
      [] call.kind = "logout" -> {"logout"}
      [] call.kind = "create" -> {"create"}
      [] OTHER                -> call.release

\* No control stays disabled: a disabled button belongs to a fetch under way
\* that enables it when it ends; the button that loads the next page does not
\* stay disabled while a bucket is open, whatever loads were superseded; and
\* a row whose deletion was sent goes back to its first step, or goes away.
ControlsReleased ==
    /\ [](ui.busy \ {"more"} \subseteq UNION {Enables(calls[i]) : i \in Slots})
    /\ (ui.selected # NoBucket /\ "more" \in ui.busy)
           ~> ("more" \notin ui.busy \/ ui.selected = NoBucket)
    /\ \A b \in Buckets : ui.rows[b] = "deleting" ~> ui.rows[b] # "deleting"

============================================================================
