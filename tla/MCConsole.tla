------------------------------ MODULE MCConsole ------------------------------
(* Console with two devices.  Each budget lets other things happen together: *)
(* two changes; a change and a failure; a change and two moves; a failure, a *)
(* move and an ended session; a change and an ended session; two moves and   *)
(* an ended session.                                                         *)
EXTENDS Console
CONSTANTS a, b
Budget(w, f, m, e) == [writes |-> w, faults |-> f, moves |-> m, ends |-> e]
MCBudgets == {Budget(2, 0, 0, 0), Budget(1, 1, 0, 0), Budget(1, 0, 2, 0),
              Budget(0, 1, 1, 1), Budget(1, 0, 0, 1), Budget(0, 0, 2, 1)}
=============================================================================
