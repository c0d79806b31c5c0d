--------------------------- MODULE MCRadarControl ---------------------------
(* A radar with one gate. *)
EXTENDS RadarControl

Running == [config |-> FALSE, engineering |-> FALSE, booting |-> FALSE,
            threshold |-> Factory]
Configured == [Running EXCEPT !.config = TRUE, !.engineering = TRUE]
Quietly == [open |-> 0, close |-> 0, gate |-> 0, factory |-> 0, faults |-> 0]

(* Sessions are opened, kept alive, closed and opened again; a factory     *)
(* reset and a gate write overtake each other; commands fail; the node was *)
(* restarted while it configured the radar.                                *)
RadarSetup ==
  {[radar |-> Running,
    budget |-> [Quietly EXCEPT !.open = 2, !.close = 1]],
   [radar |-> Running,
    budget |-> [Quietly EXCEPT !.open = 1, !.gate = 1, !.factory = 1]],
   [radar |-> Running,
    budget |-> [Quietly EXCEPT !.open = 1, !.gate = 1, !.faults = 1]],
   [radar |-> Running,
    budget |-> [Quietly EXCEPT !.factory = 1, !.faults = 1]],
   [radar |-> Configured,
    budget |-> [Quietly EXCEPT !.faults = 2]]}
=============================================================================
