----------------------- MODULE MCObservationDelivery -----------------------
(* Instances of ObservationDelivery with one sender. *)
EXTENDS ObservationDelivery

Still == [restarts |-> 0, poses |-> 0, copies |-> 0, wraps |-> 0,
          stops |-> 0, seen |-> {}]

FaultSetup ==
  {[Still EXCEPT !.restarts = 1, !.copies = 1],
   [Still EXCEPT !.poses = 1, !.stops = 1],
   [Still EXCEPT !.wraps = 1]}
=============================================================================
