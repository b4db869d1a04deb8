------------------------------ MODULE EventQueue ------------------------------
(***************************************************************************)
(* The part of ns-3's discrete-event simulator that agv.cpp relies on.     *)
(* ns-3 is not part of the repository.  A pending event has the handler it *)
(* runs, the time it is due and the unique, growing number it was given    *)
(* when it was scheduled; an ns3::EventId held in a member is that number. *)
(***************************************************************************)
EXTENDS Naturals

(* A default-constructed ns3::EventId: it names no event. *)
NoEvent == 0

Event(kind, at, id) == [kind |-> kind, at |-> at, uid |-> id]

(* Simulator::Run takes the earliest event; events of one time run in the  *)
(* order in which they were scheduled.                                     *)
IsNext(e, queue) ==
  /\ e \in queue
  /\ \A f \in queue : f.at > e.at \/ (f.at = e.at /\ f.uid >= e.uid)

(* Simulator::Cancel: the event named by an id will not run.  Cancelling   *)
(* an event that has run, was cancelled, or never was, does nothing.       *)
Cancel(queue, id) == {f \in queue : f.uid # id}
===============================================================================
