------------------------------ MODULE RouteProofs ------------------------------
(***************************************************************************)
(* Proofs about the deques of the Controller: orders do not mix before     *)
(* teleoperation is toggled, and never more than two of them are in the    *)
(* deques; and about the reports, which what is planned postpones: the     *)
(* robot is never silent longer than the configuration allows.  For every  *)
(* set of configurations.                                                  *)
(***************************************************************************)
EXTENDS StreamProofs, StateReports

Consecutive(s) == \A i \in 1 .. Len(s) - 1 : s[i + 1] = s[i] + 1

-------------------------------------------------------------------------------
(* Routes.                                                                 *)

(* What is moved from the head of one list to the end of another stays in  *)
(* its place of both together.                                             *)
LEMMA Moved ==
  ASSUME NEW s \in Seq(Nat), NEW r \in Seq(Nat), NEW k \in 1 .. Len(r)
  PROVE  (s \o SubSeq(r, 1, k)) \o SubSeq(r, k + 1, Len(r)) = s \o r
<1> DEFINE a == SubSeq(r, 1, k)
           b == SubSeq(r, k + 1, Len(r))
<1>1. /\ \A i \in 1 .. k : r[i] \in Nat
      /\ \A i \in k + 1 .. Len(r) : r[i] \in Nat
      /\ Len(s) \in Nat /\ Len(r) \in Nat /\ k \in Nat
  OBVIOUS
<1>2. /\ a \in Seq(Nat) /\ Len(a) = k
      /\ \A i \in 1 .. k : a[i] = r[i]
  BY <1>1, SubSeqProperties
<1>3. /\ b \in Seq(Nat) /\ Len(b) = Len(r) - k
      /\ \A i \in 1 .. Len(r) - k : b[i] = r[k + i]
  BY <1>1, SubSeqProperties
<1> HIDE DEF a, b
<1>4. /\ s \o a \in Seq(Nat) /\ Len(s \o a) = Len(s) + k
      /\ \A i \in 1 .. Len(s) + k :
           (s \o a)[i] = IF i <= Len(s) THEN s[i] ELSE a[i - Len(s)]
  BY <1>2, ConcatProperties
<1>5. /\ (s \o a) \o b \in Seq(Nat) /\ Len((s \o a) \o b) = Len(s) + Len(r)
      /\ \A i \in 1 .. Len(s) + Len(r) :
           ((s \o a) \o b)[i] =
              IF i <= Len(s) + k THEN (s \o a)[i] ELSE b[i - (Len(s) + k)]
  <2> SUFFICES ASSUME NEW t \in Seq(Nat), Len(t) = Len(s) + k
               PROVE  /\ t \o b \in Seq(Nat) /\ Len(t \o b) = Len(s) + Len(r)
                      /\ \A i \in 1 .. Len(s) + Len(r) :
                           (t \o b)[i] = IF i <= Len(s) + k THEN t[i]
                                         ELSE b[i - (Len(s) + k)]
    BY <1>4
  <2>1. /\ t \o b \in Seq(Nat) /\ Len(t \o b) = Len(t) + Len(b)
        /\ \A i \in 1 .. Len(t) + Len(b) :
             (t \o b)[i] = IF i <= Len(t) THEN t[i] ELSE b[i - Len(t)]
    BY <1>3, ConcatProperties
  <2>2. Len(t) + Len(b) = Len(s) + Len(r)
    BY <1>1, <1>3
  <2> QED
    BY <2>1, <2>2
<1>6. /\ s \o r \in Seq(Nat) /\ Len(s \o r) = Len(s) + Len(r)
      /\ \A i \in 1 .. Len(s) + Len(r) :
           (s \o r)[i] = IF i <= Len(s) THEN s[i] ELSE r[i - Len(s)]
  BY ConcatProperties
<1>7. ASSUME NEW i \in 1 .. Len(s) + Len(r)
      PROVE  ((s \o a) \o b)[i] = (s \o r)[i]
  <2>1. CASE i <= Len(s)
    BY <1>1, <1>4, <1>5, <1>6, <2>1
  <2>2. CASE ~(i <= Len(s)) /\ i <= Len(s) + k
    <3>1. i - Len(s) \in 1 .. k /\ i \in 1 .. Len(s) + k
      BY <1>1, <2>2
    <3> QED
      BY <1>2, <1>4, <1>5, <1>6, <2>2, <3>1
  <2>3. CASE ~(i <= Len(s) + k)
    <3>1. /\ i - (Len(s) + k) \in 1 .. Len(r) - k /\ ~(i <= Len(s))
          /\ k + (i - (Len(s) + k)) = i - Len(s)
      BY <1>1, <2>3
    <3> QED
      BY <1>3, <1>5, <1>6, <2>3, <3>1
  <2> QED
    BY <2>1, <2>2, <2>3
<1>8. (s \o a) \o b = s \o r
  BY <1>5, <1>6, <1>7, SeqEqual
<1> QED
  BY <1>8 DEF a, b

(* The first element of a route is left behind.                            *)
LEMMA Passed ==
  ASSUME NEW s \in Seq(Nat), s # <<>>, NEW r \in Seq(Nat), Consecutive(s \o r)
  PROVE  Consecutive(Tail(s) \o r)
<1>1. /\ Tail(s) \in Seq(Nat) /\ Len(Tail(s)) = Len(s) - 1 /\ Len(s) \in Nat \ {0}
      /\ Len(r) \in Nat
      /\ \A i \in 1 .. Len(Tail(s)) : Tail(s)[i] = s[i + 1]
  BY HeadTailProperties, EmptySeq
<1>2. /\ Len(s \o r) = Len(s) + Len(r)
      /\ \A i \in 1 .. Len(s) + Len(r) :
           (s \o r)[i] = IF i <= Len(s) THEN s[i] ELSE r[i - Len(s)]
  BY ConcatProperties
<1>3. /\ Len(Tail(s) \o r) = Len(s) - 1 + Len(r)
      /\ \A i \in 1 .. Len(s) - 1 + Len(r) :
           (Tail(s) \o r)[i] =
              IF i <= Len(s) - 1 THEN Tail(s)[i] ELSE r[i - (Len(s) - 1)]
  BY <1>1, ConcatProperties
<1>4. \A i \in 1 .. Len(s) - 1 + Len(r) : (Tail(s) \o r)[i] = (s \o r)[i + 1]
  <2> SUFFICES ASSUME NEW i \in 1 .. Len(s) - 1 + Len(r)
               PROVE  (Tail(s) \o r)[i] = (s \o r)[i + 1]
    OBVIOUS
  <2>1. i + 1 \in 1 .. Len(s) + Len(r) /\ i - (Len(s) - 1) = (i + 1) - Len(s)
    BY <1>1
  <2> QED
    BY <1>1, <1>2, <1>3, <2>1
<1>5. ASSUME NEW i \in 1 .. Len(Tail(s) \o r) - 1
      PROVE  (Tail(s) \o r)[i + 1] = (Tail(s) \o r)[i] + 1
  <2>1. /\ i \in 1 .. Len(s) - 1 + Len(r) /\ i + 1 \in 1 .. Len(s) - 1 + Len(r)
        /\ i + 1 \in 1 .. Len(s \o r) - 1
    BY <1>1, <1>2, <1>3
  <2>2. (s \o r)[(i + 1) + 1] = (s \o r)[i + 1] + 1
    BY <2>1 DEF Consecutive
  <2> QED
    BY <1>4, <2>1, <2>2
<1> QED
  BY <1>5 DEF Consecutive

-------------------------------------------------------------------------------
(* What the steps do to the deques.                                        *)

Backlog == Len(node_states_) + Len(planned_node_states_)

Whole == node_states_ \o planned_node_states_

LEMMA Lists2 ==
  ASSUME Lockstep
  PROVE  /\ planned_node_states_ \in Seq(Nat) /\ node_states_ \in Seq(Nat)
         /\ Len(node_states_) \in Nat /\ Len(planned_node_states_) \in Nat
         /\ Len(Whole) = Backlog
         /\ NothingPlanned <=> planned_node_states_ = <<>>
         /\ NothingReleased <=> node_states_ = <<>>
         /\ planned_edge_states_ = planned_node_states_
         /\ V.order_len_min \in Nat /\ V.order_len_max \in Nat
<1>1. planned_node_states_ \in Seq(Nat) /\ node_states_ \in Seq(Nat)
  BY DEF Lockstep, TypeOK
<1>2. Len(Whole) = Backlog
  BY <1>1, ConcatProperties DEF Whole, Backlog
<1>3. V \in Vda5050Config
  BY Delays DEF Lockstep, TypeOK
<1> QED
  BY <1>1, <1>2, <1>3
  DEF Lockstep, NodesAndEdgesInStep, NothingPlanned, NothingReleased, Vda5050Config

(* Releasing moves a route from planned to released.                       *)
LEMMA ReleaseMoves ==
  ASSUME Lockstep, NEW r \in Seq(Nat), NEW edges, Release(r, edges)
  PROVE  Whole' = node_states_ \o r
<1>1. PICK k \in 1 .. Len(r) :
        /\ node_states_' = node_states_ \o SubSeq(r, 1, k)
        /\ planned_node_states_' = SubSeq(r, k + 1, Len(r))
  BY DEF Release
<1> QED
  BY <1>1, Lists2, Moved DEF Whole

(* An order adds a route of its own when nothing is planned.               *)
LEMMA OrderAdds ==
  ASSUME Lockstep, NEW e \in events, sendOrder(e)
  PROVE  \/ /\ NothingPlanned
            /\ \E n \in 0 .. V.order_len_max : Whole' = node_states_ \o Route(n)
         \/ ~NothingPlanned /\ Whole' = Whole
<1>1. CASE NothingPlanned
  <2>1. PICK n \in V.order_len_min .. V.order_len_max : Release(Route(n), Route(n))
    BY <1>1 DEF sendOrder, PlanAndRelease
  <2>2. n \in 0 .. V.order_len_max
    BY Lists2
  <2>3. Route(n) \in Seq(Nat)
    BY <2>2, RouteType, Lists2
  <2> QED
    BY <1>1, <2>1, <2>2, <2>3, ReleaseMoves
<1>2. CASE ~NothingPlanned
  BY <1>2, Lists2, ReleaseMoves DEF sendOrder, PlanAndRelease, Whole
<1> QED
  BY <1>1, <1>2

(* A state report leaves at most one element behind.                       *)
LEMMA StatePasses ==
  ASSUME Lockstep, NEW e \in events, sendState(e)
  PROVE  \/ Whole' = Whole /\ Backlog' = Backlog
         \/ /\ node_states_ # <<>>
            /\ Whole' = Tail(node_states_) \o planned_node_states_
            /\ Backlog' = Backlog - 1
<1>1. UNCHANGED planned_node_states_
  BY DEF sendState, planned
<1>2. UNCHANGED node_states_ \/ (~NothingReleased /\ node_states_' = Tail(node_states_))
  BY DEF sendState, Advance, released
<1>3. CASE UNCHANGED node_states_
  BY <1>1, <1>3 DEF Whole, Backlog
<1>4. CASE ~NothingReleased /\ node_states_' = Tail(node_states_)
  <2>1. node_states_ # <<>>
    BY <1>4, Lists2
  <2>2. Len(Tail(node_states_)) = Len(node_states_) - 1
    BY <2>1, Lists2, HeadTailProperties
  <2> QED
    BY <1>1, <1>4, <2>1, <2>2, Lists2 DEF Whole, Backlog
<1> QED
  BY <1>2, <1>3, <1>4

-------------------------------------------------------------------------------
(* The invariant.                                                          *)

(* More order streams than keep within one order: two of them, or one on   *)
(* a last leg, which adds an order of its own to what is released.         *)
Crowded ==
  LET orders == EventsOf("sendOrder")
  IN  IF LastLeg THEN orders # {} ELSE ~AtMostOne(orders)

(* Two orders are in the deques only when no stream is left to add a third.*)
RouteInv ==
  /\ Untouched => Consecutive(Whole)
  /\ ~Restarted \/ Crowded => Backlog <= V.order_len_max
  /\ Backlog <= 2 * V.order_len_max

LEMMA RouteInit == Init => RouteInv
<1> SUFFICES ASSUME Init
             PROVE  RouteInv
  OBVIOUS
<1>1. node_states_ = <<>> /\ planned_node_states_ = <<>>
  BY DEF Init
<1>2. Lockstep
  BY StreamInit DEF StreamInv
<1>3. Len(<<>>) = 0
  BY EmptySeq
<1>4. Backlog = 0 /\ Len(Whole) = 0
  BY <1>1, <1>2, <1>3, Lists2 DEF Backlog
<1> QED
  BY <1>2, <1>4, Lists2 DEF RouteInv, Consecutive

(* Steps that add nothing to the deques and no order stream.               *)
LEMMA RouteFrame ==
  ASSUME RouteInv, Lockstep, Lockstep', cfg_' = cfg_,
         Backlog' <= Backlog, Consecutive(Whole) => Consecutive(Whole)',
         Crowded' => Crowded \/ Backlog' = 0,
         EventsOf("startTeleoperation")' = EventsOf("startTeleoperation"),
         EventsOf("stopTeleoperation")' = EventsOf("stopTeleoperation")
  PROVE  RouteInv'
<1>1. Untouched' = Untouched /\ Restarted' = Restarted
  BY DEF Untouched, Restarted
<1>2. V' = V
  BY DEF V
<1>3. /\ Backlog \in Nat /\ V.order_len_max \in Nat
  BY Lists2 DEF Backlog
<1>4. Backlog' \in Nat
  <2>1. node_states_' \in Seq(Nat) /\ planned_node_states_' \in Seq(Nat)
    BY DEF Lockstep, TypeOK
  <2> QED
    BY <2>1, LenProperties DEF Backlog
<1> QED
  BY <1>1, <1>2, <1>3, <1>4 DEF RouteInv

(* A new order follows an old one only on the last leg, for the one stream *)
(* that is left, which is a restarted one; a continuation moves no more    *)
(* than there is.                                                          *)
LEMMA RouteOrder ==
  ASSUME StreamInv, OneOrderStream, StrayOrders, RouteInv, Lockstep', [Next]_vars,
         NEW e \in events, sendOrder(e)
  PROVE  RouteInv'
<1>1. TypeOK /\ NamesOK /\ Lockstep
  BY DEF StreamInv, Lockstep
<1>2. running /\ cfg_' = cfg_
  BY ConfigFixed DEF sendOrder, Runs
<1>3. /\ e \in EventsOf("sendOrder")
      /\ \E n : EventsOf("sendOrder")' =
                  (EventsOf("sendOrder") \ {e})
                  \cup (IF planned_node_states_' # <<>> THEN {n} ELSE {})
      /\ EventsOf("startTeleoperation")' = EventsOf("startTeleoperation")
      /\ EventsOf("stopTeleoperation")' = EventsOf("stopTeleoperation")
  BY <1>1, OrderEffect DEF StreamKind
<1>4. Untouched' = Untouched /\ Restarted' = Restarted
  BY <1>2, <1>3 DEF Untouched, Restarted
<1>5. LastLeg' <=> planned_node_states_' = <<>>
  BY <1>1, LegAfterOrder
<1>6. /\ Backlog = Len(Whole) /\ Backlog' = Len(Whole)'
      /\ Backlog \in Nat /\ Backlog' \in Nat
      /\ V.order_len_max \in Nat /\ V'.order_len_max = V.order_len_max
      /\ node_states_ \in Seq(Nat) /\ planned_node_states_ \in Seq(Nat)
      /\ NothingPlanned <=> planned_node_states_ = <<>>
      /\ NothingReleased <=> node_states_ = <<>>
  <2>1. V' = V
    BY <1>2 DEF V
  <2>2. Backlog' = Len(Whole)' /\ Backlog' \in Nat
    <3>1. node_states_' \in Seq(Nat) /\ planned_node_states_' \in Seq(Nat)
      BY DEF Lockstep, TypeOK
    <3> QED
      BY <3>1, ConcatProperties, LenProperties DEF Backlog, Whole
  <2> QED
    BY <1>1, <2>1, <2>2, Lists2 DEF Backlog
<1>7. ASSUME LastLeg
      PROVE  ~Untouched /\ Restarted /\ AtMostOne(EventsOf("sendOrder"))
  <2>1. AtMostOne(OrderTokens) /\ e \in OrderTokens
    BY <1>2, <1>3, <1>7 DEF StrayOrders, OrderTokens
  <2>2. ~Untouched
    BY <1>2, <1>3, <1>7, OneOrderMeaning DEF OneOrder
  <2>3. EventsOf("stopTeleoperation") = {}
    <3>1. ASSUME NEW f \in EventsOf("stopTeleoperation")
          PROVE  FALSE
      <4>1. f.kind = "stopTeleoperation" /\ e.kind = "sendOrder"
        BY <1>3 DEF EventsOf
      <4> QED
        BY <2>1, <4>1 DEF OrderTokens, AtMostOne
    <3> QED
      BY <3>1
  <2> QED
    BY <2>1, <2>2, <2>3 DEF Untouched, Restarted, OrderTokens, AtMostOne
<1>8. CASE ~NothingPlanned /\ Whole' = Whole
  <2>1. ~LastLeg
    BY <1>8 DEF LastLeg
  <2>2. Crowded' => Crowded
    BY <1>3, <1>5, <2>1 DEF Crowded, AtMostOne
  <2> QED
    BY <1>1, <1>2, <1>3, <1>6, <1>8, <2>2, RouteFrame
<1>9. ASSUME NothingPlanned, NEW n \in 0 .. V.order_len_max,
             Whole' = node_states_ \o Route(n)
      PROVE  RouteInv'
  <2>1. Route(n) \in Seq(Nat) /\ Len(Route(n)) = n
    BY <1>6, RouteType
  <2>2. Len(planned_node_states_) = 0 /\ Backlog = Len(node_states_)
    <3>1. Len(planned_node_states_) = 0
      BY <1>6, <1>9, EmptySeq
    <3> QED
      BY <1>6, <3>1 DEF Backlog
  <2>3. Backlog' = Backlog + n
    <3>1. Len(node_states_ \o Route(n)) = Len(node_states_) + Len(Route(n))
      BY <1>6, <2>1, ConcatProperties
    <3> QED
      BY <1>6, <1>9, <2>1, <2>2, <3>1
  <2>4. CASE NothingReleased
    <3>1. Backlog = 0
      BY <1>6, <2>2, <2>4, EmptySeq
    <3>2. Whole' = Route(n)
      BY <1>6, <1>9, <2>1, <2>4, ConcatEmptySeq
    <3>3. Consecutive(Whole)'
      BY <1>6, <2>1, <3>2 DEF Consecutive, Route
    <3> QED
      BY <1>6, <2>3, <3>1, <3>3 DEF RouteInv
  <2>5. CASE ~NothingReleased
    <3>1. LastLeg
      BY <1>9, <2>5 DEF LastLeg
    <3>2. Backlog <= V.order_len_max
      BY <1>3, <3>1 DEF RouteInv, Crowded
    <3>3. ~Crowded'
      BY <1>3, <1>5, <1>7, <3>1 DEF Crowded, AtMostOne
    <3>4. ~Untouched' /\ Restarted'
      BY <1>4, <1>7, <3>1
    <3> QED
      BY <1>6, <2>3, <3>2, <3>3, <3>4 DEF RouteInv
  <2> QED
    BY <2>4, <2>5
<1> QED
  BY <1>1, <1>8, <1>9, OrderAdds

LEMMA RouteState ==
  ASSUME StreamInv, RouteInv, Lockstep', [Next]_vars,
         NEW e \in events, sendState(e)
  PROVE  RouteInv'
<1>1. TypeOK /\ NamesOK /\ Lockstep
  BY DEF StreamInv, Lockstep
<1>2. cfg_' = cfg_
  BY ConfigFixed
<1>3. Backlog \in Nat
  BY <1>1, Lists2 DEF Backlog
<1>4. Backlog' <= Backlog
  BY <1>1, <1>3, StatePasses
<1>5. Consecutive(Whole) => Consecutive(Whole)'
  <2>1. ASSUME Consecutive(Whole), Whole' = Whole
        PROVE  Consecutive(Whole)'
    BY <2>1 DEF Consecutive
  <2>2. ASSUME Consecutive(Whole), node_states_ # <<>>,
               Whole' = Tail(node_states_) \o planned_node_states_
        PROVE  Consecutive(Whole)'
    <3>1. Consecutive(Tail(node_states_) \o planned_node_states_)
      BY <1>1, <2>2, Lists2, Passed DEF Whole
    <3> QED
      BY <2>2, <3>1 DEF Consecutive
  <2> QED
    BY <1>1, <2>1, <2>2, StatePasses
<1>6. Crowded' => Crowded \/ Backlog' = 0
  <2>1. CASE ~NothingReleased /\ NextOrderDue
    <3>1. node_states_' = <<>> /\ planned_node_states_' = <<>>
      <4>1. UNCHANGED planned_node_states_
        BY DEF sendState, planned
      <4> QED
        BY <2>1, <4>1 DEF NextOrderDue, NothingReleased, NothingPlanned
    <3> QED
      BY <3>1, EmptySeq DEF Backlog
  <2>2. CASE ~(~NothingReleased /\ NextOrderDue)
    <3>1. LastLeg' = LastLeg /\ EventsOf("sendOrder")' = EventsOf("sendOrder")
      BY <1>1, <2>2, LegAfterState, StateEffect
    <3> QED
      BY <3>1 DEF Crowded, AtMostOne
  <2> QED
    BY <2>1, <2>2
<1>7. /\ EventsOf("startTeleoperation")' = EventsOf("startTeleoperation")
      /\ EventsOf("stopTeleoperation")' = EventsOf("stopTeleoperation")
  BY <1>1, StateEffect DEF StreamKind
<1> QED
  BY <1>1, <1>2, <1>4, <1>5, <1>6, <1>7, RouteFrame

LEMMA RouteStep ==
  ASSUME StreamInv, OneOrderStream, StrayOrders, RouteInv, [Next]_vars
  PROVE  RouteInv'
<1>1. TypeOK /\ NamesOK /\ TogglesOK /\ Lockstep
  BY DEF StreamInv, Lockstep
<1>2. Lockstep'
  BY StreamStep DEF StreamInv
<1>3. cfg_' = cfg_ /\ V' = V
  BY ConfigFixed DEF V
<1>4. Backlog \in Nat /\ V.order_len_max \in Nat
  BY <1>1, Lists2 DEF Backlog
<1>5. ASSUME UNCHANGED <<planned, released>>,
             EventsOf("sendOrder")' = EventsOf("sendOrder"),
             EventsOf("startTeleoperation")' = EventsOf("startTeleoperation"),
             EventsOf("stopTeleoperation")' = EventsOf("stopTeleoperation")
      PROVE  RouteInv'
  <2>1. Backlog' = Backlog /\ Whole' = Whole
    BY <1>5 DEF Backlog, Whole, planned, released
  <2>2. Crowded' = Crowded
    BY <1>5, SameLeg DEF Crowded, AtMostOne
  <2> QED
    BY <1>1, <1>2, <1>3, <1>4, <1>5, <2>1, <2>2, RouteFrame DEF Consecutive
<1>6. ASSUME NEW e \in events, Bystander(e)
      PROVE  RouteInv'
  BY <1>1, <1>5, <1>6, BystanderEffect, BystanderFrame DEF StreamKind
<1>7. ASSUME NEW e \in events, startTeleoperation(e)
      PROVE  RouteInv'
  <2>1. node_states_' = <<>> /\ planned_node_states_' = <<>>
    BY <1>7 DEF startTeleoperation
  <2>2. Backlog' = 0
    BY <2>1, EmptySeq DEF Backlog
  <2>3. ~Untouched'
    BY <1>1, <1>7, Touches
  <2> QED
    BY <1>3, <1>4, <2>2, <2>3 DEF RouteInv
<1>8. ASSUME NEW e \in events, stopTeleoperation(e)
      PROVE  RouteInv'
  <2>1. ~Restarted
    BY <1>1, <1>8, StopEffect DEF Restarted
  <2>2. UNCHANGED <<planned, released>>
    BY <1>8 DEF stopTeleoperation
  <2>3. Backlog' = Backlog /\ Whole' = Whole
    BY <2>2 DEF Backlog, Whole, planned, released
  <2>4. ~Untouched'
    BY <1>1, <1>8, Touches
  <2> QED
    BY <1>3, <1>4, <2>1, <2>3, <2>4 DEF RouteInv
<1>9. ASSUME NEW e \in events,
             sendTeleoperationState(e) \/ sendControl(e) \/ Stop(e)
      PROVE  RouteInv'
  <2>1. UNCHANGED <<planned, released>>
    BY <1>9 DEF sendTeleoperationState, sendControl, Stop
  <2> QED
    BY <1>1, <1>5, <1>9, <2>1, AnnounceEffect, ControlEffect, ExitEffect
    DEF StreamKind
<1>10. CASE UNCHANGED events /\ UNCHANGED <<planned, released>>
  BY <1>5, <1>10 DEF EventsOf
<1> QED
  BY <1>2, <1>6, <1>7, <1>8, <1>9, <1>10, RouteOrder, RouteState, Steps

THEOREM RouteInvariant == Spec => []RouteInv
<1>1. Init => RouteInv
  BY RouteInit
<1>2. StreamInv /\ OneOrderStream /\ StrayOrders /\ RouteInv /\ [Next]_vars
        => RouteInv'
  BY RouteStep
<1> QED
  BY <1>1, <1>2, StreamInvariant, OrderStream, StrayInvariant, PTL DEF Spec

(* Until teleoperation is toggled no order is released into another: the   *)
(* sequenceIds of what is released and of what is planned are one run,     *)
(* whichever of continuation and travel is faster.                         *)
THEOREM InOrder == Spec => []RouteInOrder
<1>1. RouteInv => RouteInOrder
  BY DEF RouteInv, RouteInOrder, Consecutive, Whole
<1> QED
  BY <1>1, RouteInvariant, PTL

(* The deques never hold more than two orders, and never more than one     *)
(* until teleoperation is stopped, however many streams of orders its      *)
(* toggles leave behind and whichever of them comes first.                 *)
THEOREM Backlogs == Spec => []BacklogBounded
<1>1. StreamInv /\ RouteInv => BacklogBounded
  <2> SUFFICES ASSUME StreamInv, RouteInv
               PROVE  BacklogBounded
    OBVIOUS
  <2>1. V.order_len_max \in Nat
    BY Lists2 DEF StreamInv
  <2>2. V.order_len_max * 2 = 2 * V.order_len_max /\ V.order_len_max * 1 = V.order_len_max
    BY <2>1
  <2> QED
    BY <2>2 DEF RouteInv, BacklogBounded, Backlog
<1> QED
  BY <1>1, StreamInvariant, RouteInvariant, PTL

-------------------------------------------------------------------------------
(* How long the robot is silent.                                           *)

OrderDelay  == V.send_state_after_order_ms
ToggleDelay == T.state_after_toggle_teleop_ms
Continue    == V.send_order_continuation_ms
Longest     == V.order_len_max
Planned     == Len(planned_node_states_)

(* Not more than all but one node of an order is planned: the first was    *)
(* released with it.                                                       *)
PlanShort == Planned + 1 <= Longest

Due(kind, amount) == IF EventsOf(kind) = {} THEN 0 ELSE amount

(* How many orders and continuations can still come before a report: those *)
(* of the streams there are, what a stream continues being shared by all,  *)
(* those of the stream the stop starts, and as many for the start, which   *)
(* drops the plan, so that the next order is a new one.                    *)
OfOneStream  == IF Planned > 0 THEN Planned ELSE Longest
OfTheStray   == IF AtMostOne(EventsOf("sendOrder")) THEN 0 ELSE Longest
OfTheStreams == Due("sendOrder", OfOneStream + OfTheStray)
OfTheToggles == Due("startTeleoperation", Longest) + Due("stopTeleoperation", Longest)
OrdersAhead  == OfTheStreams + OfTheToggles

(* By how much the toggles still to come postpone the report.              *)
TogglesAhead ==
  Due("startTeleoperation", ToggleDelay) + Due("stopTeleoperation", ToggleDelay)

(* With teleoperation: what the report has been postponed by, and what it  *)
(* can still be, are bounded together.                                     *)
TeleopSilence(e) ==
  e.at + OrderDelay * OrdersAhead + TogglesAhead
    <= reported + Interval + OrderDelay * (3 * Longest) + 2 * ToggleDelay

(* Without it there is one stream: nothing has postponed the report, or    *)
(* the continuations do, the next of which falls before it, or none will,  *)
(* as the next falls behind it.                                            *)
FreshReport(e) == e.at <= reported + Interval

Continued(e) ==
  /\ Continue <= OrderDelay
  /\ e.at <= reported + Interval + OrderDelay + Continue * (Longest - 1 - Planned)
  /\ \A f \in EventsOf("sendOrder") :
       Planned > 0 /\ f.at <= reported + Interval + Continue * (Longest - Planned)

Overtaken(e) ==
  /\ OrderDelay < Continue
  /\ e.at <= reported + Interval + OrderDelay
  /\ \A f \in EventsOf("sendOrder") : e.at < f.at

SilenceOf(e) ==
  IF cfg_.scenario = "TELEOP" THEN TeleopSilence(e)
  ELSE FreshReport(e) \/ Continued(e) \/ Overtaken(e)

SilenceInv ==
  /\ reported \in Nat
  /\ PlanShort
  /\ running => \A e \in EventsOf("sendState") : SilenceOf(e)

-------------------------------------------------------------------------------
(* Arithmetic and the configuration.                                       *)

LEMMA Product ==
  ASSUME NEW a \in Nat, NEW m \in Nat, NEW n \in Nat
  PROVE  /\ a * m \in Nat
         /\ m <= n => a * m <= a * n
         /\ m + 1 <= n => a * m + a <= a * n
  OBVIOUS

LEMMA Amounts ==
  ASSUME Lockstep
  PROVE  /\ OrderDelay \in Nat /\ ToggleDelay \in Nat /\ Continue \in Nat
         /\ Longest \in Nat /\ Longest >= 1 /\ Planned \in Nat
         /\ Planned > 0 <=> ~NothingPlanned
         /\ V.order_len_min >= 1
         /\ Interval \in Nat
         /\ V.send_state_after_ms <= Interval
         /\ V.idle_state_interval_ms <= Interval
         /\ V.order_finish_step_ms <= Interval
<1>1. /\ V \in Vda5050Config /\ T \in TeleopConfig /\ cfg_ \in Configs
  BY Delays DEF Lockstep, TypeOK
<1>2. V.order_len_min >= 1 /\ V.order_len_min <= V.order_len_max
  BY <1>1, ConfigsAssumption DEF ConfigsAssumption, V, Vda5050Config
<1>3. /\ V.send_state_after_ms \in Nat /\ V.idle_state_interval_ms \in Nat
      /\ V.order_finish_step_ms \in Nat
  BY <1>1 DEF Vda5050Config
<1>4. /\ Interval \in Nat
      /\ V.send_state_after_ms <= Interval
      /\ V.idle_state_interval_ms <= Interval
      /\ V.order_finish_step_ms <= Interval
  BY <1>3 DEF Interval, Longer
<1>5. Planned \in Nat /\ (Planned > 0 <=> ~NothingPlanned)
  BY Lists2, EmptySeq DEF Planned
<1> QED
  BY <1>1, <1>2, <1>4, <1>5
  DEF Vda5050Config, TeleopConfig, OrderDelay, ToggleDelay, Continue, Longest

LEMMA SameAmounts ==
  ASSUME [Next]_vars
  PROVE  /\ cfg_' = cfg_ /\ OrderDelay' = OrderDelay
         /\ ToggleDelay' = ToggleDelay /\ Continue' = Continue
         /\ Longest' = Longest /\ Interval' = Interval
<1>1. cfg_' = cfg_
  BY ConfigFixed
<1>2. V' = V /\ T' = T
  BY <1>1 DEF V, T
<1> QED
  BY <1>1, <1>2 DEF OrderDelay, ToggleDelay, Continue, Longest, Interval

LEMMA DueType ==
  ASSUME NEW kind, NEW amount \in Nat
  PROVE  Due(kind, amount) \in Nat /\ Due(kind, amount) <= amount
  BY DEF Due

LEMMA AheadType == Lockstep => OrdersAhead \in Nat /\ TogglesAhead \in Nat
<1> SUFFICES ASSUME Lockstep
             PROVE  OrdersAhead \in Nat /\ TogglesAhead \in Nat
  OBVIOUS
<1>1. OfOneStream + OfTheStray \in Nat
  BY Amounts DEF OfOneStream, OfTheStray
<1>2. OfTheStreams \in Nat
  BY <1>1, DueType DEF OfTheStreams
<1>3. OfTheToggles \in Nat
  <2>1. /\ Due("startTeleoperation", Longest) \in Nat
        /\ Due("stopTeleoperation", Longest) \in Nat
    BY Amounts, DueType
  <2> QED
    BY <2>1 DEF OfTheToggles
<1>4. TogglesAhead \in Nat
  <2>1. /\ Due("startTeleoperation", ToggleDelay) \in Nat
        /\ Due("stopTeleoperation", ToggleDelay) \in Nat
    BY Amounts, DueType
  <2> QED
    BY <2>1 DEF TogglesAhead
<1> QED
  BY <1>2, <1>3, <1>4 DEF OrdersAhead

-------------------------------------------------------------------------------
(* The steps.                                                              *)

(* Whose step it is whether a state is published.                          *)
LEMMA ReportedBy ==
  ASSUME TypeOK, [ReportsNext]_<<vars, reported>>
  PROVE  /\ [Next]_vars
         /\ \A e \in events : sendState(e) => reported' = e.at
         /\ (\A e \in events : ~sendState(e)) => reported' = reported
<1>1. CASE UNCHANGED <<vars, reported>>
  <2>1. \A e \in events : ~sendState(e)
    BY <1>1 DEF sendState, vars, Runs
  <2> QED
    BY <1>1, <2>1
<1>2. CASE ReportsNext
  <2>1. Next /\ reported' = IF Reports THEN now' ELSE reported
    BY <1>2 DEF ReportsNext
  <2>2. ASSUME NEW e \in events, sendState(e)
        PROVE  reported' = e.at
    <3>1. out = <<>> /\ now' = e.at
      BY <2>2 DEF sendState, Runs
    <3>2. PICK c : out' = <<c>> /\ c.topic = "state"
      BY <2>2 DEF sendState, executeCommandUe, CommandFor
    <3>3. out' # <<>> /\ Head(out') = c
      BY <3>2
    <3> QED
      BY <2>1, <3>1, <3>2, <3>3 DEF Reports
  <2>3. ASSUME \A e \in events : ~sendState(e)
        PROVE  ~Reports
    <3>1. ASSUME NEW c, NEW d, out' = <<c>> \/ out' = <<c, d>>,
                 c.topic # "state"
          PROVE  ~Reports
      BY <3>1 DEF Reports
    <3>2. ASSUME NEW e \in events, Handler(e)
          PROVE  ~Reports
      <4> USE DEF executeCommandUe, executeCommandBase, instantActions, CommandFor
      <4>1. CASE Bystander(e)
        BY <3>1, <4>1
        DEF Bystander, sendConnection, sendFactsheetRequest, sendFactsheet,
            sendVisualization, requestTeleoperationCapabilities,
            sendTeleoperationCapabilities
      <4>2. CASE sendOrder(e) \/ startTeleoperation(e) \/ stopTeleoperation(e)
                 \/ sendControl(e)
        BY <3>1, <4>2
        DEF sendOrder, startTeleoperation, stopTeleoperation, sendControl
      <4>3. CASE sendTeleoperationState(e)
        <5> DEFINE text == IF teleoperating_ THEN "teleoperating"
                           ELSE "not teleoperating"
                   c == CommandFor("ue", "PUBLISH_TELEOP", "teleop_state", Plain(text))
                   d == CommandFor("ue", VideoCommand, "", Plain(""))
        <5>1. out' = <<c, d>>
          BY <4>3 DEF sendTeleoperationState
        <5>2. c.topic # "state"
          OBVIOUS
        <5> HIDE DEF c, d
        <5> QED
          BY <3>1, <5>1, <5>2
      <4>4. CASE Stop(e)
        <5> DEFINE c == CommandFor("ue", "EXIT", "", Plain(""))
                   d == CommandFor("base", "EXIT", "Test", Plain("Test"))
        <5>1. out' = <<c, d>>
          BY <4>4 DEF Stop
        <5>2. c.topic # "state"
          OBVIOUS
        <5> HIDE DEF c, d
        <5> QED
          BY <3>1, <5>1, <5>2
      <4> QED
        BY <2>3, <3>2, <4>1, <4>2, <4>3, <4>4 DEF Handler, Bystander
    <3>3. CASE Send \/ Terminated
      BY <3>3 DEF Send, Terminated, Finished, vars, Reports
    <3> QED
      BY <2>1, <3>2, <3>3 DEF Next, Reports
  <2> QED
    BY <2>1, <2>2, <2>3
<1> QED
  BY <1>1, <1>2

(* When the next report and the continuations fall due.                    *)
LEMMA OrderTimes ==
  ASSUME StreamInv, NEW e \in events, sendOrder(e)
  PROVE  /\ \A f \in EventsOf("sendState")' : f.at = e.at + OrderDelay
         /\ \A f \in EventsOf("sendOrder")' :
              \/ f \in EventsOf("sendOrder") \ {e}
              \/ planned_node_states_' # <<>> /\ f.at = e.at + Continue
<1>1. running
  BY DEF sendOrder, Runs
<1>2. {f \in EventsOf("sendState") : f.uid # next_state_} = {}
  BY <1>1 DEF StreamInv, OneStateStream
<1>3. /\ EventsOf("sendState")' =
           {Later(e, "sendState", V.send_state_after_order_ms, 1)}
      /\ EventsOf("sendOrder")' =
           (EventsOf("sendOrder") \ {e})
           \cup (IF planned_node_states_' # <<>>
                 THEN {Later(e, "sendOrder", V.send_order_continuation_ms, 0)}
                 ELSE {})
  BY <1>2, OrderEffect DEF StreamInv, Lockstep
<1> QED
  BY <1>3 DEF Later, Event, OrderDelay, Continue

LEMMA StateTimes ==
  ASSUME StreamInv, NEW e \in events, sendState(e)
  PROVE  \A f \in EventsOf("sendState")' : f.at <= e.at + Interval
<1>1. running /\ e \in EventsOf("sendState")
  BY DEF sendState, Runs, EventsOf
<1>2. \A f \in events \ {e} : f.kind # "sendState"
  BY <1>1 DEF StreamInv, OneStateStream, EventsOf
<1>3. \A f \in EventsOf("sendState")' :
        \/ f = Later(e, "sendState", V.idle_state_interval_ms, 0)
        \/ f = Later(e, "sendState", V.order_finish_step_ms, 0)
  BY <1>2 DEF sendState, EventsOf, Later, Event
<1>4. e.at \in Nat
  BY DEF StreamInv, Lockstep, TypeOK, QueueOK
<1>5. V \in Vda5050Config
  BY Delays DEF StreamInv, Lockstep, TypeOK
<1> QED
  BY <1>3, <1>4, <1>5, Amounts DEF Later, Event, StreamInv, Vda5050Config

LEMMA ToggleTimes ==
  ASSUME StreamInv, NEW e \in events,
         startTeleoperation(e) \/ stopTeleoperation(e)
  PROVE  \A f \in EventsOf("sendState")' : f.at = e.at + ToggleDelay
<1>1. running
  BY DEF startTeleoperation, stopTeleoperation, Runs
<1>2. \A f \in events : f.kind = "sendState" => f.uid = next_state_
  BY <1>1 DEF StreamInv, OneStateStream, EventsOf
<1>3. \A f \in EventsOf("sendState")' :
        f = Later(e, "sendState", T.state_after_toggle_teleop_ms, 1)
  BY <1>2
  DEF startTeleoperation, stopTeleoperation, StartEvents, StopEvents,
      AfterToggle, RestartOrder, Cancel, EventsOf, Later, Event
<1> QED
  BY <1>3 DEF Later, Event, ToggleDelay

(* The event that runs is due no later than the pending report.            *)
LEMMA Earliest ==
  ASSUME StreamInv, NEW e \in events, NEW kind, Runs(e, kind)
  PROVE  /\ e.at \in Nat /\ running
         /\ \E r \in EventsOf("sendState") : r.at \in Nat /\ e.at <= r.at
<1>1. running /\ IsNext(e, events)
  BY DEF Runs
<1>2. PICK r \in events : EventsOf("sendState") = {r}
  BY <1>1 DEF StreamInv, OneStateStream
<1>3. e.at \in Nat /\ r.at \in Nat
  BY DEF StreamInv, Lockstep, TypeOK, QueueOK
<1> QED
  BY <1>1, <1>2, <1>3 DEF IsNext

(* An order leaves less of the longest order to be planned, a continuation *)
(* less than there was.                                                    *)
LEMMA OrderShortens ==
  ASSUME Lockstep, PlanShort, NEW e \in events, sendOrder(e)
  PROVE  \E q \in Nat : /\ Planned' = q /\ q + 1 <= Longest
                        /\ Planned > 0 => q + 1 <= Planned
                        /\ q = 0 <=> planned_node_states_' = <<>>
<1>1. /\ planned_node_states_ \in Seq(Nat)
      /\ node_states_ \in Seq(Nat) /\ edge_states_ \in Seq(Nat)
      /\ planned_edge_states_ = planned_node_states_
  BY DEF Lockstep, TypeOK, NodesAndEdgesInStep
<1>2. planned_node_states_' \in Seq(Nat)
  <2>1. CASE NothingPlanned
    <3>1. PICK n \in V.order_len_min .. V.order_len_max : Release(Route(n), Route(n))
      BY <2>1 DEF sendOrder, PlanAndRelease
    <3>2. Route(n) \in Seq(Nat)
      BY Lists2, RouteType
    <3> QED
      BY <1>1, <3>1, <3>2, ReleaseTypes
  <2>2. CASE ~NothingPlanned
    BY <1>1, <2>2, ReleaseTypes DEF sendOrder, PlanAndRelease
  <2> QED
    BY <2>1, <2>2
<1>3. PICK q \in Nat : Planned' = q /\ (q = 0 <=> planned_node_states_' = <<>>)
  BY <1>2, EmptySeq DEF Planned
<1>4. CASE NothingPlanned
  <2>1. PICK n \in V.order_len_min .. V.order_len_max : Release(Route(n), Route(n))
    BY <1>4 DEF sendOrder, PlanAndRelease
  <2>2. n \in Nat /\ n <= Longest /\ Route(n) \in Seq(Nat) /\ Len(Route(n)) = n
    BY Lists2, RouteType DEF Longest
  <2>3. \E k \in 1 .. n : q = n - k
    BY <1>3, <1>1, <2>1, <2>2, ReleaseLengths DEF Planned
  <2> QED
    BY <1>3, <1>4, <2>2, <2>3, Amounts
<1>5. CASE ~NothingPlanned
  <2>1. \E k \in 1 .. Planned : q = Planned - k
    BY <1>3, <1>1, <1>5, ReleaseLengths DEF sendOrder, PlanAndRelease, Planned
  <2> QED
    BY <1>3, <1>5, <2>1, Amounts DEF PlanShort
<1> QED
  BY <1>4, <1>5

LEMMA PlanStep ==
  ASSUME Lockstep, PlanShort, [Next]_vars
  PROVE  PlanShort'
<1>1. Longest' = Longest
  BY SameAmounts
<1>2. Planned \in Nat /\ Longest \in Nat /\ Longest >= 1
  BY Amounts
<1>3. ASSUME NEW e \in events, sendOrder(e)
      PROVE  PlanShort'
  BY <1>1, <1>3, OrderShortens DEF PlanShort
<1>4. ASSUME NEW e \in events, startTeleoperation(e)
      PROVE  PlanShort'
  <2>1. Planned' = 0
    BY <1>4, EmptySeq DEF startTeleoperation, Planned
  <2> QED
    BY <1>1, <1>2, <2>1 DEF PlanShort
<1>5. ASSUME UNCHANGED planned
      PROVE  PlanShort'
  BY <1>1, <1>5 DEF PlanShort, Planned, planned
<1>6. ASSUME NEW e \in events,
             \/ sendState(e) \/ stopTeleoperation(e)
             \/ sendTeleoperationState(e) \/ sendControl(e) \/ Stop(e)
      PROVE  PlanShort'
  BY <1>5, <1>6
  DEF sendState, stopTeleoperation, sendTeleoperationState, sendControl, Stop
<1>7. ASSUME NEW e \in events, Bystander(e)
      PROVE  PlanShort'
  BY <1>5, <1>7, BystanderFrame
<1> QED
  BY <1>3, <1>4, <1>5, <1>6, <1>7, Steps

(* Of two order streams one was started by the stop.                       *)
LEMMA OneBeforeStop ==
  ASSUME running, StrayOrders
  PROVE  AtMostOne(EventsOf("sendOrder")) \/ EventsOf("stopTeleoperation") = {}
<1> SUFFICES ASSUME NEW a \in EventsOf("sendOrder"), NEW b \in EventsOf("sendOrder"),
                    NEW c \in EventsOf("stopTeleoperation")
             PROVE  a = b
  BY DEF AtMostOne
<1>1. a # c /\ b # c
  BY DEF EventsOf
<1> QED
  BY <1>1 DEF StrayOrders, OrderTokens, AtMostTwo

(* There is never more ahead than three orders and both toggles.           *)
LEMMA AheadBounded ==
  running /\ Lockstep /\ PlanShort /\ StrayOrders
    => OrdersAhead \in 0 .. 3 * Longest /\ TogglesAhead \in 0 .. 2 * ToggleDelay
<1> SUFFICES ASSUME running, Lockstep, PlanShort, StrayOrders
             PROVE  /\ OrdersAhead \in 0 .. 3 * Longest
                    /\ TogglesAhead \in 0 .. 2 * ToggleDelay
  OBVIOUS
<1>1. /\ Longest \in Nat /\ Planned \in Nat /\ Planned <= Longest
      /\ ToggleDelay \in Nat
  BY Amounts DEF PlanShort
<1>2. AtMostOne(EventsOf("sendOrder")) \/ EventsOf("stopTeleoperation") = {}
  BY OneBeforeStop
<1>3. TogglesAhead <= 2 * ToggleDelay
  BY <1>1 DEF TogglesAhead, Due
<1>4. OrdersAhead <= 3 * Longest
  BY <1>1, <1>2
  DEF OrdersAhead, OfTheStreams, OfTheToggles, OfOneStream, OfTheStray, Due
<1> QED
  BY <1>1, <1>3, <1>4, AheadType

(* Every order uses up one of what is ahead ...                            *)
LEMMA OrderUses ==
  ASSUME StreamInv, StrayOrders, PlanShort, [Next]_vars,
         NEW e \in events, sendOrder(e)
  PROVE  /\ \E n \in Nat : OrdersAhead' = n /\ n + 1 <= OrdersAhead
         /\ TogglesAhead' = TogglesAhead
<1>1. Lockstep /\ TypeOK /\ NamesOK
  BY DEF StreamInv, Lockstep
<1>2. /\ Longest' = Longest /\ ToggleDelay' = ToggleDelay
      /\ Longest \in Nat /\ Longest >= 1 /\ Planned \in Nat
  BY <1>1, SameAmounts, Amounts
<1>3. PICK q \in Nat : /\ Planned' = q /\ q + 1 <= Longest
                       /\ Planned > 0 => q + 1 <= Planned
                       /\ q = 0 <=> planned_node_states_' = <<>>
  BY <1>1, OrderShortens
<1>4. /\ e \in EventsOf("sendOrder")
      /\ IF planned_node_states_' = <<>>
         THEN EventsOf("sendOrder")' = EventsOf("sendOrder") \ {e}
         ELSE \E n : EventsOf("sendOrder")' = (EventsOf("sendOrder") \ {e}) \cup {n}
      /\ EventsOf("startTeleoperation")' = EventsOf("startTeleoperation")
      /\ EventsOf("stopTeleoperation")' = EventsOf("stopTeleoperation")
  BY <1>1, OrderEffect DEF StreamKind
<1>5. AtMostTwo(EventsOf("sendOrder"))
  <2>1. running
    BY DEF sendOrder, Runs
  <2> QED
    BY <2>1 DEF StrayOrders, OrderTokens, AtMostTwo
<1>6. OfTheToggles' = OfTheToggles /\ OfTheToggles \in Nat
  BY <1>2, <1>4 DEF OfTheToggles, Due
<1>7. TogglesAhead' = TogglesAhead
  BY <1>2, <1>4 DEF TogglesAhead, Due
<1>8. /\ OfTheStreams = OfOneStream + OfTheStray
      /\ OfTheStray \in Nat /\ OfOneStream \in Nat
      /\ ~AtMostOne(EventsOf("sendOrder")) => OfTheStray = Longest
  BY <1>2, <1>4 DEF OfTheStreams, OfOneStream, OfTheStray, Due
<1>9. CASE q > 0
  <2> \E n : EventsOf("sendOrder")' = (EventsOf("sendOrder") \ {e}) \cup {n}
    BY <1>3, <1>4, <1>9
  <2>1. AtMostOne(EventsOf("sendOrder")) => AtMostOne(EventsOf("sendOrder"))'
    BY <1>4 DEF AtMostOne
  <2>2. PICK k \in Nat : OfTheStray' = k /\ k <= OfTheStray
    BY <1>2, <2>1 DEF OfTheStray
  <2>3. OfOneStream' = q /\ q + 1 <= OfOneStream
    BY <1>2, <1>3, <1>9 DEF OfOneStream
  <2>4. PICK m \in Nat : OfTheStreams' = m /\ m <= q + k
    BY <2>2, <2>3 DEF OfTheStreams, Due
  <2>5. OrdersAhead' = m + OfTheToggles /\ m + OfTheToggles \in Nat
    BY <1>6, <2>4 DEF OrdersAhead
  <2>6. m + OfTheToggles + 1 <= OrdersAhead
    BY <1>2, <1>6, <1>8, <2>2, <2>3, <2>4 DEF OrdersAhead
  <2> QED
    BY <1>7, <2>5, <2>6
<1>10. CASE q = 0
  <2> EventsOf("sendOrder")' = EventsOf("sendOrder") \ {e}
    BY <1>3, <1>4, <1>10
  <2>1. /\ AtMostOne(EventsOf("sendOrder")) => EventsOf("sendOrder")' = {}
        /\ AtMostOne(EventsOf("sendOrder"))'
    BY <1>4, <1>5 DEF AtMostOne, AtMostTwo
  <2>2. OfTheStray' = 0 /\ OfOneStream' = Longest
    BY <1>2, <1>3, <1>10, <2>1 DEF OfTheStray, OfOneStream
  <2>3. PICK m \in Nat : OfTheStreams' = m /\ m <= OfTheStray
    BY <1>2, <1>8, <2>1, <2>2 DEF OfTheStreams, Due
  <2>4. OfOneStream >= 1
    BY <1>2 DEF OfOneStream
  <2>5. OrdersAhead' = m + OfTheToggles /\ m + OfTheToggles \in Nat
    BY <1>6, <2>3 DEF OrdersAhead
  <2>6. m + OfTheToggles + 1 <= OrdersAhead
    BY <1>2, <1>6, <1>8, <2>3, <2>4 DEF OrdersAhead
  <2> QED
    BY <1>7, <2>5, <2>6
<1> QED
  BY <1>9, <1>10

(* ... and a toggle brings none: the start drops the plan, for which it    *)
(* was counted as an order, the stop becomes the stream it was counted as. *)
LEMMA ToggleUses ==
  ASSUME StreamInv, StrayOrders, PlanShort, [Next]_vars,
         NEW e \in events, startTeleoperation(e) \/ stopTeleoperation(e)
  PROVE  OrdersAhead' <= OrdersAhead /\ TogglesAhead' + ToggleDelay = TogglesAhead
<1>1. Lockstep /\ TypeOK /\ NamesOK /\ TogglesOK
  BY DEF StreamInv, Lockstep
<1>2. /\ Longest' = Longest /\ ToggleDelay' = ToggleDelay
      /\ Longest \in Nat /\ Longest >= 1 /\ Planned \in Nat /\ ToggleDelay \in Nat
      /\ Planned <= Longest
  BY <1>1, SameAmounts, Amounts DEF PlanShort
<1>3. ASSUME NEW k \in {"startTeleoperation", "stopTeleoperation"},
             e \in EventsOf(k), EventsOf(k)' = EventsOf(k) \ {e}
      PROVE  EventsOf(k)' = {}
  <2>1. \A f \in EventsOf(k) : f \in events /\ f.uid = e.uid
    BY <1>1, <1>3 DEF EventsOf, TogglesOK
  <2> QED
    BY <1>1, <1>3, <2>1 DEF TypeOK, QueueOK
<1>4. CASE startTeleoperation(e)
  <2>1. /\ EventsOf("startTeleoperation") # {}
        /\ EventsOf("startTeleoperation")' = {}
        /\ EventsOf("stopTeleoperation")' = EventsOf("stopTeleoperation")
        /\ EventsOf("sendOrder")' \subseteq EventsOf("sendOrder")
    BY <1>1, <1>3, <1>4, StartEffect
  <2>2. Planned' = 0
    BY <1>4, EmptySeq DEF startTeleoperation, Planned
  <2>3. AtMostOne(EventsOf("sendOrder")) => AtMostOne(EventsOf("sendOrder"))'
    BY <2>1 DEF AtMostOne
  <2>4. EventsOf("sendOrder") = {} => EventsOf("sendOrder")' = {}
    BY <2>1
  <2>5. OrdersAhead' <= OrdersAhead
    BY <1>2, <2>1, <2>2, <2>3, <2>4
    DEF OrdersAhead, OfTheStreams, OfTheToggles, OfOneStream, OfTheStray, Due
  <2>6. TogglesAhead' + ToggleDelay = TogglesAhead
    BY <1>2, <2>1 DEF TogglesAhead, Due
  <2> QED
    BY <2>5, <2>6
<1>5. CASE stopTeleoperation(e)
  <2>1. /\ EventsOf("stopTeleoperation") # {}
        /\ EventsOf("stopTeleoperation")' = {}
        /\ EventsOf("startTeleoperation")' = EventsOf("startTeleoperation")
        /\ \E n : EventsOf("sendOrder")' = EventsOf("sendOrder") \cup {n}
    BY <1>1, <1>3, <1>5, StopEffect
  <2>2. Planned' = Planned
    BY <1>5 DEF stopTeleoperation, Planned, planned
  <2>3. EventsOf("sendOrder") = {} => AtMostOne(EventsOf("sendOrder"))'
    BY <2>1 DEF AtMostOne
  <2>4. AtMostOne(EventsOf("sendOrder"))
    BY <1>5, <2>1, OneBeforeStop DEF stopTeleoperation, Runs
  <2>5. OrdersAhead' <= OrdersAhead
    BY <1>2, <2>1, <2>2, <2>3, <2>4
    DEF OrdersAhead, OfTheStreams, OfTheToggles, OfOneStream, OfTheStray, Due
  <2>6. TogglesAhead' + ToggleDelay = TogglesAhead
    BY <1>2, <2>1 DEF TogglesAhead, Due
  <2> QED
    BY <2>5, <2>6
<1> QED
  BY <1>4, <1>5


-------------------------------------------------------------------------------
(* The invariant holds.                                                    *)

LEMMA SilenceInit == ReportsInit => SilenceInv
<1> SUFFICES ASSUME ReportsInit
             PROVE  SilenceInv
  OBVIOUS
<1>1. Init /\ reported = 0 /\ running
  BY DEF ReportsInit, Init
<1>2. Lockstep /\ StrayOrders
  BY <1>1, StreamInit, StrayInit DEF StreamInv
<1>3. PlanShort
  <2>1. Planned = 0
    BY <1>1, EmptySeq DEF Init, Planned
  <2> QED
    BY <1>2, <2>1, Amounts DEF PlanShort
<1>4. \A f \in EventsOf("sendState") : f.at = V.send_state_after_ms
  BY <1>1 DEF Init, InitialEvents, VdaEvents, TeleopEvents, EventsOf, Event, V
<1>5. V.send_state_after_ms \in Nat /\ V.send_state_after_ms <= Interval /\ Interval \in Nat
  <2>1. V \in Vda5050Config
    BY <1>2, Delays DEF Lockstep, TypeOK
  <2> QED
    BY <1>2, <2>1, Amounts DEF Vda5050Config
<1>6. ASSUME NEW f \in EventsOf("sendState")
      PROVE  FreshReport(f) /\ TeleopSilence(f)
  <2>1. OrdersAhead \in 0 .. 3 * Longest /\ TogglesAhead \in 0 .. 2 * ToggleDelay
    BY <1>1, <1>2, <1>3, AheadBounded
  <2>2. /\ OrderDelay * OrdersAhead <= OrderDelay * (3 * Longest)
        /\ OrderDelay * OrdersAhead \in Nat /\ OrderDelay * (3 * Longest) \in Nat
    <3>1. OrderDelay \in Nat /\ OrdersAhead \in Nat /\ 3 * Longest \in Nat
      BY <1>2, <2>1, Amounts
    <3> QED
      BY <2>1, <3>1, Product
  <2> QED
    BY <1>1, <1>2, <1>4, <1>5, <2>1, <2>2, Amounts DEF FreshReport, TeleopSilence
<1> QED
  BY <1>1, <1>3, <1>6 DEF SilenceInv, SilenceOf

(* Steps that touch neither the reports, nor the orders, nor the toggles.  *)
LEMMA SilenceFrame ==
  ASSUME StreamInv, SilenceInv, [Next]_vars, reported' = reported,
         UNCHANGED planned, running' => running,
         \A k \in {"sendState", "sendOrder", "startTeleoperation",
                   "stopTeleoperation"} : EventsOf(k)' = EventsOf(k)
  PROVE  SilenceInv'
<1>1. /\ cfg_' = cfg_ /\ OrderDelay' = OrderDelay /\ ToggleDelay' = ToggleDelay
      /\ Continue' = Continue /\ Longest' = Longest /\ Interval' = Interval
  BY SameAmounts
<1>2. Planned' = Planned
  BY DEF Planned, planned
<1>3. /\ OfOneStream' = OfOneStream /\ OfTheStray' = OfTheStray
      /\ TogglesAhead' = TogglesAhead /\ OfTheToggles' = OfTheToggles
  BY <1>1, <1>2 DEF OfOneStream, OfTheStray, OfTheToggles, TogglesAhead, Due, AtMostOne
<1>4. OrdersAhead' = OrdersAhead
  BY <1>3 DEF OrdersAhead, OfTheStreams, Due
<1>5. ASSUME NEW f
      PROVE  SilenceOf(f)' <=> SilenceOf(f)
  BY <1>1, <1>2, <1>3, <1>4
  DEF SilenceOf, TeleopSilence, FreshReport, Continued, Overtaken
<1> QED
  BY <1>1, <1>2, <1>5 DEF SilenceInv, PlanShort

(* Before a step, the pending report.                                      *)
LEMMA PendingReport ==
  ASSUME StreamInv, SilenceInv, NEW e \in events, NEW kind, Runs(e, kind)
  PROVE  /\ e.at \in Nat
         /\ \E r \in EventsOf("sendState") :
              r.at \in Nat /\ e.at <= r.at /\ SilenceOf(r)
  BY Earliest DEF SilenceInv

LEMMA SilenceOrder ==
  ASSUME StreamInv, OneOrderStream, StrayOrders, SilenceInv, [Next]_vars,
         reported' = reported, NEW e \in events, sendOrder(e),
         NEW f \in EventsOf("sendState")'
  PROVE  SilenceOf(f)'
<1>1. Runs(e, "sendOrder") /\ Lockstep /\ PlanShort
  BY DEF sendOrder, StreamInv, SilenceInv
<1>2. PICK r \in EventsOf("sendState") :
        /\ r.at \in Nat /\ e.at <= r.at /\ SilenceOf(r)
        /\ e.at \in Nat
  BY <1>1, PendingReport
<1>3. /\ cfg_' = cfg_ /\ OrderDelay' = OrderDelay /\ ToggleDelay' = ToggleDelay
      /\ Continue' = Continue /\ Longest' = Longest /\ Interval' = Interval
  BY SameAmounts
<1>4. /\ OrderDelay \in Nat /\ ToggleDelay \in Nat /\ Continue \in Nat
      /\ Longest \in Nat /\ Planned \in Nat /\ Interval \in Nat
      /\ reported \in Nat /\ Planned + 1 <= Longest
      /\ Planned > 0 <=> ~NothingPlanned
  BY <1>1, Amounts DEF SilenceInv, PlanShort
<1>5. PICK q \in Nat : /\ Planned' = q /\ q + 1 <= Longest
                       /\ Planned > 0 => q + 1 <= Planned
                       /\ q = 0 <=> planned_node_states_' = <<>>
  BY <1>1, OrderShortens
<1>6. /\ f.at = e.at + OrderDelay
      /\ \A g \in EventsOf("sendOrder")' :
           \/ g \in EventsOf("sendOrder") \ {e}
           \/ planned_node_states_' # <<>> /\ g.at = e.at + Continue
  BY OrderTimes
<1>7. CASE cfg_.scenario = "TELEOP"
  <2>1. PICK n \in Nat : OrdersAhead' = n /\ n + 1 <= OrdersAhead
    BY <1>1, OrderUses
  <2>2. TogglesAhead' = TogglesAhead /\ OrdersAhead \in Nat /\ TogglesAhead \in Nat
    BY <1>1, OrderUses, AheadType
  <2>3. TeleopSilence(r)
    BY <1>2, <1>7 DEF SilenceOf
  <2>4. /\ OrderDelay * n + OrderDelay <= OrderDelay * OrdersAhead
        /\ OrderDelay * n \in Nat /\ OrderDelay * OrdersAhead \in Nat
    BY <1>4, <2>1, <2>2, Product
  <2>5. OrderDelay * (3 * Longest) \in Nat
    <3>1. 3 * Longest \in Nat
      BY <1>4
    <3> QED
      BY <1>4, <3>1, Product
  <2>6. f.at + OrderDelay * n + TogglesAhead
          <= reported + Interval + OrderDelay * (3 * Longest) + 2 * ToggleDelay
    <3>1. /\ f.at = e.at + OrderDelay /\ e.at <= r.at
          /\ e.at \in Nat /\ r.at \in Nat /\ TogglesAhead \in Nat
      BY <1>2, <1>6, <2>2
    <3>2. r.at + OrderDelay * OrdersAhead + TogglesAhead
            <= reported + Interval + OrderDelay * (3 * Longest) + 2 * ToggleDelay
      BY <2>3 DEF TeleopSilence
    <3> QED
      BY <1>4, <2>4, <2>5, <3>1, <3>2
  <2>7. PICK t \in Nat : TogglesAhead' = t /\ t = TogglesAhead
    BY <2>2
  <2>8. f.at + OrderDelay * n + t
          <= reported + Interval + OrderDelay * (3 * Longest) + 2 * ToggleDelay
    BY <2>6, <2>7
  <2> QED
    BY <1>3, <1>7, <2>1, <2>7, <2>8 DEF SilenceOf, TeleopSilence
<1>8. CASE cfg_.scenario # "TELEOP"
  <2>1. EventsOf("sendOrder") = {e}
    <3>1. running /\ e \in EventsOf("sendOrder")
      BY <1>1 DEF Runs, EventsOf
    <3>2. OneOrder
      BY <1>8, <3>1, OneOrderMeaning DEF Untouched
    <3> QED
      BY <3>1, <3>2 DEF OneOrder
  <2>2. ASSUME NEW g \in EventsOf("sendOrder")'
        PROVE  q > 0 /\ g.at = e.at + Continue
    BY <1>5, <1>6, <2>1, <2>2
  <2>3. /\ Longest - 1 - q \in Nat /\ Longest - q \in Nat
        /\ Longest - Planned \in Nat
    BY <1>4, <1>5
  <2>4. /\ Continue * (Longest - 1 - q) \in Nat
        /\ Continue * (Longest - q) \in Nat /\ Continue * (Longest - Planned) \in Nat
        /\ Continue <= Continue * (Longest - q)
    <3>1. 1 \in Nat /\ 1 <= Longest - q /\ Continue * 1 = Continue
      BY <1>4, <1>5
    <3>2. Continue * 1 <= Continue * (Longest - q)
      BY <1>4, <2>3, <3>1, Product
    <3> QED
      BY <1>4, <2>3, <3>1, <3>2, Product
  <2>5. CASE FreshReport(r) /\ Continue <= OrderDelay
    <3>1. f.at <= reported + Interval + OrderDelay + Continue * (Longest - 1 - q)
      BY <1>2, <1>4, <1>6, <2>4, <2>5 DEF FreshReport
    <3>2. \A g \in EventsOf("sendOrder")' :
            q > 0 /\ g.at <= reported + Interval + Continue * (Longest - q)
      BY <1>2, <1>4, <2>2, <2>4, <2>5 DEF FreshReport
    <3> QED
      BY <1>3, <1>5, <1>8, <2>5, <3>1, <3>2 DEF SilenceOf, Continued
  <2>6. CASE FreshReport(r) /\ OrderDelay < Continue
    <3>1. f.at <= reported + Interval + OrderDelay
      BY <1>2, <1>4, <1>6, <2>6 DEF FreshReport
    <3>2. \A g \in EventsOf("sendOrder")' : f.at < g.at
      BY <1>2, <1>4, <1>6, <2>2, <2>6
    <3> QED
      BY <1>3, <1>8, <2>6, <3>1, <3>2 DEF SilenceOf, Overtaken
  <2>7. CASE Continued(r)
    <3>1. /\ Continue <= OrderDelay /\ Planned > 0
          /\ e.at <= reported + Interval + Continue * (Longest - Planned)
      BY <2>1, <2>7 DEF Continued
    <3>2. /\ Continue * (Longest - Planned) <= Continue * (Longest - 1 - q)
          /\ Continue * (Longest - Planned) + Continue <= Continue * (Longest - q)
      <4>1. /\ Longest - Planned <= Longest - 1 - q
            /\ Longest - Planned + 1 <= Longest - q
        BY <1>4, <1>5, <3>1
      <4> QED
        BY <1>4, <2>3, <4>1, Product
    <3>3. f.at <= reported + Interval + OrderDelay + Continue * (Longest - 1 - q)
      BY <1>2, <1>4, <1>6, <2>4, <3>1, <3>2
    <3>4. \A g \in EventsOf("sendOrder")' :
            q > 0 /\ g.at <= reported + Interval + Continue * (Longest - q)
      BY <1>2, <1>4, <2>2, <2>4, <3>1, <3>2
    <3> QED
      BY <1>3, <1>5, <1>8, <3>1, <3>3, <3>4 DEF SilenceOf, Continued
  <2>8. CASE Overtaken(r)
    BY <1>2, <2>1, <2>8 DEF Overtaken
  <2> QED
    BY <1>2, <1>4, <1>8, <2>5, <2>6, <2>7, <2>8 DEF SilenceOf
<1> QED
  BY <1>7, <1>8

LEMMA SilenceState ==
  ASSUME StreamInv, StrayOrders', Lockstep', PlanShort', [Next]_vars,
         NEW e \in events, sendState(e), reported' = e.at, running',
         NEW f \in EventsOf("sendState")'
  PROVE  SilenceOf(f)'
<1>1. /\ cfg_' = cfg_ /\ OrderDelay' = OrderDelay /\ ToggleDelay' = ToggleDelay
      /\ Continue' = Continue /\ Longest' = Longest /\ Interval' = Interval
  BY SameAmounts
<1>2. /\ OrderDelay \in Nat /\ ToggleDelay \in Nat
      /\ Longest \in Nat /\ Interval \in Nat /\ e.at \in Nat
  BY Amounts DEF StreamInv, Lockstep, TypeOK, QueueOK
<1>3. f.at <= e.at + Interval /\ f.at \in Nat
  BY StateTimes DEF Lockstep, TypeOK, QueueOK, EventsOf
<1>4. CASE cfg_.scenario = "TELEOP"
  <2>1. (OrdersAhead \in 0 .. 3 * Longest /\ TogglesAhead \in 0 .. 2 * ToggleDelay)'
    <3>1. (running /\ Lockstep /\ PlanShort /\ StrayOrders)'
      OBVIOUS
    <3> QED
      BY <3>1, AheadBounded, PTL
  <2>2. PICK m \in 0 .. 3 * Longest, t \in 0 .. 2 * ToggleDelay :
          OrdersAhead' = m /\ TogglesAhead' = t
    BY <1>1, <2>1
  <2>3. /\ OrderDelay * m <= OrderDelay * (3 * Longest)
        /\ OrderDelay * m \in Nat /\ OrderDelay * (3 * Longest) \in Nat
    <3>1. m \in Nat /\ 3 * Longest \in Nat /\ m <= 3 * Longest
      BY <1>2
    <3> QED
      BY <1>2, <3>1, Product
  <2>4. f.at + OrderDelay * m + t
          <= e.at + Interval + OrderDelay * (3 * Longest) + 2 * ToggleDelay
    BY <1>2, <1>3, <2>3
  <2> QED
    BY <1>1, <1>4, <2>2, <2>4 DEF SilenceOf, TeleopSilence
<1>5. CASE cfg_.scenario # "TELEOP"
  BY <1>1, <1>3, <1>5 DEF SilenceOf, FreshReport
<1> QED
  BY <1>4, <1>5

LEMMA SilenceToggle ==
  ASSUME StreamInv, StrayOrders, SilenceInv, Lockstep', [Next]_vars,
         reported' = reported,
         NEW e \in events, startTeleoperation(e) \/ stopTeleoperation(e),
         NEW f \in EventsOf("sendState")'
  PROVE  SilenceOf(f)'
<1>1. PICK kind \in {"startTeleoperation", "stopTeleoperation"} : Runs(e, kind)
  BY DEF startTeleoperation, stopTeleoperation
<1>2. cfg_.scenario = "TELEOP" /\ Lockstep /\ PlanShort
  BY <1>1 DEF StreamInv, TogglesOK, Runs, SilenceInv
<1>3. PICK r \in EventsOf("sendState") :
        /\ r.at \in Nat /\ e.at <= r.at /\ TeleopSilence(r)
        /\ e.at \in Nat
  BY <1>1, <1>2, PendingReport DEF SilenceOf
<1>4. /\ cfg_' = cfg_ /\ OrderDelay' = OrderDelay /\ ToggleDelay' = ToggleDelay
      /\ Continue' = Continue /\ Longest' = Longest /\ Interval' = Interval
  BY SameAmounts
<1>5. /\ OrderDelay \in Nat /\ ToggleDelay \in Nat
      /\ Longest \in Nat /\ Interval \in Nat /\ reported \in Nat
      /\ OrdersAhead \in Nat /\ TogglesAhead \in Nat
  BY <1>2, Amounts, AheadType DEF SilenceInv
<1>6. f.at = e.at + ToggleDelay
  BY ToggleTimes
<1>7. (OrdersAhead \in Nat /\ TogglesAhead \in Nat)'
  <2>1. (Lockstep)'
    OBVIOUS
  <2> QED
    BY <2>1, AheadType, PTL
<1>8. PICK m \in Nat, t \in Nat : OrdersAhead' = m /\ TogglesAhead' = t
  BY <1>7
<1>9. m <= OrdersAhead /\ t + ToggleDelay = TogglesAhead
  BY <1>2, <1>8, ToggleUses
<1>10. /\ OrderDelay * m <= OrderDelay * OrdersAhead
       /\ OrderDelay * m \in Nat /\ OrderDelay * OrdersAhead \in Nat
  BY <1>5, <1>9, Product
<1>11. OrderDelay * (3 * Longest) \in Nat
  <2>1. 3 * Longest \in Nat
    BY <1>5
  <2> QED
    BY <1>5, <2>1, Product
<1>12. f.at + OrderDelay * m + t
         <= reported + Interval + OrderDelay * (3 * Longest) + 2 * ToggleDelay
  BY <1>3, <1>5, <1>6, <1>9, <1>10, <1>11 DEF TeleopSilence
<1> QED
  BY <1>2, <1>4, <1>8, <1>12 DEF SilenceOf, TeleopSilence

LEMMA SilenceStep ==
  /\ StreamInv /\ OneOrderStream /\ StrayOrders /\ SilenceInv
  /\ [ReportsNext]_<<vars, reported>>
  => SilenceInv'
<1> SUFFICES ASSUME StreamInv, OneOrderStream, StrayOrders, SilenceInv,
                    [ReportsNext]_<<vars, reported>>
             PROVE  SilenceInv'
  OBVIOUS
<1>1. TypeOK /\ NamesOK /\ Lockstep /\ PlanShort
  BY DEF StreamInv, Lockstep, SilenceInv
<1>2. /\ [Next]_vars
      /\ \A e \in events : sendState(e) => reported' = e.at
      /\ (\A e \in events : ~sendState(e)) => reported' = reported
  BY <1>1, ReportedBy
<1>3. PlanShort' /\ Lockstep' /\ StrayOrders'
  <2>1. PlanShort'
    BY <1>1, <1>2, PlanStep
  <2>2. Lockstep'
    BY <1>2, StreamStep DEF StreamInv
  <2>3. StrayOrders'
    BY <1>1, <1>2, StrayOrdersStep
  <2> QED
    BY <2>1, <2>2, <2>3
<1>4. ASSUME NEW e \in events, sendState(e)
      PROVE  SilenceInv'
  <2>1. reported' = e.at /\ e.at \in Nat
    BY <1>1, <1>2, <1>4 DEF TypeOK, QueueOK
  <2>2. running' => \A f \in EventsOf("sendState")' : SilenceOf(f)'
    BY <1>2, <1>3, <1>4, <2>1, SilenceState
  <2> QED
    BY <1>3, <2>1, <2>2 DEF SilenceInv
<1>5. ASSUME \A e \in events : ~sendState(e)
      PROVE  SilenceInv'
  <2>1. reported' = reported /\ reported \in Nat
    BY <1>2, <1>5 DEF SilenceInv
  <2>2. ASSUME NEW e \in events, sendOrder(e)
        PROVE  SilenceInv'
    <3>1. \A f \in EventsOf("sendState")' : SilenceOf(f)'
      BY <1>2, <2>1, <2>2, SilenceOrder
    <3> QED
      BY <1>3, <2>1, <3>1 DEF SilenceInv
  <2>3. ASSUME NEW e \in events, startTeleoperation(e) \/ stopTeleoperation(e)
        PROVE  SilenceInv'
    <3>1. \A f \in EventsOf("sendState")' : SilenceOf(f)'
      BY <1>2, <1>3, <2>1, <2>3, SilenceToggle
    <3> QED
      BY <1>3, <2>1, <3>1 DEF SilenceInv
  <2>4. ASSUME NEW e \in events, Bystander(e)
        PROVE  SilenceInv'
    BY <1>1, <1>2, <2>1, <2>4, BystanderEffect, BystanderFrame, SilenceFrame
    DEF StreamKind
  <2>5. ASSUME NEW e \in events,
               sendTeleoperationState(e) \/ sendControl(e) \/ Stop(e)
        PROVE  SilenceInv'
    <3>1. UNCHANGED planned /\ (running' => running)
      BY <2>5 DEF sendTeleoperationState, sendControl, Stop, Runs
    <3>2. \A k \in {"sendState", "sendOrder", "startTeleoperation",
                    "stopTeleoperation"} : EventsOf(k)' = EventsOf(k)
      BY <1>1, <2>5, AnnounceEffect, ControlEffect, ExitEffect DEF StreamKind
    <3> QED
      BY <1>2, <2>1, <3>1, <3>2, SilenceFrame
  <2>6. CASE UNCHANGED events /\ UNCHANGED <<planned, released, teleoperating_, running>>
    <3>1. \A k : EventsOf(k)' = EventsOf(k)
      BY <2>6 DEF EventsOf
    <3> QED
      BY <1>2, <2>1, <2>6, <3>1, SilenceFrame
  <2> QED
    BY <1>2, <1>5, <2>2, <2>3, <2>4, <2>5, <2>6, Steps
<1> QED
  BY <1>4, <1>5

LEMMA SilenceMeaning == StreamInv /\ SilenceInv => StateSilenceBounded
<1> SUFFICES ASSUME StreamInv, SilenceInv, running
             PROVE  \E e \in EventsOf("sendState") : e.at <= reported + Silence
  BY DEF StateSilenceBounded
<1>1. PICK e \in EventsOf("sendState") : SilenceOf(e) /\ e.at \in Nat
  <2>1. PICK e \in events : EventsOf("sendState") = {e}
    BY DEF StreamInv, OneStateStream
  <2> QED
    BY <2>1 DEF StreamInv, Lockstep, TypeOK, QueueOK, SilenceInv
<1>2. /\ OrderDelay \in Nat /\ ToggleDelay \in Nat /\ Continue \in Nat
      /\ Longest \in Nat /\ Longest >= 1 /\ Interval \in Nat /\ reported \in Nat
      /\ Planned \in Nat /\ Planned + 1 <= Longest
      /\ OrdersAhead \in Nat /\ TogglesAhead \in Nat
  BY Amounts, AheadType DEF StreamInv, SilenceInv, PlanShort
<1>3. /\ Postponed = OrderDelay + (IF Continue <= OrderDelay
                                   THEN (Longest - 1) * Continue ELSE 0)
      /\ PostponedByTeleoperation = 2 * ToggleDelay + 3 * Longest * OrderDelay
  BY DEF Postponed, PostponedByTeleoperation, OrderDelay, Continue, Longest,
         ToggleDelay
<1>4. /\ Continue * (Longest - 1) = (Longest - 1) * Continue
      /\ OrderDelay * (3 * Longest) = 3 * Longest * OrderDelay
      /\ Continue * (Longest - 1) \in Nat /\ OrderDelay * (3 * Longest) \in Nat
      /\ OrderDelay * OrdersAhead \in Nat
  BY <1>2
<1>5. Postponed \in Nat /\ PostponedByTeleoperation \in Nat
  BY <1>2, <1>3, <1>4
<1>6. CASE cfg_.scenario = "TELEOP"
  <2>1. e.at <= reported + Interval + PostponedByTeleoperation
    BY <1>1, <1>2, <1>3, <1>4, <1>6 DEF SilenceOf, TeleopSilence
  <2>2. PostponedByTeleoperation <= Longer(Postponed, PostponedByTeleoperation)
    BY <1>5 DEF Longer
  <2>3. Silence = Interval + Longer(Postponed, PostponedByTeleoperation)
    BY <1>6 DEF Silence
  <2>4. Longer(Postponed, PostponedByTeleoperation) \in Nat
    BY <1>5 DEF Longer
  <2> QED
    BY <1>1, <1>2, <1>5, <2>1, <2>2, <2>3, <2>4
<1>7. CASE cfg_.scenario # "TELEOP"
  <2>1. Continue * (Longest - 1 - Planned) <= Continue * (Longest - 1)
    <3>1. /\ Longest - 1 - Planned \in Nat /\ Longest - 1 \in Nat
          /\ Longest - 1 - Planned <= Longest - 1
      BY <1>2
    <3> QED
      BY <1>2, <3>1, Product
  <2>2. Continue * (Longest - 1 - Planned) \in Nat
    BY <1>2, Product
  <2>3. e.at <= reported + Interval + Postponed
    BY <1>1, <1>2, <1>3, <1>4, <1>7, <2>1, <2>2
    DEF SilenceOf, FreshReport, Continued, Overtaken
  <2>4. Silence = Interval + Postponed
    BY <1>7 DEF Silence
  <2> QED
    BY <1>1, <1>2, <1>5, <2>3, <2>4
<1> QED
  BY <1>6, <1>7

(* What is due before the next report, and what can still come before it,  *)
(* stay bounded together in every step.                                    *)
THEOREM SilenceInvariant == ReportsSpec => [](StreamInv /\ SilenceInv)
<1>1. ReportsSpec => Spec
  <2>1. ReportsInit => Init
    BY DEF ReportsInit
  <2>2. [ReportsNext]_<<vars, reported>> => [Next]_vars
    BY DEF ReportsNext
  <2> QED
    BY <2>1, <2>2, PTL DEF ReportsSpec, Spec
<1>2. ReportsInit => SilenceInv
  BY SilenceInit
<1>3. /\ StreamInv /\ OneOrderStream /\ StrayOrders /\ SilenceInv
      /\ [ReportsNext]_<<vars, reported>>
      => SilenceInv'
  BY SilenceStep
<1> QED
  BY <1>1, <1>2, <1>3, StreamInvariant, OrderStream, StrayInvariant, PTL
  DEF ReportsSpec

(* The robot is never silent for ever: however continuations, stray orders *)
(* and toggles postpone the pending report, it is due within a time that   *)
(* the configuration alone decides.                                        *)
THEOREM SilenceBounded == ReportsSpec => []StateSilenceBounded
  BY SilenceMeaning, SilenceInvariant, PTL
===============================================================================
