------------------------ MODULE LidarNavigatorProofs ------------------------
(***************************************************************************)
(* What the navigator keeps, for any distances, shifts, tolerances and     *)
(* frame counts, any speed of the robot within a control period and any    *)
(* ranges the sensors show.                                                *)
(*                                                                         *)
(* The argument has two parts.  Of the planner: a call of update() takes a *)
(* consistent planner to a consistent one and sends the robot sideways     *)
(* only where one control period cannot carry it out of the corridor       *)
(* (Outcome), shown operator by operator, from the last one a call may     *)
(* run through to the first.  Of the loop: unless a Move was lost, the     *)
(* robot has the velocity that the planner sent last, and stands when the  *)
(* next round comes late.                                                  *)
(***************************************************************************)
EXTENDS LidarNavigator, TLAPS

\* Where a bypass may take the robot.
MaxShift == LateralShift - Tolerance - 1 + MaxStep

\* Beside the route on the side of the bypass, on the route without one.
Beside(side, offset) ==
  /\ side * offset \in (-Tolerance)..MaxShift
  /\ side = 0 => offset \in (-Tolerance)..Tolerance

\* The robot goes sideways only to get out to the shift, or back to the route.
Headed(p, offset) ==
  p.vy # 0 =>
    /\ p.side # 0
    /\ \/ p.vy = p.side /\ p.side * offset < LateralShift - Tolerance
       \/ p.vy = -p.side /\ p.side * offset > Tolerance

\* A planner has a side exactly in the states of a bypass (or ended in one),
\* and a motion that is commanded has not stalled yet.
Consistent(p) ==
  /\ p \in Planners
  /\ p.moving => p.still < StallTimeout
  /\ ~p.initialized => p.side = 0 /\ p.state \in {"WAITING_FOR_SENSORS", "BLOCKED"}
  /\ p.state \in {"FORWARD", "EVALUATE"} => p.side = 0
  /\ p.state \in {"SHIFT_OUT", "PASS_OBSTACLE", "SHIFT_BACK"} => p.side # 0

Running == pc \in {"sensors", "claim", "loop"}

CourseInv ==
  ~lost => /\ pc \notin {"stop", "done"} => Beside(planner.side, pose.offset)
           /\ Running => /\ Headed(planner, pose.offset)
                         /\ velocity = <<planner.vx, planner.vy>>
                         /\ period \in {0, 1} \/ velocity = <<0, 0>>

ArrivalInv ==
  /\ planner.completeAfterRejoin => pose.progress >= TargetDistance
  /\ Running => planner.state # "COMPLETE" /\ result = -1
  /\ ArrivedMeansArrived

\* The frames that the planner counts are as many as it went on blindly.
BlindInv == blind <= planner.blocked

FailedInv ==
  failed => /\ pc \notin {"sensors", "claim"}
            /\ pc = "loop" => planner.initialized /\ planner.state = "BLOCKED"

IInv == TypeOK /\ Consistent(planner) /\ CourseInv /\ ArrivalInv /\ BlindInv /\ FailedInv

-----------------------------------------------------------------------------
(***************************************************************************)
(* The planner                                                             *)
(***************************************************************************)

InputOK(in) ==
  /\ in.front \in FrontRanges /\ in.left \in SideRanges /\ in.right \in SideRanges
  /\ in.fresh \in BOOLEAN /\ in.moved \in BOOLEAN /\ in.elapsed \in Nat
  /\ in.progress \in 0..(TargetDistance + 1) /\ in.offset \in (-Room)..Room

\* What a step of the planner from p to r does with the input.
Outcome(p, in, r) ==
  /\ Consistent(r)
  /\ r.completeAfterRejoin => in.progress >= TargetDistance
  /\ r.state = "COMPLETE" => r.terminal /\ in.progress >= TargetDistance
  /\ r.vx > 0 /\ in.front = "blocked" => r.blocked = p.blocked + 1
  /\ Beside(p.side, in.offset) =>
       /\ Beside(r.side, in.offset) /\ Headed(r, in.offset)
       /\ r.state = "COMPLETE" => in.offset \in (-Tolerance)..Tolerance

\* A side times an offset, for provers that do not multiply.
LEMMA SideTimes ==
  ASSUME NEW s \in {-1, 0, 1}, NEW o \in Int
  PROVE  /\ s * o \in Int
         /\ s = 1 => s * o = o
         /\ s = -1 => s * o = -o
         /\ s = 0 => s * o = 0
  OBVIOUS

\* What fail(), output() and a terminal output change of a planner.
LEMMA FailFacts ==
  ASSUME NEW p \in Planners
  PROVE  LET r == Fail(p) IN
         /\ r \in Planners /\ r.state = "BLOCKED" /\ ~r.moving
         /\ r.initialized = p.initialized /\ r.completeAfterRejoin = p.completeAfterRejoin
         /\ r.side = p.side /\ r.blocked = p.blocked /\ r.still = p.still
         /\ r.vx = p.vx /\ r.vy = p.vy /\ r.terminal = p.terminal
  BY DEF Fail, Planners, States

LEMMA OutputFacts ==
  ASSUME NEW p \in Planners, NEW x \in {0, 1}, NEW y \in {-1, 0, 1}
  PROVE  LET r == Output(p, x, y) IN
         /\ r \in Planners /\ r.state = p.state /\ ~r.terminal
         /\ r.initialized = p.initialized /\ r.completeAfterRejoin = p.completeAfterRejoin
         /\ r.side = p.side /\ r.blocked = p.blocked /\ r.still = p.still
         /\ r.vx = x /\ r.vy = y /\ (x = 0 /\ y = 0 => ~r.moving)
<1>1. (x # 0 \/ y # 0) \in BOOLEAN
  OBVIOUS
<1> DEFINE b == x # 0 \/ y # 0
<1> HIDE DEF b
<1>2. Output(p, x, y) = [p EXCEPT !.vx = x, !.vy = y, !.terminal = FALSE, !.moving = b]
  BY DEF Output, b
<1>3. b \in BOOLEAN /\ (x = 0 /\ y = 0 => ~b)
  BY DEF b
<1> QED
  BY <1>2, <1>3 DEF Planners

LEMMA EndFacts ==
  ASSUME NEW p \in Planners, NEW s \in FinalStates
  PROVE  LET r == End(p, s) IN
         /\ r \in Planners /\ r.state = s /\ r.terminal /\ ~r.moving
         /\ r.initialized = p.initialized /\ r.completeAfterRejoin = p.completeAfterRejoin
         /\ r.side = p.side /\ r.blocked = p.blocked /\ r.still = p.still
         /\ r.vx = 0 /\ r.vy = 0
  BY DEF End, Planners, States, FinalStates

\* A planner that an input may reach, between two steps of one call.
Given(p, in) ==
  /\ Consistent(p) /\ p.still < StallTimeout /\ InputOK(in)
  /\ p.completeAfterRejoin => in.progress >= TargetDistance

LEMMA BoundsAreIntegers ==
  /\ Tolerance \in Nat /\ LateralShift \in Nat /\ MaxStep \in Nat /\ TargetDistance \in Nat
  /\ MaxShift \in Int /\ Tolerance <= MaxShift /\ Room \in Nat
  /\ BlockedFrames \in Nat \ {0} /\ StallTimeout \in Nat \ {0} /\ ClearFrames \in Nat \ {0}
  /\ BypassDistance \in Nat \ {0} /\ MaxBypassAttempts \in Nat
  BY PlannerAssumption, RobotAssumption DEF MaxShift

\* To end without success is always right.
LEMMA BlockedOutcome ==
  ASSUME NEW p \in Planners, NEW in, ~p.initialized => p.side = 0,
         p.completeAfterRejoin => in.progress >= TargetDistance
  PROVE  /\ Outcome(p, in, End(p, "BLOCKED"))
         /\ p.initialized => Outcome(p, in, End(p, "SENSOR_FAULT"))
<1>1. {"BLOCKED", "SENSOR_FAULT"} \subseteq FinalStates
  BY DEF FinalStates
<1>2. ASSUME NEW s \in {"BLOCKED", "SENSOR_FAULT"}, p.initialized \/ s = "BLOCKED"
      PROVE  Outcome(p, in, End(p, s))
  BY <1>1, <1>2, EndFacts DEF Outcome, Headed, Consistent
<1> QED
  BY <1>2

\* The states of a call, from the last to the first.
LEMMA ShiftBackOutcome ==
  ASSUME NEW p, NEW in, Given(p, in), p.state = "SHIFT_BACK"
  PROVE  Outcome(p, in, ShiftBack(p, in))
<1> USE DEF Given, Consistent
<1> DEFINE onRoute == [p EXCEPT !.side = 0]
           forward == [p EXCEPT !.side = 0, !.state = "FORWARD", !.blocked = 0, !.clear = 0]
<1>1. \/ ShiftBack(p, in) = End(p, "BLOCKED")
      \/ /\ in.offset \notin -Tolerance..Tolerance
         /\ ShiftBack(p, in) = Output(p, 0, -p.side)
      \/ /\ in.front # "blocked" /\ in.offset \in -Tolerance..Tolerance
         /\ \/ /\ p.completeAfterRejoin \/ in.progress >= TargetDistance
               /\ ShiftBack(p, in) = End(onRoute, "COMPLETE")
            \/ ShiftBack(p, in) = Output(forward, 1, 0)
  BY DEF ShiftBack
<1>2. p \in Planners /\ p.side \in {-1, 0, 1} /\ in.offset \in Int
  BY BoundsAreIntegers DEF Planners, InputOK
<1>3. CASE ShiftBack(p, in) = End(p, "BLOCKED")
  BY <1>3, BlockedOutcome
<1>4. CASE /\ in.offset \notin -Tolerance..Tolerance
           /\ ShiftBack(p, in) = Output(p, 0, -p.side)
  <2>1. Consistent(Output(p, 0, -p.side))
    <3>1. -p.side \in {-1, 0, 1}
      BY <1>2
    <3> QED
      BY <1>2, <3>1, OutputFacts
  <2>2. Beside(p.side, in.offset) => p.side * in.offset > Tolerance
    BY <1>2, <1>4, SideTimes, BoundsAreIntegers DEF Beside
  <2>3. -p.side \in {-1, 0, 1}
    BY <1>2
  <2> QED
    BY <1>2, <1>4, <2>1, <2>2, <2>3, OutputFacts DEF Outcome, Headed
<1>5. CASE /\ in.front # "blocked" /\ in.offset \in -Tolerance..Tolerance
           /\ p.completeAfterRejoin \/ in.progress >= TargetDistance
           /\ ShiftBack(p, in) = End(onRoute, "COMPLETE")
  <2>1. /\ onRoute \in Planners /\ onRoute.side = 0 /\ onRoute.blocked = p.blocked
        /\ onRoute.completeAfterRejoin = p.completeAfterRejoin
        /\ onRoute.initialized = p.initialized
    BY <1>2 DEF Planners
  <2>2. "COMPLETE" \in FinalStates
    BY DEF FinalStates
  <2>3. Beside(0, in.offset)
    BY <1>2, <1>5, SideTimes, BoundsAreIntegers DEF Beside
  <2> HIDE DEF onRoute
  <2> QED
    BY <1>5, <2>1, <2>2, <2>3, EndFacts DEF Outcome, Headed
<1>6. CASE /\ in.front # "blocked" /\ in.offset \in -Tolerance..Tolerance
           /\ ShiftBack(p, in) = Output(forward, 1, 0)
  <2>1. /\ forward \in Planners /\ forward.side = 0 /\ forward.state = "FORWARD"
        /\ forward.completeAfterRejoin = p.completeAfterRejoin /\ forward.still = p.still
        /\ forward.initialized = p.initialized
    <3>1. 0 \in 0..(BlockedFrames - 1) /\ 0 \in 0..ClearFrames
      BY BoundsAreIntegers
    <3> QED
      BY <1>2, <3>1 DEF Planners, States
  <2>2. Beside(0, in.offset)
    BY <1>2, <1>6, SideTimes, BoundsAreIntegers DEF Beside
  <2>3. p.still < StallTimeout
    OBVIOUS
  <2> HIDE DEF forward
  <2> QED
    BY <1>6, <2>1, <2>2, <2>3, OutputFacts DEF Outcome, Headed
<1> QED
  BY <1>1, <1>3, <1>4, <1>5, <1>6

\* A call that goes on from q gives what it owes to p.
LEMMA OutcomeFrom ==
  ASSUME NEW p, NEW q, NEW in, NEW r, Outcome(q, in, r), q.blocked = p.blocked,
         Beside(p.side, in.offset) => Beside(q.side, in.offset)
  PROVE  Outcome(p, in, r)
  BY DEF Outcome

LEMMA PassObstacleOutcome ==
  ASSUME NEW p, NEW in, Given(p, in), p.state = "PASS_OBSTACLE"
  PROVE  Outcome(p, in, PassObstacle(p, in))
<1> DEFINE clear == IF in.front = "clear" THEN p.clear + 1 ELSE 0
           count == IF clear > ClearFrames THEN ClearFrames ELSE clear
           q     == [p EXCEPT !.clear = count]
           last  == [q EXCEPT !.state = "SHIFT_BACK", !.completeAfterRejoin = TRUE]
           back  == [q EXCEPT !.state = "SHIFT_BACK"]
<1>1. \/ PassObstacle(p, in) = End(p, "BLOCKED")
      \/ in.progress >= TargetDistance /\ PassObstacle(p, in) = ShiftBack(last, in)
      \/ PassObstacle(p, in) = ShiftBack(back, in)
      \/ in.front # "blocked" /\ PassObstacle(p, in) = Output(q, 1, 0)
  <2>1. in.progress >= TargetDistance \/ in.progress < TargetDistance
    BY BoundsAreIntegers DEF Given, InputOK
  <2> HIDE DEF clear
  <2> QED
    BY <2>1 DEF PassObstacle, clear
<1>2. p \in Planners /\ (p.completeAfterRejoin => in.progress >= TargetDistance)
  BY DEF Given, Consistent
<1>3. count \in 0..ClearFrames
  BY <1>2, BoundsAreIntegers DEF Planners
<1> HIDE DEF count
<1>4. /\ q \in Planners /\ last \in Planners /\ back \in Planners
      /\ q.state = p.state /\ last.state = "SHIFT_BACK" /\ back.state = "SHIFT_BACK"
      /\ q.completeAfterRejoin = p.completeAfterRejoin
      /\ back.completeAfterRejoin = p.completeAfterRejoin
  BY <1>2, <1>3 DEF Planners, States
<1>5. \A x \in {q, last, back} : /\ x.side = p.side /\ x.blocked = p.blocked
                                 /\ x.initialized = p.initialized /\ x.still = p.still
                                 /\ x.moving = p.moving
  BY <1>2 DEF Planners
<1> HIDE DEF q, last, back
<1>6. CASE PassObstacle(p, in) = End(p, "BLOCKED")
  BY <1>6, BlockedOutcome DEF Given, Consistent
<1>7. CASE in.progress >= TargetDistance /\ PassObstacle(p, in) = ShiftBack(last, in)
  <2>1. Given(last, in)
    BY <1>4, <1>5, <1>7 DEF Given, Consistent
  <2> QED
    BY <1>4, <1>5, <1>7, <2>1, ShiftBackOutcome, OutcomeFrom
<1>8. CASE PassObstacle(p, in) = ShiftBack(back, in)
  <2>1. Given(back, in)
    BY <1>4, <1>5 DEF Given, Consistent
  <2> QED
    BY <1>4, <1>5, <1>8, <2>1, ShiftBackOutcome, OutcomeFrom
<1>9. CASE in.front # "blocked" /\ PassObstacle(p, in) = Output(q, 1, 0)
  BY <1>2, <1>4, <1>5, <1>9, OutputFacts DEF Given, Consistent, Outcome, Headed
<1> QED
  BY <1>1, <1>6, <1>7, <1>8, <1>9

LEMMA ShiftOutOutcome ==
  ASSUME NEW p, NEW in, Given(p, in), p.state = "SHIFT_OUT"
  PROVE  Outcome(p, in, ShiftOut(p, in))
<1> DEFINE q == [p EXCEPT !.state = "PASS_OBSTACLE", !.clear = 0, !.bypassStart = in.progress]
<1>1. \/ ShiftOut(p, in) = End(p, "BLOCKED")
      \/ /\ p.side * in.offset < LateralShift - Tolerance
         /\ ShiftOut(p, in) = Output(p, 0, p.side)
      \/ ShiftOut(p, in) = PassObstacle(q, in)
  BY DEF ShiftOut
<1>2. p \in Planners /\ p.side \in {-1, 0, 1} /\ p.side # 0
  BY DEF Given, Consistent, Planners
<1>3. /\ q \in Planners /\ q.state = "PASS_OBSTACLE"
      /\ q.completeAfterRejoin = p.completeAfterRejoin
      /\ q.side = p.side /\ q.blocked = p.blocked /\ q.initialized = p.initialized
      /\ q.still = p.still /\ q.moving = p.moving
  <2>1. 0 \in 0..ClearFrames /\ in.progress \in 0..(TargetDistance + 1)
    BY BoundsAreIntegers DEF Given, InputOK
  <2> QED
    BY <1>2, <2>1 DEF Planners, States
<1> HIDE DEF q
<1>4. CASE ShiftOut(p, in) = End(p, "BLOCKED")
  BY <1>4, BlockedOutcome DEF Given, Consistent
<1>5. CASE /\ p.side * in.offset < LateralShift - Tolerance
           /\ ShiftOut(p, in) = Output(p, 0, p.side)
  BY <1>2, <1>5, OutputFacts DEF Given, Consistent, Outcome, Headed
<1>6. CASE ShiftOut(p, in) = PassObstacle(q, in)
  <2>1. Given(q, in)
    BY <1>2, <1>3 DEF Given, Consistent
  <2> QED
    BY <1>3, <1>6, <2>1, PassObstacleOutcome, OutcomeFrom
<1> QED
  BY <1>1, <1>4, <1>5, <1>6

LEMMA EvaluateOutcome ==
  ASSUME NEW p, NEW in, Given(p, in), p.state = "EVALUATE"
  PROVE  Outcome(p, in, Evaluate(p, in))
<1> DEFINE side == IF in.left >= in.right THEN 1 ELSE -1
           q    == [p EXCEPT !.state = "SHIFT_OUT", !.side = side, !.attempts = @ + 1]
<1>1. \/ Evaluate(p, in) = End(p, "BLOCKED")
      \/ p.attempts < MaxBypassAttempts /\ Evaluate(p, in) = ShiftOut(q, in)
  <2>1. p.attempts \in Nat /\ MaxBypassAttempts \in Nat
    BY BoundsAreIntegers DEF Given, Consistent, Planners
  <2> QED
    BY <2>1 DEF Evaluate
<1>2. /\ p \in Planners /\ p.side = 0 /\ side \in {-1, 1} /\ in.offset \in Int
      /\ p.attempts \in 0..MaxBypassAttempts
  BY BoundsAreIntegers DEF Given, Consistent, Planners, InputOK
<1>3. CASE Evaluate(p, in) = End(p, "BLOCKED")
  BY <1>3, BlockedOutcome DEF Given, Consistent
<1>4. CASE p.attempts < MaxBypassAttempts /\ Evaluate(p, in) = ShiftOut(q, in)
  <2> HIDE DEF side
  <2>1. /\ q \in Planners /\ q.state = "SHIFT_OUT" /\ q.side = side
        /\ q.completeAfterRejoin = p.completeAfterRejoin
        /\ q.blocked = p.blocked /\ q.still = p.still /\ q.moving = p.moving
        /\ q.initialized = p.initialized
    <3>1. p.attempts + 1 \in 0..MaxBypassAttempts
      BY <1>2, <1>4, BoundsAreIntegers
    <3> QED
      BY <1>2, <3>1 DEF Planners, States
  <2> HIDE DEF q
  <2>2. Beside(p.side, in.offset) => Beside(side, in.offset)
    BY <1>2, SideTimes, BoundsAreIntegers DEF Beside
  <2>3. Given(q, in)
    BY <1>2, <2>1 DEF Given, Consistent
  <2> QED
    BY <1>4, <2>1, <2>2, <2>3, ShiftOutOutcome, OutcomeFrom
<1> QED
  BY <1>1, <1>3, <1>4

LEMMA ForwardOutcome ==
  ASSUME NEW p, NEW in, Given(p, in), p.state = "FORWARD"
  PROVE  Outcome(p, in, Forward(p, in))
<1> DEFINE blocked == IF in.front = "blocked" THEN p.blocked + 1 ELSE 0
           stay == [p EXCEPT !.state = "EVALUATE", !.blocked = 0]
           go   == [p EXCEPT !.blocked = blocked]
<1>1. \/ in.progress >= TargetDistance /\ Forward(p, in) = End(p, "COMPLETE")
      \/ Forward(p, in) = Output(stay, 0, 0)
      \/ blocked < BlockedFrames /\ Forward(p, in) = Output(go, 1, 0)
  <2>1. /\ in.progress >= TargetDistance \/ in.progress < TargetDistance
        /\ blocked >= BlockedFrames \/ blocked < BlockedFrames
    BY BoundsAreIntegers DEF Given, InputOK, Consistent, Planners
  <2> HIDE DEF blocked
  <2> QED
    BY <2>1 DEF Forward, blocked
<1>2. /\ p \in Planners /\ p.side = 0 /\ in.offset \in Int
      /\ blocked \in Nat /\ 0 \in 0..(BlockedFrames - 1)
      /\ in.front = "blocked" => blocked = p.blocked + 1
  BY BoundsAreIntegers DEF Given, Consistent, Planners, InputOK
<1> HIDE DEF blocked
<1>3. CASE in.progress >= TargetDistance /\ Forward(p, in) = End(p, "COMPLETE")
  <2>1. "COMPLETE" \in FinalStates
    BY DEF FinalStates
  <2>2. Beside(0, in.offset) => in.offset \in (-Tolerance)..Tolerance
    BY DEF Beside
  <2> QED
    BY <1>2, <1>3, <2>1, <2>2, EndFacts DEF Given, Consistent, Outcome, Headed
<1>4. CASE Forward(p, in) = Output(stay, 0, 0)
  <2>1. /\ stay \in Planners /\ stay.state = "EVALUATE" /\ stay.side = 0
        /\ stay.completeAfterRejoin = p.completeAfterRejoin
        /\ stay.still = p.still /\ stay.initialized = p.initialized
    <3>1. 0 \in 0..(BlockedFrames - 1)
      BY <1>2
    <3>2. stay \in Planners
      <4>1. p \in Planners /\ "EVALUATE" \in States
        BY <1>2 DEF States
      <4> QED
        BY <3>1, <4>1 DEF Planners
    <3>3. /\ stay.state = "EVALUATE" /\ stay.side = p.side
          /\ stay.completeAfterRejoin = p.completeAfterRejoin
          /\ stay.still = p.still /\ stay.initialized = p.initialized
      BY <1>2 DEF Planners
    <3> QED
      BY <1>2, <3>2, <3>3
  <2> HIDE DEF stay
  <2> QED
    BY <1>2, <1>4, <2>1, OutputFacts DEF Given, Consistent, Outcome, Headed
<1>5. CASE blocked < BlockedFrames /\ Forward(p, in) = Output(go, 1, 0)
  <2>1. blocked \in 0..(BlockedFrames - 1)
    BY <1>2, <1>5, BoundsAreIntegers
  <2>2. /\ go \in Planners /\ go.state = "FORWARD" /\ go.side = 0 /\ go.blocked = blocked
        /\ go.completeAfterRejoin = p.completeAfterRejoin
        /\ go.still = p.still /\ go.initialized = p.initialized
    BY <1>2, <2>1 DEF Planners
  <2> HIDE DEF go
  <2> QED
    BY <1>2, <1>5, <2>2, OutputFacts DEF Given, Consistent, Outcome, Headed
<1> QED
  BY <1>1, <1>3, <1>4, <1>5

LEMMA SteerOutcome ==
  ASSUME NEW p, NEW in, Given(p, in), p.state # "COMPLETE"
  PROVE  Outcome(p, in, Steer(p, in))
<1>1. /\ Outcome(p, in, End(p, "BLOCKED"))
      /\ p.initialized => Outcome(p, in, End(p, "SENSOR_FAULT"))
  BY BlockedOutcome DEF Given, Consistent
<1>2. CASE p.state \in FinalStates
  BY <1>1, <1>2 DEF Given, Consistent, Steer, FinalStates
<1>3. CASE p.state \notin FinalStates
  BY <1>1, <1>3, ForwardOutcome, EvaluateOutcome, ShiftOutOutcome, PassObstacleOutcome,
     ShiftBackOutcome DEF Steer, FinalStates
<1> QED
  BY <1>2, <1>3

\* A call of update(), for any input; a planner that was failed ends.
LEMMA UpdateOutcome ==
  ASSUME NEW p, NEW in, Consistent(p), InputOK(in), p.state # "COMPLETE",
         p.completeAfterRejoin => in.progress >= TargetDistance
  PROVE  /\ Outcome(p, in, Update(p, in))
         /\ p.initialized /\ p.state = "BLOCKED" =>
              /\ Update(p, in).terminal /\ Update(p, in).state # "COMPLETE"
              /\ Update(p, in).vx = 0 /\ Update(p, in).vy = 0
<1> DEFINE first == [p EXCEPT !.initialized = TRUE, !.state = "FORWARD", !.still = 0]
           still == Stillness(p, in)
           next  == [p EXCEPT !.still = still]
<1>1. p \in Planners /\ in.fresh \in BOOLEAN /\ p.initialized \in BOOLEAN
  BY DEF Consistent, Planners, InputOK
<1>2. \/ ~in.fresh /\ ~p.initialized /\ Update(p, in) = Output(p, 0, 0)
      \/ ~in.fresh /\ p.initialized /\ Update(p, in) = End(p, "SENSOR_FAULT")
      \/ in.fresh /\ ~p.initialized /\ Update(p, in) = Steer(first, in)
      \/ /\ in.fresh /\ p.initialized
         /\ \/ Update(p, in) = End(next, "BLOCKED")
            \/ ~(next.still >= StallTimeout) /\ Update(p, in) = Steer(next, in)
  <2>1. /\ ~in.fresh /\ ~p.initialized => Update(p, in) = Output(p, 0, 0)
        /\ ~in.fresh /\ p.initialized => Update(p, in) = End(p, "SENSOR_FAULT")
        /\ in.fresh /\ ~p.initialized => Update(p, in) = Steer(first, in)
    BY DEF Update
  <2>2. in.fresh /\ p.initialized =>
          Update(p, in) = IF next.still >= StallTimeout THEN End(next, "BLOCKED")
                                                        ELSE Steer(next, in)
    BY DEF Update
  <2> QED
    BY <1>1, <2>1, <2>2
<1>3. still \in 0..StallTimeout
  BY <1>1, BoundsAreIntegers DEF Stillness, Consistent, Planners, InputOK
<1>4. {"BLOCKED", "SENSOR_FAULT"} \subseteq FinalStates
  BY DEF FinalStates
<1>5. CASE ~in.fresh /\ ~p.initialized /\ Update(p, in) = Output(p, 0, 0)
  BY <1>1, <1>5, OutputFacts DEF Consistent, Outcome, Headed
<1>6. CASE ~in.fresh /\ p.initialized /\ Update(p, in) = End(p, "SENSOR_FAULT")
  <2>1. Outcome(p, in, Update(p, in))
    BY <1>1, <1>6, BlockedOutcome DEF Consistent
  <2> QED
    BY <1>1, <1>4, <1>6, <2>1, EndFacts
<1>7. CASE in.fresh /\ ~p.initialized /\ Update(p, in) = Steer(first, in)
  <2>1. first \in Planners
    <3>1. "FORWARD" \in States /\ 0 \in 0..StallTimeout
      BY BoundsAreIntegers DEF States
    <3> QED
      BY <1>1, <3>1 DEF Planners
  <2>2. /\ first.initialized /\ first.state = "FORWARD" /\ first.still = 0
        /\ first.side = p.side /\ first.completeAfterRejoin = p.completeAfterRejoin
        /\ first.blocked = p.blocked
    BY <1>1 DEF Planners
  <2> HIDE DEF first
  <2>3. Given(first, in)
    BY <1>7, <2>1, <2>2, BoundsAreIntegers DEF Given, Consistent
  <2> QED
    BY <1>7, <2>2, <2>3, SteerOutcome, OutcomeFrom
<1>8. CASE in.fresh /\ p.initialized
  <2> HIDE DEF still
  <2>1. /\ next \in Planners /\ next.still = still /\ next.state = p.state
        /\ next.initialized = p.initialized /\ next.side = p.side
        /\ next.completeAfterRejoin = p.completeAfterRejoin /\ next.blocked = p.blocked
    BY <1>1, <1>3 DEF Planners
  <2> HIDE DEF next
  <2>2. CASE Update(p, in) = End(next, "BLOCKED")
    <3>1. Outcome(p, in, Update(p, in))
      BY <1>8, <2>1, <2>2, BlockedOutcome, OutcomeFrom
    <3> QED
      BY <1>4, <2>1, <2>2, <3>1, EndFacts
  <2>3. CASE ~(next.still >= StallTimeout) /\ Update(p, in) = Steer(next, in)
    <3>1. Given(next, in)
      BY <1>3, <1>8, <2>1, <2>3, BoundsAreIntegers DEF Given, Consistent
    <3>2. Outcome(p, in, Update(p, in))
      BY <2>1, <2>3, <3>1, SteerOutcome, OutcomeFrom
    <3>3. p.state = "BLOCKED" => Steer(next, in) = End(next, "BLOCKED")
      BY <2>1 DEF Steer, FinalStates
    <3> QED
      BY <1>4, <2>1, <2>3, <3>2, <3>3, EndFacts
  <2> QED
    BY <1>2, <1>8, <2>2, <2>3
<1> QED
  BY <1>2, <1>5, <1>6, <1>7, <1>8

-----------------------------------------------------------------------------
(***************************************************************************)
(* The loop                                                                *)
(***************************************************************************)

\* The robot goes forward only, and within its ranges.
LEMMA MovedTypes ==
  ASSUME TypeOK, NEW n \in Nat
  PROVE  /\ Moved(n) \in [progress : 0..(TargetDistance + 1), offset : (-Room)..Room]
         /\ Moved(n).progress >= pose.progress
<1> DEFINE dx == velocity[1]
           dy == velocity[2]
<1>1. /\ dx \in {0, 1} /\ dy \in {-1, 0, 1} /\ n \in Nat
      /\ pose.progress \in 0..(TargetDistance + 1) /\ pose.offset \in (-Room)..Room
  BY BoundsAreIntegers DEF TypeOK
<1> HIDE DEF dx, dy
<1>2. n * dx \in Nat /\ n * dy \in Int
  <2>1. n * 0 = 0 /\ n * 1 = n /\ n * (-1) = -n
    BY <1>1
  <2> QED
    BY <1>1, <2>1
<1>3. /\ Clamp(pose.progress + n * dx, 0, TargetDistance + 1) \in 0..(TargetDistance + 1)
      /\ Clamp(pose.progress + n * dx, 0, TargetDistance + 1) >= pose.progress
  BY <1>1, <1>2, BoundsAreIntegers DEF Clamp
<1>4. Clamp(pose.offset + n * dy, -Room, Room) \in (-Room)..Room
  BY <1>1, <1>2, BoundsAreIntegers DEF Clamp
<1> QED
  BY <1>3, <1>4 DEF Moved, dx, dy

\* A robot that stands still stays where it is.
LEMMA MovedNowhere ==
  ASSUME TypeOK, NEW n \in Nat, velocity = <<0, 0>>
  PROVE  Moved(n).offset = pose.offset
<1>1. n * 0 = 0 /\ pose.offset \in (-Room)..Room
  BY DEF TypeOK
<1>2. velocity[1] = 0 /\ velocity[2] = 0
  OBVIOUS
<1> QED
  BY <1>1, <1>2, BoundsAreIntegers DEF Moved, Clamp

\* One control period does not carry the robot out of the corridor.
LEMMA MovedBeside ==
  ASSUME TypeOK, NEW n \in 0..MaxStep, velocity = <<planner.vx, planner.vy>>,
         Beside(planner.side, pose.offset), Headed(planner, pose.offset)
  PROVE  Beside(planner.side, Moved(n).offset)
<1> DEFINE s == planner.side
           o == pose.offset
           v == planner.vy
<1>1. /\ s \in {-1, 0, 1} /\ v \in {-1, 0, 1} /\ n \in 0..MaxStep /\ o \in Int
      /\ -Room <= o /\ o <= Room
  BY BoundsAreIntegers DEF TypeOK, Planners
<1>2. Moved(n).offset = Clamp(o + n * v, -Room, Room)
  BY DEF Moved
<1> DEFINE m == s * o
<1>3. /\ m \in Int /\ -Tolerance <= m /\ m <= MaxShift
      /\ s = 0 => -Tolerance <= o /\ o <= Tolerance
      /\ v # 0 => s # 0 /\ (v = s => m < LateralShift - Tolerance)
                        /\ (v = -s => m > Tolerance) /\ v \in {s, -s}
  <2>1. m \in (-Tolerance)..MaxShift /\ (s = 0 => o \in (-Tolerance)..Tolerance)
    BY DEF Beside
  <2>2. v # 0 => /\ s # 0
                 /\ (v = s /\ m < LateralShift - Tolerance) \/ (v = -s /\ m > Tolerance)
    BY DEF Headed
  <2> HIDE DEF s, o, v, m
  <2> QED
    BY <1>1, <2>1, <2>2, BoundsAreIntegers
<1> HIDE DEF s, o, v
<1>4. /\ LateralShift + MaxStep <= Room /\ MaxStep <= 2 * Tolerance + 1
      /\ LateralShift > 2 * Tolerance
  BY RobotAssumption, PlannerAssumption
<1> DEFINE d == n * v
           w == Clamp(o + d, -Room, Room)
<1>5. d \in Int /\ (v = 0 => d = 0) /\ (v = 1 => d = n) /\ (v = -1 => d = -n)
  BY <1>1, BoundsAreIntegers
<1> HIDE DEF d
<1>6. w \in Int
  BY <1>1, <1>5, BoundsAreIntegers DEF Clamp
<1>7. s = 0 => w \in (-Tolerance)..Tolerance
  <2> HIDE DEF m
  <2> QED
    BY <1>1, <1>3, <1>4, <1>5, BoundsAreIntegers DEF Clamp
<1>8. s = 1 => w \in (-Tolerance)..MaxShift
  <2>1. s = 1 => m = o
    BY <1>1, SideTimes
  <2> HIDE DEF m
  <2> QED
    BY <1>1, <1>3, <1>4, <1>5, <2>1, BoundsAreIntegers DEF MaxShift, Clamp
<1>9. s = -1 => -w \in (-Tolerance)..MaxShift
  <2>1. s = -1 => m = -o
    BY <1>1, SideTimes
  <2> HIDE DEF m
  <2> QED
    BY <1>1, <1>3, <1>4, <1>5, <2>1, BoundsAreIntegers DEF MaxShift, Clamp
<1> HIDE DEF w
<1>10. Beside(s, w)
  BY <1>1, <1>6, <1>7, <1>8, <1>9, SideTimes, BoundsAreIntegers DEF Beside
<1> QED
  BY <1>2, <1>10 DEF s, o, v, w, d

LEMMA InputFacts ==
  ASSUME TypeOK,
         NEW at \in [progress : 0..(TargetDistance + 1), offset : (-Room)..Room],
         NEW fresh \in BOOLEAN, NEW in \in Inputs(at, fresh)
  PROVE  InputOK(in) /\ in.progress = at.progress /\ in.offset = at.offset
<1> DEFINE sides(wall) == IF at.offset = wall \/ ~fresh THEN {0} ELSE SideRanges
           fronts == IF fresh THEN FrontRanges ELSE {"clear"}
           moved == at # pose
<1>1. /\ moved \in BOOLEAN /\ period \in Nat
      /\ sides(Room) \subseteq SideRanges /\ sides(-Room) \subseteq SideRanges
      /\ fronts \subseteq FrontRanges
  BY BoundsAreIntegers DEF SideRanges, FrontRanges, TypeOK
<1>2. in \in [front : fronts, left : sides(Room), right : sides(-Room),
              fresh : {fresh}, progress : {at.progress}, offset : {at.offset},
              moved : {moved}, elapsed : {period}]
  BY DEF Inputs
<1> HIDE DEF sides, fronts, moved
<1> QED
  BY <1>1, <1>2 DEF InputOK

\* One round of the loop.
LEMMA TickStep == IInv /\ Tick => IInv'
<1> SUFFICES ASSUME IInv, Tick PROVE IInv'
  OBVIOUS
<1> DEFINE start == IF expired THEN Fail(planner) ELSE planner
<1>1. /\ TypeOK /\ Consistent(planner) /\ planner \in Planners /\ pc = "loop" /\ Running
      /\ planner.state # "COMPLETE" /\ result = -1
  BY DEF IInv, Consistent, Tick, Running, ArrivalInv
<1>2. /\ start \in Planners /\ start.side = planner.side /\ start.blocked = planner.blocked
      /\ start.completeAfterRejoin = planner.completeAfterRejoin
      /\ start.initialized = planner.initialized
      /\ planner.state = "BLOCKED" \/ expired => start.state = "BLOCKED"
      /\ start.state # "COMPLETE" /\ Consistent(start)
  BY <1>1, FailFacts DEF Consistent
<1>3. PICK n \in 0..(MaxStep * period) :
        /\ pose' = Moved(n)
        /\ \E fresh \in BOOLEAN : \E in \in Inputs(pose', fresh) :
            LET p == Update(start, in) IN
            /\ Move(p)
            /\ blind' = IF p.vx > 0 /\ in.front = "blocked" THEN blind + 1 ELSE 0
            /\ pc' = IF p.terminal THEN "ended" ELSE "loop"
            /\ result' = IF p.terminal THEN ExitCode(p) ELSE result
            /\ failed' = (failed \/ (expired /\ planner.initialized)
                                 \/ (moveFailures' = MaxMoveFailures /\ p.initialized))
  BY DEF Tick
<1> HIDE DEF start
<1>3a. PICK fresh \in BOOLEAN :
       \E in \in Inputs(pose', fresh) :
        LET p == Update(start, in) IN
        /\ Move(p)
        /\ blind' = IF p.vx > 0 /\ in.front = "blocked" THEN blind + 1 ELSE 0
        /\ pc' = IF p.terminal THEN "ended" ELSE "loop"
        /\ result' = IF p.terminal THEN ExitCode(p) ELSE result
        /\ failed' = (failed \/ (expired /\ planner.initialized)
                             \/ (moveFailures' = MaxMoveFailures /\ p.initialized))
  BY <1>3
<1>4. PICK in \in Inputs(pose', fresh) :
        LET p == Update(start, in) IN
        /\ Move(p)
        /\ blind' = IF p.vx > 0 /\ in.front = "blocked" THEN blind + 1 ELSE 0
        /\ pc' = IF p.terminal THEN "ended" ELSE "loop"
        /\ result' = IF p.terminal THEN ExitCode(p) ELSE result
        /\ failed' = (failed \/ (expired /\ planner.initialized)
                             \/ (moveFailures' = MaxMoveFailures /\ p.initialized))
  BY <1>3a
<1> DEFINE r == Update(start, in)
<1>5. /\ n \in Nat /\ (period = 0 => n = 0) /\ (period = 1 => n \in 0..MaxStep)
      /\ pose' \in [progress : 0..(TargetDistance + 1), offset : (-Room)..Room]
      /\ pose'.progress >= pose.progress
  <2>1. n \in Nat /\ (period = 0 => n = 0) /\ (period = 1 => n \in 0..MaxStep)
    BY BoundsAreIntegers
  <2> QED
    BY <1>1, <1>3, <2>1, MovedTypes
<1>6. InputOK(in) /\ in.progress = pose'.progress /\ in.offset = pose'.offset
  BY <1>1, <1>5, InputFacts
<1>7. planner.completeAfterRejoin => in.progress >= TargetDistance
  <2>1. planner.completeAfterRejoin => pose.progress >= TargetDistance
    BY DEF IInv, ArrivalInv
  <2>2. pose.progress \in Int /\ pose'.progress \in Int
    BY <1>1, <1>5, BoundsAreIntegers DEF TypeOK
  <2> QED
    BY <1>5, <1>6, <2>1, <2>2, BoundsAreIntegers
<1>8. /\ Outcome(start, in, r)
      /\ start.initialized /\ start.state = "BLOCKED" =>
           r.terminal /\ r.state # "COMPLETE" /\ r.vx = 0 /\ r.vy = 0
  BY <1>2, <1>6, <1>7, UpdateOutcome
<1>9. r \in Planners /\ Consistent(r)
  BY <1>8 DEF Outcome, Consistent
<1> HIDE DEF r
<1>10. /\ Move(r)
       /\ blind' = IF r.vx > 0 /\ in.front = "blocked" THEN blind + 1 ELSE 0
       /\ pc' = IF r.terminal THEN "ended" ELSE "loop"
       /\ result' = IF r.terminal THEN ExitCode(r) ELSE result
       /\ failed' = (failed \/ (expired /\ planner.initialized)
                            \/ (moveFailures' = MaxMoveFailures /\ r.initialized))
  BY <1>4 DEF r
<1>11. /\ planner' \in Planners /\ Consistent(planner')
       /\ planner'.side = r.side /\ planner'.vx = r.vx /\ planner'.vy = r.vy
       /\ planner'.completeAfterRejoin = r.completeAfterRejoin /\ planner'.blocked = r.blocked
       /\ planner'.initialized = r.initialized
       /\ planner'.state \in {r.state, "BLOCKED"}
       /\ moveFailures' = MaxMoveFailures => planner'.state = "BLOCKED"
  <2>1. MaxMoveFailures = 4
    BY DEF MaxMoveFailures
  <2>2. planner' = r \/ planner' = Fail(r)
    BY <1>10 DEF Move
  <2>3. moveFailures' = MaxMoveFailures => planner' = Fail(r)
    BY <1>10, <2>1 DEF Move
  <2>4. Consistent(Fail(r))
    BY <1>9, FailFacts DEF Consistent
  <2> QED
    BY <1>9, <2>2, <2>3, <2>4, FailFacts
<1>12. ~lost' => /\ ~lost /\ velocity' = <<r.vx, r.vy>>
                 /\ period' \in {0, 1} \/ velocity' = <<0, 0>>
  BY <1>10 DEF Move, NextRound
<1>13. ~lost' => /\ Beside(planner'.side, pose'.offset) /\ Headed(planner', pose'.offset)
                 /\ r.state = "COMPLETE" => pose'.offset \in (-Tolerance)..Tolerance
  <2> SUFFICES ASSUME ~lost'
               PROVE  /\ Beside(planner'.side, pose'.offset) /\ Headed(planner', pose'.offset)
                      /\ r.state = "COMPLETE" => pose'.offset \in (-Tolerance)..Tolerance
    OBVIOUS
  <2>1. Beside(planner.side, pose'.offset)
    <3>1. /\ Beside(planner.side, pose.offset) /\ Headed(planner, pose.offset)
          /\ velocity = <<planner.vx, planner.vy>>
          /\ period \in {0, 1} \/ velocity = <<0, 0>>
      BY <1>1, <1>12 DEF IInv, CourseInv
    <3>2. CASE period \in {0, 1}
      <4>1. n \in 0..MaxStep
        BY <1>5, <3>2, BoundsAreIntegers
      <4> QED
        BY <1>1, <1>3, <3>1, <4>1, MovedBeside
    <3>3. CASE velocity = <<0, 0>>
      BY <1>1, <1>3, <1>5, <3>1, <3>3, MovedNowhere
    <3> QED
      BY <3>1, <3>2, <3>3
  <2> QED
    BY <1>2, <1>6, <1>8, <1>11, <2>1 DEF Outcome, Headed
<1>14. TypeOK'
  <2>1. velocity' \in {0, 1} \X {-1, 0, 1}
    <3>1. <<r.vx, r.vy>> \in {0, 1} \X {-1, 0, 1}
      BY <1>9 DEF Planners
    <3> QED
      BY <1>1, <1>10, <3>1 DEF Move, TypeOK
  <2>2. moveFailures' \in 0..MaxMoveFailures
    BY <1>1, <1>10 DEF Move, Clamp, TypeOK, MaxMoveFailures
  <2>3. result' \in {-1, Completed, Stopped, NoSensors, Error, Cancelled}
    BY <1>1, <1>10 DEF ExitCode, TypeOK
  <2>4. blind' \in Nat
    BY <1>1, <1>10 DEF TypeOK
  <2>5. lost' \in BOOLEAN
    <3>1. \/ lost' = lost
          \/ \E b \in BOOLEAN : lost' = (lost \/ b)
      BY <1>10 DEF Move
    <3> QED
      BY <1>1, <3>1 DEF TypeOK
  <2>8. period' \in 0..MoveTimeout /\ behind' \in 0..MaxBehind
    BY <1>1, <1>10, RobotAssumption DEF Move, NextRound, Clamp, TypeOK
  <2>6. failed' \in BOOLEAN
    BY <1>10
  <2>7. pc' \in {"loop", "ended"} /\ UNCHANGED <<stopRequested, expired>>
    BY <1>10 DEF Tick
  <2> QED
    BY <1>1, <1>5, <1>11, <2>1, <2>2, <2>3, <2>4, <2>5, <2>6, <2>7, <2>8 DEF TypeOK
<1>15. CourseInv'
  BY <1>11, <1>12, <1>13 DEF CourseInv
<1>16. ArrivalInv'
  <2>1. planner'.completeAfterRejoin => pose'.progress >= TargetDistance
    BY <1>6, <1>8, <1>11 DEF Outcome
  <2>2. Running' => ~r.terminal
    BY <1>10 DEF Running
  <2>3. Running' => planner'.state # "COMPLETE" /\ result' = -1
    BY <1>1, <1>8, <1>10, <1>11, <2>2 DEF Outcome
  <2>4. result' = Completed => r.state = "COMPLETE"
    BY <1>1, <1>10 DEF ExitCode, Completed, Stopped, NoSensors
  <2>5. r.state = "COMPLETE" => pose'.progress >= TargetDistance
    BY <1>6, <1>8 DEF Outcome
  <2> QED
    BY <1>13, <2>1, <2>3, <2>4, <2>5 DEF ArrivalInv, ArrivedMeansArrived
<1>17. BlindInv'
  <2>1. /\ blind \in Nat /\ blind <= planner.blocked
        /\ planner.blocked \in Int /\ r.blocked \in Nat
    BY <1>1, <1>9, BoundsAreIntegers DEF IInv, TypeOK, BlindInv, Planners
  <2>2. r.vx > 0 /\ in.front = "blocked" => r.blocked = planner.blocked + 1
    BY <1>2, <1>8 DEF Outcome
  <2> QED
    BY <1>10, <1>11, <2>1, <2>2 DEF BlindInv
<1>18. FailedInv'
  <2>1. pc' = "loop" => ~r.terminal
    BY <1>10
  <2>2. failed => planner.initialized /\ planner.state = "BLOCKED"
    BY <1>1 DEF IInv, FailedInv
  <2>3. failed \/ (expired /\ planner.initialized) => r.terminal
    BY <1>2, <1>8, <2>2
  <2>4. pc' \in {"loop", "ended"}
    BY <1>10
  <2> QED
    BY <1>10, <1>11, <2>1, <2>3, <2>4 DEF FailedInv
<1> QED
  BY <1>11, <1>14, <1>15, <1>16, <1>17, <1>18 DEF IInv

LEMMA InitInv == Init => IInv
<1> SUFFICES ASSUME Init PROVE IInv
  OBVIOUS
<1> USE BoundsAreIntegers DEF Init
<1>1. NewPlanner \in Planners
  BY DEF NewPlanner, Planners, States
<1>2. TypeOK
  <2>1. <<0, 0>> \in {0, 1} \X {-1, 0, 1}
    OBVIOUS
  <2>2. pose \in [progress : 0..(TargetDistance + 1), offset : (-Room)..Room]
    <3>1. 0 \in 0..(TargetDistance + 1) /\ 0 \in (-Room)..Room
      OBVIOUS
    <3> QED
      BY <3>1
  <2>3. /\ moveFailures \in 0..MaxMoveFailures /\ blind \in Nat
        /\ period \in 0..MoveTimeout /\ behind \in 0..MaxBehind
    BY RobotAssumption DEF MaxMoveFailures
  <2>4. result \in {-1, Completed, Stopped, NoSensors, Error, Cancelled}
    OBVIOUS
  <2> QED
    BY <1>1, <2>1, <2>2, <2>3, <2>4 DEF TypeOK
<1>3. Consistent(planner)
  BY <1>1 DEF Consistent, NewPlanner
<1>4. Beside(0, 0)
  BY SideTimes DEF Beside
<1>5. CourseInv
  BY <1>4 DEF CourseInv, NewPlanner, Headed
<1>6. ArrivalInv /\ BlindInv /\ FailedInv
  BY DEF ArrivalInv, ArrivedMeansArrived, BlindInv, FailedInv, NewPlanner, Completed
<1> QED
  BY <1>2, <1>3, <1>5, <1>6 DEF IInv

LEMMA FreshPlanner ==
  /\ NewPlanner \in Planners /\ Consistent(NewPlanner)
  /\ ~NewPlanner.completeAfterRejoin /\ NewPlanner.blocked = 0
<1>1. NewPlanner \in Planners
  BY BoundsAreIntegers DEF NewPlanner, Planners, States
<1> QED
  BY <1>1 DEF Consistent, NewPlanner

LEMMA StepInv == IInv /\ [Next]_vars => IInv'
<1> SUFFICES ASSUME IInv, [Next]_vars PROVE IInv'
  OBVIOUS
<1> USE DEF IInv, TypeOK, CourseInv, ArrivalInv, ArrivedMeansArrived, BlindInv, FailedInv,
            Running, clockVars
<1>1. CASE Tick
  BY <1>1, TickStep
<1>2. CASE SensorsValid
  BY <1>2 DEF SensorsValid
<1>3. CASE SensorsMissing
  BY <1>3 DEF SensorsMissing, NoSensors, Completed
<1>4. CASE Claim
  BY <1>4 DEF Claim
<1>5. CASE ClaimFails
  BY <1>5 DEF ClaimFails, Error, Completed
<1>6. CASE LeaveLoop
  BY <1>6, FreshPlanner, RobotAssumption
  DEF LeaveLoop, EndOfBlock, Cancelled, Completed, MaxMoveFailures
<1>11. CASE LoopRaises
  BY <1>11, FreshPlanner, RobotAssumption
  DEF LoopRaises, EndOfBlock, Error, Completed, MaxMoveFailures
<1>7. CASE StopAndRelease
  BY <1>7 DEF StopAndRelease
<1>8. CASE Signal
  BY <1>8 DEF Signal
<1>9. CASE Expire
  BY <1>9 DEF Expire
<1>10. CASE UNCHANGED vars
  BY <1>10 DEF vars
<1> QED
  BY <1>1, <1>2, <1>3, <1>4, <1>5, <1>6, <1>7, <1>8, <1>9, <1>10, <1>11 DEF Next

\* The inductive invariant of the navigator.
THEOREM NavigatorInvariant == Spec => []IInv
  BY InitInv, StepInv, PTL DEF Spec

\* The planner, the robot and the exit code keep their types: no counter of the
\* planner passes its limit.
THEOREM TypeCorrect == Spec => []TypeOK
<1>1. IInv => TypeOK
  BY DEF IInv
<1> QED
  BY <1>1, NavigatorInvariant, PTL

\* The robot stays in the corridor of its bypass, however far it goes in a
\* control period within the assumed limit.
THEOREM BypassStaysInCorridor == Spec => []StaysInCorridor
<1>1. IInv => StaysInCorridor
  BY DEF IInv, CourseInv, Beside, MaxShift, StaysInCorridor
<1> QED
  BY <1>1, NavigatorInvariant, PTL

\* The robot is sent towards an obstacle for less than blocked_frames rounds.
THEOREM ForwardIsNotBlind == Spec => []BlindForwardBounded
<1>1. IInv => BlindForwardBounded
  <2>1. IInv => /\ blind \in Nat /\ blind <= planner.blocked
                /\ planner.blocked \in 0..(BlockedFrames - 1)
    BY DEF IInv, TypeOK, BlindInv, Planners
  <2> QED
    BY <2>1, BoundsAreIntegers DEF BlindForwardBounded
<1> QED
  BY <1>1, NavigatorInvariant, PTL

\* Exit code 0 means that the robot is at the target, on its route.
THEOREM ExitCodeIsTrue == Spec => []ArrivedMeansArrived
<1>1. IInv => ArrivedMeansArrived
  BY DEF IInv, ArrivalInv
<1> QED
  BY <1>1, NavigatorInvariant, PTL

\* A planner failed from outside does not move the robot again, nor succeed.
THEOREM FailureIsFinal == Spec => FailedStaysFailed
<1> DEFINE Final == failed => /\ velocity' \in {velocity, <<0, 0>>}
                              /\ result' = Completed => result = Completed
<1>1. IInv /\ [Next]_vars => [Final]_vars
  <2> SUFFICES ASSUME IInv, Next, failed
               PROVE  /\ velocity' \in {velocity, <<0, 0>>}
                      /\ result' = Completed => result = Completed
    BY DEF vars
  <2>1. CASE Tick
    <3> DEFINE start == IF expired THEN Fail(planner) ELSE planner
    <3>1. /\ Consistent(planner) /\ TypeOK /\ planner \in Planners /\ planner.initialized
          /\ planner.state = "BLOCKED"
          /\ planner.completeAfterRejoin => pose.progress >= TargetDistance
      BY <2>1 DEF IInv, Consistent, FailedInv, ArrivalInv, Tick
    <3>2. /\ Consistent(start) /\ start.initialized /\ start.state = "BLOCKED"
          /\ start.completeAfterRejoin = planner.completeAfterRejoin
      BY <3>1, FailFacts DEF Consistent
    <3>3. PICK n \in 0..(MaxStep * period) :
             \E fresh \in BOOLEAN : \E in \in Inputs(Moved(n), fresh) :
               LET p == Update(start, in) IN
               Move(p) /\ result' = IF p.terminal THEN ExitCode(p) ELSE result
      BY <2>1 DEF Tick
    <3> HIDE DEF start
    <3>3a. PICK fresh \in BOOLEAN :
            \E in \in Inputs(Moved(n), fresh) :
            LET p == Update(start, in) IN
            Move(p) /\ result' = IF p.terminal THEN ExitCode(p) ELSE result
      BY <3>3
    <3>4. PICK in \in Inputs(Moved(n), fresh) :
            LET p == Update(start, in) IN
            Move(p) /\ result' = IF p.terminal THEN ExitCode(p) ELSE result
      BY <3>3a
    <3> n \in Nat
      BY <3>1, RobotAssumption DEF TypeOK
    <3>5. /\ Moved(n) \in [progress : 0..(TargetDistance + 1), offset : (-Room)..Room]
          /\ Moved(n).progress >= pose.progress
      BY <3>1, MovedTypes
    <3>6. InputOK(in) /\ in.progress = Moved(n).progress
      BY <3>1, <3>5, InputFacts
    <3>7. start.completeAfterRejoin => in.progress >= TargetDistance
      <4>1. pose.progress \in Int /\ Moved(n).progress \in Int
        BY <3>1, <3>5, BoundsAreIntegers DEF TypeOK
      <4> QED
        BY <3>1, <3>2, <3>5, <3>6, <4>1, BoundsAreIntegers
    <3> DEFINE r == Update(start, in)
    <3>8. r.terminal /\ r.state # "COMPLETE" /\ r.vx = 0 /\ r.vy = 0
      BY <3>2, <3>6, <3>7, UpdateOutcome
    <3>9. Move(r) /\ result' = IF r.terminal THEN ExitCode(r) ELSE result
      BY <3>4
    <3> HIDE DEF r
    <3>10. velocity' \in {velocity, <<0, 0>>}
      BY <3>8, <3>9 DEF Move
    <3>11. result' # Completed
      BY <3>8, <3>9 DEF ExitCode, Completed, NoSensors, Stopped
    <3> QED
      BY <3>10, <3>11
  <2>2. CASE SensorsValid \/ SensorsMissing \/ Claim \/ ClaimFails
    BY <2>2 DEF IInv, FailedInv, SensorsValid, SensorsMissing, Claim, ClaimFails
  <2>3. CASE LeaveLoop
    BY <2>3 DEF LeaveLoop, Cancelled, Completed
  <2>5. CASE LoopRaises
    BY <2>5 DEF LoopRaises, Error, Completed
  <2>4. CASE StopAndRelease \/ Signal \/ Expire
    BY <2>4 DEF StopAndRelease, Signal, Expire
  <2> QED
    BY <2>1, <2>2, <2>3, <2>4, <2>5 DEF Next
<1> QED
  BY <1>1, NavigatorInvariant, PTL DEF Spec, FailedStaysFailed
=============================================================================
