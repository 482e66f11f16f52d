---------------------------- MODULE LocalPlanner ----------------------------
(***************************************************************************)
(* LocalPlanner of the Go2 LiDAR navigator, as operators on a record: one  *)
(* call of update() takes the planner p and an input to the planner with   *)
(* its next command.  A call runs through several navigation states when   *)
(* their conditions hold at once (EVALUATE, SHIFT_OUT, PASS_OBSTACLE,      *)
(* SHIFT_BACK, FORWARD), in the order of the code.                         *)
(*                                                                         *)
(* Distances are in cells, times in control periods, speeds are -1, 0, 1.  *)
(* A range is the threshold it passes.  The yaw of the route is 0.         *)
(***************************************************************************)
EXTENDS Integers

CONSTANTS TargetDistance, LateralShift, BypassDistance, Tolerance,
          StallTimeout, BlockedFrames, ClearFrames, MaxBypassAttempts

\* The lateral shift is at least 0.40 m, the tolerance 0.08 m.
ASSUME PlannerAssumption ==
  /\ {TargetDistance, BypassDistance, StallTimeout, BlockedFrames, ClearFrames} \subseteq Nat \ {0}
  /\ {Tolerance, MaxBypassAttempts} \subseteq Nat
  /\ LateralShift \in Nat /\ LateralShift > 2 * Tolerance

\* front_m: at most stop_distance_m, between, at least resume_distance_m.
FrontRanges == {"blocked", "near", "clear"}

\* left_m, right_m: below side_stop_distance_m, below min_side_clearance_m, wide
\* enough.
SideRanges == 0..2
SideStop         == 1
MinSideClearance == 2

States == {"WAITING_FOR_SENSORS", "FORWARD", "EVALUATE", "SHIFT_OUT", "PASS_OBSTACLE",
           "SHIFT_BACK", "COMPLETE", "BLOCKED", "SENSOR_FAULT"}
FinalStates == {"COMPLETE", "BLOCKED", "SENSOR_FAULT"}

\* "still" is the time without odometry progress, "vx", "vy", "terminal" the
\* last output.
Planners ==
  [state : States, initialized : BOOLEAN, completeAfterRejoin : BOOLEAN,
   moving : BOOLEAN, still : 0..StallTimeout, side : {-1, 0, 1},
   bypassStart : 0..(TargetDistance + 1), blocked : 0..(BlockedFrames - 1),
   clear : 0..ClearFrames, attempts : 0..MaxBypassAttempts,
   vx : {0, 1}, vy : {-1, 0, 1}, terminal : BOOLEAN]

NewPlanner ==
  [state |-> "WAITING_FOR_SENSORS", initialized |-> FALSE, completeAfterRejoin |-> FALSE,
   moving |-> FALSE, still |-> 0, side |-> 0, bypassStart |-> 0, blocked |-> 0,
   clear |-> 0, attempts |-> 0, vx |-> 0, vy |-> 0, terminal |-> FALSE]

\* fail()
Fail(p) == [p EXCEPT !.state = "BLOCKED", !.moving = FALSE]

\* output(vx, vy)
Output(p, vx, vy) ==
  [p EXCEPT !.vx = vx, !.vy = vy, !.terminal = FALSE, !.moving = (vx # 0 \/ vy # 0)]

\* A final state and output(0, 0, true).
End(p, s) ==
  [p EXCEPT !.state = s, !.vx = 0, !.vy = 0, !.terminal = TRUE, !.moving = FALSE]

SideIsClear(in, side) == (IF side > 0 THEN in.left ELSE in.right) >= SideStop

\* Mutant: the side is not turned round for the way back.
ShiftBackWrongSide(p, in) ==
  CASE ~SideIsClear(in, -p.side) \/ in.front = "blocked" -> End(p, "BLOCKED")
    [] in.offset \notin -Tolerance..Tolerance            -> Output(p, 0, p.side)
    [] OTHER -> Output([p EXCEPT !.side = 0, !.state = "FORWARD"], 1, 0)

\* Back to the route, which ends the bypass.
ShiftBack(p, in) ==
  CASE ~SideIsClear(in, -p.side) \/ in.front = "blocked" -> End(p, "BLOCKED")
    [] in.offset \notin -Tolerance..Tolerance            -> Output(p, 0, -p.side)
    [] OTHER ->
         IF p.completeAfterRejoin \/ in.progress >= TargetDistance
           THEN End([p EXCEPT !.side = 0], "COMPLETE")
           ELSE Output([p EXCEPT !.side = 0, !.state = "FORWARD", !.blocked = 0, !.clear = 0], 1, 0)

\* Mutant: the target is reached off the route.
PassObstacleCompletes(p, in) ==
  CASE in.front = "blocked"          -> End(p, "BLOCKED")
    [] in.progress >= TargetDistance -> End(p, "COMPLETE")
    [] in.front = "clear" /\ in.progress - p.bypassStart >= BypassDistance ->
         ShiftBack([p EXCEPT !.state = "SHIFT_BACK"], in)
    [] OTHER                         -> Output(p, 1, 0)

\* Forward beside the route until the obstacle, or the target, is passed.
PassObstacle(p, in) ==
  LET clear  == IF in.front = "clear" THEN p.clear + 1 ELSE 0
      q      == [p EXCEPT !.clear = IF clear > ClearFrames THEN ClearFrames ELSE clear]
      passed == in.progress - p.bypassStart >= BypassDistance /\ clear >= ClearFrames
  IN  CASE in.front = "blocked" -> End(p, "BLOCKED")
        [] in.front # "blocked" /\ in.progress >= TargetDistance ->
             ShiftBack([q EXCEPT !.state = "SHIFT_BACK", !.completeAfterRejoin = TRUE], in)
        [] in.front # "blocked" /\ in.progress < TargetDistance ->
             IF passed THEN ShiftBack([q EXCEPT !.state = "SHIFT_BACK"], in) ELSE Output(q, 1, 0)

\* Sideways until the lateral shift is reached.
ShiftOut(p, in) ==
  CASE ~SideIsClear(in, p.side) -> End(p, "BLOCKED")
    [] SideIsClear(in, p.side) /\ p.side * in.offset < LateralShift - Tolerance ->
         Output(p, 0, p.side)
    [] OTHER ->
         PassObstacle([p EXCEPT !.state = "PASS_OBSTACLE", !.clear = 0,
                                !.bypassStart = in.progress], in)

\* Mutant: one attempt too many.
EvaluateOffByOne(p, in) ==
  LET side == IF in.left >= in.right THEN 1 ELSE -1 IN
  IF p.attempts > MaxBypassAttempts
    THEN End(p, "BLOCKED")
    ELSE ShiftOut([p EXCEPT !.state = "SHIFT_OUT", !.side = side, !.attempts = @ + 1], in)

\* The wider side, if an attempt is left and it is wide enough.
Evaluate(p, in) ==
  LET side == IF in.left >= in.right THEN 1 ELSE -1 IN
  IF \/ p.attempts >= MaxBypassAttempts
     \/ in.left < MinSideClearance /\ in.right < MinSideClearance
    THEN End(p, "BLOCKED")
    ELSE ShiftOut([p EXCEPT !.state = "SHIFT_OUT", !.side = side, !.attempts = @ + 1], in)

\* Mutant: the robot goes straight on and looks for no obstacle.
ForwardNeverSure(p, in) ==
  IF in.progress >= TargetDistance THEN End(p, "COMPLETE") ELSE Output(p, 1, 0)

\* Straight on, until the obstacle was seen in BlockedFrames calls in a row.
Forward(p, in) ==
  LET blocked == IF in.front = "blocked" THEN p.blocked + 1 ELSE 0 IN
  CASE in.progress >= TargetDistance -> End(p, "COMPLETE")
    [] in.progress < TargetDistance /\ blocked >= BlockedFrames ->
         Output([p EXCEPT !.state = "EVALUATE", !.blocked = 0], 0, 0)
    [] OTHER -> Output([p EXCEPT !.blocked = blocked], 1, 0)

Steer(p, in) ==
  CASE p.state \in FinalStates       -> End(p, p.state)
    [] p.state = "FORWARD"           -> Forward(p, in)
    [] p.state = "EVALUATE"          -> Evaluate(p, in)
    [] p.state = "SHIFT_OUT"         -> ShiftOut(p, in)
    [] p.state = "PASS_OBSTACLE"     -> PassObstacle(p, in)
    [] p.state = "SHIFT_BACK"        -> ShiftBack(p, in)
    [] OTHER                         -> End(p, "BLOCKED")

\* Mutant: the anchor follows the robot whether it moves or not.
StillnessForgotten(p, in) == 0

\* The time for which the commanded motion made no progress.
Stillness(p, in) ==
  IF ~p.moving \/ in.moved THEN 0
  ELSE IF p.still + in.elapsed > StallTimeout THEN StallTimeout ELSE p.still + in.elapsed

\* Mutant: lost sensors make the planner start again.
UpdateStartsAgain(p, in) ==
  CASE ~in.fresh                   -> Output([p EXCEPT !.initialized = FALSE], 0, 0)
    [] in.fresh /\ ~p.initialized  -> Forward([p EXCEPT !.initialized = TRUE, !.state = "FORWARD"], in)
    [] OTHER                       -> Steer(p, in)

\* update(): the first fresh input starts the route, whatever fail() said
\* before; later every input must be fresh, and a motion must make progress.
Update(p, in) ==
  CASE ~in.fresh /\ ~p.initialized -> Output(p, 0, 0)
    [] ~in.fresh /\ p.initialized  -> End(p, "SENSOR_FAULT")
    [] in.fresh /\ ~p.initialized  ->
         Steer([p EXCEPT !.initialized = TRUE, !.state = "FORWARD", !.still = 0], in)
    [] in.fresh /\ p.initialized   ->
         LET q == [p EXCEPT !.still = Stillness(p, in)] IN
         IF q.still >= StallTimeout THEN End(q, "BLOCKED") ELSE Steer(q, in)
=============================================================================
