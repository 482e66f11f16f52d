--------------------------- MODULE LidarNavigator ---------------------------
(***************************************************************************)
(* main() of go2_lidar_navigator: wait for the sensors, claim the robot,   *)
(* then every 50 ms update the LocalPlanner and send its command, until    *)
(* the planner ends, a signal comes or the time is up; then stop.          *)
(*                                                                         *)
(* The robot is external: in a control period it goes up to MaxStep cells  *)
(* with the velocity of the last Move it accepted.  It is in a corridor    *)
(* whose walls are Room cells from the route and whose end is one cell     *)
(* behind the target; the ranges are arbitrary otherwise.  A Move is       *)
(* answered within the period, or the client gives it up after             *)
(* MoveTimeout; the rounds missed meanwhile then follow without a pause.   *)
(***************************************************************************)
EXTENDS LocalPlanner

CONSTANTS MaxStep, Room,
          MoveTimeout, \* control periods that the client waits for an answer
          MaxBehind    \* bound on the rounds there are to be made up for

ASSUME RobotAssumption ==
  /\ MaxStep \in Nat \ {0} /\ MaxStep <= 2 * Tolerance + 1
  /\ Room \in Nat /\ Room >= LateralShift + MaxStep
  /\ MoveTimeout \in Nat \ {0, 1} /\ MaxBehind \in Nat

VARIABLES
  pc,            \* "sensors", "claim", "loop", "ended", "stop", "done"
  planner,       \* the LocalPlanner
  pose,          \* the robot: progress along the route and offset from it
  velocity,      \* the robot: the last Move it accepted
  stopRequested, \* g_stop_requested
  expired,       \* now_s >= runtime_deadline_s
  moveFailures,  \* consecutive failures of Move
  period,        \* the control periods from the last round to the next
  behind,        \* the rounds that next_tick is behind the clock
  result,        \* the exit code, -1 while it runs
  blind,         \* history: consecutive forward commands towards an obstacle
  failed,        \* history: fail() was called on a planner that had started
  lost           \* history: the robot missed a new velocity, or went on during
                 \* a Move that timed out

clockVars == <<moveFailures, period, behind>>
vars == <<pc, planner, pose, velocity, stopRequested, expired, clockVars, result,
          blind, failed, lost>>

MaxMoveFailures == 4

\* Exit codes.
Completed == 0
Stopped   == 6
NoSensors == 7
Error     == 9
Cancelled == 130

Init ==
  /\ pc = "sensors" /\ planner = NewPlanner
  /\ pose = [progress |-> 0, offset |-> 0] /\ velocity = <<0, 0>>
  /\ stopRequested = FALSE /\ expired = FALSE /\ result = -1
  /\ moveFailures = 0 /\ period = 0 /\ behind = 0
  /\ blind = 0 /\ failed = FALSE /\ lost = FALSE

\* Both sensors have sent a valid value, perhaps after the signal.
SensorsValid ==
  /\ pc = "sensors" /\ pc' = "claim"
  /\ UNCHANGED <<planner, pose, velocity, stopRequested, expired, clockVars, result,
                 blind, failed, lost>>

\* They did not within 8 s, or before the signal.
SensorsMissing ==
  /\ pc = "sensors" /\ pc' = "done" /\ result' = NoSensors
  /\ UNCHANGED <<planner, pose, velocity, stopRequested, expired, clockVars,
                 blind, failed, lost>>

\* Obstacle avoidance is on and the movement authority is ours ...
Claim ==
  /\ pc = "claim" /\ pc' = "loop"
  /\ UNCHANGED <<planner, pose, velocity, stopRequested, expired, clockVars, result,
                 blind, failed, lost>>

\* ... or one of them is refused.
ClaimFails ==
  /\ pc = "claim" /\ pc' = "stop" /\ result' = Error
  /\ UNCHANGED <<planner, pose, velocity, stopRequested, expired, clockVars,
                 blind, failed, lost>>

Clamp(n, low, high) == IF n < low THEN low ELSE IF n > high THEN high ELSE n

\* Where the robot is after n cells.
Moved(n) ==
  [progress |-> Clamp(pose.progress + n * velocity[1], 0, TargetDistance + 1),
   offset   |-> Clamp(pose.offset + n * velocity[2], -Room, Room)]

\* What the sensors can show there; the ranges of a scan that is too old do not
\* matter.
Inputs(at, fresh) ==
  LET sides(wall) == IF at.offset = wall \/ ~fresh THEN {0} ELSE SideRanges
  IN  [front : IF fresh THEN FrontRanges ELSE {"clear"}, left : sides(Room),
       right : sides(-Room), fresh : {fresh}, progress : {at.progress},
       offset : {at.offset}, moved : {at # pose}, elapsed : {period}]

ExitCode(p) ==
  CASE p.state = "COMPLETE"     -> Completed
    [] p.state = "SENSOR_FAULT" -> NoSensors
    [] OTHER                    -> Stopped

\* When the next round comes after one whose Move took n periods.
NextRound(n) ==
  /\ period' = IF n > 0 THEN n ELSE IF behind = 0 THEN 1 ELSE 0
  /\ behind' = Clamp(behind + n - 1, 0, MaxBehind)

\* Move is accepted by the robot, or fails: it is refused, or there is no answer
\* in time, and then the robot has accepted it or not.  The fourth failure in a
\* row fails the planner, after this round's command.
Move(p) ==
  LET command == <<p.vx, p.vy>> IN
  \/ /\ velocity' = command /\ moveFailures' = 0 /\ planner' = p
     /\ NextRound(0)
     /\ UNCHANGED lost
  \/ /\ moveFailures' = Clamp(moveFailures + 1, 0, MaxMoveFailures)
     /\ planner' = IF moveFailures' = MaxMoveFailures THEN Fail(p) ELSE p
     /\ \/ velocity' = velocity /\ NextRound(0) /\ lost' = (lost \/ velocity # command)
        \/ /\ velocity' \in {velocity, command} /\ NextRound(MoveTimeout)
           /\ lost' = (lost \/ velocity' # command \/ {velocity, velocity'} # {<<0, 0>>})

\* One round of the loop.  After runtime_deadline_s the planner is failed
\* before it is updated.
Tick ==
  /\ pc = "loop" /\ ~stopRequested
  /\ \E n \in 0..(MaxStep * period) :
       /\ pose' = Moved(n)
       /\ \E fresh \in BOOLEAN : \E in \in Inputs(pose', fresh) :
            LET p == Update(IF expired THEN Fail(planner) ELSE planner, in) IN
            /\ Move(p)
            /\ blind' = IF p.vx > 0 /\ in.front = "blocked" THEN blind + 1 ELSE 0
            /\ pc' = IF p.terminal THEN "ended" ELSE "loop"
            /\ result' = IF p.terminal THEN ExitCode(p) ELSE result
            /\ failed' = (failed \/ (expired /\ planner.initialized)
                                 \/ (moveFailures' = MaxMoveFailures /\ p.initialized))
  /\ UNCHANGED <<stopRequested, expired>>

\* The variables of the block around the loop are gone.
EndOfBlock ==
  /\ pc' = "stop"
  /\ planner' = NewPlanner /\ moveFailures' = 0 /\ period' = 0 /\ behind' = 0 /\ blind' = 0

\* The loop is over, by the signal or by itself; a signal that came meanwhile
\* replaces the exit code.
LeaveLoop ==
  /\ pc = "ended" \/ (pc = "loop" /\ stopRequested)
  /\ result' = IF stopRequested THEN Cancelled ELSE result
  /\ EndOfBlock
  /\ UNCHANGED <<pose, velocity, stopRequested, expired, failed, lost>>

\* A call of the client raises; a signal does not replace this exit code.
LoopRaises ==
  /\ pc = "loop" /\ result' = Error
  /\ EndOfBlock
  /\ UNCHANGED <<pose, velocity, stopRequested, expired, failed, lost>>

\* stop_and_release, or the five stops without the authority: the robot stops
\* unless it accepts none of them.
StopAndRelease ==
  /\ pc = "stop" /\ pc' = "done"
  /\ velocity' \in {velocity, <<0, 0>>}
  /\ UNCHANGED <<planner, pose, stopRequested, expired, clockVars, result,
                 blind, failed, lost>>

\* SIGINT, SIGTERM.
Signal ==
  /\ pc # "done" /\ ~stopRequested /\ stopRequested' = TRUE
  /\ UNCHANGED <<pc, planner, pose, velocity, expired, clockVars, result,
                 blind, failed, lost>>

\* runtime_deadline_s passes.
Expire ==
  /\ pc = "loop" /\ ~expired /\ expired' = TRUE
  /\ UNCHANGED <<pc, planner, pose, velocity, stopRequested, clockVars, result,
                 blind, failed, lost>>

-----------------------------------------------------------------------------

Next == \/ SensorsValid \/ SensorsMissing \/ Claim \/ ClaimFails \/ Tick \/ LeaveLoop
        \/ LoopRaises \/ StopAndRelease \/ Signal \/ Expire

Spec == Init /\ [][Next]_vars

\* The process runs and its clock ticks; nothing is assumed of the sensors, the
\* robot or the deadline.
FairSpec == Spec /\ WF_vars(Tick \/ LeaveLoop \/ StopAndRelease)

-----------------------------------------------------------------------------
(***************************************************************************)
(* Properties                                                              *)
(***************************************************************************)

TypeOK ==
  /\ pc \in {"sensors", "claim", "loop", "ended", "stop", "done"}
  /\ planner \in Planners
  /\ pose \in [progress : 0..(TargetDistance + 1), offset : (-Room)..Room]
  /\ velocity \in {0, 1} \X {-1, 0, 1}
  /\ stopRequested \in BOOLEAN /\ expired \in BOOLEAN
  /\ moveFailures \in 0..MaxMoveFailures /\ period \in 0..MoveTimeout /\ behind \in 0..MaxBehind
  /\ result \in {-1, Completed, Stopped, NoSensors, Error, Cancelled}
  /\ blind \in Nat /\ failed \in BOOLEAN /\ lost \in BOOLEAN

\* A bypass stays on its side: between the route and one step behind the
\* lateral shift, and it ends on the route, unless a Move was lost.
StaysInCorridor ==
  ~lost /\ pc \in {"loop", "ended"} =>
           /\ planner.side * pose.offset \in
                 (-Tolerance)..(LateralShift - Tolerance - 1 + MaxStep)
           /\ planner.side = 0 => pose.offset \in (-Tolerance)..Tolerance

\* Through all states of a bypass, the robot is sent towards an obstacle in
\* front of it for less than BlockedFrames ticks in a row.
BlindForwardBounded == blind < BlockedFrames

\* Exit code 0 (the Bridge reports the job as done) means that the robot got to
\* the target and is on the route, unless a Move was lost.
ArrivedMeansArrived ==
  result = Completed /\ ~lost =>
    pose.progress >= TargetDistance /\ pose.offset \in (-Tolerance)..Tolerance

\* A planner that was failed from outside (time, Move failures) after it
\* started never moves the robot again and never reports success, whatever the
\* sensors do afterwards.
FailedStaysFailed ==
  [][ failed => /\ velocity' \in {velocity, <<0, 0>>}
                /\ result' = Completed => result = Completed ]_vars

\* A navigation that started ends by itself, before any deadline: obstacles,
\* failing Moves and a robot that does not move cannot keep it going.
NavigationEnds == pc = "loop" /\ planner.initialized ~> pc = "done"
=============================================================================
