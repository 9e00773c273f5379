------------------------------- MODULE Motion -------------------------------
(***************************************************************************)
(* The servos of the C5: the WebSocket task posts commands to a queue, the *)
(* motion task takes them one by one and drives the servos in phases with  *)
(* a dwell between, polling cancel_, which STOP and HOME set.              *)
(*                                                                         *)
(* One core, and the WebSocket task (priority 5) is above the motion task  *)
(* (4): post() runs whole, between any two steps of the motion task.  The  *)
(* servos are there (else nothing posts) and shutdown is left out.         *)
(***************************************************************************)
EXTENDS Integers, Sequences

CONSTANTS
    QueueDepth,        \* length of queue_ (8)
    MAX_WALK_STEPS,    \* (20)
    JOINT_COUNT,       \* (6)
    RelaxIdle,         \* RELAX_IDLE_MS in ticks
    Params,            \* values of p0 the server sends
    MaxPosts           \* bound: commands posted

ASSUME MotionAssumption ==
    /\ QueueDepth \in Nat \ {0} /\ MAX_WALK_STEPS \in Nat \ {0, 1}
    /\ JOINT_COUNT \in Nat /\ RelaxIdle \in Nat /\ MaxPosts \in Nat
    /\ Params \subseteq Nat

VARIABLES
    queue, cancel,               \* queue_, cancel_
    pc,                          \* where the motion task is in loop()
    cmd,                         \* the command it has taken
    left,                        \* phases its sequence has yet to drive
    servos_energized, still,     \* ticks since last_motion_us_
    pulses,                      \* do the servos get pulses?
    driven,                      \* history: phases driven since the STOP or
                                 \* HOME in the queue was posted
    superseded,                  \* history: a STOP or HOME came after cmd
    unheard,                     \* history: and before cancel_ was cleared
    posts                        \* bound

servoVars == <<servos_energized, still, pulses>>
stopVars  == <<driven, superseded, unheard>>
motionVars == <<queue, cancel, pc, cmd, left, servoVars, stopVars, posts>>

Priority == {"STOP", "HOME"}
Commands == [action : {"STOP", "HOME", "TURN"}, p0 : {0}]
              \cup [action : {"WALK", "GESTURE", "SET_JOINT"}, p0 : Params]

(* What a sequence drives, its closing home() included.                    *)
steps(p0) == IF p0 = 0 THEN 2
             ELSE IF p0 > MAX_WALK_STEPS THEN MAX_WALK_STEPS ELSE p0

phases(c) ==
    CASE c.action = "STOP"      -> 0
      [] c.action = "HOME"      -> 1
      [] c.action = "WALK"      -> 5 * steps(c.p0) + 1
      [] c.action = "TURN"      -> 2
      [] c.action = "GESTURE"   -> IF c.p0 = 0 THEN 7
                                   ELSE IF c.p0 = 1 THEN 5 ELSE 1
      [] c.action = "SET_JOINT" -> IF c.p0 < JOINT_COUNT THEN 1 ELSE 0

MaxPhases == 5 * MAX_WALK_STEPS + 1

MotionFlags ==
    /\ cancel \in BOOLEAN /\ servos_energized \in BOOLEAN
    /\ pulses \in BOOLEAN /\ superseded \in BOOLEAN /\ unheard \in BOOLEAN
MotionRanges ==
    /\ queue \in Seq(Commands) /\ Len(queue) <= QueueDepth
    /\ pc \in {"receive", "timed_out", "taken", "check", "drive"}
    /\ cmd \in Commands
    /\ left \in 0..MaxPhases /\ driven \in Nat
    /\ still \in 0..(RelaxIdle + 1) /\ posts \in 0..MaxPosts
(* The queue never holds more than its depth, a walk never more phases     *)
(* than MAX_WALK_STEPS allows, whatever p0 the server sends.               *)
MotionTypeOK == MotionFlags /\ MotionRanges

(* init() has homed the servos.                                            *)
MotionInit ==
    /\ queue = <<>> /\ cancel = FALSE /\ pc = "receive"
    /\ cmd = [action |-> "HOME", p0 |-> 0] /\ left = 0
    /\ servos_energized = TRUE /\ pulses = TRUE /\ still = 0
    /\ driven = 0 /\ superseded = FALSE /\ unheard = FALSE
    /\ posts = 0

stopQueued == \E i \in DOMAIN queue : queue[i].action \in Priority

-----------------------------------------------------------------------------
(* post(), on the WebSocket task; a full queue drops the command.          *)
enqueued(c) == IF Len(queue) < QueueDepth THEN Append(queue, c) ELSE queue

(* Mutated form of flushed: STOP waits behind what is queued.              *)
notFlushed(c) == enqueued(c)

(* STOP and HOME reset the queue before they are sent.                     *)
flushed(c) == <<c>>

PostPriority(c) ==
    /\ c.action \in Priority
    /\ posts < MaxPosts /\ posts' = posts + 1
    /\ cancel' = TRUE
    /\ queue' = flushed(c)
    /\ driven' = IF stopQueued THEN driven ELSE 0
    /\ superseded' = TRUE
    /\ unheard' = (unheard \/ pc = "taken")
    /\ UNCHANGED <<pc, cmd, left, servoVars>>

PostOther(c) ==
    /\ c.action \notin Priority
    /\ posts < MaxPosts /\ posts' = posts + 1
    /\ queue' = enqueued(c)
    /\ UNCHANGED <<cancel, pc, cmd, left, servoVars, stopVars>>

-----------------------------------------------------------------------------
(* The motion task.                                                        *)
Receive ==
    /\ pc = "receive" /\ queue # <<>>
    /\ cmd' = Head(queue) /\ queue' = Tail(queue)
    /\ pc' = "taken"
    /\ superseded' = FALSE /\ unheard' = FALSE
    /\ UNCHANGED <<cancel, left, servoVars, driven, posts>>

(* Mutated form: cancel_ is left set.                                      *)
cancelKept == cancel

(* cancel_.store(false)                                                    *)
cancelCleared == FALSE

(* Then dispatch(): STOP relaxes; HOME and SET_JOINT drive at once.        *)
Dispatch ==
    /\ pc = "taken"
    /\ cancel' = cancelCleared
    /\ still' = 0
    /\ left' = phases(cmd)
    /\ \/ /\ cmd.action = "STOP"
          /\ servos_energized' = FALSE /\ pulses' = FALSE
          /\ pc' = "receive"
       \/ /\ cmd.action # "STOP"
          /\ pc' = IF phases(cmd) = 0 THEN "receive"
                   ELSE IF cmd.action \in {"HOME", "SET_JOINT"} THEN "drive"
                   ELSE "check"
          /\ UNCHANGED <<servos_energized, pulses>>
    /\ UNCHANGED <<queue, cmd, stopVars, posts>>

(* aborting(), after a dwell and at the top of each loop.                  *)
CheckGoesOn ==
    /\ pc = "check" /\ ~cancel
    /\ pc' = "drive"
    /\ UNCHANGED <<queue, cancel, cmd, left, servoVars, stopVars, posts>>

CheckBails ==
    /\ pc = "check" /\ cancel
    /\ pc' = "receive" /\ left' = 0
    /\ UNCHANGED <<queue, cancel, cmd, servoVars, stopVars, posts>>

(* Mutated forms: the servos are driven without a mark; the next phase is  *)
(* driven without a look at cancel_.                                       *)
markForgotten == UNCHANGED <<servos_energized, still>>
nextUnchecked == IF left = 1 THEN "receive" ELSE "drive"

markEnergized == servos_energized' = TRUE /\ still' = 0
nextPhase     == IF left = 1 THEN "receive" ELSE "check"

(* setJoint() or home(), then a dwell.                                     *)
Drive ==
    /\ pc = "drive"
    /\ pulses' = TRUE /\ markEnergized
    /\ left' = left - 1
    /\ driven' = IF stopQueued THEN driven + 1 ELSE driven
    /\ pc' = nextPhase
    /\ UNCHANGED <<queue, cancel, cmd, superseded, unheard, posts>>

(* xQueueReceive times out; with no motion for a while, relax().           *)
TimedOut ==
    /\ pc = "receive" /\ queue = <<>>
    /\ pc' = "timed_out"
    /\ still' = IF still > RelaxIdle THEN still ELSE still + 1
    /\ UNCHANGED <<queue, cancel, cmd, left, servos_energized, pulses,
                   stopVars, posts>>

IdleTick ==
    /\ pc = "timed_out" /\ pc' = "receive"
    /\ \/ /\ servos_energized /\ still > RelaxIdle
          /\ servos_energized' = FALSE /\ pulses' = FALSE
       \/ /\ ~(servos_energized /\ still > RelaxIdle)
          /\ UNCHANGED <<servos_energized, pulses>>
    /\ UNCHANGED <<queue, cancel, cmd, left, still, stopVars, posts>>

MotionTask == \/ Receive \/ Dispatch \/ CheckGoesOn \/ CheckBails
              \/ Drive \/ TimedOut \/ IdleTick

MotionNext ==
    \/ \E c \in Commands : PostPriority(c) \/ PostOther(c)
    \/ MotionTask

(* The task goes on; nobody has to post.                                   *)
MotionFairness == WF_motionVars(MotionTask)

MotionSpec     == MotionInit /\ [][MotionNext]_motionVars
MotionFairSpec == MotionSpec /\ MotionFairness

-----------------------------------------------------------------------------
(* "Cap it so a STOP is never more than a few seconds away": a STOP or     *)
(* HOME waits for one walk at most, even when cancel_ was lost on it.      *)
StopWithinOneSequence == stopQueued => driven <= MaxPhases

(* A STOP or HOME posted once the running command has cleared cancel_ is   *)
(* honoured within a phase.                                                *)
StopWithinAPhase == stopQueued /\ ~unheard => driven <= 1

(* A command is cut short only by a STOP or HOME that came after it, never *)
(* by the one before it, whose cancel_ is still set when it is taken.      *)
CutOnlyByNewer == [][CheckBails => superseded]_motionVars

(* Left alone, the robot stops holding torque: no servo gets pulses for    *)
(* ever, whatever sequence was cut where.                                  *)
Relaxes == pulses ~> ~pulses
=============================================================================
