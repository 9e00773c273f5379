-------------------------- MODULE VoiceTurnProofs ---------------------------
(***************************************************************************)
(* The watchdog's promise for any limits in their order, with or without   *)
(* buttons, and for any number of turns, replies and lost sessions.        *)
(***************************************************************************)
EXTENDS VoiceTurn, TLAPS

stamping(t) == pc[t] \in {"stamp", "reply_stamp"}

(* The watchdog's age is the true one, unless a task has yet to write its  *)
(* stamp; then the state is new, for no period passes meanwhile.           *)
StampOK ==
    /\ \A t \in Tasks : stamping(t) => lasted = 0
    /\ (\A t \in Tasks : ~stamping(t)) => lasted = since

slack == IF wd_due THEN 1 ELSE 0

(* Between two periods the watchdog has seen to it that no limit is passed.*)
AgeOK ==
    /\ inter_state = "LISTENING" => lasted <= ListenMax + slack
    /\ inter_state = "PROCESSING" => lasted <= ProcessingTimeout + slack
    /\ inter_state = "SPEAKING"
           => \/ lasted <= SpeakingStall + slack
              \/ since_downlink <= SpeakingStall + slack

IInv == TypeOK /\ StampOK /\ AgeOK

USE LimitsAssumption, BoundsAssumption

LEMMA InitIInv == Init => IInv
  <1> SUFFICES ASSUME Init PROVE IInv
    OBVIOUS
  <1>1. FlagsOK
    BY Zenon DEF Init, FlagsOK
  <1>2. RangesOK
    BY DEF Init, RangesOK, InteractionStates, Sources, Ages, Tasks, Labels
  <1>3. StampOK /\ AgeOK
    BY DEF Init, StampOK, AgeOK, stamping, Tasks
  <1>4. QED
    BY <1>1, <1>2, <1>3 DEF IInv, TypeOK

(* The flags stay Boolean, whatever the step.                              *)
LEMMA NextFlagsOK == FlagsOK /\ [Next]_vars => FlagsOK'
  <1> SUFFICES ASSUME FlagsOK, [Next]_vars PROVE FlagsOK'
    OBVIOUS
  <1> USE Zenon DEF FlagsOK, netVars, envVars
  <1>1. ASSUME NEW t, TriggerTask(t) PROVE FlagsOK'
    <2>1. CASE StartCheck(t)
      BY <2>1 DEF StartCheck, endReply
    <2>2. CASE StartSend(t) \/ StartSet(t) \/ EndCheck(t)
      BY <2>2 DEF StartSend, StartSet, EndCheck
    <2>3. CASE EndSend(t) \/ EndSet(t) \/ IdleSet(t) \/ Stamp(t)
      BY <2>3 DEF EndSend, EndSet, IdleSet, Stamp
    <2>4. QED
      BY <1>1, <2>1, <2>2, <2>3 DEF TriggerTask
  <1>2. CASE WsTask
    <2>1. CASE Reply \/ ReplyOpensSession
      BY <2>1 DEF Reply, ReplyOpensSession
    <2>2. CASE ReplySet \/ ReplyForward \/ AudioStop
      BY <2>2 DEF ReplySet, ReplyForward, AudioStop, endReply
    <2>3. CASE WsDropped \/ IdleSet("ws") \/ Stamp("ws")
      BY <2>3 DEF WsDropped, IdleSet, Stamp, endReply
    <2>4. QED
      BY <1>2, <2>1, <2>2, <2>3 DEF WsTask
  <1>3. CASE SpeakDone
    BY <1>3 DEF SpeakDone, endReply
  <1>4. CASE ConnectionMoves
    BY <1>4 DEF ConnectionMoves
  <1>5. CASE Watchdog
    BY <1>5 DEF Watchdog
  <1>6. CASE Tick
    BY <1>6 DEF Tick
  <1>7. CASE S3Drains \/ S3Silenced
    BY <1>7 DEF S3Drains, S3Silenced
  <1>8. CASE UNCHANGED vars
    BY <1>8 DEF vars
  <1>9. QED
    BY <1>1, <1>2, <1>3, <1>4, <1>5, <1>6, <1>7, <1>8 DEF Next

(* A handler's jump keeps the control state in range.                      *)
LEMMA GotoType ==
    ASSUME NEW t \in Tasks, NEW l \in Labels, pc \in [Tasks -> Labels],
           goto(t, l)
    PROVE  /\ pc' \in [Tasks -> Labels] /\ pc'[t] = l
           /\ \A u \in Tasks \ {t} : pc'[u] = pc[u]
  BY DEF goto

(* Setting the state keeps the invariant, stamp pending or not: this is    *)
(* the half of setInteractionState that runs under the lock.               *)
LEMMA SetKeeps ==
    ASSUME NEW t \in Tasks, NEW stamp \in {"stamp", "reply_stamp"},
           NEW after \in Labels \ {"stamp", "reply_stamp"},
           NEW to \in InteractionStates \ {"TRIGGERED", "CANCELLING"},
           NEW src \in Sources,
           IInv, ~stamping(t), setInteractionState(t, to, src, stamp, after),
           UNCHANGED <<netVars, envVars, wd_due, asked, gate>>
    PROVE  RangesOK' /\ StampOK' /\ AgeOK'
  <1> USE DEF IInv, TypeOK, RangesOK, smVars, netVars, envVars
  <1>1. stamp \in Labels /\ after \in Labels
    BY DEF Labels
  <1>2. CASE inter_state = to /\ inter_source = src
    <2>1. UNCHANGED smVars /\ goto(t, after)
      BY <1>2 DEF setInteractionState
    <2>2. RangesOK'
      BY <1>1, <2>1, GotoType
    <2>3. StampOK' /\ AgeOK'
      BY <1>1, <2>1, GotoType DEF StampOK, AgeOK, stamping, slack
    <2>4. QED
      BY <2>2, <2>3
  <1>3. CASE ~(inter_state = to /\ inter_source = src)
    <2>1. /\ inter_state' = to /\ inter_source' = src /\ lasted' = 0
          /\ since' = since /\ goto(t, stamp)
      BY <1>3 DEF setInteractionState
    <2>2. RangesOK'
      BY <1>1, <2>1, GotoType DEF Ages
    <2>3. StampOK' /\ AgeOK'
      BY <1>1, <2>1, GotoType DEF StampOK, AgeOK, stamping, slack
    <2>4. QED
      BY <2>2, <2>3
  <1>4. QED
    BY <1>2, <1>3

(* A step that neither sets the state nor takes a task to or from its      *)
(* stamp keeps the invariant.                                              *)
LEMMA OtherKeeps ==
    ASSUME NEW t \in Tasks, NEW l \in Labels \ {"stamp", "reply_stamp"},
           IInv, ~stamping(t), goto(t, l),
           UNCHANGED <<smVars, wd_due>>,
           since_downlink' \in {since_downlink, 0}
    PROVE  StampOK' /\ AgeOK'
  BY GotoType
  DEF IInv, TypeOK, RangesOK, StampOK, AgeOK, stamping, slack, smVars, Ages

LEMMA StampKeeps ==
    ASSUME IInv, NEW t \in Tasks, Stamp(t)
    PROVE  RangesOK' /\ StampOK' /\ AgeOK'
  <1> USE DEF IInv, TypeOK, RangesOK, netVars, envVars
  <1> DEFINE next == IF pc[t] = "stamp" THEN "idle" ELSE "reply_forward"
  <1>1. next \in Labels /\ ~(next \in {"stamp", "reply_stamp"})
    BY DEF Labels
  <1>2. /\ stamping(t) /\ since' = 0 /\ goto(t, next)
        /\ UNCHANGED <<inter_state, inter_source, lasted, netVars, envVars,
                       wd_due, asked, gate>>
    BY DEF Stamp, stamping
  <1>3. RangesOK'
    BY <1>1, <1>2, GotoType DEF Ages
  <1>4. lasted = 0
    BY <1>2 DEF StampOK
  <1>5. StampOK' /\ AgeOK'
    BY <1>1, <1>2, <1>4, GotoType DEF StampOK, AgeOK, stamping, slack
  <1>6. QED
    BY <1>3, <1>5

LEMMA TriggerStep ==
    ASSUME IInv, NEW t \in {"uart", "button"}, TriggerTask(t)
    PROVE  RangesOK' /\ StampOK' /\ AgeOK'
  <1> USE DEF IInv, TypeOK, RangesOK, netVars, envVars, Labels
  <1>t. t \in Tasks
    BY DEF Tasks
  <1>1. CASE StartCheck(t)
    <2>1. CASE online
      <3>1. /\ pc[t] = "idle" /\ goto(t, "start_send")
            /\ UNCHANGED <<smVars, wd_due, since_downlink>>
            /\ UNCHANGED <<replies, drops, asked>>
            /\ gate' \in {gate, "kept"}
        BY <1>1, <2>1 DEF StartCheck, endReply
      <3>2. turns' \in 0..MaxTurns /\ s3' \in {"silent", "playing", "done"}
        BY <1>1 DEF StartCheck
      <3>3. RangesOK'
        BY <1>t, <3>1, <3>2, GotoType DEF smVars
      <3>4. QED
        BY <1>t, <3>1, <3>3, OtherKeeps DEF stamping
    <2>2. CASE ~online
      BY <1>1, <2>2
      DEF StartCheck, endReply, smVars, StampOK, AgeOK, stamping, slack
    <2>3. QED
      BY <2>1, <2>2
  <1>2. CASE StartSend(t)
    <2>1. /\ pc[t] = "start_send" /\ goto(t, "start_set")
          /\ UNCHANGED <<smVars, wd_due, since_downlink>>
      BY <1>2 DEF StartSend
    <2>2. RangesOK'
      BY <1>2, <1>t, <2>1, GotoType DEF StartSend, smVars
    <2>3. QED
      BY <1>t, <2>1, <2>2, OtherKeeps DEF stamping
  <1>3. CASE StartSet(t)
    BY <1>3, <1>t, SetKeeps DEF StartSet, stamping, InteractionStates, Sources
  <1>4. CASE EndCheck(t)
    <2>1. /\ pc[t] = "idle" /\ goto(t, "end_drain")
          /\ UNCHANGED <<smVars, wd_due, since_downlink>>
      BY <1>4 DEF EndCheck
    <2>2. RangesOK'
      BY <1>4, <1>t, <2>1, GotoType DEF EndCheck, smVars
    <2>3. QED
      BY <1>t, <2>1, <2>2, OtherKeeps DEF stamping
  <1>5. CASE EndSend(t)
    <2>1. /\ pc[t] = "end_drain" /\ goto(t, "end_set")
          /\ UNCHANGED <<smVars, wd_due, since_downlink>>
      BY <1>5 DEF EndSend
    <2>2. RangesOK'
      BY <1>5, <1>t, <2>1, GotoType DEF EndSend, smVars
    <2>3. QED
      BY <1>t, <2>1, <2>2, OtherKeeps DEF stamping
  <1>6. CASE EndSet(t)
    BY <1>6, <1>t, SetKeeps DEF EndSet, stamping, InteractionStates, Sources
  <1>7. CASE IdleSet(t)
    BY <1>7, <1>t, SetKeeps DEF IdleSet, stamping, InteractionStates, Sources
  <1>8. CASE Stamp(t)
    BY <1>8, <1>t, StampKeeps
  <1>9. QED
    BY <1>1, <1>2, <1>3, <1>4, <1>5, <1>6, <1>7, <1>8 DEF TriggerTask

LEMMA WsStep ==
    ASSUME IInv, WsTask
    PROVE  RangesOK' /\ StampOK' /\ AgeOK'
  <1> USE DEF IInv, TypeOK, RangesOK, netVars, envVars, Labels
  <1>t. "ws" \in Tasks
    BY DEF Tasks
  <1>1. CASE Reply
    <2> DEFINE l == IF speaking_session_active THEN "reply_forward"
                    ELSE IF inter_state \in {"PROCESSING", "SPEAKING"}
                           THEN "reply_gate" ELSE "idle"
    <2>1. /\ pc["ws"] = "idle" /\ goto("ws", l)
          /\ UNCHANGED <<smVars, wd_due>> /\ since_downlink' = 0
      BY <1>1 DEF Reply
    <2>2. l \in Labels \ {"stamp", "reply_stamp"}
      OBVIOUS
    <2>3. RangesOK'
      BY <1>1, <1>t, <2>1, <2>2, GotoType DEF Reply, smVars, Ages
    <2>4. QED
      BY <1>t, <2>1, <2>2, <2>3, OtherKeeps DEF stamping
  <1>2. CASE ReplyOpensSession
    <2>1. /\ pc["ws"] = "reply_gate" /\ goto("ws", "reply_set")
          /\ UNCHANGED <<smVars, wd_due, since_downlink>>
      BY <1>2 DEF ReplyOpensSession
    <2>2. RangesOK'
      BY <1>2, <1>t, <2>1, GotoType DEF ReplyOpensSession, smVars
    <2>3. QED
      BY <1>t, <2>1, <2>2, OtherKeeps DEF stamping
  <1>3. CASE ReplySet
    BY <1>3, <1>t, SetKeeps DEF ReplySet, stamping, InteractionStates, Sources
  <1>4. CASE ReplyForward
    <2>1. /\ pc["ws"] = "reply_forward" /\ goto("ws", "idle")
          /\ UNCHANGED <<smVars, wd_due, since_downlink>>
      BY <1>4 DEF ReplyForward
    <2>2. RangesOK'
      BY <1>4, <1>t, <2>1, GotoType DEF ReplyForward, smVars
    <2>3. QED
      BY <1>t, <2>1, <2>2, OtherKeeps DEF stamping
  <1>5. CASE AudioStop
    <2>1. /\ pc["ws"] = "idle" /\ goto("ws", "idle_set")
          /\ UNCHANGED <<smVars, wd_due, since_downlink>>
      BY <1>5 DEF AudioStop
    <2>2. RangesOK'
      BY <1>5, <1>t, <2>1, GotoType DEF AudioStop, endReply, smVars
    <2>3. QED
      BY <1>t, <2>1, <2>2, OtherKeeps DEF stamping
  <1>6. CASE WsDropped
    <2> DEFINE l == IF speaking_session_active THEN "idle_set" ELSE "idle"
    <2>1. /\ pc["ws"] = "idle" /\ goto("ws", l)
          /\ UNCHANGED <<smVars, wd_due, since_downlink>>
      BY <1>6 DEF WsDropped
    <2>2. l \in Labels \ {"stamp", "reply_stamp"}
      OBVIOUS
    <2>3. RangesOK'
      BY <1>6, <1>t, <2>1, <2>2, GotoType DEF WsDropped, endReply, smVars
    <2>4. QED
      BY <1>t, <2>1, <2>2, <2>3, OtherKeeps DEF stamping
  <1>7. CASE IdleSet("ws")
    BY <1>7, <1>t, SetKeeps DEF IdleSet, stamping, InteractionStates, Sources
  <1>8. CASE Stamp("ws")
    BY <1>8, <1>t, StampKeeps
  <1>9. QED
    BY <1>1, <1>2, <1>3, <1>4, <1>5, <1>6, <1>7, <1>8 DEF WsTask

(* The watchdog runs between two periods: what it leaves alone is young.   *)
LEMMA WatchdogStep ==
    ASSUME IInv, Watchdog
    PROVE  RangesOK' /\ StampOK' /\ AgeOK'
  <1> USE DEF IInv, TypeOK, RangesOK, netVars, envVars, Ages
  <1>1. CASE listenedTooLong \/ waitedTooLong \/ streamDied
    <2>1. \E to \in {"PROCESSING", "IDLE"} : watchdogSets(to)
      BY <1>1 DEF Watchdog
    <2>2. RangesOK'
      BY <2>1 DEF Watchdog, watchdogSets, InteractionStates, Sources
    <2>3. StampOK' /\ AgeOK'
      BY <2>1 DEF Watchdog, watchdogSets, StampOK, AgeOK, stamping, slack
    <2>4. QED
      BY <2>2, <2>3
  <1>2. CASE ~listenedTooLong /\ ~waitedTooLong /\ ~streamDied
    <2>1. UNCHANGED <<smVars, pc, since_downlink>> /\ wd_due' = FALSE
      BY <1>2 DEF Watchdog
    <2>2. RangesOK'
      BY <1>2, <2>1 DEF Watchdog, smVars
    <2>3. lasted = since \/ lasted = 0
      BY DEF StampOK
    <2>4. AgeOK'
      BY <1>2, <2>1, <2>3 DEF AgeOK, slack, smVars, listenedTooLong,
                              waitedTooLong, streamDied
    <2>5. StampOK'
      BY <2>1 DEF StampOK, stamping, smVars
    <2>6. QED
      BY <2>2, <2>4, <2>5
  <1>3. QED
    BY <1>1, <1>2

LEMMA TickStep ==
    ASSUME IInv, Tick
    PROVE  RangesOK' /\ StampOK' /\ AgeOK'
  <1> USE DEF IInv, TypeOK, RangesOK, netVars, envVars, Ages
  <1>1. lasted = since
    BY DEF Tick, StampOK, stamping
  <1>2. RangesOK'
    BY DEF Tick, older
  <1>3. StampOK'
    BY <1>1 DEF Tick, StampOK, stamping
  <1>4. AgeOK'
    BY <1>1 DEF Tick, AgeOK, slack, older
  <1>5. QED
    BY <1>2, <1>3, <1>4

LEMMA NextIInv == IInv /\ [Next]_vars => IInv'
  <1> SUFFICES ASSUME IInv, [Next]_vars PROVE IInv'
    OBVIOUS
  <1>1. FlagsOK'
    BY NextFlagsOK DEF IInv, TypeOK
  <1>2. RangesOK' /\ StampOK' /\ AgeOK'
    <2>1. CASE \E t \in {"uart", "button"} : TriggerTask(t)
      BY <2>1, TriggerStep
    <2>2. CASE WsTask
      BY <2>2, WsStep
    <2>3. CASE SpeakDone
      <3>t. "uart" \in Tasks /\ "idle_set" \in Labels \ {"stamp", "reply_stamp"}
        BY DEF Tasks, Labels
      <3>1. /\ ~stamping("uart") /\ goto("uart", "idle_set")
            /\ UNCHANGED <<smVars, wd_due, since_downlink>>
        BY <2>3 DEF SpeakDone, stamping
      <3>2. RangesOK'
        BY <2>3, <3>t, <3>1, GotoType
        DEF SpeakDone, endReply, IInv, TypeOK, RangesOK, smVars
      <3>3. QED
        BY <3>t, <3>1, <3>2, OtherKeeps
    <2>4. CASE Watchdog
      BY <2>4, WatchdogStep
    <2>5. CASE Tick
      BY <2>5, TickStep
    <2>6. CASE ConnectionMoves \/ S3Drains \/ S3Silenced \/ UNCHANGED vars
      <3>1. UNCHANGED <<smVars, since_downlink, pc, wd_due>>
        BY <2>6 DEF ConnectionMoves, S3Drains, S3Silenced, vars, netVars
      <3>2. RangesOK'
        BY <2>6, <3>1 DEF ConnectionMoves, S3Drains, S3Silenced, vars,
                          envVars, smVars, IInv, TypeOK, RangesOK
      <3>3. StampOK' /\ AgeOK'
        BY <3>1 DEF IInv, StampOK, AgeOK, stamping, slack, smVars
      <3>4. QED
        BY <3>2, <3>3
    <2>7. QED
      BY <2>1, <2>2, <2>3, <2>4, <2>5, <2>6 DEF Next
  <1>3. QED
    BY <1>1, <1>2 DEF IInv, TypeOK

LEMMA AlwaysIInv == Spec => []IInv
  BY InitIInv, NextIInv, PTL DEF Spec

(* Type correctness: no handler leaves the turn in TRIGGERED or CANCELLING.*)
THEOREM TypeCorrect == Spec => []TypeOK
  BY AlwaysIInv, PTL DEF IInv

(* No state of a turn outlives its watchdog limit by more than a period,   *)
(* whichever tasks raced to set it (checkInteraction).                     *)
THEOREM AgesAlwaysBounded == Spec => []AgesBounded
  <1>1. IInv => AgesBounded
    BY DEF IInv, TypeOK, RangesOK, Ages, AgeOK, AgesBounded, slack
  <1>2. QED
    BY <1>1, AlwaysIInv, PTL

-----------------------------------------------------------------------------
(* A session nobody is about to end, and that no late release has met, is  *)
(* of a turn that speaks; a turn that has heard its answer does not listen *)
(* before it is SPEAKING, for no lower task runs meanwhile.                *)
SpeaksOK ==
    speaking_session_active /\ ~outlived =>
        /\ pc["ws"] # "reply_set" => inter_state = "SPEAKING"
        /\ \A t \in Tasks : pc[t] \notin ending
HeardOK   == heard => inter_state # "LISTENING"
SessionOK == SpeaksOK /\ HeardOK

LEMMA InitSessionOK == Init => SessionOK
  BY DEF Init, SessionOK, SpeaksOK, HeardOK, heard, Tasks

LEMMA TriggerSessionOK ==
    ASSUME IInv, SessionOK, NEW t \in {"uart", "button"}, TriggerTask(t)
    PROVE  SessionOK'
  <1> USE DEF IInv, TypeOK, RangesOK, SessionOK, SpeaksOK, HeardOK, heard,
              ending, Labels
  <1>t. t \in Tasks /\ t # "ws" /\ "ws" \in Tasks
    BY DEF Tasks
  <1>1. CASE StartCheck(t)
    <2>1. CASE online
      <3>1. /\ goto(t, "start_send") /\ pc["ws"] = "idle"
            /\ speaking_session_active' = FALSE
        BY <1>1, <1>t, <2>1 DEF StartCheck, endReply, mayRun
      <3>2. pc'["ws"] = "idle"
        BY <1>t, <3>1, GotoType
      <3>3. QED
        BY <3>1, <3>2
    <2>2. CASE ~online
      BY <1>1, <2>2 DEF StartCheck, endReply, smVars
    <2>3. QED
      BY <2>1, <2>2
  <1>2. CASE StartSend(t) \/ EndCheck(t) \/ EndSend(t)
    <2>1. /\ UNCHANGED <<inter_state, speaking_session_active, outlived>>
          /\ pc["ws"] = "idle"
          /\ \/ goto(t, "start_set") /\ pc[t] = "start_send"
             \/ goto(t, "end_drain") \/ goto(t, "end_set")
      BY <1>2, <1>t DEF StartSend, EndCheck, EndSend, mayRun, smVars, netVars
    <2>2. /\ pc'["ws"] = "idle"
          /\ \A u \in Tasks : pc'[u] \in ending => pc[u] \in ending
      BY <1>t, <2>1, GotoType
    <2>3. QED
      BY <2>1, <2>2
  <1>3. CASE StartSet(t) \/ IdleSet(t)
    <2>1. /\ pc[t] \in ending /\ pc["ws"] = "idle"
          /\ goto(t, "stamp") \/ goto(t, "idle")
          /\ UNCHANGED <<speaking_session_active, outlived>>
      BY <1>3, <1>t DEF StartSet, IdleSet, setInteractionState, mayRun, netVars
    <2>2. pc'["ws"] = "idle"
      BY <1>t, <2>1, GotoType
    <2>3. QED
      BY <1>t, <2>1, <2>2
  <1>4. CASE EndSet(t)
    <2>1. /\ outlived' = (outlived \/ speaking_session_active)
          /\ pc["ws"] = "idle"
          /\ goto(t, "stamp") \/ goto(t, "idle")
          /\ UNCHANGED speaking_session_active
      BY <1>4, <1>t DEF EndSet, setInteractionState, mayRun, netVars
    <2>2. pc'["ws"] = "idle"
      BY <1>t, <2>1, GotoType
    <2>3. QED
      BY <2>1, <2>2
  <1>5. CASE Stamp(t)
    <2>1. /\ UNCHANGED <<inter_state, speaking_session_active, outlived>>
          /\ pc["ws"] = "idle"
          /\ goto(t, "idle") \/ goto(t, "reply_forward")
      BY <1>5, <1>t DEF Stamp, mayRun, netVars
    <2>2. /\ pc'["ws"] = "idle"
          /\ \A u \in Tasks : pc'[u] \in ending => pc[u] \in ending
      BY <1>t, <2>1, GotoType
    <2>3. QED
      BY <2>1, <2>2
  <1>6. QED
    BY <1>1, <1>2, <1>3, <1>4, <1>5 DEF TriggerTask

LEMMA WsSessionOK ==
    ASSUME IInv, SessionOK, WsTask
    PROVE  SessionOK'
  <1> USE DEF IInv, TypeOK, RangesOK, SessionOK, SpeaksOK, HeardOK, heard,
              ending, Labels
  <1>t. "ws" \in Tasks
    BY DEF Tasks
  <1>1. CASE Reply
    <2> DEFINE l == IF speaking_session_active THEN "reply_forward"
                    ELSE IF inter_state \in {"PROCESSING", "SPEAKING"}
                           THEN "reply_gate" ELSE "idle"
    <2>1. goto("ws", l) /\ l \in Labels \ ending /\ pc["ws"] = "idle"
      BY <1>1 DEF Reply
    <2>2. /\ UNCHANGED <<inter_state, speaking_session_active, outlived>>
          /\ pc'["ws"] = l
          /\ \A u \in Tasks : pc'[u] \in ending => pc[u] \in ending
      BY <1>1, <1>t, <2>1, GotoType DEF Reply, smVars
    <2>3. QED
      BY <2>1, <2>2
  <1>2. CASE ReplyOpensSession
    <2>1. /\ goto("ws", "reply_set") /\ pc["ws"] = "reply_gate"
          /\ inter_state' = inter_state
          /\ outlived' = \E u \in Tasks : pc[u] \in ending
      BY <1>2 DEF ReplyOpensSession, smVars
    <2>2. /\ pc'["ws"] = "reply_set"
          /\ \A u \in Tasks : pc'[u] \in ending => pc[u] \in ending
      BY <1>t, <2>1, GotoType
    <2>3. QED
      BY <2>1, <2>2
  <1>3. CASE ReplySet
    <2>1. /\ inter_state' = "SPEAKING"
          /\ UNCHANGED <<speaking_session_active, outlived>>
          /\ goto("ws", "reply_stamp") \/ goto("ws", "reply_forward")
      BY <1>3 DEF ReplySet, setInteractionState, netVars, smVars
    <2>2. \A u \in Tasks : pc'[u] \in ending => pc[u] \in ending
      BY <1>t, <2>1, GotoType
    <2>3. QED
      BY <2>1, <2>2
  <1>4. CASE ReplyForward
    <2>1. /\ goto("ws", "idle") /\ pc["ws"] = "reply_forward"
          /\ UNCHANGED <<inter_state, speaking_session_active, outlived>>
      BY <1>4 DEF ReplyForward, smVars, netVars
    <2>2. /\ pc'["ws"] = "idle"
          /\ \A u \in Tasks : pc'[u] \in ending => pc[u] \in ending
      BY <1>t, <2>1, GotoType
    <2>3. QED
      BY <2>1, <2>2
  <1>5. CASE AudioStop \/ WsDropped
    <2>1. /\ speaking_session_active' = FALSE
          /\ goto("ws", "idle_set") \/ goto("ws", "idle")
      BY <1>5 DEF AudioStop, WsDropped, endReply
    <2>2. pc'["ws"] \in {"idle_set", "idle"}
      BY <1>t, <2>1, GotoType
    <2>3. QED
      BY <2>1, <2>2
  <1>6. CASE IdleSet("ws")
    <2>1. /\ pc["ws"] \in ending
          /\ goto("ws", "stamp") \/ goto("ws", "idle")
          /\ UNCHANGED <<speaking_session_active, outlived>>
      BY <1>6 DEF IdleSet, setInteractionState, netVars
    <2>2. pc'["ws"] \in {"stamp", "idle"}
      BY <1>t, <2>1, GotoType
    <2>3. QED
      BY <1>t, <2>1, <2>2
  <1>7. CASE Stamp("ws")
    <2>1. /\ UNCHANGED <<inter_state, speaking_session_active, outlived>>
          /\ pc["ws"] \in {"stamp", "reply_stamp"}
          /\ goto("ws", "idle") \/ goto("ws", "reply_forward")
      BY <1>7 DEF Stamp, netVars
    <2>2. /\ pc'["ws"] \in {"idle", "reply_forward"}
          /\ \A u \in Tasks : pc'[u] \in ending => pc[u] \in ending
      BY <1>t, <2>1, GotoType
    <2>3. QED
      BY <2>1, <2>2
  <1>8. QED
    BY <1>1, <1>2, <1>3, <1>4, <1>5, <1>6, <1>7 DEF WsTask

LEMMA NextSessionOK == IInv /\ SessionOK /\ [Next]_vars => SessionOK'
  <1> SUFFICES ASSUME IInv, SessionOK, [Next]_vars PROVE SessionOK'
    OBVIOUS
  <1>1. CASE \E t \in {"uart", "button"} : TriggerTask(t)
    BY <1>1, TriggerSessionOK
  <1>2. CASE WsTask
    BY <1>2, WsSessionOK
  <1>3. CASE SpeakDone
    <2>1. /\ goto("uart", "idle_set") /\ pc["ws"] = "idle"
          /\ speaking_session_active' = FALSE
      BY <1>3 DEF SpeakDone, endReply, mayRun
    <2>2. pc'["ws"] = "idle"
      BY <2>1, GotoType DEF IInv, TypeOK, RangesOK, Tasks, Labels
    <2>3. QED
      BY <2>1, <2>2 DEF SessionOK, SpeaksOK, HeardOK, heard
  <1>4. CASE Watchdog
    <2> USE DEF SessionOK, SpeaksOK, HeardOK, heard
    <2>1. CASE listenedTooLong
      BY <1>4, <2>1 DEF Watchdog, watchdogSets, listenedTooLong, smVars,
                        waitedTooLong, streamDied
    <2>2. CASE ~listenedTooLong /\ (waitedTooLong \/ streamDied)
      BY <1>4, <2>2 DEF Watchdog, watchdogSets
    <2>3. CASE ~listenedTooLong /\ ~waitedTooLong /\ ~streamDied
      BY <1>4, <2>3 DEF Watchdog, smVars
    <2>4. QED
      BY <2>1, <2>2, <2>3
  <1>5. CASE \/ ConnectionMoves \/ Tick \/ S3Drains \/ S3Silenced
             \/ UNCHANGED vars
    <2>1. UNCHANGED <<inter_state, speaking_session_active, outlived, pc>>
      BY <1>5 DEF ConnectionMoves, Tick, S3Drains, S3Silenced, smVars,
                  netVars, vars
    <2>2. QED
      BY <2>1 DEF SessionOK, SpeaksOK, HeardOK, heard
  <1>6. QED
    BY <1>1, <1>2, <1>3, <1>4, <1>5 DEF Next

LEMMA AlwaysSessionOK == Spec => []SessionOK
  BY InitSessionOK, NextSessionOK, AlwaysIInv, PTL DEF Spec

(* Speech that is being played is a turn that speaks, but for a session    *)
(* opened behind a handler's back or met by a late release (onBinary,      *)
(* triggerListenStart, triggerListenEnd, checkInteraction).                *)
THEOREM ReplyAlwaysSpeaks == Spec => []ReplySpeaks
  <1>1. SessionOK => ReplySpeaks
    BY DEF SessionOK, SpeaksOK, ReplySpeaks
  <1>2. QED
    BY <1>1, AlwaysSessionOK, PTL

-----------------------------------------------------------------------------
(* What a handler's jump means to the abstract turn.                       *)
LEMMA WsGotoMaps ==
    ASSUME NEW l \in Labels, pc \in [Tasks -> Labels], goto("ws", l)
    PROVE  /\ l \in {"reply_gate", "reply_set"} => heard' = TRUE
           /\ l \notin {"reply_gate", "reply_set"} => heard' = FALSE
           /\ released' = released
  <1>1. "ws" \in Tasks /\ Releasers = Tasks \ {"ws"}
    BY DEF Tasks, Releasers
  <1>2. /\ pc' \in [Tasks -> Labels] /\ pc'["ws"] = l
        /\ \A u \in Tasks \ {"ws"} : pc'[u] = pc[u]
    BY <1>1, GotoType
  <1>3. QED
    BY <1>1, <1>2 DEF heard, released

LEMMA GotoMaps ==
    ASSUME NEW t \in Releasers, NEW l \in Labels, pc \in [Tasks -> Labels],
           goto(t, l)
    PROVE  /\ heard' = heard
           /\ released' = IF l \in {"end_drain", "end_set"}
                            THEN released \cup {t} ELSE released \ {t}
  <1>1. "ws" \in Tasks /\ Releasers = Tasks \ {"ws"}
    BY DEF Tasks, Releasers
  <1>2. /\ pc' \in [Tasks -> Labels] /\ pc'[t] = l
        /\ \A u \in Tasks \ {t} : pc'[u] = pc[u]
    BY <1>1, GotoType
  <1>3. QED
    BY <1>1, <1>2 DEF heard, released

(* Setting the state is T!sets, or brings nothing new.                     *)
LEMMA SetMoves ==
    ASSUME NEW t, NEW stamp, NEW after, NEW src, NEW to,
           setInteractionState(t, to, src, stamp, after),
           UNCHANGED since_downlink
    PROVE  T!sets(to) /\ (goto(t, stamp) \/ goto(t, after))
  BY DEF setInteractionState, smVars, T!sets

LEMMA TriggerRefines ==
    ASSUME IInv, NEW t \in {"uart", "button"}, TriggerTask(t)
    PROVE  T!Next \/ UNCHANGED T!vars
  <1> USE DEF IInv, TypeOK, RangesOK
  <1>t. /\ t \in Tasks /\ t \in Releasers /\ t # "ws"
        /\ (t \in released) <=> (pc[t] \in {"end_drain", "end_set"})
    BY DEF Tasks, Releasers, released
  <1>w. ~heard
    <2>1. pc["ws"] = "idle"
      BY <1>t DEF TriggerTask, StartCheck, StartSend, StartSet, EndCheck,
                  EndSend, EndSet, IdleSet, Stamp, mayRun
    <2>2. QED
      BY <2>1 DEF heard
  <1>l. /\ {"idle", "start_send", "start_set", "end_drain"} \subseteq Labels
        /\ {"end_set", "stamp", "reply_forward"} \subseteq Labels
    BY DEF Labels
  <1>1. CASE StartCheck(t)
    <2>1. CASE online
      <3>1. /\ pc[t] = "idle" /\ goto(t, "start_send")
            /\ UNCHANGED <<inter_state, lasted, since_downlink>>
        BY <1>1, <2>1 DEF StartCheck, smVars
      <3>2. QED
        BY <1>t, <1>l, <3>1, GotoMaps DEF T!vars
    <2>2. CASE ~online
      BY <1>1, <2>2 DEF StartCheck, smVars, T!vars, heard, released
    <2>3. QED
      BY <2>1, <2>2
  <1>2. CASE StartSend(t)
    <2>1. /\ pc[t] = "start_send" /\ goto(t, "start_set")
          /\ UNCHANGED <<inter_state, lasted, since_downlink>>
      BY <1>2 DEF StartSend, smVars, netVars
    <2>2. QED
      BY <1>t, <1>l, <2>1, GotoMaps DEF T!vars
  <1>3. CASE StartSet(t)
    <2>1. T!sets("LISTENING") /\ (goto(t, "stamp") \/ goto(t, "idle"))
      BY <1>3, SetMoves DEF StartSet, netVars
    <2>2. heard' = heard /\ released' = released
      BY <1>3, <1>t, <1>l, <2>1, GotoMaps DEF StartSet
    <2>3. QED
      BY <1>w, <2>1, <2>2 DEF T!Start, T!Next
  <1>4. CASE EndCheck(t)
    <2>1. /\ inter_state = "LISTENING" /\ goto(t, "end_drain")
          /\ UNCHANGED <<inter_state, lasted, since_downlink>>
      BY <1>4 DEF EndCheck, smVars, netVars
    <2>2. T!Release(t)
      BY <1>t, <1>w, <1>l, <2>1, GotoMaps DEF T!Release
    <2>3. QED
      BY <1>t, <2>2 DEF T!Next
  <1>5. CASE EndSend(t)
    <2>1. /\ pc[t] = "end_drain" /\ goto(t, "end_set")
          /\ UNCHANGED <<inter_state, lasted, since_downlink>>
      BY <1>5 DEF EndSend, smVars, netVars
    <2>2. QED
      BY <1>t, <1>l, <2>1, GotoMaps DEF T!vars
  <1>6. CASE EndSet(t)
    <2>1. T!sets("PROCESSING") /\ (goto(t, "stamp") \/ goto(t, "idle"))
      BY <1>6, SetMoves DEF EndSet, netVars
    <2>2. heard' = heard /\ released' = released \ {t} /\ t \in released
      BY <1>6, <1>t, <1>l, <2>1, GotoMaps DEF EndSet
    <2>3. T!Released(t)
      BY <1>w, <2>1, <2>2 DEF T!Released
    <2>4. QED
      BY <1>t, <2>3 DEF T!Next
  <1>7. CASE IdleSet(t)
    <2>1. T!sets("IDLE") /\ (goto(t, "stamp") \/ goto(t, "idle"))
      BY <1>7, SetMoves DEF IdleSet, netVars
    <2>2. heard' = heard /\ released' = released
      BY <1>7, <1>t, <1>l, <2>1, GotoMaps DEF IdleSet
    <2>3. QED
      BY <2>1, <2>2 DEF T!Finish, T!Next
  <1>8. CASE Stamp(t)
    <2>1. /\ pc[t] \in {"stamp", "reply_stamp"}
          /\ goto(t, "idle") \/ goto(t, "reply_forward")
          /\ UNCHANGED <<inter_state, lasted, since_downlink>>
      BY <1>8 DEF Stamp, netVars
    <2>2. QED
      BY <1>t, <1>l, <2>1, GotoMaps DEF T!vars
  <1>9. QED
    BY <1>1, <1>2, <1>3, <1>4, <1>5, <1>6, <1>7, <1>8 DEF TriggerTask

LEMMA WsRefines ==
    ASSUME IInv, HeardOK, WsTask
    PROVE  T!Next \/ UNCHANGED T!vars
  <1> USE DEF IInv, TypeOK, RangesOK
  <1>l. /\ {"idle", "idle_set", "stamp"} \subseteq Labels
        /\ {"reply_gate", "reply_set", "reply_stamp"} \subseteq Labels
        /\ "reply_forward" \in Labels
    BY DEF Labels
  <1>1. CASE Reply
    <2> DEFINE l == IF speaking_session_active THEN "reply_forward"
                    ELSE IF inter_state \in {"PROCESSING", "SPEAKING"}
                           THEN "reply_gate" ELSE "idle"
    <2>1. /\ pc["ws"] = "idle" /\ goto("ws", l) /\ since_downlink' = 0
          /\ UNCHANGED <<inter_state, lasted>>
      BY <1>1 DEF Reply, smVars
    <2>2. l \in Labels /\ heard = FALSE
      BY <1>l, <2>1 DEF heard
    <2>3. /\ l = "reply_gate" => heard' = TRUE
          /\ l # "reply_gate" => heard' = FALSE
          /\ released' = released
      BY <2>1, <2>2, WsGotoMaps
    <2>4. CASE l = "reply_gate"
      <3>1. inter_state \in {"PROCESSING", "SPEAKING"} /\ heard' = TRUE
        BY <2>3, <2>4
      <3>2. T!Answer
        BY <2>1, <2>2, <2>3, <3>1 DEF T!Answer
      <3>3. QED
        BY <3>2 DEF T!Next
    <2>5. CASE l # "reply_gate"
      <3>1. heard' = heard
        BY <2>2, <2>3, <2>5
      <3>2. T!Audio
        BY <2>1, <2>3, <3>1 DEF T!Audio
      <3>3. QED
        BY <3>2 DEF T!Next
    <2>6. QED
      BY <2>4, <2>5
  <1>2. CASE ReplyOpensSession
    <2>1. /\ heard = TRUE /\ goto("ws", "reply_set")
          /\ UNCHANGED <<inter_state, lasted, since_downlink>>
      BY <1>2 DEF ReplyOpensSession, smVars, heard
    <2>2. QED
      BY <1>l, <2>1, WsGotoMaps DEF T!vars
  <1>3. CASE ReplySet
    <2>1. /\ T!sets("SPEAKING") /\ heard
          /\ goto("ws", "reply_stamp") \/ goto("ws", "reply_forward")
      BY <1>3, SetMoves DEF ReplySet, netVars, heard
    <2>2. heard' = FALSE /\ released' = released
      BY <1>l, <2>1, WsGotoMaps
    <2>3. QED
      BY <2>1, <2>2 DEF HeardOK, T!Speak, T!Next
  <1>4. CASE ReplyForward \/ AudioStop \/ WsDropped \/ Stamp("ws")
    <2>1. /\ heard = FALSE
          /\ \/ goto("ws", "idle") \/ goto("ws", "idle_set")
             \/ goto("ws", "reply_forward")
          /\ UNCHANGED <<inter_state, lasted, since_downlink>>
      BY <1>4 DEF ReplyForward, AudioStop, WsDropped, Stamp, smVars, netVars,
                  heard
    <2>2. heard' = heard /\ released' = released
      BY <1>l, <2>1, WsGotoMaps
    <2>3. QED
      BY <2>1, <2>2 DEF T!vars
  <1>5. CASE IdleSet("ws")
    <2>1. /\ T!sets("IDLE") /\ heard = FALSE
          /\ goto("ws", "stamp") \/ goto("ws", "idle")
      BY <1>5, SetMoves DEF IdleSet, netVars, heard
    <2>2. heard' = heard /\ released' = released
      BY <1>l, <2>1, WsGotoMaps
    <2>3. QED
      BY <2>1, <2>2 DEF T!Finish, T!Next
  <1>6. QED
    BY <1>1, <1>2, <1>3, <1>4, <1>5 DEF WsTask

(* The watchdog ends a recording at its limit, or when its stamp is yet to *)
(* be written; a period passes only over a turn that is not overdue, for   *)
(* the watchdog has run since the last one.                                *)
LEMMA WatchdogRefines == IInv /\ Watchdog => T!Next \/ UNCHANGED T!vars
  <1> SUFFICES ASSUME IInv, Watchdog PROVE T!Next \/ UNCHANGED T!vars
    OBVIOUS
  <1>1. UNCHANGED <<heard, released, since_downlink>>
    BY DEF Watchdog, heard, released
  <1>2. CASE listenedTooLong
    <2>1. watchdogSets("PROCESSING") /\ inter_state = "LISTENING"
      BY <1>2 DEF Watchdog, listenedTooLong, waitedTooLong, streamDied
    <2>2. lasted = 0 \/ lasted > ListenMax
      BY <1>2 DEF IInv, StampOK, listenedTooLong
    <2>3. T!Cap
      BY <1>1, <2>1, <2>2 DEF watchdogSets, T!sets, T!Cap
    <2>4. QED
      BY <2>3 DEF T!Next
  <1>3. CASE ~listenedTooLong /\ (waitedTooLong \/ streamDied)
    <2>1. watchdogSets("IDLE")
      BY <1>3 DEF Watchdog
    <2>2. T!Finish
      BY <1>1, <2>1 DEF watchdogSets, T!sets, T!Finish
    <2>3. QED
      BY <2>2 DEF T!Next
  <1>4. CASE ~listenedTooLong /\ ~waitedTooLong /\ ~streamDied
    BY <1>1, <1>4 DEF Watchdog, smVars, T!vars
  <1>5. QED
    BY <1>2, <1>3, <1>4

LEMMA TickRefines == IInv /\ Tick => T!Next
  <1> SUFFICES ASSUME IInv, Tick PROVE T!Tick
    BY DEF T!Next
  <1>1. ~T!overdue
    BY DEF IInv, TypeOK, RangesOK, Ages, AgeOK, slack, Tick, T!overdue
  <1>2. ~heard /\ UNCHANGED <<heard, released, inter_state>>
    BY DEF Tick, heard, released, Tasks
  <1>3. QED
    BY <1>1, <1>2 DEF Tick, older, T!Tick, T!older

LEMMA StepRefines == IInv /\ HeardOK /\ [Next]_vars => [T!Next]_(T!vars)
  <1> SUFFICES ASSUME IInv, HeardOK, [Next]_vars
               PROVE  T!Next \/ UNCHANGED T!vars
    OBVIOUS
  <1>1. CASE \E t \in {"uart", "button"} : TriggerTask(t)
    BY <1>1, TriggerRefines
  <1>2. CASE WsTask
    BY <1>2, WsRefines
  <1>3. CASE Watchdog
    BY <1>3, WatchdogRefines
  <1>4. CASE Tick
    BY <1>4, TickRefines
  <1>5. CASE SpeakDone
    <2>1. /\ pc["uart"] = "idle" /\ goto("uart", "idle_set")
          /\ UNCHANGED <<inter_state, lasted, since_downlink>>
      BY <1>5 DEF SpeakDone, smVars
    <2>2. /\ "uart" \in Releasers /\ "idle_set" \in Labels
          /\ "uart" \notin released
      BY <2>1 DEF Releasers, Labels, released
    <2>3. QED
      BY <2>1, <2>2, GotoMaps DEF IInv, TypeOK, RangesOK, T!vars
  <1>6. CASE ConnectionMoves \/ S3Drains \/ S3Silenced \/ UNCHANGED vars
    BY <1>6 DEF ConnectionMoves, S3Drains, S3Silenced, smVars, netVars, vars,
                heard, released, T!vars
  <1>7. QED
    BY <1>1, <1>2, <1>3, <1>4, <1>5, <1>6 DEF Next

(* The races of three tasks and a timer implement a turn that is set at    *)
(* once, follows its contract and never overstays its limit (Turn).        *)
THEOREM TurnImplemented == Spec => ImplementsTurn
  <1>1. Init => T!Init
    BY DEF Init, T!Init, heard, released, Tasks, Releasers
  <1>2. SessionOK => HeardOK
    BY DEF SessionOK
  <1>3. QED
    BY <1>1, <1>2, StepRefines, AlwaysIInv, AlwaysSessionOK, PTL
    DEF Spec, ImplementsTurn, T!Spec

-----------------------------------------------------------------------------
answering  == inter_state \in {"PROCESSING", "SPEAKING"}
inReply(l) == l \in {"reply_gate", "reply_set", "reply_stamp",
                     "reply_forward"}

(* Where no race has come between, a session is of a turn that waits for   *)
(* its answer and that nobody is ending, and so is a piece on its way      *)
(* through the gate.                                                       *)
GateOK ==
    /\ gate # "leaked"
    /\ gate = "kept" =>
         /\ speaking_session_active
                => answering /\ \A t \in Tasks : pc[t] \notin ending
         /\ inReply(pc["ws"]) => answering

LEMMA InitGateOK == Init => GateOK
  BY DEF Init, GateOK, inReply, Tasks

(* The steps of the two lower tasks, which run while no piece is handled.  *)
LEMMA TriggerGateOK ==
    ASSUME IInv, GateOK, NEW t \in {"uart", "button"}, TriggerTask(t)
    PROVE  GateOK'
  <1> USE DEF IInv, TypeOK, RangesOK, GateOK, inReply, answering, ending,
              Labels
  <1>t. t \in Tasks /\ t # "ws" /\ "ws" \in Tasks
    BY DEF Tasks
  <1>1. CASE StartCheck(t)
    <2>1. CASE online
      <3>1. /\ goto(t, "start_send") /\ pc["ws"] = "idle"
            /\ speaking_session_active' = FALSE /\ gate' # "leaked"
        BY <1>1, <1>t, <2>1 DEF StartCheck, endReply, mayRun
      <3>2. pc'["ws"] = "idle"
        BY <1>t, <3>1, GotoType
      <3>3. QED
        BY <3>1, <3>2
    <2>2. CASE ~online
      BY <1>1, <2>2 DEF StartCheck, endReply, smVars
    <2>3. QED
      BY <2>1, <2>2
  <1>2. CASE StartSend(t) \/ EndCheck(t) \/ EndSend(t)
    <2>1. /\ UNCHANGED <<inter_state, speaking_session_active, gate>>
          /\ pc["ws"] = "idle"
          /\ \/ goto(t, "start_set") /\ pc[t] = "start_send"
             \/ goto(t, "end_drain") \/ goto(t, "end_set")
      BY <1>2, <1>t DEF StartSend, EndCheck, EndSend, mayRun, smVars, netVars
    <2>2. /\ pc'["ws"] = "idle"
          /\ \A u \in Tasks : pc'[u] \in ending => pc[u] \in ending
      BY <1>t, <2>1, GotoType
    <2>3. QED
      BY <2>1, <2>2
  <1>3. CASE StartSet(t) \/ IdleSet(t)
    <2>1. /\ pc[t] \in ending /\ pc["ws"] = "idle"
          /\ goto(t, "stamp") \/ goto(t, "idle")
          /\ UNCHANGED <<speaking_session_active, gate>>
      BY <1>3, <1>t DEF StartSet, IdleSet, setInteractionState, mayRun, netVars
    <2>2. pc'["ws"] = "idle"
      BY <1>t, <2>1, GotoType
    <2>3. QED
      BY <1>t, <2>1, <2>2
  <1>4. CASE EndSet(t)
    <2>1. /\ answering' /\ pc["ws"] = "idle"
          /\ goto(t, "stamp") \/ goto(t, "idle")
          /\ UNCHANGED <<speaking_session_active, gate>>
      BY <1>4, <1>t DEF EndSet, setInteractionState, mayRun, netVars, smVars
    <2>2. \A u \in Tasks : pc'[u] \in ending => pc[u] \in ending
      BY <1>t, <2>1, GotoType
    <2>3. QED
      BY <1>t, <2>1, <2>2
  <1>5. CASE Stamp(t)
    <2>1. /\ UNCHANGED <<inter_state, speaking_session_active, gate>>
          /\ pc["ws"] = "idle"
          /\ goto(t, "idle") \/ goto(t, "reply_forward")
      BY <1>5, <1>t DEF Stamp, mayRun, netVars
    <2>2. /\ pc'["ws"] = "idle"
          /\ \A u \in Tasks : pc'[u] \in ending => pc[u] \in ending
      BY <1>t, <2>1, GotoType
    <2>3. QED
      BY <2>1, <2>2
  <1>6. QED
    BY <1>1, <1>2, <1>3, <1>4, <1>5 DEF TriggerTask

(* The steps of the WebSocket task.                                        *)
LEMMA WsGateOK ==
    ASSUME IInv, GateOK, WsTask
    PROVE  GateOK'
  <1> USE DEF IInv, TypeOK, RangesOK, GateOK, inReply, answering, ending,
              Labels
  <1>t. "ws" \in Tasks
    BY DEF Tasks
  <1>1. CASE Reply
    <2> DEFINE l == IF speaking_session_active THEN "reply_forward"
                    ELSE IF answering THEN "reply_gate" ELSE "idle"
    <2>1. goto("ws", l) /\ l \in Labels \ ending
      BY <1>1 DEF Reply
    <2>2. /\ UNCHANGED <<inter_state, speaking_session_active, gate>>
          /\ pc'["ws"] = l
          /\ \A u \in Tasks : pc'[u] \in ending => pc[u] \in ending
      BY <1>1, <1>t, <2>1, GotoType DEF Reply, smVars
    <2>3. QED
      BY <2>2
  <1>2. CASE ReplyOpensSession
    <2>1. /\ goto("ws", "reply_set") /\ pc["ws"] = "reply_gate"
          /\ inter_state' = inter_state
          /\ gate' = IF gate = "kept" /\ \E u \in Tasks : pc[u] \in ending
                      THEN "raced" ELSE gate
      BY <1>2 DEF ReplyOpensSession, smVars
    <2>2. \A u \in Tasks : pc'[u] \in ending => pc[u] \in ending
      BY <1>t, <2>1, GotoType
    <2>3. QED
      BY <2>1, <2>2
  <1>3. CASE ReplySet
    <2>1. /\ answering' /\ UNCHANGED <<speaking_session_active, gate>>
          /\ goto("ws", "reply_stamp") \/ goto("ws", "reply_forward")
      BY <1>3 DEF ReplySet, setInteractionState, netVars, smVars
    <2>2. \A u \in Tasks : pc'[u] \in ending => pc[u] \in ending
      BY <1>t, <2>1, GotoType
    <2>3. QED
      BY <2>1, <2>2
  <1>4. CASE ReplyForward
    <2>1. /\ goto("ws", "idle") /\ pc["ws"] = "reply_forward"
          /\ UNCHANGED <<inter_state, speaking_session_active>>
          /\ gate' = gate \/ (~answering /\ gate = "kept")
      BY <1>4 DEF ReplyForward, smVars, netVars
    <2>2. /\ pc'["ws"] = "idle"
          /\ \A u \in Tasks : pc'[u] \in ending => pc[u] \in ending
      BY <1>t, <2>1, GotoType
    <2>3. QED
      BY <2>1, <2>2
  <1>5. CASE AudioStop \/ WsDropped
    <2>1. /\ speaking_session_active' = FALSE /\ gate' # "leaked"
          /\ goto("ws", "idle_set") \/ goto("ws", "idle")
      BY <1>5 DEF AudioStop, WsDropped, endReply
    <2>2. ~inReply(pc'["ws"])
      BY <1>t, <2>1, GotoType
    <2>3. QED
      BY <2>1, <2>2
  <1>6. CASE IdleSet("ws")
    <2>1. /\ pc["ws"] \in ending
          /\ goto("ws", "stamp") \/ goto("ws", "idle")
          /\ UNCHANGED <<speaking_session_active, gate>>
      BY <1>6 DEF IdleSet, setInteractionState, netVars
    <2>2. ~inReply(pc'["ws"])
      BY <1>t, <2>1, GotoType
    <2>3. QED
      BY <1>t, <2>1, <2>2
  <1>7. CASE Stamp("ws")
    <2>1. /\ UNCHANGED <<inter_state, speaking_session_active, gate>>
          /\ \/ pc["ws"] = "stamp" /\ goto("ws", "idle")
             \/ pc["ws"] = "reply_stamp" /\ goto("ws", "reply_forward")
      BY <1>7 DEF Stamp, netVars
    <2>2. /\ inReply(pc'["ws"]) => inReply(pc["ws"])
          /\ \A u \in Tasks : pc'[u] \in ending => pc[u] \in ending
      BY <1>t, <2>1, GotoType
    <2>3. QED
      BY <2>1, <2>2
  <1>8. QED
    BY <1>1, <1>2, <1>3, <1>4, <1>5, <1>6, <1>7 DEF WsTask

LEMMA NextGateOK == IInv /\ GateOK /\ [Next]_vars => GateOK'
  <1> SUFFICES ASSUME IInv, GateOK, [Next]_vars PROVE GateOK'
    OBVIOUS
  <1>1. CASE \E t \in {"uart", "button"} : TriggerTask(t)
    BY <1>1, TriggerGateOK
  <1>2. CASE WsTask
    BY <1>2, WsGateOK
  <1>3. CASE SpeakDone
    <2>1. /\ goto("uart", "idle_set") /\ pc["ws"] = "idle"
          /\ speaking_session_active' = FALSE /\ gate' # "leaked"
      BY <1>3 DEF SpeakDone, endReply, mayRun, GateOK
    <2>2. pc'["ws"] = "idle"
      BY <2>1, GotoType DEF IInv, TypeOK, RangesOK, Tasks, Labels
    <2>3. QED
      BY <2>1, <2>2 DEF GateOK, inReply
  <1>4. CASE Watchdog
    <2>1. CASE listenedTooLong
      BY <1>4, <2>1 DEF Watchdog, watchdogSets, listenedTooLong, smVars,
                        waitedTooLong, streamDied, GateOK, answering, inReply
    <2>2. CASE ~listenedTooLong /\ (waitedTooLong \/ streamDied)
      BY <1>4, <2>2 DEF Watchdog, GateOK, inReply
    <2>3. CASE ~listenedTooLong /\ ~waitedTooLong /\ ~streamDied
      BY <1>4, <2>3 DEF Watchdog, smVars, GateOK, answering, inReply
    <2>4. QED
      BY <2>1, <2>2, <2>3
  <1>5. CASE \/ ConnectionMoves \/ Tick \/ S3Drains \/ S3Silenced
             \/ UNCHANGED vars
    <2>1. UNCHANGED <<inter_state, speaking_session_active, gate, pc>>
      BY <1>5 DEF ConnectionMoves, Tick, S3Drains, S3Silenced, smVars,
                  netVars, vars
    <2>2. QED
      BY <2>1 DEF GateOK, answering, inReply
  <1>6. QED
    BY <1>1, <1>2, <1>3, <1>4, <1>5 DEF Next

(* Speech reaches the S3 only for a turn that waits for it, but for the    *)
(* one race, and that ends with the next reply (onBinary).                 *)
THEOREM GateAlwaysClosed == Spec => []GateClosed
  <1>1. GateOK => GateClosed
    BY DEF GateOK, GateClosed
  <1>2. QED
    BY <1>1, InitGateOK, NextGateOK, AlwaysIInv, PTL DEF Spec
=============================================================================
