------------------------- MODULE TurnMirrorProofs -------------------------
(***************************************************************************)
(* Why the S3's copy of the turn holds together, for any lengths of the    *)
(* queues and any number of wake words and mishaps: STARTs are paid for by *)
(* wake words, and AudioManager hears of every state from the task that    *)
(* set it.  And why a turn that is taken up over no remains of a reply     *)
(* hears no SPEAK_DONE but its own: every trace of a reply, down to that   *)
(* frame, comes from another or from the C5 in SPEAKING.                   *)
(***************************************************************************)
EXTENDS TurnMirror, FiniteSetTheorems, SequenceTheorems, TLAPS

(* A wake word on its way to the START it is answered with: as the task    *)
(* that heard it, as messages in the controller's queue, as the message    *)
(* the controller is at.                                                   *)
Wakes(m)   == "inter" \in DOMAIN m /\ m.inter = "LISTENING" /\ m.src = "WAKEWORD"
Waiting(q) == Cardinality({i \in DOMAIN q : Wakes(q[i])})
Hearing    == IF resting("wake") THEN 0 ELSE 1
AtHand     == IF Wakes(taken) THEN 1 ELSE 0

PaidFor ==
    /\ owed \in Int /\ owed >= Hearing + Waiting(queue) + AtHand
    /\ \A t \in S3Tasks \ {"wake"} : ~resting(t) => task[t].src # "WAKEWORD"

(* AudioManager is told of every state by the task that set it.  While no  *)
(* task is about to, it does what the state says, or it has been silenced  *)
(* by a task that is about to leave the state.                             *)
Agrees   == listening = (s3 = "LISTENING") /\ speaking = (s3 = "SPEAKING")
Silenced == /\ ~listening /\ ~speaking
            /\ \/ task["ctrl"].at = "set"
               \/ /\ s3 = "SPEAKING" /\ task["uart"].at = "set"
                  /\ task["uart"].st = "LISTENING"

Told ==
    /\ ~misled => ~(listening /\ speaking)
    /\ ~resting("ctrl") => task["ctrl"].st = "IDLE"
    /\ ~misled /\ (\A t \in S3Tasks : task[t].at # "tell") => Agrees \/ Silenced

IInv == TypeOK /\ PaidFor /\ Told

-----------------------------------------------------------------------------
(* The bounds of MirrorBounds one by one.                                  *)
LEMMA Bounds ==
    /\ StatusDepth \in Nat \ {0} /\ Depth \in Nat \ {0} /\ Line \in Nat \ {0}
    /\ MaxWakes \in Nat /\ MaxUpsets \in Nat
  BY MirrorBounds

USE Bounds

(* The parts of the type invariant, by the variables they are about.       *)
FlagsOK == {silent, c5_online, audio, s3_online, aged, prev_speaking,
            listening, speaking, misled, crossed} \subseteq BOOLEAN
C5OK    == c5 \in Turns
DownOK  == down \in Seq(Status) /\ Len(down) <= StatusDepth
UpOK    == up \in Seq({"START", "SPEAK_DONE"}) /\ Len(up) <= Line
S3OK    == s3 \in Turns /\ s3_src \in Sources
TaskOK  == task \in [S3Tasks -> Work \union {Resting}]
QueueOK == /\ queue \in Seq(Message) /\ Len(queue) <= Depth
           /\ taken \in Message \union {None}

(* TypeOK in parts, by the actions that write them.                        *)
LEMMA TypeParts ==
    TypeOK <=> FlagsOK /\ C5OK /\ DownOK /\ UpOK /\ S3OK /\ TaskOK /\ QueueOK
  BY Zenon DEF TypeOK, FlagsOK, C5OK, DownOK, UpOK, S3OK, TaskOK, QueueOK

-----------------------------------------------------------------------------
(* Sequences, and the wake words waiting in one.                           *)
LEMMA EmptyLen ==
    ASSUME NEW S, NEW q \in Seq(S)
    PROVE  Len(q) \in Nat /\ DOMAIN q = 1 .. Len(q) /\ (q = <<>> <=> Len(q) = 0)
  BY EmptySeq, LenProperties

(* What taking from the front of a queue leaves.                           *)
LEMMA TailSeq ==
    ASSUME NEW S, NEW q \in Seq(S), q # <<>>
    PROVE  /\ Tail(q) \in Seq(S) /\ Len(Tail(q)) = Len(q) - 1
           /\ Len(q) \in Nat \ {0}
           /\ \A i \in 1 .. Len(q) - 1 : Tail(q)[i] = q[i + 1]
           /\ Head(q) = q[1] /\ Head(q) \in S
  <1>1. /\ Tail(q) \in Seq(S) /\ Len(Tail(q)) = Len(q) - 1
        /\ \A i \in 1 .. Len(q) - 1 : Tail(q)[i] = q[i + 1]
        /\ Head(q) \in S
    BY HeadTailProperties
  <1>2. Len(q) \in Nat \ {0}
    BY EmptyLen
  <1>3. Head(q) = q[1]
    BY <1>2
  <1>4. QED
    BY <1>1, <1>2, <1>3

(* A queue that is full refuses the message.                               *)
LEMMA PostedSeq ==
    ASSUME NEW S, NEW q \in Seq(S), NEW m \in S, NEW d \in Nat, Len(q) <= d
    PROVE  posted(q, d, m) \in Seq(S) /\ Len(posted(q, d, m)) <= d
  <1>1. Append(q, m) \in Seq(S) /\ Len(Append(q, m)) = Len(q) + 1 /\ Len(q) \in Nat
    BY AppendProperties, EmptyLen
  <1>2. CASE Len(q) < d
    BY <1>1, <1>2 DEF posted
  <1>3. CASE ~(Len(q) < d)
    BY <1>3 DEF posted
  <1>4. QED
    BY <1>2, <1>3

Spots(q) == {i \in DOMAIN q : Wakes(q[i])}

(* The wake words in a queue can be counted.                               *)
LEMMA SpotsFinite ==
    ASSUME NEW q \in Seq(Message)
    PROVE  /\ IsFiniteSet(Spots(q)) /\ Waiting(q) = Cardinality(Spots(q))
           /\ Waiting(q) \in Nat
  <1>1. Spots(q) \subseteq 1 .. Len(q) /\ Len(q) \in Nat
    BY EmptyLen DEF Spots
  <1>2. IsFiniteSet(Spots(q))
    <2>1. IsFiniteSet(1 .. Len(q))
      BY <1>1, FS_Interval
    <2>2. Spots(q) \in SUBSET (1 .. Len(q))
      BY <1>1
    <2>3. QED
      BY <2>1, <2>2, FS_Subset
  <1>3. QED
    BY <1>2, FS_CardinalityType DEF Waiting, Spots

(* None wait in an empty queue.                                            *)
LEMMA WaitingEmpty == Waiting(<<>>) = 0
  <1>1. Spots(<<>>) = {}
    BY DEF Spots
  <1>2. QED
    BY <1>1, FS_EmptySet DEF Waiting, Spots

(* A message that is queued adds itself.                                   *)
LEMMA WaitingAppend ==
    ASSUME NEW q \in Seq(Message), NEW m \in Message
    PROVE  Waiting(Append(q, m)) = Waiting(q) + (IF Wakes(m) THEN 1 ELSE 0)
  <1> DEFINE w == Append(q, m)
             n == Len(q)
  <1>1. /\ w \in Seq(Message) /\ Len(w) = n + 1 /\ w[n + 1] = m
        /\ \A i \in 1 .. n : w[i] = q[i]
        /\ n \in Nat /\ DOMAIN q = 1 .. n /\ DOMAIN w = 1 .. Len(w)
    BY AppendProperties, EmptyLen
  <1>2. /\ IsFiniteSet(Spots(q)) /\ Waiting(q) = Cardinality(Spots(q))
        /\ Waiting(w) = Cardinality(Spots(w)) /\ Waiting(q) \in Nat
    BY <1>1, SpotsFinite
  <1> HIDE DEF w, n
  <1>3. n + 1 \notin Spots(q)
    BY <1>1 DEF Spots
  <1>4. CASE Wakes(m)
    <2>1. Spots(w) = Spots(q) \union {n + 1}
      BY <1>1, <1>4 DEF Spots
    <2>2. QED
      BY <1>2, <1>3, <1>4, <2>1, FS_AddElement, ZenonT(30) DEF w
  <1>5. CASE ~Wakes(m)
    <2>1. Spots(w) = Spots(q)
      BY <1>1, <1>5 DEF Spots
    <2>2. QED
      BY <1>2, <1>5, <2>1 DEF w
  <1>6. QED
    BY <1>4, <1>5

(* A message that is taken was counted.                                    *)
LEMMA WaitingTail ==
    ASSUME NEW q \in Seq(Message), q # <<>>
    PROVE  Waiting(q) = Waiting(Tail(q)) + (IF Wakes(Head(q)) THEN 1 ELSE 0)
  <1> DEFINE w == Tail(q)
             n == Len(q)
             f == [i \in Spots(w) |-> i + 1]
             T == Spots(q) \ {1}
  <1>1. /\ w \in Seq(Message) /\ Len(w) = n - 1 /\ n \in Nat \ {0}
        /\ \A i \in 1 .. n - 1 : w[i] = q[i + 1]
        /\ Head(q) = q[1]
    BY TailSeq
  <1>2. DOMAIN q = 1 .. n /\ DOMAIN w = 1 .. n - 1
    BY <1>1, EmptyLen
  <1>3. /\ IsFiniteSet(Spots(q)) /\ Waiting(q) = Cardinality(Spots(q))
        /\ IsFiniteSet(Spots(w)) /\ Waiting(w) = Cardinality(Spots(w))
        /\ Waiting(q) \in Nat /\ Waiting(w) \in Nat
    BY <1>1, SpotsFinite
  <1> HIDE DEF w, n
  <1>4. Spots(w) \subseteq 1 .. n - 1
    BY <1>2 DEF Spots
  <1>5. \A i \in 1 .. n - 1 : i \in Spots(w) <=> i + 1 \in Spots(q)
    BY <1>1, <1>2 DEF Spots
  <1>6. \A j \in T : j - 1 \in Spots(w) /\ (j - 1) + 1 = j
    <2> SUFFICES ASSUME NEW j \in T PROVE j - 1 \in Spots(w) /\ (j - 1) + 1 = j
      OBVIOUS
    <2>1. j \in 2 .. n
      BY <1>2 DEF Spots
    <2>2. j - 1 \in 1 .. n - 1 /\ (j - 1) + 1 = j
      BY <1>1, <2>1
    <2>3. QED
      BY <1>5, <2>2
  <1>7. f \in [Spots(w) -> T]
    <2>1. \A i \in Spots(w) : i + 1 \in T
      BY <1>4, <1>5, <1>1
    <2>2. QED
      BY <2>1
  <1>8. \A i, j \in Spots(w) : f[i] = f[j] => i = j
    BY <1>4, <1>1
  <1>9. \A j \in T : \E i \in Spots(w) : f[i] = j
    BY <1>6
  <1>10. f \in Bijection(Spots(w), T)
    <2> HIDE DEF f, T
    <2>1. f \in Injection(Spots(w), T)
      BY <1>7, <1>8 DEF Injection, IsInjective
    <2>2. f \in Surjection(Spots(w), T)
      BY <1>7, <1>9 DEF Surjection
    <2>3. QED
      BY <2>1, <2>2 DEF Bijection
  <1>11. Cardinality(T) = Cardinality(Spots(w))
    BY <1>3, <1>10, FS_Bijection DEF ExistsBijection
  <1> HIDE DEF f
  <1>12. 1 \in Spots(q) <=> Wakes(Head(q))
    BY <1>1, <1>2 DEF Spots
  <1>13. Cardinality(T) = IF 1 \in Spots(q) THEN Cardinality(Spots(q)) - 1
                                            ELSE Cardinality(Spots(q))
    BY <1>3, FS_RemoveElement
  <1>14. QED
    BY <1>3, <1>11, <1>12, <1>13 DEF w

-----------------------------------------------------------------------------
(* The operations, one by one.                                             *)
LEMMA TaskFacts ==
    ASSUME TaskOK, NEW t \in S3Tasks
    PROVE  /\ resting(t) <=> task[t].at = "rest"
           /\ ~resting(t) => /\ task[t] \in Work /\ task[t].at \in {"set", "tell"}
                             /\ task[t].st \in Turns /\ task[t].src \in Sources
  <1>1. task[t] \in Work \/ task[t] = Resting
    BY DEF TaskOK
  <1>2. \A w \in Work : /\ w.at \in {"set", "tell"} /\ w.st \in Turns
                        /\ w.src \in Sources
    BY DEF Work
  <1>3. Resting.at = "rest"
    BY DEF Resting
  <1>4. QED
    BY <1>1, <1>2, <1>3 DEF resting

(* A task about to set a state changes nothing else.                       *)
LEMMA WillSetFacts ==
    ASSUME TaskOK, NEW t \in S3Tasks, NEW st \in Turns, NEW src \in Sources,
           willSet(t, st, src)
    PROVE  /\ TaskOK'
           /\ \A u \in S3Tasks \ {t} : task'[u] = task[u]
           /\ task'[t].at = "set" /\ task'[t].st = st /\ task'[t].src = src
  <1> DEFINE w == [at |-> "set", st |-> st, src |-> src]
  <1>1. w \in Work
    BY DEF Work
  <1>2. w.at = "set" /\ w.st = st /\ w.src = src
    OBVIOUS
  <1>3. task' = [task EXCEPT ![t] = w]
    BY DEF willSet
  <1> HIDE DEF w
  <1>4. QED
    BY <1>1, <1>2, <1>3 DEF TaskOK

(* A task that is done leaves the others where they are.                   *)
LEMMA RestsFacts ==
    ASSUME TaskOK, NEW t \in S3Tasks, task' = [task EXCEPT ![t] = Resting]
    PROVE  /\ TaskOK' /\ resting(t)'
           /\ \A u \in S3Tasks \ {t} : task'[u] = task[u]
  BY DEF TaskOK, resting

(* Setting a state: nothing if it is that state already.                   *)
LEMMA SetFacts ==
    ASSUME TaskOK, NEW t \in S3Tasks, Set(t)
    PROVE  /\ TaskOK' /\ ~resting(t) /\ task[t].at = "set"
           /\ \A u \in S3Tasks \ {t} : task'[u] = task[u]
           /\ \/ s3 = task[t].st /\ s3' = s3 /\ s3_src' = s3_src /\ resting(t)'
              \/ /\ s3' = task[t].st /\ s3_src' = task[t].src
                 /\ task'[t].at = "tell" /\ task'[t].st = task[t].st
                 /\ task'[t].src = task[t].src
  <1>1. task[t].at = "set"
    BY DEF Set
  <1>2. ~resting(t) /\ task[t] \in Work
    BY <1>1, TaskFacts
  <1>3. CASE s3 = task[t].st /\ s3_src = task[t].src
    BY <1>1, <1>2, <1>3, RestsFacts DEF Set, smVars
  <1>4. CASE ~(s3 = task[t].st /\ s3_src = task[t].src)
    <2>1. /\ s3' = task[t].st /\ s3_src' = task[t].src
          /\ task' = [task EXCEPT ![t].at = "tell"]
      BY <1>4 DEF Set
    <2>2. PICK w \in Work : task[t] = w
      BY <1>2
    <2>3. task' = [task EXCEPT ![t] = [w EXCEPT !.at = "tell"]]
      BY <2>1, <2>2
    <2>4. /\ [w EXCEPT !.at = "tell"] \in Work
          /\ [w EXCEPT !.at = "tell"].at = "tell"
          /\ [w EXCEPT !.at = "tell"].st = w.st
          /\ [w EXCEPT !.at = "tell"].src = w.src
      BY DEF Work
    <2>5. QED
      BY <1>1, <1>2, <2>1, <2>2, <2>3, <2>4 DEF TaskOK
  <1>5. QED
    BY <1>3, <1>4

(* A callback ends the task's work.                                        *)
LEMMA TellFacts ==
    ASSUME TaskOK, NEW t \in S3Tasks, Tell(t)
    PROVE  /\ TaskOK' /\ ~resting(t) /\ resting(t)' /\ task[t].at = "tell"
           /\ task[t].st \in Turns /\ task[t].src \in Sources
           /\ \A u \in S3Tasks \ {t} : task'[u] = task[u]
  <1>1. task[t].at = "tell" /\ task' = [task EXCEPT ![t] = Resting]
    BY DEF Tell
  <1>2. QED
    BY <1>1, TaskFacts, RestsFacts

(* Which messages are wake words.                                          *)
LEMMA MessageFacts ==
    /\ \A st \in Turns, src \in Sources : [inter |-> st, src |-> src] \in Message
    /\ \A b \in BOOLEAN : [online |-> b] \in Message
    /\ \A st \in Turns, src \in Sources :
           Wakes([inter |-> st, src |-> src]) <=> st = "LISTENING" /\ src = "WAKEWORD"
    /\ \A b \in BOOLEAN : ~Wakes([online |-> b])
    /\ ~Wakes(None) /\ "inter" \notin DOMAIN None /\ "online" \notin DOMAIN None
  BY DEF Message, Wakes, None

(* A status names a turn and says whether the C5 is online.                *)
LEMMA StatusFacts ==
    ASSUME C5OK, FlagsOK, NEW m \in Status
    PROVE  status(m).inter \in Turns /\ status(m).online \in BOOLEAN
  <1>1. c5 \in Turns /\ c5_online \in BOOLEAN
    BY Zenon DEF C5OK, FlagsOK
  <1>2. "inter" \in DOMAIN m => m.inter \in Turns
    BY DEF Status
  <1>3. "online" \in DOMAIN m => m.online \in BOOLEAN
    BY DEF Status
  <1>4. QED
    BY <1>1, <1>2, <1>3 DEF status

(* What a status does to the queue and to the UART task.                   *)
LEMMA StatusUpdateFacts ==
    ASSUME C5OK, FlagsOK, DownOK, TaskOK, StatusUpdate
    PROVE  /\ DownOK' /\ TaskOK' /\ s3_online' \in BOOLEAN /\ resting("uart")
           /\ queue' \in {queue, posted(queue, Depth, [online |-> s3_online'])}
           /\ \A u \in S3Tasks \ {"uart"} : task'[u] = task[u]
           /\ \/ UNCHANGED task
              \/ task'["uart"].at = "set" /\ task'["uart"].src = "UNKNOWN"
           /\ \/ UNCHANGED speaking
              \/ /\ speaking' = FALSE /\ s3 = "SPEAKING"
                 /\ task'["uart"].at = "set" /\ task'["uart"].st = "LISTENING"
           /\ UNCHANGED <<s3, taken, listening, misled, owed>>
  <1> DEFINE m == status(Head(down))
  <1>1. /\ down # <<>> /\ down' = Tail(down) /\ resting("uart")
        /\ s3_online' = m.online
        /\ queue' = IF m.online = s3_online
                      THEN queue ELSE posted(queue, Depth, [online |-> m.online])
        /\ IF mirrored(m.inter, s3) THEN mirrors(m.inter) ELSE UNCHANGED task
        /\ speaking' = (speaking /\ ~(m.inter = "LISTENING" /\ s3 = "SPEAKING"))
        /\ UNCHANGED <<s3, taken, listening, misled, owed>>
    BY DEF StatusUpdate, smVars, counters
  <1>2. /\ Head(down) \in Status /\ Tail(down) \in Seq(Status)
        /\ Len(Tail(down)) <= StatusDepth
    BY <1>1, TailSeq DEF DownOK
  <1>3. m.inter \in Turns /\ m.online \in BOOLEAN
    BY <1>2, StatusFacts
  <1>4. speaking \in BOOLEAN
    BY Zenon DEF FlagsOK
  <1> HIDE DEF m
  <1>5. DownOK'
    BY <1>1, <1>2 DEF DownOK
  <1>6. "uart" \in S3Tasks /\ "UNKNOWN" \in Sources
    BY DEF S3Tasks, Sources
  <1>7. mirrored(m.inter, s3) =>
           /\ TaskOK' /\ \A u \in S3Tasks \ {"uart"} : task'[u] = task[u]
           /\ task'["uart"].at = "set" /\ task'["uart"].src = "UNKNOWN"
           /\ task'["uart"].st = m.inter
    BY <1>1, <1>3, <1>6, WillSetFacts DEF mirrors
  <1>8. ~mirrored(m.inter, s3) => UNCHANGED task
    BY <1>1
  <1>9. m.inter = "LISTENING" /\ s3 = "SPEAKING" => mirrored(m.inter, s3)
    BY DEF mirrored
  <1>10. CASE m.inter = "LISTENING" /\ s3 = "SPEAKING"
    <2>1. speaking' = FALSE
      BY <1>1, <1>10
    <2>2. QED
      BY <1>1, <1>3, <1>5, <1>7, <1>9, <1>10, <2>1
  <1>11. CASE ~(m.inter = "LISTENING" /\ s3 = "SPEAKING")
    <2>1. speaking' = speaking
      BY <1>1, <1>4, <1>11, Zenon
    <2>2. TaskOK' /\ \A u \in S3Tasks \ {"uart"} : task'[u] = task[u]
      BY <1>7, <1>8 DEF TaskOK
    <2>3. QED
      BY <1>1, <1>3, <1>5, <1>7, <1>8, <2>1, <2>2
  <1>12. QED
    BY <1>10, <1>11

-----------------------------------------------------------------------------
(* The C5's steps and the wire's leave the S3 alone.                       *)
C5Step == \/ C5Moves \/ C5Ends \/ C5Forwards \/ C5ConnMoves \/ Heartbeat
          \/ C5Receives \/ LineNoise \/ C5Resets \/ C5FallsSilent
C5Step_S3 == UNCHANGED <<s3Vars, owed>>

(* No step of the C5 touches the S3.                                       *)
LEMMA C5StepLeaves == C5Step => C5Step_S3
  BY DEF C5Step, C5Step_S3, C5Moves, C5Ends, C5Forwards, C5ConnMoves, Heartbeat,
         C5Receives, LineNoise, C5Resets, C5FallsSilent, counters

(* The controller is at the message it was held up at, or at the next.     *)
LEMMA HandleFacts ==
    ASSUME QueueOK, NEW m, Handle(m),
           m \in {taken} \union {queue[i] : i \in DOMAIN queue}
    PROVE  /\ m \in Message \union {None} /\ QueueOK' /\ resting("ctrl")
           /\ \/ taken = m /\ taken' = None /\ queue' = queue
              \/ taken = None /\ taken' = taken /\ queue # <<>> /\ m = Head(queue)
                 /\ queue' = Tail(queue)
  <1>1. queue # <<>> => /\ Tail(queue) \in Seq(Message) /\ Len(Tail(queue)) <= Depth
                        /\ Head(queue) \in Message
    BY TailSeq DEF QueueOK
  <1>2. \/ taken = m /\ taken' = None /\ queue' = queue
        \/ taken = None /\ taken' = taken /\ queue # <<>> /\ m = Head(queue)
           /\ queue' = Tail(queue)
    BY DEF Handle
  <1>3. resting("ctrl")
    BY DEF Handle
  <1>4. QED
    BY <1>1, <1>2, <1>3 DEF QueueOK

(* The S3's watchdog only ever sets IDLE.                                  *)
LEMMA WatchdogFacts ==
    ASSUME QueueOK, TaskOK, WatchdogFires
    PROVE  /\ QueueOK' /\ TaskOK' /\ resting("ctrl") /\ taken = None
           /\ \/ queue # <<>> /\ taken' = Head(queue) /\ queue' = Tail(queue)
              \/ queue' = queue /\ taken' = taken
           /\ \A u \in S3Tasks \ {"ctrl"} : task'[u] = task[u]
           /\ task'["ctrl"].at = "set" /\ task'["ctrl"].st = "IDLE"
           /\ task'["ctrl"].src = "SYSTEM"
           /\ listening' = FALSE /\ speaking' = FALSE /\ misled' = FALSE
           /\ UNCHANGED <<s3, owed>>
  <1>1. queue # <<>> => /\ Tail(queue) \in Seq(Message) /\ Len(Tail(queue)) <= Depth
                        /\ Head(queue) \in Message
    BY TailSeq DEF QueueOK
  <1>2. /\ resting("ctrl") /\ taken = None
        /\ \/ queue # <<>> /\ taken' = Head(queue) /\ queue' = Tail(queue)
           \/ queue' = queue /\ taken' = taken
        /\ willSet("ctrl", "IDLE", "SYSTEM")
        /\ listening' = FALSE /\ speaking' = FALSE /\ misled' = FALSE
        /\ UNCHANGED <<s3, owed>>
    BY DEF WatchdogFires, smVars, counters
  <1>3. "ctrl" \in S3Tasks /\ "IDLE" \in Turns /\ "SYSTEM" \in Sources
    BY DEF S3Tasks, Turns, Sources
  <1>4. /\ TaskOK' /\ \A u \in S3Tasks \ {"ctrl"} : task'[u] = task[u]
        /\ task'["ctrl"].at = "set" /\ task'["ctrl"].st = "IDLE"
        /\ task'["ctrl"].src = "SYSTEM"
    BY <1>2, <1>3, WillSetFacts
  <1>5. QueueOK'
    BY <1>1, <1>2 DEF QueueOK
  <1>6. QED
    BY <1>2, <1>4, <1>5

(* Going offline silences the S3 or sets IDLE.                             *)
LEMMA ConnectivityFacts ==
    ASSUME TaskOK, NEW m, OnConnectivity(m)
    PROVE  /\ Handle(m) /\ "online" \in DOMAIN m /\ TaskOK' /\ UNCHANGED <<s3, owed>>
           /\ \A u \in S3Tasks \ {"ctrl"} : task'[u] = task[u]
           /\ \/ UNCHANGED <<task, listening, speaking, misled>>
              \/ /\ task'["ctrl"].at = "set" /\ task'["ctrl"].st = "IDLE"
                 /\ task'["ctrl"].src = "UNKNOWN"
                 /\ listening' = FALSE /\ speaking' = FALSE /\ misled' = FALSE
  <1>1. "ctrl" \in S3Tasks /\ "IDLE" \in Turns /\ "UNKNOWN" \in Sources
    BY DEF S3Tasks, Turns, Sources
  <1>2. /\ Handle(m) /\ "online" \in DOMAIN m /\ UNCHANGED <<s3, owed>>
        /\ \/ UNCHANGED <<task, listening, speaking, misled>>
           \/ /\ willSet("ctrl", "IDLE", "UNKNOWN")
              /\ listening' = FALSE /\ speaking' = FALSE /\ misled' = FALSE
    BY DEF OnConnectivity, amVars, smVars, counters
  <1>3. CASE UNCHANGED <<task, listening, speaking, misled>>
    BY <1>2, <1>3 DEF TaskOK
  <1>4. CASE /\ willSet("ctrl", "IDLE", "UNKNOWN")
             /\ listening' = FALSE /\ speaking' = FALSE /\ misled' = FALSE
    <2>1. /\ TaskOK' /\ \A u \in S3Tasks \ {"ctrl"} : task'[u] = task[u]
          /\ task'["ctrl"].at = "set" /\ task'["ctrl"].st = "IDLE"
          /\ task'["ctrl"].src = "UNKNOWN"
      BY <1>1, <1>4, WillSetFacts
    <2>2. QED
      BY <1>2, <1>4, <2>1
  <1>5. QED
    BY <1>2, <1>3, <1>4

(* Audio, a wake word, the end of the sound: a task is about to set.       *)
Hears == AudioDownlink \/ WakeWord \/ PlaybackEnds

(* What a wake word, a piece of audio and the end of playback start.       *)
LEMMA HearsFacts ==
    ASSUME TaskOK, Hears
    PROVE  /\ TaskOK' /\ UNCHANGED <<queue, taken, s3, s3_src, listening, speaking, misled>>
           /\ \/ UNCHANGED <<task, owed>>
              \/ /\ WakeWord /\ resting("wake") /\ owed' = owed + 1
                 /\ task'["wake"].at = "set"
                 /\ \A u \in S3Tasks \ {"wake"} : task'[u] = task[u]
              \/ \E t \in {"spi", "recv"} :
                    /\ resting(t) /\ task'[t].at = "set" /\ task'[t].src # "WAKEWORD"
                    /\ \A u \in S3Tasks \ {t} : task'[u] = task[u]
                    /\ UNCHANGED owed
  <1> USE DEF smVars, ctrlVars, amVars, counters
  <1>1. /\ {"spi", "recv", "wake"} \subseteq S3Tasks
        /\ {"SPEAKING", "LISTENING", "IDLE"} \subseteq Turns
        /\ {"SERVER_COMMAND", "WAKEWORD", "UNKNOWN"} \subseteq Sources
    BY DEF S3Tasks, Turns, Sources
  <1>2. CASE AudioDownlink
    <2>1. /\ UNCHANGED <<queue, taken, s3, s3_src, listening, speaking, misled, owed>>
          /\ resting("spi")
          /\ willSet("spi", "SPEAKING", "SERVER_COMMAND") \/ UNCHANGED task
      BY <1>2 DEF AudioDownlink
    <2>2. CASE UNCHANGED task
      BY <2>1, <2>2 DEF TaskOK
    <2>3. CASE willSet("spi", "SPEAKING", "SERVER_COMMAND")
      <3>1. /\ TaskOK' /\ \A u \in S3Tasks \ {"spi"} : task'[u] = task[u]
            /\ task'["spi"].at = "set" /\ task'["spi"].src = "SERVER_COMMAND"
        BY <1>1, <2>3, WillSetFacts
      <3>2. QED
        BY <2>1, <3>1
    <2>4. QED
      BY <2>1, <2>2, <2>3
  <1>3. CASE WakeWord
    <2>1. /\ UNCHANGED <<queue, taken, s3, s3_src, listening, speaking, misled>>
          /\ resting("wake") /\ owed' = owed + 1
          /\ willSet("wake", "LISTENING", "WAKEWORD")
      BY <1>3 DEF WakeWord
    <2>2. /\ TaskOK' /\ \A u \in S3Tasks \ {"wake"} : task'[u] = task[u]
          /\ task'["wake"].at = "set"
      BY <1>1, <2>1, WillSetFacts
    <2>3. QED
      BY <1>3, <2>1, <2>2
  <1>4. CASE PlaybackEnds
    <2>1. /\ UNCHANGED <<queue, taken, s3, s3_src, listening, speaking, misled, owed>>
          /\ resting("recv") /\ willSet("recv", "IDLE", "UNKNOWN")
      BY <1>4 DEF PlaybackEnds
    <2>2. /\ TaskOK' /\ \A u \in S3Tasks \ {"recv"} : task'[u] = task[u]
          /\ task'["recv"].at = "set" /\ task'["recv"].src = "UNKNOWN"
      BY <1>1, <2>1, WillSetFacts
    <2>3. QED
      BY <2>1, <2>2
  <1>5. QED
    BY <1>2, <1>3, <1>4 DEF Hears

-----------------------------------------------------------------------------
(* At boot both chips are in IDLE and nothing is on the line.              *)
LEMMA InitIInv == Init => IInv
  <1> SUFFICES ASSUME Init PROVE IInv
    OBVIOUS
  <1>1. FlagsOK
    BY Zenon DEF Init, FlagsOK
  <1>2. C5OK /\ S3OK
    BY DEF Init, C5OK, S3OK, Turns, Sources
  <1>3. DownOK /\ UpOK /\ QueueOK
    BY EmptySeq DEF Init, DownOK, UpOK, QueueOK
  <1>4. TaskOK /\ \A t \in S3Tasks : task[t] = Resting
    BY DEF Init, TaskOK
  <1>5. resting("wake") /\ resting("ctrl") /\ task["ctrl"] = Resting
    BY <1>4 DEF resting, S3Tasks
  <1>6. PaidFor
    <2>1. Hearing = 0 /\ AtHand = 0
      BY <1>5, MessageFacts DEF Hearing, AtHand, Init
    <2>2. owed = 0 /\ Waiting(queue) = 0
      BY WaitingEmpty DEF Init
    <2>3. \A t \in S3Tasks : resting(t)
      BY <1>4 DEF resting
    <2>4. QED
      BY <2>1, <2>2, <2>3 DEF PaidFor
  <1>7. Told
    <2>1. listening = FALSE /\ speaking = FALSE /\ s3 = "IDLE"
      BY DEF Init
    <2>2. Agrees
      BY <2>1 DEF Agrees
    <2>3. QED
      BY <1>5, <2>1, <2>2 DEF Told
  <1>8. QED
    BY <1>1, <1>2, <1>3, <1>4, <1>6, <1>7, TypeParts DEF IInv

(* No step takes a flag out of its range.                                  *)
LEMMA NextFlagsOK ==
    FlagsOK /\ C5OK /\ DownOK /\ TaskOK /\ QueueOK /\ [Next]_vars => FlagsOK'
  <1> SUFFICES ASSUME FlagsOK, C5OK, DownOK, TaskOK, QueueOK, [Next]_vars PROVE FlagsOK'
    OBVIOUS
  <1> USE DEF c5Vars, wireVars, smVars, ctrlVars, amVars, s3Vars, counters
  <1>1. CASE \/ C5Moves \/ C5Ends \/ C5Forwards \/ Heartbeat \/ C5Receives
             \/ LineNoise \/ C5FallsSilent
    <2>1. ASSUME NEW to, C5Sets(to) PROVE crossed' \in BOOLEAN
      BY <2>1, Zenon DEF C5Sets
    <2>2. CASE C5Moves
      BY <2>1, <2>2, Zenon DEF C5Moves, FlagsOK
    <2>3. CASE C5Ends \/ C5Receives
      BY <2>1, <2>3, Zenon DEF C5Ends, C5Receives, FlagsOK
    <2>4. CASE C5Forwards \/ Heartbeat \/ LineNoise \/ C5FallsSilent
      BY <2>4, Zenon
         DEF C5Forwards, Heartbeat, LineNoise, C5FallsSilent, FlagsOK
    <2>5. QED
      BY <1>1, <2>2, <2>3, <2>4
  <1>2. CASE C5ConnMoves
    <2>1. c5_online' \in BOOLEAN
      BY <1>2, Zenon DEF C5ConnMoves
    <2>2. QED
      BY <1>2, <2>1, Zenon DEF C5ConnMoves, FlagsOK
  <1>3. CASE C5Resets \/ S3Resets
    BY <1>3, Zenon DEF C5Resets, S3Resets, FlagsOK
  <1>4. ASSUME NEW t \in S3Tasks, Set(t) PROVE FlagsOK'
    BY <1>4, Zenon DEF Set, FlagsOK
  <1>5. ASSUME NEW t \in S3Tasks, Tell(t) PROVE FlagsOK'
    <2>1. listening' \in BOOLEAN /\ speaking' \in BOOLEAN /\ misled' \in BOOLEAN
      BY <1>5, Zenon DEF Tell, listens
    <2>2. QED
      BY <1>5, <2>1, ZenonT(30) DEF Tell, FlagsOK
  <1>6. CASE StatusUpdate
    <2>1. s3_online' \in BOOLEAN
      BY <1>6, StatusUpdateFacts
    <2>2. speaking' \in BOOLEAN
      BY <1>6, Zenon DEF StatusUpdate
    <2>3. QED
      BY <1>6, <2>1, <2>2, Zenon DEF StatusUpdate, FlagsOK
  <1>7. CASE AudioDownlink \/ WakeWord \/ PlaybackEnds
    BY <1>7, Zenon DEF AudioDownlink, WakeWord, PlaybackEnds, FlagsOK
  <1>8. CASE WatchdogFires \/ TimePasses
    BY <1>8, Zenon DEF WatchdogFires, TimePasses, FlagsOK
  <1>9. ASSUME NEW m, OnInteraction(m) \/ OnConnectivity(m) PROVE FlagsOK'
    <2>1. OnInteraction(m) => prev_speaking' \in BOOLEAN
      BY Zenon DEF OnInteraction
    <2>2. QED
      BY <1>9, <2>1, Zenon DEF OnInteraction, OnConnectivity, FlagsOK
  <1>10. CASE UNCHANGED vars
    BY <1>10, Zenon DEF vars, FlagsOK
  <1>11. QED
    BY <1>1, <1>2, <1>3, <1>4, <1>5, <1>6, <1>7, <1>8, <1>9, <1>10
       DEF Next, Setter, Controller

(* No step takes the C5's turn out of its range.                           *)
LEMMA NextC5OK == C5OK /\ [Next]_vars => C5OK'
  <1> SUFFICES ASSUME C5OK, [Next]_vars PROVE C5OK'
    OBVIOUS
  <1> USE DEF C5OK, c5Vars, Turns, C5Sets
  <1>1. CASE C5Moves \/ C5Ends \/ C5Forwards \/ C5ConnMoves \/ Heartbeat \/ C5Receives
    BY <1>1 DEF C5Moves, C5Ends, C5Forwards, C5ConnMoves, Heartbeat, C5Receives
  <1>2. CASE LineNoise \/ C5Resets \/ C5FallsSilent \/ S3Resets
    BY <1>2 DEF LineNoise, C5Resets, C5FallsSilent, S3Resets
  <1>3. ASSUME NEW t \in S3Tasks, Setter(t) PROVE C5OK'
    BY <1>3 DEF Setter, Set, Tell
  <1>4. CASE StatusUpdate \/ AudioDownlink \/ WakeWord \/ PlaybackEnds
    BY <1>4 DEF StatusUpdate, AudioDownlink, WakeWord, PlaybackEnds
  <1>5. CASE Controller \/ TimePasses
    BY <1>5 DEF Controller, WatchdogFires, OnInteraction, OnConnectivity, TimePasses
  <1>6. CASE UNCHANGED vars
    BY <1>6 DEF vars
  <1>7. QED
    BY <1>1, <1>2, <1>3, <1>4, <1>5, <1>6 DEF Next

(* No step overfills the line to the S3.                                   *)
LEMMA NextDownOK ==
    FlagsOK /\ C5OK /\ DownOK /\ TaskOK /\ [Next]_vars => DownOK'
  <1> SUFFICES ASSUME FlagsOK, C5OK, DownOK, TaskOK, [Next]_vars PROVE DownOK'
    OBVIOUS
  <1> USE DEF wireVars
  <1>0. /\ \A st \in Turns : [inter |-> st] \in Status
        /\ \A b \in BOOLEAN : [online |-> b] \in Status
        /\ \A st \in Turns, b \in BOOLEAN : [inter |-> st, online |-> b] \in Status
    BY DEF Status
  <1>1. down \in Seq(Status) /\ Len(down) <= StatusDepth /\ StatusDepth \in Nat
    BY DEF DownOK
  <1>2. <<>> \in Seq(Status) /\ Len(<<>>) <= StatusDepth
    BY EmptySeq
  <1>3. down # <<>> => Tail(down) \in Seq(Status) /\ Len(Tail(down)) <= StatusDepth
    BY <1>1, TailSeq
  <1>4. ASSUME NEW m \in Status, down' = posted(down, StatusDepth, m) PROVE DownOK'
    BY <1>1, <1>4, PostedSeq DEF DownOK
  <1>5. ASSUME UNCHANGED down PROVE DownOK'
    BY <1>5 DEF DownOK
  <1>6. ASSUME NEW to \in Turns, C5Sets(to) PROVE DownOK'
    <2>1. [inter |-> to] \in Status
      BY <1>0
    <2>2. down' = down \/ down' = posted(down, StatusDepth, [inter |-> to])
      BY <1>6 DEF C5Sets
    <2>3. QED
      BY <1>4, <1>5, <2>1, <2>2
  <1>7. CASE C5Moves \/ C5Ends \/ C5Receives
    <2>1. (\E to \in Turns : C5Sets(to)) \/ UNCHANGED down
      BY <1>7 DEF C5Moves, C5Ends, C5Receives, Turns
    <2>2. QED
      BY <1>5, <1>6, <2>1
  <1>8. CASE C5ConnMoves
    <2>1. c5_online' \in BOOLEAN /\ down' = posted(down, StatusDepth, [online |-> c5_online'])
      BY <1>8, Zenon DEF C5ConnMoves
    <2>2. QED
      BY <1>0, <1>4, <2>1
  <1>9. CASE Heartbeat
    <2> DEFINE m == [inter |-> c5, online |-> c5_online]
    <2>1. c5_online \in BOOLEAN /\ c5 \in Turns
      BY Zenon DEF FlagsOK, C5OK
    <2>2. m \in Status /\ down' = <<m>>
      BY <1>0, <1>9, <2>1 DEF Heartbeat
    <2> HIDE DEF m
    <2>3. <<m>> \in Seq(Status) /\ Len(<<m>>) = 1
      BY <2>2
    <2>4. QED
      BY <2>2, <2>3 DEF DownOK
  <1>10. CASE C5Forwards \/ C5FallsSilent
    BY <1>5, <1>10 DEF C5Forwards, C5FallsSilent
  <1>11. CASE LineNoise
    BY <1>3, <1>5, <1>11 DEF LineNoise, DownOK
  <1>12. CASE C5Resets \/ S3Resets
    BY <1>2, <1>12 DEF C5Resets, S3Resets, DownOK
  <1>13. ASSUME NEW t \in S3Tasks, Setter(t) PROVE DownOK'
    BY <1>5, <1>13 DEF Setter, Set, Tell
  <1>14. CASE StatusUpdate
    BY <1>14, StatusUpdateFacts
  <1>15. CASE AudioDownlink \/ WakeWord \/ PlaybackEnds
    BY <1>5, <1>15 DEF AudioDownlink, WakeWord, PlaybackEnds
  <1>16. CASE Controller \/ TimePasses
    BY <1>5, <1>16 DEF Controller, WatchdogFires, OnInteraction, OnConnectivity, TimePasses
  <1>17. CASE UNCHANGED vars
    BY <1>5, <1>17 DEF vars
  <1>18. QED
    BY <1>7, <1>8, <1>9, <1>10, <1>11, <1>12, <1>13, <1>14, <1>15, <1>16, <1>17 DEF Next

(* No step overfills the line to the C5.                                   *)
LEMMA NextUpOK == UpOK /\ [Next]_vars => UpOK'
  <1> SUFFICES ASSUME UpOK, [Next]_vars PROVE UpOK'
    OBVIOUS
  <1> USE DEF wireVars
  <1> DEFINE Frames == {"START", "SPEAK_DONE"}
  <1>1. up \in Seq(Frames) /\ Len(up) <= Line /\ Len(up) \in Nat
    BY EmptyLen DEF UpOK
  <1>2. <<>> \in Seq(Frames) /\ Len(<<>>) <= Line
    BY EmptySeq
  <1>3. up # <<>> => Tail(up) \in Seq(Frames) /\ Len(Tail(up)) <= Line
    BY <1>1, TailSeq
  <1>4. ASSUME UNCHANGED up PROVE UpOK'
    BY <1>4 DEF UpOK
  <1>5. CASE C5Receives \/ LineNoise
    BY <1>3, <1>4, <1>5 DEF C5Receives, LineNoise, UpOK
  <1>6. CASE C5Resets \/ S3Resets
    BY <1>2, <1>6 DEF C5Resets, S3Resets, UpOK
  <1>7. CASE C5Moves \/ C5Ends \/ C5Forwards \/ C5ConnMoves \/ Heartbeat \/ C5FallsSilent
    BY <1>4, <1>7 DEF C5Moves, C5Ends, C5Forwards, C5ConnMoves, Heartbeat, C5FallsSilent
  <1>8. ASSUME NEW m, OnInteraction(m) PROVE UpOK'
    <2>1. ASSUME NEW x \in Frames
          PROVE  Len(up) < Line => Append(up, x) \in Seq(Frames) /\ Len(Append(up, x)) <= Line
      BY <1>1, AppendProperties
    <2>2. /\ Len(up) < Line
          /\ up' \in {up, Append(up, "START"), Append(up, "SPEAK_DONE")}
      BY <1>8 DEF OnInteraction
    <2>3. QED
      BY <1>1, <2>1, <2>2 DEF UpOK
  <1>9. ASSUME NEW t \in S3Tasks, Setter(t) PROVE UpOK'
    BY <1>4, <1>9 DEF Setter, Set, Tell
  <1>10. CASE StatusUpdate \/ AudioDownlink \/ WakeWord \/ PlaybackEnds
    BY <1>4, <1>10 DEF StatusUpdate, AudioDownlink, WakeWord, PlaybackEnds
  <1>11. ASSUME WatchdogFires \/ TimePasses \/ \E m : OnConnectivity(m) PROVE UpOK'
    BY <1>4, <1>11 DEF WatchdogFires, OnConnectivity, TimePasses
  <1>12. CASE UNCHANGED vars
    BY <1>4, <1>12 DEF vars
  <1>13. QED
    BY <1>5, <1>6, <1>7, <1>8, <1>9, <1>10, <1>11, <1>12 DEF Next, Controller

(* The S3's side: its state is one a task was to set.                      *)
S3Types == S3OK /\ TaskOK /\ QueueOK

(* No step overfills the S3's queue.                                       *)
LEMMA NextS3Types == FlagsOK /\ C5OK /\ DownOK /\ S3Types /\ [Next]_vars => S3Types'
  <1> SUFFICES ASSUME FlagsOK, C5OK, DownOK, S3OK, TaskOK, QueueOK, [Next]_vars
               PROVE  S3Types'
    BY DEF S3Types
  <1> USE DEF smVars, ctrlVars, s3Vars
  <1>1. ASSUME UNCHANGED <<s3, s3_src, task, queue, taken>> PROVE S3Types'
    BY <1>1 DEF S3Types, S3OK, TaskOK, QueueOK
  <1>2. ASSUME UNCHANGED <<s3, s3_src>> PROVE S3OK'
    BY <1>2 DEF S3OK
  <1>3. ASSUME UNCHANGED <<queue, taken>> PROVE QueueOK'
    BY <1>3 DEF QueueOK
  <1>4. ASSUME NEW m \in Message, queue' = posted(queue, Depth, m), UNCHANGED taken
        PROVE  QueueOK'
    BY <1>4, PostedSeq DEF QueueOK
  <1>5. CASE C5Step
    BY <1>1, <1>5, C5StepLeaves DEF C5Step_S3
  <1>6. CASE S3Resets
    <2>1. S3OK' /\ QueueOK'
      BY <1>6, EmptySeq DEF S3Resets, S3OK, QueueOK, Turns, Sources
    <2>2. TaskOK'
      BY <1>6 DEF S3Resets, TaskOK
    <2>3. QED
      BY <2>1, <2>2 DEF S3Types
  <1>7. ASSUME NEW t \in S3Tasks, Set(t) PROVE S3Types'
    <2>1. /\ TaskOK' /\ ~resting(t)
          /\ \/ s3' = s3 /\ s3_src' = s3_src
             \/ s3' = task[t].st /\ s3_src' = task[t].src
      BY <1>7, SetFacts
    <2>2. S3OK'
      BY <2>1, TaskFacts DEF S3OK
    <2>3. UNCHANGED <<queue, taken>>
      BY <1>7 DEF Set
    <2>4. QED
      BY <1>3, <2>1, <2>2, <2>3 DEF S3Types
  <1>8. ASSUME NEW t \in S3Tasks, Tell(t) PROVE S3Types'
    <2>1. TaskOK' /\ task[t].st \in Turns /\ task[t].src \in Sources
      BY <1>8, TellFacts
    <2>2. /\ queue' = posted(queue, Depth, [inter |-> task[t].st, src |-> task[t].src])
          /\ UNCHANGED <<s3, s3_src, taken>>
      BY <1>8 DEF Tell
    <2>3. [inter |-> task[t].st, src |-> task[t].src] \in Message
      BY <2>1, MessageFacts
    <2>4. QED
      BY <1>2, <1>4, <2>1, <2>2, <2>3 DEF S3Types
  <1>9. CASE StatusUpdate
    <2>1. /\ TaskOK' /\ s3_online' \in BOOLEAN /\ UNCHANGED taken
          /\ queue' \in {queue, posted(queue, Depth, [online |-> s3_online'])}
      BY <1>9, StatusUpdateFacts
    <2>2. [online |-> s3_online'] \in Message
      BY <2>1, MessageFacts
    <2>3. QueueOK'
      BY <1>3, <1>4, <2>1, <2>2
    <2>4. UNCHANGED <<s3, s3_src>>
      BY <1>9 DEF StatusUpdate
    <2>5. QED
      BY <1>2, <2>1, <2>3, <2>4 DEF S3Types
  <1>10. CASE Hears
    BY <1>2, <1>3, <1>10, HearsFacts DEF S3Types
  <1>11. CASE WatchdogFires
    <2>1. UNCHANGED <<s3, s3_src>>
      BY <1>11 DEF WatchdogFires
    <2>2. QED
      BY <1>2, <1>11, <2>1, WatchdogFacts DEF S3Types
  <1>12. ASSUME NEW m \in {taken} \union {queue[i] : i \in DOMAIN queue},
                OnInteraction(m)
         PROVE  S3Types'
    <2>1. Handle(m) /\ UNCHANGED <<s3, s3_src, task>>
      BY <1>12 DEF OnInteraction
    <2>2. QED
      BY <1>2, <2>1, HandleFacts DEF S3Types, TaskOK
  <1>13. ASSUME NEW m \in {taken} \union {queue[i] : i \in DOMAIN queue},
                OnConnectivity(m)
         PROVE  S3Types'
    <2>1. Handle(m) /\ TaskOK' /\ UNCHANGED <<s3, s3_src>>
      BY <1>13, ConnectivityFacts DEF OnConnectivity
    <2>2. QED
      BY <1>2, <2>1, HandleFacts DEF S3Types
  <1>14. CASE TimePasses \/ UNCHANGED vars
    BY <1>1, <1>14 DEF TimePasses, vars
  <1>15. QED
    BY <1>5, <1>6, <1>7, <1>8, <1>9, <1>10, <1>11, <1>12, <1>13, <1>14
       DEF Next, C5Step, Setter, Hears, Controller

-----------------------------------------------------------------------------
(* Every START is paid for.                                                *)
Worth(m) == IF Wakes(m) THEN 1 ELSE 0

(* What each place is worth in wake words.                                 *)
LEMMA Worths ==
    ASSUME QueueOK
    PROVE  /\ Waiting(queue) \in Nat /\ Hearing \in 0..1 /\ AtHand = Worth(taken)
           /\ \A m : Worth(m) \in 0..1
  BY SpotsFinite DEF QueueOK, Hearing, AtHand, Worth

(* A message taken from the queue is worth what it was there.              *)
LEMMA TakenWorth ==
    ASSUME QueueOK, queue # <<>>
    PROVE  Waiting(queue) = Waiting(Tail(queue)) + Worth(Head(queue))
  BY WaitingTail DEF QueueOK, Worth

(* A message that is posted adds its worth, or is refused.                 *)
LEMMA PostedWorth ==
    ASSUME QueueOK, NEW m \in Message, queue' = posted(queue, Depth, m)
    PROVE  Waiting(queue') \in Waiting(queue) .. Waiting(queue) + Worth(m)
  <1>1. Waiting(Append(queue, m)) = Waiting(queue) + Worth(m)
    BY WaitingAppend DEF QueueOK, Worth
  <1>2. queue' = queue \/ queue' = Append(queue, m)
    BY DEF posted
  <1>3. Waiting(queue) \in Nat /\ Worth(m) \in 0..1
    BY Worths
  <1>4. CASE queue' = queue
    BY <1>3, <1>4
  <1>5. CASE queue' = Append(queue, m)
    BY <1>1, <1>3, <1>5
  <1>6. QED
    BY <1>2, <1>4, <1>5

(* Every START answers a wake word that was on its way.                    *)
LEMMA NextPaidFor ==
    /\ FlagsOK /\ C5OK /\ DownOK /\ S3Types /\ S3Types' /\ PaidFor /\ [Next]_vars
    => PaidFor'
  <1> SUFFICES ASSUME FlagsOK, C5OK, DownOK, TaskOK, QueueOK, QueueOK', PaidFor, [Next]_vars
               PROVE  PaidFor'
    BY DEF S3Types
  <1> DEFINE Others == \A t \in S3Tasks \ {"wake"} : ~resting(t) => task[t].src # "WAKEWORD"
  <1>0. /\ owed \in Int /\ Waiting(queue) \in Nat /\ Hearing \in 0..1
        /\ AtHand = Worth(taken) /\ \A m : Worth(m) \in 0..1
        /\ owed >= Hearing + Waiting(queue) + AtHand /\ Others
        /\ AtHand' = Worth(taken') /\ Worth(None) = 0
    BY Worths, MessageFacts DEF PaidFor, AtHand, Worth
  <1>1. Waiting(queue)' = Waiting(queue')
    BY DEF Waiting, Wakes
  <1>2. Hearing' = IF resting("wake")' THEN 0 ELSE 1
    BY DEF Hearing
  <1>3. ASSUME owed' = owed, UNCHANGED <<task, queue, taken>> PROVE PaidFor'
    <2>1. Hearing' = Hearing /\ AtHand' = AtHand /\ Waiting(queue)' = Waiting(queue)
      BY <1>3 DEF Hearing, AtHand, Waiting, resting, Wakes
    <2>2. Others'
      BY <1>0, <1>3 DEF resting
    <2>3. QED
      BY <1>0, <1>3, <2>1, <2>2 DEF PaidFor
  <1>4. CASE C5Step
    BY <1>3, <1>4, C5StepLeaves DEF C5Step_S3, s3Vars, ctrlVars
  <1>5. CASE S3Resets
    <2>1. owed' = 0 /\ queue' = <<>> /\ taken' = None /\ \A t \in S3Tasks : resting(t)'
      BY <1>5 DEF S3Resets, resting
    <2>2. Waiting(queue)' = 0 /\ Hearing' = 0 /\ AtHand' = 0
      BY <1>0, <1>1, <1>2, <2>1, WaitingEmpty DEF S3Tasks
    <2>3. QED
      BY <2>1, <2>2 DEF PaidFor
  (* Only the task that heard the wake word speaks of it.                  *)
  <1>6. ASSUME NEW t \in S3Tasks, \A u \in S3Tasks \ {t} : task'[u] = task[u],
               t # "wake" /\ ~resting(t)' => task'[t].src # "WAKEWORD"
        PROVE  /\ Others' /\ (t # "wake" => Hearing' = Hearing)
    <2>1. \A u \in S3Tasks \ {t} : resting(u)' <=> resting(u)
      BY <1>6 DEF resting
    <2>2. "wake" \in S3Tasks
      BY DEF S3Tasks
    <2>3. QED
      BY <1>0, <1>2, <1>6, <2>1, <2>2 DEF Hearing
  <1>7. ASSUME NEW t \in S3Tasks, Set(t) PROVE PaidFor'
    <2>1. /\ ~resting(t) /\ \A u \in S3Tasks \ {t} : task'[u] = task[u]
          /\ resting(t)' \/ task'[t].src = task[t].src
      BY <1>7, SetFacts
    <2>2. UNCHANGED <<queue, taken, owed>>
      BY <1>7 DEF Set, ctrlVars, counters
    <2>3. Others' /\ (t # "wake" => Hearing' = Hearing)
      BY <1>0, <1>6, <2>1
    <2>4. Hearing' <= Hearing
      BY <1>0, <1>2, <2>1, <2>3 DEF Hearing
    <2>5. Hearing' \in 0..1
      BY <1>2
    <2>6. QED
      BY <1>0, <1>1, <2>2, <2>3, <2>4, <2>5 DEF PaidFor
  <1>8. ASSUME NEW t \in S3Tasks, Tell(t) PROVE PaidFor'
    <2> DEFINE m == [inter |-> task[t].st, src |-> task[t].src]
    <2>1. /\ ~resting(t) /\ resting(t)' /\ \A u \in S3Tasks \ {t} : task'[u] = task[u]
          /\ task[t].st \in Turns /\ task[t].src \in Sources
      BY <1>8, TellFacts
    <2>2. UNCHANGED <<taken, owed>> /\ queue' = posted(queue, Depth, m)
      BY <1>8 DEF Tell, counters
    <2>3. Others' /\ (t # "wake" => Hearing' = Hearing)
      BY <1>6, <2>1
    <2>4. m \in Message /\ (t # "wake" => Worth(m) = 0)
      BY <1>0, <2>1, MessageFacts DEF Worth
    <2> HIDE DEF m
    <2>5. Waiting(queue') \in Waiting(queue) .. Waiting(queue) + Worth(m)
      BY <2>2, <2>4, PostedWorth
    <2>6. t = "wake" => Hearing = 1 /\ Hearing' = 0
      BY <1>2, <2>1 DEF Hearing
    <2>7. QED
      BY <1>0, <1>1, <2>2, <2>3, <2>4, <2>5, <2>6 DEF PaidFor
  <1>9. CASE StatusUpdate
    <2>1. /\ s3_online' \in BOOLEAN /\ UNCHANGED <<taken, owed>>
          /\ \A u \in S3Tasks \ {"uart"} : task'[u] = task[u]
          /\ queue' \in {queue, posted(queue, Depth, [online |-> s3_online'])}
          /\ UNCHANGED task \/ task'["uart"].src = "UNKNOWN"
      BY <1>9, StatusUpdateFacts
    <2>2. "uart" \in S3Tasks \ {"wake"}
      BY DEF S3Tasks
    <2>3. ~resting("uart")' => task'["uart"].src # "WAKEWORD"
      BY <1>0, <2>1, <2>2 DEF resting
    <2>4. Others' /\ Hearing' = Hearing
      BY <1>6, <2>1, <2>2, <2>3
    <2>5. [online |-> s3_online'] \in Message /\ Worth([online |-> s3_online']) = 0
      BY <2>1, MessageFacts DEF Worth
    <2>6. Waiting(queue') = Waiting(queue)
      BY <1>0, <2>1, <2>5, PostedWorth
    <2>7. QED
      BY <1>0, <1>1, <2>1, <2>4, <2>6 DEF PaidFor
  <1>10. CASE Hears
    <2>1. UNCHANGED <<queue, taken>>
      BY <1>10, HearsFacts
    <2>2. CASE UNCHANGED <<task, owed>>
      BY <1>3, <2>1, <2>2
    <2>3. CASE /\ resting("wake") /\ owed' = owed + 1 /\ task'["wake"].at = "set"
               /\ \A u \in S3Tasks \ {"wake"} : task'[u] = task[u]
      <3>1. "wake" \in S3Tasks
        BY DEF S3Tasks
      <3>2. Others'
        BY <1>6, <2>3, <3>1
      <3>3. Hearing = 0 /\ Hearing' \in 0..1
        BY <1>2, <2>3 DEF Hearing
      <3>4. QED
        BY <1>0, <1>1, <2>1, <2>3, <3>2, <3>3 DEF PaidFor
    <2>4. ASSUME NEW t \in {"spi", "recv"}, task'[t].src # "WAKEWORD",
                 \A u \in S3Tasks \ {t} : task'[u] = task[u], UNCHANGED owed
          PROVE  PaidFor'
      <3>1. t \in S3Tasks /\ t # "wake"
        BY DEF S3Tasks
      <3>2. Others' /\ Hearing' = Hearing
        BY <1>6, <2>4, <3>1
      <3>3. QED
        BY <1>0, <1>1, <2>1, <2>4, <3>2 DEF PaidFor
    <2>5. QED
      BY <1>10, <2>2, <2>3, <2>4, HearsFacts
  <1>11. "ctrl" \in S3Tasks /\ "ctrl" # "wake"
    BY DEF S3Tasks
  <1>12. CASE WatchdogFires
    <2>1. /\ taken = None /\ owed' = owed
          /\ \/ queue # <<>> /\ taken' = Head(queue) /\ queue' = Tail(queue)
             \/ queue' = queue /\ taken' = taken
          /\ \A u \in S3Tasks \ {"ctrl"} : task'[u] = task[u]
          /\ task'["ctrl"].src = "SYSTEM"
      BY <1>12, WatchdogFacts
    <2>2. Others' /\ Hearing' = Hearing
      BY <1>6, <1>11, <2>1
    <2>3. Waiting(queue') + Worth(taken') = Waiting(queue)
      <3>1. Worth(Head(queue)) \in 0..1 /\ Worth(None) = 0
        BY <1>0
      <3>2. CASE queue # <<>> /\ taken' = Head(queue) /\ queue' = Tail(queue)
        BY <3>2, TakenWorth
      <3>3. CASE queue' = queue /\ taken' = taken
        BY <1>0, <2>1, <3>1, <3>3
      <3>4. QED
        BY <2>1, <3>2, <3>3
    <2>4. Waiting(queue') \in Nat
      BY <1>1, SpotsFinite DEF QueueOK
    <2>5. QED
      BY <1>0, <1>1, <2>1, <2>2, <2>3, <2>4 DEF PaidFor
  <1>13. ASSUME NEW m \in {taken} \union {queue[i] : i \in DOMAIN queue}, Handle(m)
         PROVE  Waiting(queue') + Worth(taken') + Worth(m) = Waiting(queue) + Worth(taken)
    <2>1. \/ taken = m /\ taken' = None /\ queue' = queue
          \/ taken = None /\ taken' = taken /\ queue # <<>> /\ m = Head(queue)
             /\ queue' = Tail(queue)
      BY <1>13, HandleFacts
    <2>2. Waiting(queue') \in Nat
      BY <1>1, SpotsFinite DEF QueueOK
    <2>3. QED
      <3>1. Worth(m) \in 0..1 /\ Worth(None) = 0
        BY <1>0
      <3>2. CASE taken = m /\ taken' = None /\ queue' = queue
        BY <1>0, <3>1, <3>2
      <3>3. CASE /\ taken = None /\ taken' = taken /\ queue # <<>> /\ m = Head(queue)
                 /\ queue' = Tail(queue)
        <4>1. Waiting(queue) = Waiting(queue') + Worth(m)
          BY <3>3, TakenWorth
        <4>2. Worth(taken) = 0 /\ Worth(taken') = 0
          BY <3>1, <3>3
        <4>3. QED
          BY <1>0, <2>2, <3>1, <4>1, <4>2
      <3>4. QED
        BY <2>1, <3>2, <3>3
  <1>14. ASSUME NEW m \in {taken} \union {queue[i] : i \in DOMAIN queue},
                OnInteraction(m)
         PROVE  PaidFor'
    <2>1. /\ Handle(m) /\ UNCHANGED task
          /\ owed' = owed - Worth(m)
      BY <1>0, <1>14 DEF OnInteraction, Worth, Wakes
    <2>2. Waiting(queue') + Worth(taken') + Worth(m) = Waiting(queue) + Worth(taken)
      BY <1>13, <2>1
    <2>3. Hearing' = Hearing /\ Others'
      BY <1>0, <2>1 DEF Hearing, resting
    <2>4. Waiting(queue') \in Nat
      BY <1>1, SpotsFinite DEF QueueOK
    <2>5. QED
      BY <1>0, <1>1, <2>1, <2>2, <2>3, <2>4 DEF PaidFor
  <1>15. ASSUME NEW m \in {taken} \union {queue[i] : i \in DOMAIN queue},
                OnConnectivity(m)
         PROVE  PaidFor'
    <2>1. /\ Handle(m) /\ owed' = owed
          /\ \A u \in S3Tasks \ {"ctrl"} : task'[u] = task[u]
          /\ UNCHANGED task \/ task'["ctrl"].src = "UNKNOWN"
      BY <1>15, ConnectivityFacts
    <2>2. Waiting(queue') + Worth(taken') + Worth(m) = Waiting(queue) + Worth(taken)
      BY <1>13, <2>1
    <2>3. ~resting("ctrl")' => task'["ctrl"].src # "WAKEWORD"
      BY <1>0, <1>11, <2>1 DEF resting
    <2>4. Others' /\ Hearing' = Hearing
      BY <1>6, <1>11, <2>1, <2>3
    <2>5. Waiting(queue') \in Nat
      BY <1>1, SpotsFinite DEF QueueOK
    <2>6. QED
      BY <1>0, <1>1, <2>1, <2>2, <2>4, <2>5 DEF PaidFor
  <1>16. CASE TimePasses \/ UNCHANGED vars
    BY <1>3, <1>16 DEF TimePasses, vars, s3Vars, ctrlVars, counters
  <1>17. QED
    BY <1>4, <1>5, <1>7, <1>8, <1>9, <1>10, <1>12, <1>14, <1>15, <1>16
       DEF Next, C5Step, Setter, Hears, Controller

-----------------------------------------------------------------------------
(* AudioManager does what it is told.                                      *)
Quietly == \A t \in S3Tasks : task[t].at # "tell"

(* Agreeing, as two equivalences for Zenon.                                *)
LEMMA AgreesIff ==
    ASSUME FlagsOK
    PROVE  Agrees <=> (listening <=> s3 = "LISTENING") /\ (speaking <=> s3 = "SPEAKING")
  BY Zenon DEF FlagsOK, Agrees

(* Told in three parts: both off, the controller's IDLE, and at rest.      *)
LEMMA ToldParts ==
    Told <=> /\ ~misled => ~(listening /\ speaking)
             /\ ~resting("ctrl") => task["ctrl"].st = "IDLE"
             /\ ~misled /\ Quietly => Agrees \/ Silenced
  BY Zenon DEF Told, Quietly

(* What a callback makes of AudioManager.                                  *)
LEMMA TellMakes ==
    ASSUME FlagsOK, FlagsOK', Told, NEW t \in S3Tasks, Tell(t),
           task[t].st \in Turns
    PROVE  ~misled' => Agrees' /\ ~(listening' /\ speaking')
  <1> DEFINE st == task[t].st
  <1>1. /\ listening' <=> (st = "LISTENING" \/ (st = "SPEAKING" /\ listening))
        /\ speaking' <=> \/ st = "SPEAKING"
                         \/ st = "PROCESSING" /\ speaking
                         \/ st = "LISTENING" /\ listening /\ speaking
        /\ misled' <=> \/ st # s3
                       \/ misled /\ st # "IDLE"
                       \/ st = "SPEAKING" /\ listening
                       \/ st = "PROCESSING" /\ speaking
        /\ s3' = s3
    BY Zenon DEF Tell, listens, smVars
  <1>2. ~misled => ~(listening /\ speaking)
    BY DEF Told
  <1>3. Agrees' <=> (listening' <=> s3' = "LISTENING") /\ (speaking' <=> s3' = "SPEAKING")
    BY Zenon DEF FlagsOK, Agrees
  <1> HIDE DEF st
  <1>4. QED
    BY <1>1, <1>2, <1>3

(* One task starts or ends; no other is at its callback unless it was.     *)
LEMMA StillTold ==
    ASSUME Told, NEW t \in S3Tasks, UNCHANGED <<s3, listening, speaking, misled>>,
           \A u \in S3Tasks \ {t} : task'[u] = task[u],
           task[t].at # "tell",
           Silenced => task'["ctrl"] = task["ctrl"] /\ task'["uart"] = task["uart"],
           ~resting("ctrl")' => task'["ctrl"].st = "IDLE"
    PROVE  Told'
  <1>1. Quietly' => Quietly
    BY DEF Quietly
  <1>2. Agrees => Agrees'
    BY DEF Agrees
  <1>3. Silenced => Silenced'
    BY DEF Silenced
  <1>4. /\ ~misled' => ~(listening' /\ speaking')
        /\ ~misled' /\ Quietly' => Agrees' \/ Silenced'
    BY <1>1, <1>2, <1>3, ToldParts
  <1>5. QED
    BY <1>4 DEF Told, Quietly

(* Every step keeps AudioManager told, or is named by misled.              *)
LEMMA NextTold ==
    /\ FlagsOK /\ FlagsOK' /\ C5OK /\ DownOK /\ S3Types /\ S3Types' /\ Told /\ [Next]_vars
    => Told'
  <1> SUFFICES ASSUME FlagsOK, FlagsOK', C5OK, DownOK, TaskOK, QueueOK, Told, [Next]_vars
               PROVE  Told'
    BY DEF S3Types
  <1>0. /\ ~misled => ~(listening /\ speaking)
        /\ ~resting("ctrl") => task["ctrl"].st = "IDLE"
        /\ ~misled /\ Quietly => Agrees \/ Silenced
        /\ {"ctrl", "uart", "spi", "recv", "wake"} = S3Tasks
    BY ToldParts DEF S3Tasks
  <1>1. Told' <=> /\ ~misled' => ~(listening' /\ speaking')
                  /\ ~resting("ctrl")' => task'["ctrl"].st = "IDLE"
                  /\ ~misled' /\ Quietly' => Agrees' \/ Silenced'
    BY Zenon DEF Told, Quietly
  <1>2. ASSUME UNCHANGED <<s3, task, listening, speaking, misled>> PROVE Told'
    BY <1>0, <1>1, <1>2 DEF Agrees, Silenced, Quietly, resting
  <1>3. CASE C5Step
    BY <1>2, <1>3, C5StepLeaves DEF C5Step_S3, s3Vars, smVars, amVars
  <1>4. CASE S3Resets
    <2>1. /\ listening' = FALSE /\ speaking' = FALSE /\ s3' = "IDLE"
          /\ \A t \in S3Tasks : resting(t)'
      BY <1>4 DEF S3Resets, resting
    <2>2. Agrees'
      BY <2>1 DEF Agrees
    <2>3. QED
      BY <1>0, <1>1, <2>1, <2>2
  <1>5. ASSUME NEW t \in S3Tasks, Set(t) PROVE Told'
    <2>1. /\ ~resting(t) /\ task[t].at = "set"
          /\ \A u \in S3Tasks \ {t} : task'[u] = task[u]
          /\ UNCHANGED <<listening, speaking, misled>>
          /\ \/ s3 = task[t].st /\ s3' = s3 /\ resting(t)'
             \/ task'[t].at = "tell" /\ task'[t].st = task[t].st
      BY <1>5, SetFacts DEF Set, amVars
    <2>2. ~resting("ctrl")' => task'["ctrl"].st = "IDLE"
      BY <1>0, <2>1 DEF resting
    <2>3. CASE task'[t].at = "tell"
      BY <1>0, <1>1, <2>1, <2>2, <2>3 DEF Quietly
    <2>4. CASE s3 = task[t].st /\ s3' = s3 /\ resting(t)'
      (* The controller had silenced AudioManager for a turn that is over. *)
      <3>1. CASE t = "ctrl" /\ Silenced
        <4>1. s3' = "IDLE" /\ listening' = FALSE /\ speaking' = FALSE
          <5>1. ~listening /\ ~speaking /\ s3 = "IDLE"
            BY <1>0, <2>1, <2>4, <3>1 DEF Silenced
          <5>2. ~listening' /\ ~speaking'
            BY <2>1, <5>1
          <5>3. listening' = FALSE /\ speaking' = FALSE
            BY <5>2, Zenon DEF FlagsOK
          <5>4. QED
            BY <2>4, <5>1, <5>3
        <4>2. Agrees'
          BY <4>1 DEF Agrees
        <4>3. QED
          BY <1>1, <2>2, <4>1, <4>2
      <3>2. CASE ~(t = "ctrl" /\ Silenced)
        <4>1. Silenced => task'["ctrl"] = task["ctrl"]
          BY <1>0, <2>1, <3>2
        <4>2. Agrees => Agrees'
          BY <2>1, <2>4 DEF Agrees
        <4>3. Silenced => Silenced'
          <5>1. ~(t = "uart" /\ s3 = "SPEAKING" /\ task["uart"].st = "LISTENING")
            BY <2>4
          <5>2. SUFFICES ASSUME Silenced PROVE Silenced'
            OBVIOUS
          <5>3. ~listening' /\ ~speaking'
            BY <2>1, <5>2 DEF Silenced
          <5>4. CASE task["ctrl"].at = "set"
            BY <4>1, <5>2, <5>3, <5>4 DEF Silenced
          <5>5. CASE s3 = "SPEAKING" /\ task["uart"].at = "set" /\ task["uart"].st = "LISTENING"
            <6>1. task'["uart"] = task["uart"]
              BY <1>0, <2>1, <5>1, <5>5
            <6>2. QED
              BY <2>4, <5>3, <5>5, <6>1 DEF Silenced
          <5>6. QED
            BY <5>2, <5>4, <5>5 DEF Silenced
        <4>4. Quietly' => Quietly
          BY <2>1 DEF Quietly
        <4>5. /\ ~misled' => ~(listening' /\ speaking')
              /\ ~misled' /\ Quietly' => Agrees' \/ Silenced'
          BY <1>0, <2>1, <4>2, <4>3, <4>4
        <4>6. QED
          BY <1>1, <2>2, <4>5
      <3>3. QED
        BY <3>1, <3>2
    <2>5. QED
      BY <2>1, <2>3, <2>4
  <1>6. ASSUME NEW t \in S3Tasks, Tell(t) PROVE Told'
    <2>1. /\ ~resting(t) /\ resting(t)' /\ task[t].st \in Turns
          /\ \A u \in S3Tasks \ {t} : task'[u] = task[u]
      BY <1>6, TellFacts
    <2>2. ~misled' => Agrees' /\ ~(listening' /\ speaking')
      BY <1>6, <2>1, TellMakes
    <2>3. ~resting("ctrl")' => task'["ctrl"].st = "IDLE"
      BY <1>0, <2>1 DEF resting
    <2>4. QED
      BY <1>1, <2>2, <2>3
  <1>7. CASE StatusUpdate
    <2>1. /\ resting("uart") /\ \A u \in S3Tasks \ {"uart"} : task'[u] = task[u]
          /\ \/ UNCHANGED task
             \/ task'["uart"].at = "set" /\ task'["uart"].src = "UNKNOWN"
          /\ \/ UNCHANGED speaking
             \/ /\ speaking' = FALSE /\ s3 = "SPEAKING"
                /\ task'["uart"].at = "set" /\ task'["uart"].st = "LISTENING"
          /\ UNCHANGED <<s3, listening, misled>>
      BY <1>7, StatusUpdateFacts
    <2>2. task["uart"].at = "rest"
      BY <1>0, <2>1, TaskFacts
    <2>3. task'["ctrl"] = task["ctrl"] /\ (resting("ctrl")' <=> resting("ctrl"))
      BY <1>0, <2>1 DEF resting
    <2>4. Quietly' => Quietly
      BY <1>0, <2>1, <2>2 DEF Quietly
    <2>5. Silenced => task["ctrl"].at = "set" /\ Silenced'
      <3>1. SUFFICES ASSUME Silenced PROVE task["ctrl"].at = "set" /\ Silenced'
        OBVIOUS
      <3>2. task["ctrl"].at = "set" /\ ~listening /\ ~speaking
        BY <2>2, <3>1 DEF Silenced
      <3>3. ~listening' /\ ~speaking'
        BY <2>1, <3>2
      <3>4. QED
        BY <2>3, <3>2, <3>3 DEF Silenced
    <2>6. CASE speaking' = speaking
      <3>1. Agrees => Agrees'
        BY <2>1, <2>6 DEF Agrees
      <3>2. QED
        BY <1>0, <1>1, <2>1, <2>3, <2>4, <2>5, <2>6, <3>1
    <2>7. CASE /\ speaking' = FALSE /\ s3 = "SPEAKING"
               /\ task'["uart"].at = "set" /\ task'["uart"].st = "LISTENING"
      <3>1. Agrees => ~listening
        BY <2>7, AgreesIff
      <3>2. Agrees => Silenced'
        BY <2>1, <2>7, <3>1 DEF Silenced
      <3>3. QED
        BY <1>0, <1>1, <2>1, <2>3, <2>4, <2>5, <2>7, <3>2
    <2>8. QED
      BY <2>1, <2>6, <2>7
  <1>8. CASE Hears
    <2>1. UNCHANGED <<s3, listening, speaking, misled>>
      BY <1>8, HearsFacts
    <2>2. UNCHANGED task \/ \E t \in {"wake", "spi", "recv"} :
                               /\ resting(t)
                               /\ \A u \in S3Tasks \ {t} : task'[u] = task[u]
      BY <1>8, HearsFacts
    <2>3. ASSUME NEW t \in {"wake", "spi", "recv"}, resting(t),
                 \A u \in S3Tasks \ {t} : task'[u] = task[u]
          PROVE  Told'
      <3>1. t \in S3Tasks /\ task'["ctrl"] = task["ctrl"] /\ task'["uart"] = task["uart"]
        BY <1>0, <2>3
      <3>2. task[t].at = "rest"
        BY <2>3, <3>1, TaskFacts
      <3>3. ~resting("ctrl")' => task'["ctrl"].st = "IDLE"
        BY <1>0, <3>1 DEF resting
      <3>4. QED
        BY <2>1, <2>3, <3>1, <3>2, <3>3, StillTold
    <2>4. QED
      BY <1>2, <2>1, <2>2, <2>3
  (* The controller silences AudioManager before it leaves the turn.       *)
  <1>9. ASSUME task'["ctrl"].at = "set", task'["ctrl"].st = "IDLE",
               listening' = FALSE, speaking' = FALSE
        PROVE  Told'
    <2>1. Silenced'
      BY <1>9 DEF Silenced
    <2>2. QED
      BY <1>1, <1>9, <2>1
  <1>10. CASE WatchdogFires
    BY <1>9, <1>10, WatchdogFacts
  <1>11. ASSUME NEW m, OnConnectivity(m) PROVE Told'
    BY <1>2, <1>9, <1>11, ConnectivityFacts
  <1>12. ASSUME NEW m, OnInteraction(m) PROVE Told'
    BY <1>2, <1>12 DEF OnInteraction, smVars
  <1>13. CASE TimePasses \/ UNCHANGED vars
    BY <1>2, <1>13 DEF TimePasses, vars, s3Vars, smVars, amVars
  <1>14. QED
    BY <1>3, <1>4, <1>5, <1>6, <1>7, <1>8, <1>10, <1>11, <1>12, <1>13
       DEF Next, C5Step, Setter, Hears, Controller

-----------------------------------------------------------------------------
(* The invariant holds, for any queues, wake words and mishaps.            *)
THEOREM Invariant == Spec => []IInv
  <1>1. IInv /\ [Next]_vars => IInv'
    <2> SUFFICES ASSUME IInv, [Next]_vars PROVE IInv'
      OBVIOUS
    <2>1. /\ FlagsOK /\ C5OK /\ DownOK /\ UpOK /\ S3OK /\ TaskOK /\ QueueOK
          /\ S3Types /\ PaidFor /\ Told
      BY TypeParts DEF IInv, S3Types
    <2>2. FlagsOK' /\ C5OK' /\ DownOK' /\ UpOK' /\ S3Types'
      BY <2>1, NextFlagsOK, NextC5OK, NextDownOK, NextUpOK, NextS3Types
    <2>3. TypeOK'
      BY <2>2, Zenon DEF TypeOK, FlagsOK, C5OK, DownOK, UpOK, S3OK, TaskOK, QueueOK, S3Types
    <2>4. PaidFor' /\ Told'
      BY <2>1, <2>2, NextPaidFor, NextTold
    <2>5. QED
      BY <2>3, <2>4 DEF IInv
  <1>2. QED
    BY InitIInv, <1>1, PTL DEF Spec

(* The S3 mirrors the turn: its queues hold, a START answers a wake word   *)
(* and nothing else, and at rest its microphone and speaker are what the   *)
(* state says (StateManager, AudioManager and AppController of the S3).    *)
THEOREM TurnIsMirrored == Spec => []Mirrored
  <1>1. IInv => Mirrored
    <2> SUFFICES ASSUME IInv PROVE Mirrored
      OBVIOUS
    <2>1. TypeOK /\ FlagsOK /\ TaskOK /\ QueueOK /\ PaidFor /\ Told
      BY TypeParts DEF IInv
    <2>2. EchoFree
      <3>1. Waiting(queue) \in Nat /\ Hearing \in 0..1 /\ AtHand \in 0..1
        BY <2>1, Worths
      <3>2. QED
        BY <2>1, <3>1 DEF EchoFree, PaidFor
    <2>3. MicAgrees
      <3>1. SUFFICES ASSUME quiet, ~misled PROVE Agrees
        BY DEF MicAgrees, Agrees
      <3>2. \A t \in S3Tasks : task[t].at = "rest"
        BY <2>1, <3>1, TaskFacts DEF quiet
      <3>3. Quietly /\ ~Silenced
        BY <3>2 DEF Quietly, Silenced, S3Tasks
      <3>4. QED
        BY <2>1, <3>1, <3>3, ToldParts
    <2>4. QED
      BY <2>1, <2>2, <2>3 DEF Mirrored
  <1>2. QED
    BY <1>1, Invariant, PTL

-----------------------------------------------------------------------------
(* What SPEAK_DONE ends.                                                   *)

(* A turn taken up over nothing: until the C5 speaks, nothing speaks.      *)
Clean ==
    c5 \in {"LISTENING", "PROCESSING"} /\ ~crossed => ~ReplyTraces

(* What a queue has spoken of after a message is posted or taken.          *)
LEMMA SpokenPosted ==
    ASSUME NEW S, NEW q \in Seq(S), NEW m \in S, NEW d,
           Spoken(posted(q, d, m))
    PROVE  Spoken(q) \/ Speaks(m)
  <1>1. CASE posted(q, d, m) = q
    BY <1>1
  <1>2. CASE posted(q, d, m) = Append(q, m)
    <2> DEFINE w == Append(q, m)
    <2>1. /\ w \in Seq(S) /\ Len(w) = Len(q) + 1 /\ w[Len(q) + 1] = m
          /\ \A i \in 1 .. Len(q) : w[i] = q[i]
          /\ Len(q) \in Nat /\ DOMAIN q = 1 .. Len(q) /\ DOMAIN w = 1 .. Len(w)
      BY AppendProperties, EmptyLen
    <2> HIDE DEF w
    <2>2. PICK i \in DOMAIN w : Speaks(w[i])
      BY <1>2 DEF w, Spoken
    <2>3. CASE i = Len(q) + 1
      BY <2>1, <2>2, <2>3
    <2>4. CASE i # Len(q) + 1
      <3>1. i \in DOMAIN q /\ w[i] = q[i]
        BY <2>1, <2>4
      <3>2. QED
        BY <2>2, <3>1 DEF Spoken
    <2>5. QED
      BY <2>3, <2>4
  <1>3. QED
    BY <1>1, <1>2 DEF posted

(* Taking the first leaves no more than there was.                         *)
LEMMA SpokenTail ==
    ASSUME NEW S, NEW q \in Seq(S), q # <<>>
    PROVE  /\ Spoken(Tail(q)) => Spoken(q)
           /\ Speaks(Head(q)) => Spoken(q)
  <1>1. /\ Tail(q) \in Seq(S) /\ Len(Tail(q)) = Len(q) - 1 /\ Len(q) \in Nat \ {0}
        /\ \A i \in 1 .. Len(q) - 1 : Tail(q)[i] = q[i + 1]
        /\ Head(q) = q[1]
    BY TailSeq
  <1>2. DOMAIN q = 1 .. Len(q) /\ DOMAIN Tail(q) = 1 .. Len(Tail(q))
    BY <1>1, EmptyLen
  <1>3. ASSUME NEW i \in DOMAIN Tail(q) PROVE i + 1 \in DOMAIN q /\ Tail(q)[i] = q[i + 1]
    BY <1>1, <1>2
  <1>4. 1 \in DOMAIN q
    BY <1>1, <1>2
  <1>5. QED
    BY <1>1, <1>3, <1>4 DEF Spoken

(* The frames on the wire to the C5, after one is sent or received.        *)
LEMMA UpAppend ==
    ASSUME UpOK, NEW x \in {"START", "SPEAK_DONE"}, up' = Append(up, x)
    PROVE  \A y : Sent(y)' => Sent(y) \/ y = x
  <1>1. /\ up' \in Seq({"START", "SPEAK_DONE"}) /\ Len(up') = Len(up) + 1
        /\ up'[Len(up) + 1] = x
        /\ \A i \in 1 .. Len(up) : up'[i] = up[i]
        /\ Len(up) \in Nat /\ DOMAIN up = 1 .. Len(up) /\ DOMAIN up' = 1 .. Len(up')
    BY AppendProperties, EmptyLen DEF UpOK
  <1>2. \A i \in DOMAIN up' : i = Len(up) + 1 \/ (i \in DOMAIN up /\ up'[i] = up[i])
    BY <1>1
  <1>3. QED
    BY <1>1, <1>2 DEF Sent

LEMMA UpTail ==
    ASSUME UpOK, up # <<>>
    PROVE  /\ up' = Tail(up) => \A y : Sent(y)' => Sent(y)
           /\ Sent(Head(up))
  <1>1. /\ Tail(up) \in Seq({"START", "SPEAK_DONE"})
        /\ Len(Tail(up)) = Len(up) - 1 /\ Len(up) \in Nat \ {0}
        /\ \A i \in 1 .. Len(up) - 1 : Tail(up)[i] = up[i + 1]
        /\ Head(up) = up[1]
    BY TailSeq DEF UpOK
  <1>2. DOMAIN up = 1 .. Len(up) /\ DOMAIN Tail(up) = 1 .. Len(Tail(up))
    BY <1>1, EmptyLen DEF UpOK
  <1>3. \A i \in DOMAIN Tail(up) : i + 1 \in DOMAIN up /\ Tail(up)[i] = up[i + 1]
    BY <1>1, <1>2
  <1>4. 1 \in DOMAIN up
    BY <1>1, <1>2
  <1>5. QED
    BY <1>1, <1>3, <1>4 DEF Sent

(* A trace of a reply comes from another, or from the C5 in SPEAKING.      *)
Reason == ReplyTraces \/ c5 = "SPEAKING"

(* It is enough to look at the eight places.                               *)
LEMMA StillReason ==
    ASSUME audio' => Reason, prev_speaking' => Reason,
           s3' = "SPEAKING" => Reason, Speaks(taken)' => Reason,
           Spoken(down)' => Reason, Spoken(queue)' => Reason,
           TaskSpeaks' => Reason, Sent("SPEAK_DONE")' => Reason
    PROVE  ReplyTraces' => Reason
  BY Zenon DEF ReplyTraces

(* A place nobody writes to has no new trace.                              *)
LEMMA Kept ==
    /\ UNCHANGED audio => (audio' => Reason)
    /\ UNCHANGED prev_speaking => (prev_speaking' => Reason)
    /\ UNCHANGED s3 => (s3' = "SPEAKING" => Reason)
    /\ UNCHANGED taken => (Speaks(taken)' => Reason)
    /\ UNCHANGED down => (Spoken(down)' => Reason)
    /\ UNCHANGED queue => (Spoken(queue)' => Reason)
    /\ UNCHANGED task => (TaskSpeaks' => Reason)
    /\ UNCHANGED up => (Sent("SPEAK_DONE")' => Reason)
  <1>1. Speaks(taken)' <=> Speaks(taken')
    BY DEF Speaks
  <1>2. (Spoken(down)' <=> Spoken(down')) /\ (Spoken(queue)' <=> Spoken(queue'))
    BY DEF Spoken, Speaks
  <1>3. UNCHANGED task => (TaskSpeaks' => TaskSpeaks)
    BY DEF TaskSpeaks, resting
  <1>4. UNCHANGED up => (Sent("SPEAK_DONE")' => Sent("SPEAK_DONE"))
    BY DEF Sent
  <1>5. QED
    BY <1>1, <1>2, <1>3, <1>4, Zenon DEF Reason, ReplyTraces

(* A task's work is the S3's to come.                                      *)
LEMMA TaskReason ==
    ASSUME NEW t \in S3Tasks, \A u \in S3Tasks \ {t} : task'[u] = task[u],
           resting(t)' \/ (task'[t].st = "SPEAKING" => Reason)
    PROVE  TaskSpeaks' => Reason
  <1>1. \A u \in S3Tasks \ {t} : resting(u)' <=> resting(u)
    BY DEF resting
  <1> SUFFICES ASSUME TaskSpeaks' PROVE Reason
    OBVIOUS
  <1>2. PICK u \in S3Tasks : ~resting(u)' /\ task'[u].st = "SPEAKING"
    BY DEF TaskSpeaks
  <1>3. CASE u = t
    BY <1>2, <1>3
  <1>4. CASE u # t
    BY <1>1, <1>2, <1>4 DEF Reason, ReplyTraces, TaskSpeaks
  <1>5. QED
    BY <1>3, <1>4

(* Which messages speak.                                                   *)
LEMMA SpeaksFacts ==
    /\ \A st, src : Speaks([inter |-> st, src |-> src]) => st = "SPEAKING"
    /\ \A st : Speaks([inter |-> st]) => st = "SPEAKING"
    /\ \A st, b : Speaks([inter |-> st, online |-> b]) => st = "SPEAKING"
    /\ \A b : ~Speaks([online |-> b])
    /\ ~Speaks(None)
  BY DEF Speaks, None

(* Steps that leave the C5's turn alone, and show of a reply only what was *)
(* there.                                                                  *)
Unasked == UNCHANGED <<c5, crossed>> /\ (ReplyTraces' => Reason)

(* What the C5 tells of its own turn.                                      *)
LEMMA C5Unasked ==
    ASSUME DownOK, FlagsOK, C5OK,
           C5Forwards \/ Heartbeat \/ C5ConnMoves
    PROVE  Unasked
  <1> USE DEF c5Vars, wireVars, smVars, ctrlVars, s3Vars, counters
  <1>1. CASE C5Forwards
    <2>1. c5 = "SPEAKING" /\ UNCHANGED <<c5, crossed, up>>
      BY <1>1 DEF C5Forwards
    <2>2. QED
      BY <2>1 DEF Unasked, Reason
  <1>2. CASE Heartbeat
    <2> DEFINE m == [inter |-> c5, online |-> c5_online]
    <2>1. /\ UNCHANGED <<c5, crossed, up>> /\ down' = <<m>>
          /\ UNCHANGED <<audio, prev_speaking, s3, taken, queue, task>>
      BY <1>2 DEF Heartbeat
    <2>2. Speaks(m) => Reason
      BY SpeaksFacts DEF Reason
    <2> HIDE DEF m
    <2>3. Spoken(down)' => Reason
      BY <2>1, <2>2 DEF Spoken, Speaks
    <2>4. QED
      BY <2>1, <2>3, Kept, StillReason DEF Unasked
  <1>3. CASE C5ConnMoves
    <2> DEFINE m == [online |-> c5_online']
    <2>1. /\ UNCHANGED <<c5, crossed, up>>
          /\ down' = posted(down, StatusDepth, m)
          /\ UNCHANGED <<audio, prev_speaking, s3, taken, queue, task>>
      BY <1>3 DEF C5ConnMoves
    <2>2. c5_online' \in BOOLEAN
      BY <1>3, Zenon DEF C5ConnMoves
    <2>3. m \in Status /\ ~Speaks(m)
      BY <2>2, SpeaksFacts DEF Status
    <2> HIDE DEF m
    <2>4. Spoken(down)' => Spoken(down)
      <3>1. Spoken(down)' => Spoken(down')
        BY DEF Spoken, Speaks
      <3>2. QED
        BY <2>1, <2>3, <3>1, SpokenPosted DEF DownOK
    <2>5. QED
      BY <2>1, <2>4, Kept, StillReason DEF Unasked, Reason, ReplyTraces
  <1>4. QED
    BY <1>1, <1>2, <1>3

(* A change of the S3's turn, in its two steps.                            *)
LEMMA SetterUnasked ==
    ASSUME TaskOK, QueueOK, NEW t \in S3Tasks, Setter(t)
    PROVE  Unasked
  <1> USE DEF c5Vars, wireVars, smVars, ctrlVars, counters
  <1>1. CASE Set(t)
    <2>1. /\ UNCHANGED <<c5, crossed, up>>
          /\ UNCHANGED <<audio, prev_speaking, taken, down, queue>>
      BY <1>1 DEF Set
    <2>2. /\ ~resting(t) /\ \A u \in S3Tasks \ {t} : task'[u] = task[u]
          /\ s3' = s3 \/ s3' = task[t].st
          /\ resting(t)' \/ task'[t].st = task[t].st
      BY <1>1, SetFacts
    <2>3. task[t].st = "SPEAKING" => Reason
      BY <2>2 DEF Reason, ReplyTraces, TaskSpeaks
    <2>4. s3' = "SPEAKING" => Reason
      BY <2>2, <2>3 DEF Reason, ReplyTraces
    <2>5. TaskSpeaks' => Reason
      BY <2>2, <2>3, TaskReason
    <2>6. QED
      BY <2>1, <2>4, <2>5, Kept, StillReason DEF Unasked
  <1>2. CASE Tell(t)
    <2> DEFINE m == [inter |-> task[t].st, src |-> task[t].src]
    <2>1. /\ UNCHANGED <<c5, crossed, up>>
          /\ UNCHANGED <<audio, prev_speaking, s3, taken, down>>
          /\ queue' = posted(queue, Depth, m)
      BY <1>2 DEF Tell
    <2>2. /\ ~resting(t) /\ resting(t)' /\ task[t].st \in Turns
          /\ task[t].src \in Sources
          /\ \A u \in S3Tasks \ {t} : task'[u] = task[u]
      BY <1>2, TellFacts
    <2>3. task[t].st = "SPEAKING" => Reason
      BY <2>2 DEF Reason, ReplyTraces, TaskSpeaks
    <2>4. m \in Message /\ (Speaks(m) => Reason)
      BY <2>2, <2>3, MessageFacts, SpeaksFacts
    <2> HIDE DEF m
    <2>5. Spoken(queue)' => Reason
      <3>1. Spoken(queue)' => Spoken(queue')
        BY DEF Spoken, Speaks
      <3>2. Spoken(queue') => Spoken(queue) \/ Speaks(m)
        BY <2>1, <2>4, SpokenPosted DEF QueueOK
      <3>3. QED
        BY <2>4, <3>1, <3>2 DEF Reason, ReplyTraces
    <2>6. TaskSpeaks' => Reason
      BY <2>2, TaskReason
    <2>7. QED
      BY <2>1, <2>5, <2>6, Kept, StillReason DEF Unasked
  <1>3. QED
    BY <1>1, <1>2 DEF Setter

(* The status frames, audio and the end of playback.                       *)
LEMMA HeardUnasked ==
    ASSUME C5OK, FlagsOK, DownOK, TaskOK, QueueOK,
           StatusUpdate \/ AudioDownlink \/ PlaybackEnds \/ WakeWord
    PROVE  Unasked
  <1> USE DEF c5Vars, wireVars, smVars, ctrlVars, counters
  <1>1. CASE StatusUpdate
    <2> DEFINE m == status(Head(down))
    <2>1. /\ UNCHANGED <<c5, crossed, up>>
          /\ UNCHANGED <<audio, prev_speaking, s3, taken>>
          /\ down # <<>> /\ down' = Tail(down)
          /\ UNCHANGED task \/ willSet("uart", m.inter, "UNKNOWN")
      BY <1>1 DEF StatusUpdate, mirrors
    <2>2. /\ Spoken(Tail(down)) => Spoken(down)
          /\ Speaks(Head(down)) => Spoken(down)
          /\ Head(down) \in Status
      BY <2>1, SpokenTail, TailSeq DEF DownOK
    <2>3. m.inter \in Turns
      BY <2>2, StatusFacts
    <2>4. m.inter = "SPEAKING" => Speaks(Head(down)) \/ c5 = "SPEAKING"
      BY DEF status, Speaks
    <2> HIDE DEF m
    <2>5. m.inter = "SPEAKING" => Reason
      BY <2>2, <2>4 DEF Reason, ReplyTraces
    <2>6. Spoken(down)' => Reason
      BY <2>1, <2>2 DEF Spoken, Speaks, Reason, ReplyTraces
    <2>7. Spoken(queue)' => Reason
      <3>1. /\ s3_online' \in BOOLEAN
            /\ queue' \in {queue, posted(queue, Depth, [online |-> s3_online'])}
        BY <1>1, StatusUpdateFacts
      <3>2. [online |-> s3_online'] \in Message /\ ~Speaks([online |-> s3_online'])
        BY <3>1, MessageFacts, SpeaksFacts
      <3>3. Spoken(queue') => Spoken(queue)
        BY <3>1, <3>2, SpokenPosted DEF QueueOK
      <3>4. Spoken(queue)' => Spoken(queue')
        BY DEF Spoken, Speaks
      <3>5. QED
        BY <3>3, <3>4 DEF Reason, ReplyTraces
    <2>8. TaskSpeaks' => Reason
      <3>1. CASE UNCHANGED task
        BY <3>1, Kept
      <3>2. CASE willSet("uart", m.inter, "UNKNOWN")
        <4>1. "uart" \in S3Tasks /\ "UNKNOWN" \in Sources
          BY DEF S3Tasks, Sources
        <4>2. /\ \A u \in S3Tasks \ {"uart"} : task'[u] = task[u]
              /\ task'["uart"].st = m.inter
          BY <2>3, <3>2, <4>1, WillSetFacts
        <4>3. QED
          BY <2>5, <4>1, <4>2, TaskReason
      <3>3. QED
        BY <2>1, <3>1, <3>2
    <2>9. QED
      BY <2>1, <2>6, <2>7, <2>8, Kept, StillReason DEF Unasked
  <1>2. CASE AudioDownlink
    <2>1. audio /\ UNCHANGED <<c5, crossed, up>>
      BY <1>2, Zenon DEF AudioDownlink
    <2>2. Reason
      BY <2>1, Zenon DEF Reason, ReplyTraces
    <2>3. QED
      BY <2>1, <2>2 DEF Unasked
  <1>3. ASSUME NEW t \in {"recv", "wake"}, NEW st \in {"IDLE", "LISTENING"},
               NEW src \in Sources, willSet(t, st, src),
               UNCHANGED <<c5, crossed, up>>,
               UNCHANGED <<audio, prev_speaking, s3, taken, down, queue>>
        PROVE  Unasked
    <2>1. t \in S3Tasks /\ st \in Turns /\ st # "SPEAKING"
      BY DEF S3Tasks, Turns
    <2>2. /\ \A u \in S3Tasks \ {t} : task'[u] = task[u]
          /\ task'[t].st = st
      BY <1>3, <2>1, WillSetFacts
    <2>3. TaskSpeaks' => Reason
      BY <2>1, <2>2, TaskReason
    <2>4. QED
      BY <1>3, <2>3, Kept, StillReason DEF Unasked
  <1>4. CASE PlaybackEnds
    BY <1>3, <1>4 DEF PlaybackEnds, Sources
  <1>5. CASE WakeWord
    BY <1>3, <1>5 DEF WakeWord, Sources
  <1>6. QED
    BY <1>1, <1>2, <1>4, <1>5

(* A message taken from the controller's queue.                            *)
LEMMA HandleReason ==
    ASSUME QueueOK, NEW m, Handle(m),
           m \in {taken} \union {queue[i] : i \in DOMAIN queue}
    PROVE  /\ Speaks(m) => Reason
           /\ Speaks(taken)' => Reason
           /\ Spoken(queue)' => Reason
  <1>1. \/ taken = m /\ taken' = None /\ queue' = queue
        \/ taken = None /\ taken' = taken /\ queue # <<>> /\ m = Head(queue)
           /\ queue' = Tail(queue)
    BY HandleFacts
  <1>2. queue # <<>> => /\ Spoken(Tail(queue)) => Spoken(queue)
                        /\ Speaks(Head(queue)) => Spoken(queue)
    BY SpokenTail DEF QueueOK
  <1>3. (Speaks(taken)' <=> Speaks(taken')) /\ (Spoken(queue)' <=> Spoken(queue'))
    BY DEF Spoken, Speaks
  <1>4. ~Speaks(None)
    BY SpeaksFacts
  <1>5. (Speaks(taken) \/ Spoken(queue)) => Reason
    BY Zenon DEF Reason, ReplyTraces
  <1>6. QED
    BY <1>1, <1>2, <1>3, <1>4, <1>5

(* The controller's watchdog and its handling of the connection; time.     *)
LEMMA ControllerUnasked ==
    ASSUME TaskOK, QueueOK,
           \/ WatchdogFires \/ TimePasses
           \/ \E m \in {taken} \union {queue[i] : i \in DOMAIN queue} :
                  OnConnectivity(m)
    PROVE  Unasked
  <1> USE DEF c5Vars, wireVars, smVars, ctrlVars, amVars, counters
  <1>0. "ctrl" \in S3Tasks
    BY DEF S3Tasks
  <1>1. CASE WatchdogFires
    <2>1. /\ UNCHANGED <<c5, crossed, up>>
          /\ UNCHANGED <<audio, prev_speaking, s3, down>>
      BY <1>1 DEF WatchdogFires
    <2>2. /\ \/ queue # <<>> /\ taken' = Head(queue) /\ queue' = Tail(queue)
             \/ queue' = queue /\ taken' = taken
          /\ \A u \in S3Tasks \ {"ctrl"} : task'[u] = task[u]
          /\ task'["ctrl"].st = "IDLE"
      BY <1>1, WatchdogFacts
    <2>3. TaskSpeaks' => Reason
      BY <1>0, <2>2, TaskReason
    <2>4. queue # <<>> => /\ Spoken(Tail(queue)) => Spoken(queue)
                          /\ Speaks(Head(queue)) => Spoken(queue)
      BY SpokenTail DEF QueueOK
    <2>5. (Speaks(taken)' <=> Speaks(taken')) /\ (Spoken(queue)' <=> Spoken(queue'))
      BY DEF Spoken, Speaks
    <2>6. (Speaks(taken)' => Reason) /\ (Spoken(queue)' => Reason)
      BY <2>2, <2>4, <2>5, Zenon DEF Reason, ReplyTraces
    <2>7. QED
      BY <2>1, <2>3, <2>6, Kept, StillReason DEF Unasked
  <1>2. CASE TimePasses
    <2>1. /\ UNCHANGED <<c5, crossed, up>>
          /\ UNCHANGED <<audio, prev_speaking, s3, taken, down, queue, task>>
      BY <1>2 DEF TimePasses
    <2>2. QED
      BY <2>1, Kept, StillReason DEF Unasked
  <1>3. ASSUME NEW m \in {taken} \union {queue[i] : i \in DOMAIN queue},
               OnConnectivity(m)
        PROVE  Unasked
    <2>1. /\ UNCHANGED <<c5, crossed, up>>
          /\ UNCHANGED <<audio, prev_speaking, s3, down>>
      BY <1>3 DEF OnConnectivity
    <2>2. /\ Handle(m) /\ \A u \in S3Tasks \ {"ctrl"} : task'[u] = task[u]
          /\ UNCHANGED task \/ task'["ctrl"].st = "IDLE"
      BY <1>3, ConnectivityFacts
    <2>3. (Speaks(taken)' => Reason) /\ (Spoken(queue)' => Reason)
      BY <1>3, <2>2, HandleReason
    <2>4. TaskSpeaks' => Reason
      BY <1>0, <2>2, Kept, TaskReason
    <2>5. QED
      BY <2>1, <2>3, <2>4, Kept, StillReason DEF Unasked
  <1>4. QED
    BY <1>1, <1>2, <1>3

(* The C5 goes on, or ends its turn: what it tells is not of a reply,      *)
(* unless it speaks.                                                       *)
LEMMA C5SetsClean ==
    ASSUME DownOK, Clean, NEW to \in Turns, C5Sets(to),
           UNCHANGED <<audio, prev_speaking, s3, taken, queue, task>>,
           Sent("SPEAK_DONE")' => Sent("SPEAK_DONE")
    PROVE  Clean'
  <1>1. /\ c5' = to
        /\ down' = down \/ down' = posted(down, StatusDepth, [inter |-> to])
        /\ to \in {"LISTENING", "PROCESSING"} /\ ReplyTraces => crossed'
    <2>1. c5' = to /\ crossed' = (to \in {"LISTENING", "PROCESSING"} /\ ReplyTraces)
      BY Zenon DEF C5Sets
    <2>2. down' = IF c5 = to THEN down ELSE posted(down, StatusDepth, [inter |-> to])
      BY Zenon DEF C5Sets
    <2>3. QED
      BY <2>1, <2>2, Zenon
  <1>2. SUFFICES ASSUME to \in {"LISTENING", "PROCESSING"}, ReplyTraces'
                 PROVE  ReplyTraces
    BY <1>1 DEF Clean
  <1>3. Spoken(down)' => Spoken(down)
    <2>1. [inter |-> to] \in Status /\ ~Speaks([inter |-> to])
      BY <1>2, SpeaksFacts DEF Status
    <2>2. Spoken(down') => Spoken(down)
      BY <1>1, <2>1, SpokenPosted DEF DownOK
    <2>3. QED
      BY <2>2 DEF Spoken, Speaks
  <1>4. /\ Spoken(queue)' => Spoken(queue)
        /\ Speaks(taken)' => Speaks(taken)
        /\ TaskSpeaks' => TaskSpeaks
    BY DEF Spoken, Speaks, TaskSpeaks, resting
  <1>5. /\ audio' => audio
        /\ prev_speaking' => prev_speaking
        /\ s3' = "SPEAKING" => s3 = "SPEAKING"
    OBVIOUS
  <1>6. QED
    BY <1>2, <1>3, <1>4, <1>5, Zenon DEF ReplyTraces

(* SPEAK_DONE leaves the S3 with a trace of the reply behind it.           *)
LEMMA InteractionUnasked ==
    ASSUME UpOK, QueueOK,
           NEW m \in {taken} \union {queue[i] : i \in DOMAIN queue},
           OnInteraction(m)
    PROVE  Unasked
  <1> USE DEF c5Vars, wireVars, smVars, ctrlVars, amVars
  <1>1. /\ Handle(m) /\ prev_speaking' = (m.inter = "SPEAKING")
        /\ "inter" \in DOMAIN m
        /\ \/ up' = up \/ up' = Append(up, "START")
           \/ prev_speaking /\ up' = Append(up, "SPEAK_DONE")
        /\ UNCHANGED <<c5, crossed, audio, s3, down, task>>
    BY Zenon DEF OnInteraction, playedOut
  <1>2. /\ (Speaks(m) => Reason) /\ (Speaks(taken)' => Reason)
        /\ (Spoken(queue)' => Reason)
    BY <1>1, HandleReason
  <1>3. prev_speaking' => Reason
    <2>1. prev_speaking' => Speaks(m)
      BY <1>1, Zenon DEF Speaks
    <2>2. QED
      BY <1>2, <2>1
  <1>4. Sent("SPEAK_DONE")' => Reason
    <2>1. CASE up' = up
      BY <2>1, Kept
    <2>2. CASE prev_speaking /\ up' = Append(up, "SPEAK_DONE")
      BY <2>2, Zenon DEF Reason, ReplyTraces
    <2>3. CASE up' = Append(up, "START")
      <3>1. Sent("SPEAK_DONE")' => Sent("SPEAK_DONE")
        BY <2>3, UpAppend
      <3>2. QED
        BY <3>1 DEF Reason, ReplyTraces
    <2>4. QED
      BY <1>1, <2>1, <2>2, <2>3
  <1>5. QED
    BY <1>1, <1>2, <1>3, <1>4, Kept, StillReason DEF Unasked

(* A frame that is lost leaves nothing, nor does a reset of the S3.        *)
LEMMA NoiseUnasked ==
    ASSUME DownOK, UpOK, LineNoise \/ S3Resets \/ C5FallsSilent
    PROVE  Unasked
  <1> USE DEF c5Vars, wireVars, smVars, ctrlVars, s3Vars, amVars
  <1>1. CASE LineNoise
    <2>1. /\ UNCHANGED <<c5, crossed>>
          /\ UNCHANGED <<audio, prev_speaking, s3, taken, queue, task>>
          /\ \/ up # <<>> /\ up' = Tail(up) /\ UNCHANGED down
             \/ down # <<>> /\ down' = Tail(down) /\ UNCHANGED up
      BY <1>1 DEF LineNoise
    <2>2. Spoken(down)' => Reason
      <3>1. CASE UNCHANGED down
        BY <3>1, Kept
      <3>2. CASE down # <<>> /\ down' = Tail(down)
        <4>1. Spoken(Tail(down)) => Spoken(down)
          BY <3>2, SpokenTail DEF DownOK
        <4>2. Spoken(down)' <=> Spoken(down')
          BY DEF Spoken, Speaks
        <4>3. QED
          BY <3>2, <4>1, <4>2 DEF Reason, ReplyTraces
      <3>3. QED
        BY <2>1, <3>1, <3>2
    <2>3. Sent("SPEAK_DONE")' => Reason
      <3>1. Sent("SPEAK_DONE")' => Sent("SPEAK_DONE")
        BY <2>1, UpTail DEF Sent
      <3>2. QED
        BY <3>1 DEF Reason, ReplyTraces
    <2>4. QED
      BY <2>1, <2>2, <2>3, Kept, StillReason DEF Unasked
  <1>2. CASE S3Resets
    <2>1. /\ UNCHANGED <<c5, crossed>>
          /\ audio' = FALSE /\ prev_speaking' = FALSE /\ s3' = "IDLE"
          /\ taken' = None /\ down' = <<>> /\ queue' = <<>> /\ up' = <<>>
          /\ task' = [t \in S3Tasks |-> Resting]
      BY <1>2 DEF S3Resets
    <2>2. ~TaskSpeaks'
      BY <2>1 DEF TaskSpeaks, resting
    <2>3. ~Spoken(down)' /\ ~Spoken(queue)' /\ ~Sent("SPEAK_DONE")'
      BY <2>1, EmptySeq DEF Spoken, Sent
    <2>4. ~Speaks(taken)'
      BY <2>1 DEF Speaks, None
    <2>5. QED
      BY <2>1, <2>2, <2>3, <2>4, Zenon DEF Unasked, ReplyTraces
  <1>3. CASE C5FallsSilent
    <2>1. /\ UNCHANGED <<c5, crossed, up, down>>
          /\ UNCHANGED <<audio, prev_speaking, s3, taken, queue, task>>
      BY <1>3 DEF C5FallsSilent
    <2>2. QED
      BY <2>1, Kept, StillReason DEF Unasked
  <1>4. QED
    BY <1>1, <1>2, <1>3

(* Every step keeps a clean turn clean.                                    *)
LEMMA NextClean ==
    ASSUME IInv, Clean, [Next]_vars
    PROVE  Clean'
  <1>0. /\ FlagsOK /\ C5OK /\ DownOK /\ UpOK /\ S3OK /\ TaskOK /\ QueueOK
    BY TypeParts DEF IInv
  <1>1. Unasked => Clean'
    BY DEF Unasked, Reason, Clean
  <1>2. CASE C5Ends \/ C5Moves \/ C5Receives
    <2>1. /\ UNCHANGED <<audio, prev_speaking, s3, taken, queue, task>>
          /\ \/ \E to \in Turns : C5Sets(to)
             \/ UNCHANGED <<c5, crossed, down>>
          /\ up' = up \/ (up # <<>> /\ up' = Tail(up))
      BY <1>2 DEF C5Ends, C5Moves, C5Receives, Turns, s3Vars, smVars,
                  ctrlVars, wireVars
    <2>2. Sent("SPEAK_DONE")' => Sent("SPEAK_DONE")
      BY <1>0, <2>1, UpTail DEF Sent
    <2>3. CASE \E to \in Turns : C5Sets(to)
      BY <1>0, <2>1, <2>2, <2>3, C5SetsClean
    <2>4. CASE UNCHANGED <<c5, crossed, down>>
      <3>1. Sent("SPEAK_DONE")' => Reason
        BY <2>2 DEF Reason, ReplyTraces
      <3>2. Unasked
        BY <2>1, <2>4, <3>1, Kept, StillReason DEF Unasked
      <3>3. QED
        BY <1>1, <3>2
    <2>5. QED
      BY <2>1, <2>3, <2>4
  <1>3. CASE C5Forwards \/ Heartbeat \/ C5ConnMoves
    BY <1>0, <1>1, <1>3, C5Unasked
  <1>4. CASE C5Resets
    BY <1>4 DEF C5Resets, Clean
  <1>5. CASE LineNoise \/ S3Resets \/ C5FallsSilent
    BY <1>0, <1>1, <1>5, NoiseUnasked
  <1>6. ASSUME NEW t \in S3Tasks, Setter(t) PROVE Clean'
    BY <1>0, <1>1, <1>6, SetterUnasked
  <1>7. CASE StatusUpdate \/ AudioDownlink \/ PlaybackEnds \/ WakeWord
    BY <1>0, <1>1, <1>7, HeardUnasked
  <1>8. CASE \/ WatchdogFires \/ TimePasses
             \/ \E m \in {taken} \union {queue[i] : i \in DOMAIN queue} :
                    OnConnectivity(m)
    BY <1>0, <1>1, <1>8, ControllerUnasked
  <1>9. ASSUME NEW m \in {taken} \union {queue[i] : i \in DOMAIN queue},
               OnInteraction(m)
        PROVE  Clean'
    BY <1>0, <1>1, <1>9, InteractionUnasked
  <1>10. CASE UNCHANGED vars
    <2>1. /\ UNCHANGED <<c5, crossed, up, down>>
          /\ UNCHANGED <<audio, prev_speaking, s3, taken, queue, task>>
      BY <1>10 DEF vars, c5Vars, wireVars, s3Vars, smVars, ctrlVars
    <2>2. Unasked
      BY <2>1, Kept, StillReason DEF Unasked
    <2>3. QED
      BY <1>1, <2>2
  <1>11. QED
    BY <1>2, <1>3, <1>4, <1>5, <1>6, <1>7, <1>8, <1>9, <1>10
       DEF Next, Controller

(* For queues of any length, any number of wake words and whatever was     *)
(* lost or restarted on the way: a turn that the C5 takes up when nothing  *)
(* is left of a reply is not ended by a SPEAK_DONE before it speaks        *)
(* (onControlCmd in DeviceProfile, onInteractionStateChanged of the S3).   *)
THEOREM SpeakDoneIsForReply == Spec => SpeakDoneEndsReply
  <1>1. Spec => []Clean
    <2>1. Init => Clean
      BY DEF Init, Clean
    <2>2. IInv /\ Clean /\ [Next]_vars => Clean'
      BY NextClean
    <2>3. QED
      BY <2>1, <2>2, Invariant, PTL DEF Spec
  <1>2. ASSUME IInv, Clean, C5Receives, Head(up) = "SPEAK_DONE"
        PROVE  c5 \in {"SPEAKING", "IDLE"} \/ crossed
    <2>1. up # <<>> /\ UpOK /\ C5OK
      BY <1>2, TypeParts DEF C5Receives, IInv
    <2>2. ReplyTraces
      BY <1>2, <2>1, UpTail, Zenon DEF ReplyTraces
    <2>3. QED
      BY <1>2, <2>1, <2>2 DEF Clean, C5OK, Turns
  <1>3. IInv /\ Clean =>
          [C5Receives /\ Head(up) = "SPEAK_DONE"
             => c5 \in {"SPEAKING", "IDLE"} \/ crossed]_vars
    BY <1>2
  <1>4. QED
    BY <1>1, <1>3, Invariant, PTL DEF SpeakDoneEndsReply
=============================================================================
