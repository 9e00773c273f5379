-------------------------------- MODULE Turn --------------------------------
(***************************************************************************)
(* What the C5 promises of a turn, whoever moves it.  The state is set at  *)
(* once together with its age, and time never passes over a state that is  *)
(* past its limit.  Only a wake word or a button opens the microphone.     *)
(* PROCESSING is the end of a recording, SPEAKING the answer to one: who   *)
(* sets them has seen the state that allows it, and though the turn may    *)
(* have moved since, the late set of an answer never takes the microphone  *)
(* from the user.  VoiceTurn, where three tasks set the state in two steps *)
(* and a timer looks at it from above, implements this.                    *)
(***************************************************************************)
EXTENDS Naturals

CONSTANTS
    ListenMax, ProcessingTimeout, SpeakingStall,  \* the limits, in ticks
    Old,                                          \* ages are counted so far
    Releasers                                     \* who may end a recording

VARIABLES
    state,       \* IDLE, LISTENING, PROCESSING or SPEAKING
    age,         \* ticks since the state was set
    quiet,       \* ticks since the last TTS audio
    heard,       \* a piece of the answer came to a turn that waits for it
    released     \* who has seen LISTENING and is about to end it

vars == <<state, age, quiet, heard, released>>

Init ==
    /\ state = "IDLE" /\ age = Old /\ quiet = Old
    /\ heard = FALSE /\ released = {}

(* A set that brings nothing new leaves the age alone.                     *)
sets(to) ==
    /\ state' = to /\ quiet' = quiet
    /\ \/ age' = 0
       \/ state = to /\ age' = age

(* The user starts a turn, also over an answer; nothing comes between an   *)
(* answer and the state it brings.                                         *)
Start == ~heard /\ sets("LISTENING") /\ UNCHANGED <<heard, released>>

(* The user lets go, and some time later the recording is over.            *)
Release(r) ==
    /\ ~heard /\ state = "LISTENING"
    /\ released' = released \cup {r}
    /\ UNCHANGED <<state, age, quiet, heard>>

Released(r) ==
    /\ ~heard /\ r \in released
    /\ sets("PROCESSING")
    /\ released' = released \ {r} /\ UNCHANGED heard

(* The cap on a recording: no sooner than at its limit, or in the very     *)
(* moment the state is set, when its age cannot be known.                  *)
Cap ==
    /\ state = "LISTENING" /\ (age = 0 \/ age > ListenMax)
    /\ sets("PROCESSING") /\ UNCHANGED <<heard, released>>

Answer ==
    /\ ~heard /\ state \in {"PROCESSING", "SPEAKING"}
    /\ heard' = TRUE /\ quiet' = 0
    /\ UNCHANGED <<state, age, released>>

Speak ==
    /\ heard /\ heard' = FALSE
    /\ state # "LISTENING" /\ sets("SPEAKING")
    /\ UNCHANGED released

(* SPEAK_DONE, audio_stop, a lost session or the watchdog.                 *)
Finish == sets("IDLE") /\ UNCHANGED <<heard, released>>

Audio == quiet' = 0 /\ UNCHANGED <<state, age, heard, released>>

overdue ==
    \/ state = "LISTENING" /\ age > ListenMax
    \/ state = "PROCESSING" /\ age > ProcessingTimeout
    \/ state = "SPEAKING" /\ age > SpeakingStall /\ quiet > SpeakingStall

older(n) == IF n = Old THEN n ELSE n + 1

Tick ==
    /\ ~overdue /\ ~heard
    /\ age' = older(age) /\ quiet' = older(quiet)
    /\ UNCHANGED <<state, heard, released>>

Next ==
    \/ Start \/ Cap \/ Answer \/ Speak \/ Finish \/ Audio \/ Tick
    \/ \E r \in Releasers : Release(r) \/ Released(r)

Spec == Init /\ [][Next]_vars
=============================================================================
