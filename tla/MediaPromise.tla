---------------------------- MODULE MediaPromise ----------------------------
(***************************************************************************)
(* What the model of a session is promised of the time of what it hears    *)
(* and sees, with the part of the state that this speaks of; Media says    *)
(* how these variables change.                                             *)
(***************************************************************************)
EXTENDS Integers, Sequences

VARIABLES
    at,         \* where the handler of the duplex socket stands
    client,     \* [timed, seq, cap, paused]: the page and its counters
    unit,       \* the last unit the model was given: [first, start]
    shown,      \* pictures given since the buffer was cleared: [picture, start]
    resumes     \* connections resumed so far

None == -1      \* no time
NoUnit == [first |-> None, start |-> None]

\* While no connection was resumed, the timeline and the chunker cut the
\* microphone at the same places: no frame of the page is refused, and the
\* time a unit is said to begin at is the time its first sample was captured,
\* whatever the sizes of the frames, the pauses and the resets
\* (media_timeline.py:78-136, realtime.py:241-272).
UnitsTimed ==
    (resumes = 0) =>
        /\ at # "failed"
        /\ unit.start \in {None, unit.first}
        /\ (client.timed /\ unit # NoUnit) => (unit.start # None)

\* The pictures the model is given never go back in time, and none was
\* captured after the unit it accompanies began, though they are published in
\* any order (screen.py:58-110).
FramesInOrder ==
    /\ \A i \in DOMAIN shown :
         shown[i].start = None \/ shown[i].picture <= shown[i].start
    /\ \A i, j \in DOMAIN shown :
         (i < j) => (shown[i].picture <= shown[j].picture)

\* What the model hears and what it sees belong to the same moment.
SeenInTime == UnitsTimed /\ FramesInOrder
=============================================================================
