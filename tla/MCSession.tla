------------------------------ MODULE MCSession ------------------------------
(***************************************************************************)
(* The sessions of the server: who holds the model over connections and    *)
(* timers (DuplexSession), what becomes of the speech one of them makes    *)
(* (Speech), and what its model hears and sees (Media).  The three share   *)
(* no variable; every behaviour explored is one of one of them.            *)
(***************************************************************************)
EXTENDS DuplexSession, SpeechPromise, MediaPromise

CONSTANTS c1, c2, c3, s1,
          MaxUnits, MaxEvents, MaxChunks,
          UnitSamples, FrameSizes, ClientVideoMode, MaxPending, MinGap,
          MaxNow, MaxShots, MaxChanges, MaxWire

VARIABLES part

VARIABLES conn, turn, shut, reqs, rgen, outs, pump, stop, held, detach, units, events

VARIABLES now, wire, header, line, parts, chunk, mode, amode, pending,
          last, gate, shots, taken, kept, changes

Spoken == INSTANCE Speech
Captured == INSTANCE Media

ASSUME InstancesAssumption == Spoken!SpeechAssumption /\ Captured!MediaAssumption

speechVars == << phase, conn, sess, turn, gen, shut, reqs, job, rgen, cache,
                 outs, pump, stop, held, detach, box, units, events, told,
                 made, heard, lost >>
mediaVars == << now, client, wire, at, header, line, parts, chunk, mode, amode,
                pending, last, gate, shots, taken, kept, unit, shown, changes,
                resumes >>

\* Every client asks for the same session id.
SameId == [c \in Conns |-> s1]

\* Media starts in several states, which the other two need only once.
MCInit ==
    /\ part \in {"session", "speech", "media"}
    /\ Init /\ Spoken!Init /\ Captured!Init
    /\ part # "media" => client.timed /\ mode = "voice"

MCNext ==
    \/ part = "session" /\ Next /\ UNCHANGED << part, speechVars, mediaVars >>
    \/ part = "speech" /\ Spoken!Next /\ UNCHANGED << part, vars, mediaVars >>
    \/ part = "media" /\ Captured!Next /\ UNCHANGED << part, vars, speechVars >>

\* The fairness of DuplexSession, of its own behaviours.
MCFairness ==
    \A c \in Conns : /\ WF_vars(part = "session" /\ StartupStep(c))
                     /\ WF_vars(part = "session" /\ TeardownStep(c))
                     /\ WF_vars(part = "session" /\ GraceStep(c))

MCSpec == MCInit /\ [][MCNext]_<< part, vars, speechVars, mediaVars >> /\ MCFairness
=============================================================================
