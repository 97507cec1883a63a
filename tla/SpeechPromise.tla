---------------------------- MODULE SpeechPromise ----------------------------
(***************************************************************************)
(* What the spoken output of a duplex session promises, with the part of   *)
(* its state this speaks of.  Speech says how it comes about.              *)
(***************************************************************************)
EXTENDS Integers, Sequences, SequencesExt

VARIABLES
    phase,     \* what the handler of the current connection is doing
    sess,      \* the current DuplexLiveSession, counted from 1
    gen,       \* _generation_id of the worker
    job,       \* the request being synthesised, or Nothing
    cache,     \* whose speech the Talker's caches continue: << sess, gen >>
    box,       \* box[c]: the outbox of the connection
    told,      \* told[c]: the last generation a cancel told the client
    made,      \* chunks the worker has put out
    heard,     \* chunks written to a socket
    lost       \* what a dropped connection had taken from the worker

NoCache == << 0, 0 >>

\* The Talker speaks a request on caches that are empty or continue the same
\* generation of the same session, whichever moment a cancellation chose
\* (AsyncTalkerWorker._run, detached_talker.py:715-720).
OwnVoice == job.kind \in {"check", "put"} =>
                cache \in {NoCache, << sess, job.r.gen >>}

AllIsHeard == \A m \in made : m.sess = sess /\ m.gen = gen => m \in heard \cup lost

\* session.done is sent after all audio the session made and did not cancel,
\* except what a dropped connection had taken, its pump from a resumed one too
\* (_drain, stop_speech_output_pump and join in the order of Stop).
DoneIsAll == phase = "done" /\ sess = 1 => AllIsHeard

\* Each generation is spoken in its own voice and to its end
\* (AsyncTalkerWorker._run, detached_talker.py:715-785; _drain, online_duplex.py:618).
SpeechKept == OwnVoice /\ DoneIsAll

\* Once the client was told that a generation is cancelled, no audio of it
\* is written, although the worker may put a chunk out after the cancel
\* and the cancel overtakes audio in the outbox (_WebSocketOutbox._stale_audio).
NoStaleAudio ==
    [][\A c \in DOMAIN box : \A m \in heard' \ heard :
          m \in ToSet(box[c].audio) => m.gen >= told[c]]_heard
=============================================================================
