------------------------------ MODULE ModelSlot ------------------------------
(***************************************************************************)
(* What the runtime promises about its one Thinker: whoever opens a model  *)
(* session holds the slot from before it is built until after it is        *)
(* closed, and gives it back once.                                         *)
(***************************************************************************)
CONSTANTS Openers, Nobody

VARIABLES holder,   \* who holds the slot
          thinker   \* the model session of each opener

vars == <<holder, thinker>>

Init == /\ holder = Nobody
        /\ thinker = [o \in Openers |-> "none"]

\* The slot is taken, and the model session is being opened.
Acquire(o) == /\ holder = Nobody
              /\ thinker[o] = "none"
              /\ holder' = o
              /\ thinker' = [thinker EXCEPT ![o] = "opening"]

\* The model session of o comes up, or is closed.
Becomes(o, from, to) == /\ holder = o
                        /\ thinker[o] \in from
                        /\ thinker' = [thinker EXCEPT ![o] = to]
                        /\ UNCHANGED holder

\* A session may be closed in the step that gives the slot back.
Release(o) == /\ holder = o
              /\ thinker' = [thinker EXCEPT ![o] = "closed"]
              /\ holder' = Nobody

Next == \E o \in Openers :
            \/ Acquire(o)
            \/ Becomes(o, {"opening"}, "open")
            \/ Becomes(o, {"opening", "open"}, "closed")
            \/ Release(o)

Spec == Init /\ [][Next]_vars
=============================================================================
