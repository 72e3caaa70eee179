--------------------------- MODULE LevelTriggered ---------------------------
(* What a level-triggered controller promises, without caches, queues or retries:
   as long as the result for an object is not what the object calls for now, work on
   it is pending.  How often and from what copies the work is done is left open.
   Both reconcilers of the operator implement this specification. *)

CONSTANTS
    Names,      \* names of objects
    Inputs,     \* what an object can call for
    Absent      \* the object does not exist; nothing has been done for it

VARIABLES
    needed,     \* per name: what the object calls for
    done,       \* per name: what the last work on it has achieved
    pending,    \* names whose work is under way or announced
    missed      \* names whose last announcement was lost

vars == <<needed, done, pending, missed>>

(* Everything that exists is announced at the start *)
Init ==
    /\ needed \in [Names -> Inputs \cup {Absent}]
    /\ done = [n \in Names |-> Absent]
    /\ pending \in SUBSET Names
    /\ {n \in Names : needed[n] # Absent} \subseteq pending
    /\ missed = {}

(* Objects change, several at once when they share what has changed.  Whatever
   changes becomes pending; what was done for an object goes with it. *)
Change ==
    /\ needed' \in [Names -> Inputs \cup {Absent}]
    /\ done' = [n \in Names |-> IF needed'[n] = Absent THEN Absent ELSE done[n]]
    /\ pending' \in SUBSET Names
    /\ pending \subseteq pending'
    /\ {n \in Names : needed'[n] # needed[n]} \subseteq pending'
    /\ UNCHANGED missed

(* Work on n comes to its end.  It may have used an old copy, and then more work is
   pending; without that n leaves only with what it needs now. *)
Finish(n) ==
    /\ n \in pending /\ needed[n] # Absent
    /\ done' \in [Names -> Inputs \cup {Absent}]
    /\ \A other \in Names \ {n} : done'[other] = done[other]
    /\ pending' \in {pending, pending \ {n}}
    /\ n \in pending' \cup missed \/ done'[n] = needed[n]
    /\ UNCHANGED <<needed, missed>>

(* More work is announced, also for what was missed; absent objects need none *)
Announce ==
    /\ pending' \in SUBSET Names /\ missed' \in SUBSET missed
    /\ \A n \in Names : needed[n] # Absent =>
         /\ n \in pending => n \in pending'
         /\ n \in missed => n \in missed' \cup pending'
    /\ UNCHANGED <<needed, done>>

(* The announcement of a change is lost *)
Lose ==
    /\ missed' \in SUBSET Names /\ pending' \in SUBSET pending
    /\ missed \subseteq missed'
    /\ pending \ pending' \subseteq missed'
    /\ UNCHANGED <<needed, done>>

Next == Change \/ Announce \/ Lose \/ \E n \in Names : Finish(n)

Spec == Init /\ [][Next]_vars

-----------------------------------------------------------------------------
(* Whatever is neither pending nor missed is done as it is needed now. *)
Settled == \A n \in Names : n \in pending \cup missed \/ done[n] = needed[n]
=============================================================================
