------------------------- MODULE LevelTriggeredProofs -------------------------
(* What a level-triggered controller guarantees, for any names and inputs. *)
EXTENDS LevelTriggered, TLAPS

(* Whatever is neither pending nor missed is done as it is needed now; nothing is
   kept for a name that needs nothing. *)
THEOREM SettledCorrect == Spec => []Settled
<1>1. Init => Settled
  BY DEF Init, Settled
<1> DEFINE Forgotten == \A n \in Names : needed[n] = Absent => done[n] = Absent
<1>2. Init => Forgotten
  BY DEF Init
<1>3. Forgotten /\ [Next]_vars => Forgotten'
  BY DEF Next, vars, Change, Finish, Announce, Lose
<1>4. Settled /\ Forgotten /\ [Next]_vars => Settled'
  <2> SUFFICES ASSUME Settled, Forgotten, [Next]_vars, NEW n \in Names, n \notin pending' \cup missed'
               PROVE  done'[n] = needed'[n]
    BY DEF Settled
  <2>1. CASE Change
    <3>1. needed'[n] = needed[n] /\ done[n] = needed[n]
      BY <2>1 DEF Change, Settled
    <3>2. done'[n] = IF needed'[n] = Absent THEN Absent ELSE done[n]
      BY <2>1 DEF Change
    <3> QED BY <3>1, <3>2
  <2>2. ASSUME NEW m \in Names, Finish(m) PROVE done'[n] = needed'[n]
    <3>1. CASE n = m
      BY <2>2, <3>1 DEF Finish
    <3>2. CASE n # m
      BY <2>2, <3>2 DEF Finish, Settled
    <3> QED BY <3>1, <3>2
  <2>3. CASE Announce
    <3>1. CASE needed[n] # Absent
      BY <2>3, <3>1 DEF Announce, Settled
    <3>2. CASE needed[n] = Absent
      BY <2>3, <3>2 DEF Announce, Settled
    <3> QED BY <3>1, <3>2
  <2>4. CASE Lose \/ UNCHANGED vars
    BY <2>4 DEF Lose, Settled, vars
  <2> QED BY <2>1, <2>2, <2>3, <2>4 DEF Next
<1> QED
  BY <1>1, <1>2, <1>3, <1>4, PTL DEF Spec
=============================================================================
