---------------------------- MODULE VirtualClock ----------------------------
(***************************************************************************)
(* What the region promises its scripts about time, with everything else   *)
(* left out: one repeating alarm per script, and how long it is until each *)
(* rings.  An alarm rings exactly at the moment it is due, never early and *)
(* never late; time passes for all alike, never passes an armed alarm      *)
(* without ringing it and never gives back what has passed.                *)
(* EventLoop implements this: what is left is timer_due less virtual_now.  *)
(***************************************************************************)
EXTENDS Integers

CONSTANT Scripts

VARIABLES
  period,    \* period[s] > 0: the alarm of s is armed and repeats so often
  left       \* left[s]: the time until the armed alarm of s rings next

clockVars == <<period, left>>

Armed(s) == period[s] > 0

Init ==
  /\ period = [s \in Scripts |-> 0]
  /\ left = [s \in Scripts |-> 0]

\* What is left after some time.
After(time) == [s \in Scripts |-> IF Armed(s) THEN left[s] - time ELSE 0]

\* Time passes, but not past an alarm; without an alarm nothing is measured.
Pass ==
  /\ \E s \in Scripts : Armed(s) /\
       \E time \in 1 .. (left[s] - 1) :
         /\ \A t \in Scripts : Armed(t) => left[t] > time
         /\ left' = After(time)
  /\ UNCHANGED period

\* The alarm of s rings: it is the first one, as much time has passed as was left
\* for it, and it is wound up again for one period.
Ring(s) ==
  /\ Armed(s)
  /\ \A t \in Scripts : Armed(t) => left[s] <= left[t]
  /\ left[s] >= 0
  /\ left' = [After(left[s]) EXCEPT ![s] = period[s]]
  /\ UNCHANGED period

\* s arms its alarm for some time from now, or disarms it.
Arm(s) ==
  /\ period'[s] \in Nat \ {0}
  /\ period' = [period EXCEPT ![s] = period'[s]]
  /\ left' = [left EXCEPT ![s] = period'[s]]

Disarm(s) ==
  /\ period' = [period EXCEPT ![s] = 0]
  /\ left' = [left EXCEPT ![s] = 0]

Next == Pass \/ \E s \in Scripts : Ring(s) \/ Arm(s) \/ Disarm(s)

Spec == Init /\ [][Next]_clockVars

=============================================================================
