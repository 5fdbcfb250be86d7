------------------------------- MODULE MCTime -------------------------------
(***************************************************************************)
(* Regions that live for ever, in finitely many states.  The loop compares *)
(* times with each other and never looks at one by itself, so all of them  *)
(* may be counted from virtual_now.  MaxTime then bounds how far the       *)
(* offset runs ahead of the clock, not how much time passes: a handler may *)
(* sleep as long as its interval, each time.                               *)
(***************************************************************************)
EXTENDS MCEventLoop

\* Script 2 can keep itself running by resets; its timer rings unheard.
MCLateHandles ==
  [s \in Scripts |->
     [st \in StateIds |-> {"state_entry"} \cup IF s = 1 THEN {"timer", "message"} ELSE {}]]

\* At the top of a cycle, if time has passed.
Elapsed == pc = "top" /\ virtualNow > 0

TurnBack ==
  /\ Elapsed
  /\ virtualNow' = 0
  /\ virtualOffset' = virtualOffset - virtualNow
  /\ due' = [s \in Scripts |-> IF interval[s] > 0 THEN due[s] - virtualNow ELSE 0]
  /\ UNCHANGED <<loopVars, scriptVars, interval, commandVars, nSteps>>

\* Timers that are due may ring first; everything else waits for it.
RelativeNext == TurnBack \/ (\E s \in Scripts : FireTimer(s)) \/ (~Elapsed /\ Next)

RelativeSpec == Init /\ [][RelativeNext]_vars /\ Fairness /\ WF_vars(TurnBack)

=============================================================================
