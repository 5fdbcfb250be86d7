-------------------------- MODULE EventLoopProofs --------------------------
(***************************************************************************)
(* Theorems about the event loop, for every number of scripts, every set   *)
(* of handlers and every bound.                                            *)
(***************************************************************************)
EXTENDS EventLoop, SequenceTheorems, TLAPS

\* While a script is being served, the cursor stands on it.
CursorInv == pc \in {"dispatch", "handler", "switch", "exit"} => cursor \in Scripts

\* What the event being dispatched is.
CurrentInv == pc \in {"dispatch", "handler"} => current \in Events

TypeInv == TypeOK /\ CursorInv /\ CurrentInv

LEMMA InitType == Init => TypeInv
<1> SUFFICES ASSUME Init PROVE TypeInv
  OBVIOUS
<1>1. StateEntry(DefaultState) \in Events
  BY SystemAssumption DEF StateEntry, Event, Events, EventNames
<1>2. queue \in [Scripts -> Seq(Events)]
  BY <1>1 DEF Init
<1>3. cursor \in 1 .. NumScripts + 1 /\ nextCommand \in 0 .. nCommands /\ nCommands \in Nat
  BY SystemAssumption DEF Init
<1>4. /\ curState \in [Scripts -> StateIds]
      /\ pendingState \in [Scripts -> StateIds \cup {NoState}]
      /\ interval \in [Scripts -> Nat]
      /\ due \in [Scripts -> Nat]
      /\ detected \in [Scripts -> Avatars \cup {NoOne}]
      /\ life \in [Scripts -> {"entering", "settled", "dead"}]
  BY SystemAssumption DEF Init
<1>5. virtualNow \in Nat /\ virtualOffset \in Nat /\ nSteps \in Nat
  BY DEF Init
<1>6. progress \in BOOLEAN /\ exited \in BOOLEAN /\ current \in Events \cup {NoEvent}
  BY DEF Init
<1>7. pc = "top"
  BY DEF Init
<1> QED
  BY <1>2, <1>3, <1>4, <1>5, <1>6, <1>7 DEF TypeInv, TypeOK, CursorInv, CurrentInv

\* The steps that move events.
LEMMA PushType ==
  ASSUME TypeInv, NEW s \in Scripts, NEW name \in EventNames, Push(s, name)
  PROVE  queue' \in [Scripts -> Seq(Events)]
<1>1. Event(name, NoOne, curState[s]) \in Events
  BY DEF Event, Events, TypeInv, TypeOK
<1> QED
  BY <1>1 DEF Push, TypeInv, TypeOK

LEMMA PushToAllType ==
  ASSUME TypeInv, NEW T, NEW name \in EventNames, PushToAll(T, name)
  PROVE  queue' \in [Scripts -> Seq(Events)]
<1>1. \A s \in Scripts : Event(name, NoOne, curState[s]) \in Events
  BY DEF Event, Events, TypeInv, TypeOK
<1>2. \A s \in Scripts : Append(queue[s], Event(name, NoOne, curState[s])) \in Seq(Events)
  BY <1>1 DEF TypeInv, TypeOK
<1> QED
  BY <1>2 DEF PushToAll, TypeInv, TypeOK

LEMMA TouchedType ==
  ASSUME TypeInv, NEW s \in Scripts, NEW who \in Avatars, NEW names \in Seq(EventNames)
  PROVE  [i \in DOMAIN names |-> Event(names[i], who, curState[s])] \in Seq(Events)
<1>1. \A i \in DOMAIN names : Event(names[i], who, curState[s]) \in Events
  BY DEF Event, Events, TypeInv, TypeOK
<1>2. DOMAIN names = 1 .. Len(names) /\ Len(names) \in Nat
  OBVIOUS
<1>3. [i \in DOMAIN names |-> Event(names[i], who, curState[s])] \in [1 .. Len(names) -> Events]
  BY <1>1, <1>2
<1> QED
  BY <1>2, <1>3, SeqDef

LEMMA TouchNamesType ==
  /\ <<"touch_start", "touch", "touch_end">> \in Seq(EventNames)
  /\ <<"touch_start", "touch_end">> \in Seq(EventNames)
  BY DEF EventNames, TouchNames

LEMMA StepType == TypeInv /\ [Next]_vars => TypeInv'
<1> SUFFICES ASSUME TypeInv, [Next]_vars PROVE TypeInv'
  OBVIOUS
<1> USE SystemAssumption, TimeAssumption
<1> USE DEF TypeInv, TypeOK, CursorInv, CurrentInv, loopVars, scriptVars, timeVars, commandVars
<1>1. CASE StopLoop
  BY <1>1 DEF StopLoop
<1>2. ASSUME NEW s \in Scripts, FireTimer(s) PROVE TypeInv'
  <2>1. queue' \in [Scripts -> Seq(Events)]
    BY <1>2, PushType DEF FireTimer, EventNames
  <2>2. due' \in [Scripts -> Nat] /\ virtualNow' \in Nat
    BY <1>2 DEF FireTimer, Rearm
  <2> QED
    BY <1>2, <2>1, <2>2 DEF FireTimer
<1>3. CASE SyncClock
  <2>1. virtualNow' \in Nat /\ progress' \in BOOLEAN /\ pc' = "drain"
    BY <1>3 DEF SyncClock
  <2>2. cursor' \in 1 .. NumScripts + 1
    BY <1>3 DEF SyncClock
  <2> QED
    BY <1>3, <2>1, <2>2 DEF SyncClock
<1>4. CASE NextCycle
  BY <1>4 DEF NextCycle
<1>5. CASE LoopEnds
  BY <1>5 DEF LoopEnds
<1>6. CASE SkipScript
  <2>1. cursor' \in 1 .. NumScripts + 1 /\ pc' = "drain"
    BY <1>6 DEF SkipScript, NextScript, Scripts
  <2> QED
    BY <1>6, <2>1 DEF SkipScript
<1>7. CASE TakeEvent
  <2>1. /\ queue[cursor] \in Seq(Events)
        /\ queue[cursor] # <<>>
    BY <1>7 DEF TakeEvent
  <2>2. Head(queue[cursor]) \in Events /\ Tail(queue[cursor]) \in Seq(Events)
    BY <2>1
  <2> QED
    BY <1>7, <2>2 DEF TakeEvent
<1>8. CASE StartHandler
  BY <1>8 DEF StartHandler, EntryServed
<1>9. CASE DropEvent
  BY <1>9 DEF DropEvent, EntryServed, CountStep
<1>10. CASE HandlerReturns
  BY <1>10 DEF HandlerReturns, CountStep
<1>11. CASE NoStateChange
  BY <1>11 DEF NoStateChange, NextScript, Progressed, Scripts
<1>12. ASSUME pc = "switch", pendingState[cursor] # NoState,
              NEW rest \in Seq(Events), EnterState(cursor, rest)
       PROVE  /\ curState' \in [Scripts -> StateIds]
              /\ pendingState' \in [Scripts -> StateIds \cup {NoState}]
              /\ queue' \in [Scripts -> Seq(Events)]
              /\ life' \in [Scripts -> {"entering", "settled", "dead"}]
  BY <1>12 DEF EnterState, Entering
<1>13. CASE SwitchState
  <2>1. <<StateEntry(pendingState[cursor])>> \in Seq(Events)
    BY <1>13 DEF SwitchState, StateEntry, Event, Events, EventNames
  <2>2. /\ curState' \in [Scripts -> StateIds]
        /\ pendingState' \in [Scripts -> StateIds \cup {NoState}]
        /\ queue' \in [Scripts -> Seq(Events)]
        /\ life' \in [Scripts -> {"entering", "settled", "dead"}]
    BY <1>12, <1>13, <2>1 DEF SwitchState
  <2>3. cursor' \in 1 .. NumScripts + 1 /\ pc' = "drain" /\ progress' \in BOOLEAN
    BY <1>13 DEF SwitchState, NextScript, Progressed, Scripts
  <2> QED
    BY <1>13, <2>2, <2>3 DEF SwitchState
<1>14. CASE SwitchStateAndExit
  <2>1. << >> \in Seq(Events)
    OBVIOUS
  <2>2. /\ curState' \in [Scripts -> StateIds]
        /\ pendingState' \in [Scripts -> StateIds \cup {NoState}]
        /\ queue' \in [Scripts -> Seq(Events)]
        /\ life' \in [Scripts -> {"entering", "settled", "dead"}]
    BY <1>12, <1>14, <2>1 DEF SwitchStateAndExit
  <2> QED
    BY <1>14, <2>2 DEF SwitchStateAndExit
<1>15. CASE ExitHandlerReturns
  <2>1. queue' \in [Scripts -> Seq(Events)]
    BY <1>15, PushType DEF ExitHandlerReturns, EventNames
  <2> QED
    BY SMTT(30), <1>15, <2>1 DEF ExitHandlerReturns, NextScript, Progressed, Scripts
<1>16. ASSUME NEW d \in Sleeps, Sleep(d) PROVE TypeInv'
  BY <1>16 DEF Sleep
<1>17. ASSUME NEW i \in Intervals, SetTimer(i) PROVE TypeInv'
  <2>1. i \in Nat /\ virtualNow + i \in Nat
    OBVIOUS
  <2>2. interval' \in [Scripts -> Nat] /\ due' \in [Scripts -> Nat]
    BY <1>17, <2>1 DEF SetTimer
  <2> QED
    BY <1>17, <2>2 DEF SetTimer
<1>18. CASE StopTimer
  BY <1>18 DEF StopTimer
<1>19. ASSUME NEW T \in SUBSET Scripts, Post(T) PROVE TypeInv'
  <2>1. queue' \in [Scripts -> Seq(Events)]
    BY <1>19, PushToAllType DEF Post, EventNames
  <2> QED
    BY <1>19, <2>1 DEF Post
<1>20. ASSUME NEW st \in StateIds, ChangeState(st) PROVE TypeInv'
  BY <1>20 DEF ChangeState
<1>21. CASE ResetScript
  <2>1. <<StateEntry(DefaultState)>> \in Seq(Events)
    BY DEF StateEntry, Event, Events, EventNames
  <2> QED
    BY <1>21, <2>1 DEF ResetScript, Entering
<1>22. CASE Die
  <2>1. queue' \in [Scripts -> Seq(Events)]
    <3>1. << >> \in Seq(Events)
      OBVIOUS
    <3> QED
      BY <1>22, <3>1 DEF Die
  <2>2. interval' \in [Scripts -> Nat]
    BY <1>22 DEF Die
  <2>3. life' \in [Scripts -> {"entering", "settled", "dead"}]
    BY <1>22 DEF Die
  <2> QED
    BY <1>22, <2>1, <2>2, <2>3 DEF Die
<1>23. ASSUME Pump PROVE nextCommand' \in 0 .. nCommands' /\ pc' \in {"top", "settle"}
  BY <1>23 DEF Pump, CommandsLeft, AdvanceCommand
<1>24. ASSUME NEW d \in Sleeps, Wait(d) PROVE TypeInv'
  BY <1>23, <1>24 DEF Wait, CountStep, Pump
<1>25. CASE Exit
  BY <1>23, <1>25 DEF Exit, Pump
<1>26. ASSUME NEW s \in Scripts, NEW who \in Avatars, NEW names \in Seq(EventNames),
              Touch(s, who, names)
       PROVE  TypeInv'
  <2> DEFINE new == [i \in DOMAIN names |-> Event(names[i], who, curState[s])]
  <2>1. new \in Seq(Events)
    BY TouchedType
  <2>2. queue[s] \o new \in Seq(Events)
    BY <2>1
  <2>3. queue' \in [Scripts -> Seq(Events)]
    BY <1>26, <2>2 DEF Touch
  <2> QED
    BY <1>23, <1>26, <2>3 DEF Touch, CountStep, Pump
<1>27. ASSUME NEW s \in Scripts, TouchOwner(s) PROVE TypeInv'
  BY <1>26, <1>27, TouchNamesType, SystemAssumption DEF TouchOwner
<1>28. ASSUME NEW s \in Scripts, NEW who \in Avatars, TouchAs(s, who) PROVE TypeInv'
  BY <1>26, <1>28, TouchNamesType DEF TouchAs
<1>29. ASSUME NEW T \in SUBSET Scripts, Deliver(T) PROVE TypeInv'
  <2>1. queue' \in [Scripts -> Seq(Events)]
    BY <1>29, PushToAllType DEF Deliver, EventNames
  <2> QED
    BY <1>23, <1>29, <2>1 DEF Deliver, CountStep, Pump
<1>30. CASE RunEnds
  BY <1>30 DEF RunEnds
<1>31. CASE UNCHANGED vars
  BY <1>31 DEF vars
<1> QED
  BY <1>1, <1>2, <1>3, <1>4, <1>5, <1>6, <1>7, <1>8, <1>9, <1>10, <1>11, <1>13, <1>14,
     <1>15, <1>16, <1>17, <1>18, <1>19, <1>20, <1>21, <1>22, <1>24, <1>25, <1>27, <1>28,
     <1>29, <1>30, <1>31
  DEF Next, Cycle, Drain, StateChange, Builtin, Command, Terminated

\* Type correctness.
THEOREM TypeCorrect == Spec => []TypeOK
<1>1. TypeInv => TypeOK
  BY DEF TypeInv
<1> QED
  BY InitType, StepType, <1>1, PTL DEF Spec

----------------------------------------------------------------------------
(* The step counter *)

\* What StepBound needs to be inductive: the bound on the way to a script,
\* and the one more step that has been counted when its event is done.
StepInv ==
  MaxSteps > 0 =>
    /\ pc \in {"drain", "dispatch", "handler"} => nSteps < MaxSteps + cursor - 1
    /\ pc \in {"switch", "exit"} => nSteps < MaxSteps + cursor

\* Why ExitStops holds: EXIT has pushed the counter to the cap.
ExitInv ==
  exited /\ MaxSteps > 0 => nSteps >= MaxSteps /\ pc \in {"top", "settle", "done"}

LEMMA CounterStep == TypeInv /\ StepInv /\ ExitInv /\ [Next]_vars => StepInv' /\ ExitInv'
<1> SUFFICES ASSUME TypeInv, StepInv, ExitInv, [Next]_vars PROVE StepInv' /\ ExitInv'
  OBVIOUS
<1>0. /\ MaxSteps \in Nat
      /\ nSteps \in Nat
      /\ cursor \in Nat
      /\ exited \in BOOLEAN
  BY SystemAssumption DEF TypeInv, TypeOK
<1> USE <1>0 DEF StepInv, ExitInv, loopVars, scriptVars, timeVars, commandVars
<1>1. CASE StopLoop
  BY <1>1 DEF StopLoop
<1>2. ASSUME NEW s \in Scripts, FireTimer(s) PROVE StepInv' /\ ExitInv'
  BY <1>2 DEF FireTimer, Capped
<1>3. CASE SyncClock
  BY <1>3 DEF SyncClock, Capped
<1>4. CASE NextCycle \/ LoopEnds
  BY <1>4 DEF NextCycle, LoopEnds
<1>5. CASE SkipScript
  BY <1>5 DEF SkipScript, NextScript
<1>6. CASE TakeEvent
  BY <1>6 DEF TakeEvent
<1>7. CASE StartHandler
  BY <1>7 DEF StartHandler
<1>8. CASE DropEvent
  BY <1>8 DEF DropEvent, CountStep
<1>9. CASE HandlerReturns
  BY <1>9 DEF HandlerReturns, CountStep
<1>10. CASE NoStateChange
  BY <1>10 DEF NoStateChange, NextScript
<1>11. CASE SwitchState
  BY <1>11 DEF SwitchState, NextScript
<1>12. CASE SwitchStateAndExit
  BY <1>12 DEF SwitchStateAndExit
<1>13. CASE ExitHandlerReturns
  BY <1>13 DEF ExitHandlerReturns, NextScript
<1>14. CASE Builtin
  BY <1>14 DEF Builtin, Sleep, SetTimer, StopTimer, Post, ChangeState, ResetScript, Die
<1>15. ASSUME Pump, CountStep, exited' = exited PROVE StepInv' /\ ExitInv'
  BY <1>15 DEF Pump, CountStep
<1>16. CASE Exit
  BY <1>16 DEF Exit, Pump
<1>17. CASE Command
  <2>1. ASSUME NEW d \in Sleeps, Wait(d) PROVE StepInv' /\ ExitInv'
    BY <1>15, <2>1 DEF Wait
  <2>2. ASSUME NEW s \in Scripts, TouchOwner(s) PROVE StepInv' /\ ExitInv'
    BY <1>15, <2>2 DEF TouchOwner, Touch
  <2>3. ASSUME NEW s \in Scripts, NEW who \in Avatars, TouchAs(s, who) PROVE StepInv' /\ ExitInv'
    BY <1>15, <2>3 DEF TouchAs, Touch
  <2>4. ASSUME NEW T \in SUBSET Scripts, Deliver(T) PROVE StepInv' /\ ExitInv'
    BY <1>15, <2>4 DEF Deliver
  <2> QED
    BY <1>16, <1>17, <2>1, <2>2, <2>3, <2>4 DEF Command
<1>18. CASE RunEnds
  BY <1>18 DEF RunEnds
<1>19. CASE UNCHANGED vars
  BY <1>19 DEF vars
<1> QED
  BY <1>1, <1>2, <1>3, <1>4, <1>5, <1>6, <1>7, <1>8, <1>9, <1>10, <1>11, <1>12, <1>13,
     <1>14, <1>17, <1>18, <1>19
  DEF Next, Cycle, Drain, StateChange, Terminated

\* The cap is overrun by at most one event per script of the last cycle, and
\* EXIT is not overrun at all.
THEOREM StepsBounded == Spec => []StepBound
<1>1. Init => StepInv /\ ExitInv
  BY DEF Init, StepInv, ExitInv
<1>2. StepInv /\ ExitInv => StepBound
  BY DEF StepInv, ExitInv, StepBound
<1> QED
  BY <1>1, <1>2, InitType, StepType, CounterStep, PTL DEF Spec

\* Under a cap, EXIT is the last thing the scripts see.
THEOREM ExitIsFinal == Spec => []ExitStops
<1>1. Init => StepInv /\ ExitInv
  BY DEF Init, StepInv, ExitInv
<1>2. ExitInv => ExitStops
  BY DEF ExitInv, ExitStops
<1> QED
  BY <1>1, <1>2, InitType, StepType, CounterStep, PTL DEF Spec

----------------------------------------------------------------------------
(* The event loop implements the clock it promises its scripts, whatever   *)
(* they sleep and whatever timers they set.                                *)

\* The clock never overtakes the offset it follows, and no armed timer is in
\* its past.
ClockInv ==
  /\ virtualNow <= virtualOffset
  /\ \A s \in Scripts : interval[s] > 0 => due[s] >= virtualNow

\* What is left of the alarms of VirtualClock, as EventLoop keeps them.
Left == [s \in Scripts |-> IF interval[s] > 0 THEN due[s] - virtualNow ELSE 0]

LEMMA ClockInit == Init => Clock!Init /\ ClockInv
<1> SUFFICES ASSUME Init PROVE Clock!Init /\ ClockInv
  OBVIOUS
<1>1. /\ virtualNow = 0 /\ virtualOffset = 0
      /\ interval = [s \in Scripts |-> 0] /\ due = [s \in Scripts |-> 0]
  BY DEF Init
<1>2. Left = [s \in Scripts |-> 0]
  BY <1>1 DEF Left
<1> QED
  BY <1>1, <1>2 DEF Clock!Init, ClockInv, Left

LEMMA ClockStep ==
  TypeInv /\ ClockInv /\ [Next]_vars =>
    ClockInv' /\ [Clock!Next]_(Clock!clockVars) /\ virtualNow' >= virtualNow
<1> SUFFICES ASSUME TypeInv, ClockInv, [Next]_vars
             PROVE  ClockInv' /\ [Clock!Next]_(Clock!clockVars) /\ virtualNow' >= virtualNow
  OBVIOUS
<1> DEFINE Goal == ClockInv' /\ [Clock!Next]_(Clock!clockVars) /\ virtualNow' >= virtualNow
<1>0. /\ interval \in [Scripts -> Nat] /\ due \in [Scripts -> Nat]
      /\ virtualNow \in Nat /\ virtualOffset \in Nat
  BY DEF TypeInv, TypeOK
\* Steps that leave time alone, or only let the offset grow.
<1>1. ASSUME UNCHANGED <<interval, due, virtualNow>>,
             virtualOffset' \in Nat, virtualOffset' >= virtualOffset
      PROVE  Goal
  BY <1>0, <1>1 DEF ClockInv, Clock!clockVars
<1>2. ASSUME NEW s \in Scripts, FireTimer(s) PROVE Goal
  <2>1. /\ interval[s] > 0 /\ due[s] <= virtualOffset
        /\ \A t \in Scripts : interval[t] > 0 => due[s] <= due[t]
    <3>1. \A t \in DueTimers : due[s] <= due[t]
      BY <1>0, <1>2 DEF FireTimer, Earliest, DueTimers
    <3>2. \A t \in Scripts : interval[t] > 0 /\ t \notin DueTimers => due[t] > virtualOffset
      BY <1>0 DEF DueTimers
    <3>3. interval[s] > 0 /\ due[s] <= virtualOffset
      BY <1>2 DEF FireTimer, Earliest, DueTimers
    <3> QED
      BY <1>0, <3>1, <3>2, <3>3
  <2>2. /\ virtualNow' = due[s] /\ virtualOffset' = virtualOffset /\ interval' = interval
        /\ due' = [due EXCEPT ![s] = due[s] + interval[s]]
    BY <1>2 DEF FireTimer, Rearm
  <2>3. ClockInv'
    BY <1>0, <2>1, <2>2 DEF ClockInv
  <2>4. /\ Left[s] = due[s] - virtualNow /\ Left[s] >= 0
        /\ \A t \in Scripts : interval[t] > 0 => Left[t] = due[t] - virtualNow /\ Left[s] <= Left[t]
    BY <1>0, <2>1 DEF Left, ClockInv
  <2>5. Left' = [[t \in Scripts |-> IF interval[t] > 0 THEN Left[t] - Left[s] ELSE 0] EXCEPT ![s] = interval[s]]
    <3>1. \A t \in Scripts :
            Left'[t] = IF t = s THEN interval[s] ELSE IF interval[t] > 0 THEN Left[t] - Left[s] ELSE 0
      BY <1>0, <2>1, <2>2, <2>4 DEF Left
    <3> QED
      BY <3>1 DEF Left
  <2>6. Clock!Ring(s)
    BY <2>1, <2>2, <2>4, <2>5 DEF Clock!Ring, Clock!Armed, Clock!After, Left
  <2>7. virtualNow' >= virtualNow
    BY <1>0, <2>1, <2>2 DEF ClockInv
  <2> QED
    BY <2>3, <2>6, <2>7 DEF Clock!Next
<1>3. CASE SyncClock
  <2>1. /\ virtualNow' = virtualOffset /\ virtualOffset' = virtualOffset
        /\ UNCHANGED <<interval, due>>
    BY <1>3 DEF SyncClock
  <2>2. \A s \in Scripts : interval[s] > 0 => due[s] > virtualOffset
    BY <1>0, <1>3 DEF SyncClock, DueTimers
  <2>3. ClockInv'
    BY <1>0, <2>1, <2>2 DEF ClockInv
  <2> DEFINE time == virtualOffset - virtualNow
  <2>4. /\ \A s \in Scripts : interval[s] > 0 => Left[s] = due[s] - virtualNow /\ Left[s] > time
        /\ time \in Nat
    BY <1>0, <2>2 DEF Left, ClockInv
  <2>5. Left' = [s \in Scripts |-> IF interval[s] > 0 THEN Left[s] - time ELSE 0]
    BY <1>0, <2>1, <2>4 DEF Left
  <2>6. [Clock!Next]_(Clock!clockVars)
    <3>1. CASE time = 0 \/ \A s \in Scripts : interval[s] = 0
      <4>1. Left' = Left
        BY <1>0, <2>4, <2>5, <3>1 DEF Left
      <4> QED
        BY <2>1, <4>1 DEF Clock!clockVars, Left
    <3>2. CASE time > 0 /\ \E s \in Scripts : interval[s] > 0
      <4>1. PICK s \in Scripts : interval[s] > 0
        BY <3>2
      <4>2. time \in 1 .. (Left[s] - 1)
        BY <1>0, <2>4, <3>2, <4>1
      <4>3. Clock!Pass
        BY <2>1, <2>4, <2>5, <4>1, <4>2 DEF Clock!Pass, Clock!Armed, Clock!After, Left
      <4> QED
        BY <4>3 DEF Clock!Next
    <3> QED
      BY <1>0, <2>4, <3>1, <3>2
  <2> QED
    BY <1>0, <2>1, <2>3, <2>6 DEF ClockInv
<1>4. ASSUME NEW i \in Intervals, SetTimer(i) PROVE Goal
  <2>1. PICK c \in Scripts : c = cursor
    BY <1>4 DEF SetTimer, Running, TypeInv, CursorInv
  <2>2. /\ interval' = [interval EXCEPT ![c] = i]
        /\ due' = [due EXCEPT ![c] = virtualNow + i]
        /\ UNCHANGED <<virtualNow, virtualOffset>>
    BY <1>4, <2>1 DEF SetTimer
  <2>3. i \in Nat /\ i > 0 /\ i # 0
    BY TimeAssumption
  <2>4. ClockInv'
    BY <1>0, <2>2, <2>3 DEF ClockInv
  <2>5. /\ Left' = [Left EXCEPT ![c] = i]
        /\ interval'[c] = i
    <3>1. \A t \in Scripts : Left'[t] = IF t = c THEN i ELSE Left[t]
      BY <1>0, <2>2, <2>3 DEF Left
    <3>2. interval'[c] = i
      BY <1>0, <2>2
    <3> QED
      BY <3>1, <3>2 DEF Left
  <2>6. Clock!Arm(c)
    BY <1>0, <2>2, <2>3, <2>5 DEF Clock!Arm, Left
  <2> QED
    BY <1>0, <2>2, <2>4, <2>6 DEF Clock!Next
\* llSetTimerEvent(0) and llDie, which leaves timer_due behind.
<1>5. ASSUME NEW c \in Scripts, interval' = [interval EXCEPT ![c] = 0],
             \A t \in Scripts : t # c => due'[t] = due[t],
             UNCHANGED <<virtualNow, virtualOffset>>
      PROVE  Goal
  <2>1. ClockInv'
    BY <1>0, <1>5 DEF ClockInv
  <2>2. Left' = [Left EXCEPT ![c] = 0]
    <3>1. \A t \in Scripts : Left'[t] = IF t = c THEN 0 ELSE Left[t]
      BY <1>0, <1>5 DEF Left
    <3> QED
      BY <3>1 DEF Left
  <2>3. Clock!Disarm(c)
    BY <1>5, <2>2 DEF Clock!Disarm, Left
  <2> QED
    BY <1>0, <1>5, <2>1, <2>3 DEF Clock!Next
<1>6. CASE Cycle
  BY <1>0, <1>1, <1>2, <1>3, <1>6
  DEF Cycle, StopLoop, NextCycle, LoopEnds, timeVars
<1>7. CASE Drain
  BY <1>0, <1>1, <1>7
  DEF Drain, SkipScript, TakeEvent, StartHandler, DropEvent, HandlerReturns, timeVars
<1>8. CASE StateChange
  BY <1>0, <1>1, <1>8
  DEF StateChange, NoStateChange, SwitchState, SwitchStateAndExit, ExitHandlerReturns, timeVars
<1>9. CASE Builtin
  <2>1. PICK c \in Scripts : c = cursor
    BY <1>9
    DEF Builtin, Sleep, SetTimer, StopTimer, Post, ChangeState, ResetScript, Die, Running,
        TypeInv, CursorInv
  <2>2. ASSUME NEW d \in Sleeps, Sleep(d) PROVE Goal
    BY <1>0, <1>1, <2>2, TimeAssumption DEF Sleep
  <2>3. CASE StopTimer
    BY <1>0, <1>5, <2>1, <2>3 DEF StopTimer
  <2>4. CASE Die
    BY <1>0, <1>5, <2>1, <2>4 DEF Die
  <2>5. CASE (\E T \in SUBSET Scripts : Post(T)) \/ (\E st \in StateIds : ChangeState(st)) \/ ResetScript
    BY <1>0, <1>1, <2>5 DEF Post, ChangeState, ResetScript, timeVars
  <2> QED
    BY <1>4, <1>9, <2>2, <2>3, <2>4, <2>5 DEF Builtin
<1>10. CASE Command
  <2>1. ASSUME NEW d \in Sleeps, Wait(d) PROVE Goal
    BY <1>0, <1>1, <2>1, TimeAssumption DEF Wait
  <2>2. CASE \/ Exit
             \/ \E s \in Scripts : TouchOwner(s) \/ \E who \in Avatars : TouchAs(s, who)
             \/ \E T \in SUBSET Scripts : Deliver(T)
    BY <1>0, <1>1, <2>2 DEF Exit, TouchOwner, TouchAs, Touch, Deliver, timeVars
  <2> QED
    BY <1>10, <2>1, <2>2 DEF Command
<1>11. CASE RunEnds \/ UNCHANGED vars
  BY <1>0, <1>1, <1>11 DEF RunEnds, vars, timeVars
<1> QED
  BY <1>6, <1>7, <1>8, <1>9, <1>10, <1>11 DEF Next, Terminated

\* Timers ring exactly when they are due, earliest first, and virtual time
\* never passes one.
THEOREM ClockImplemented == Spec => ClockSpec
BY InitType, StepType, ClockInit, ClockStep, PTL DEF Spec, ClockSpec, Clock!Spec

\* Virtual time never runs back, also while no timer measures it.
THEOREM TimeGoesOn == Spec => [][virtualNow' >= virtualNow]_vars
BY InitType, StepType, ClockInit, ClockStep, PTL DEF Spec

----------------------------------------------------------------------------
(* The event queues: no event outlives the state it was queued in, no      *)
(* recorded state change is stranded, no state_entry is lost, a touch      *)
(* handler detects the avatar that touched, and commands wait until the    *)
(* scripts have run dry.                                                   *)

Elements(q) == {q[i] : i \in DOMAIN q}

\* Events waiting for s.  The order of the queue matters to none of the
\* properties below, so the proofs speak of this set.
Queued(s) == Elements(queue[s])

----------------------------------------------------------------------------
(* How the steps change it *)

LEMMA AppendElements ==
  ASSUME NEW S, NEW q \in Seq(S), NEW e \in S
  PROVE  Elements(Append(q, e)) = Elements(q) \cup {e}
<1>1. DOMAIN q = 1 .. Len(q) /\ Len(q) \in Nat
  OBVIOUS
<1>2. DOMAIN Append(q, e) = 1 .. Len(q) + 1
  OBVIOUS
<1>3. \A i \in 1 .. Len(q) : Append(q, e)[i] = q[i]
  OBVIOUS
<1>4. Append(q, e)[Len(q) + 1] = e
  OBVIOUS
<1>5. 1 .. Len(q) + 1 = (1 .. Len(q)) \cup {Len(q) + 1}
  BY <1>1
<1> QED
  BY <1>1, <1>2, <1>3, <1>4, <1>5 DEF Elements

LEMMA TailElements ==
  ASSUME NEW S, NEW q \in Seq(S), q # << >>
  PROVE  Elements(q) = {Head(q)} \cup Elements(Tail(q))
<1>1. DOMAIN q = 1 .. Len(q) /\ Len(q) \in Nat /\ Len(q) > 0
  OBVIOUS
<1>2. DOMAIN Tail(q) = 1 .. Len(q) - 1
  BY <1>1
<1>3. \A i \in 1 .. Len(q) - 1 : Tail(q)[i] = q[i + 1]
  BY <1>1
<1>4. Head(q) = q[1]
  OBVIOUS
<1>5. ASSUME NEW i \in 1 .. Len(q), i # 1
      PROVE  i - 1 \in 1 .. Len(q) - 1 /\ q[i] = Tail(q)[i - 1]
  <2>1. i - 1 \in 1 .. Len(q) - 1 /\ (i - 1) + 1 = i
    BY <1>1, <1>5
  <2> QED
    BY <1>3, <2>1
<1>6. \A i \in 1 .. Len(q) - 1 : i + 1 \in 1 .. Len(q)
  BY <1>1
<1>7. 1 \in 1 .. Len(q)
  BY <1>1
<1>8. ASSUME NEW x \in Elements(q) PROVE x \in {Head(q)} \cup Elements(Tail(q))
  BY ZenonT(60), <1>1, <1>2, <1>4, <1>5, <1>8 DEF Elements
<1>9. ASSUME NEW x \in Elements(Tail(q)) PROVE x \in Elements(q)
  BY <1>1, <1>2, <1>3, <1>6, <1>9 DEF Elements
<1>10. Head(q) \in Elements(q)
  BY <1>1, <1>4, <1>7 DEF Elements
<1> QED
  BY <1>8, <1>9, <1>10

LEMMA ConcatElements ==
  ASSUME NEW S, NEW q \in Seq(S), NEW r \in Seq(S)
  PROVE  Elements(q \o r) = Elements(q) \cup Elements(r)
<1>1. /\ DOMAIN q = 1 .. Len(q) /\ Len(q) \in Nat
      /\ DOMAIN r = 1 .. Len(r) /\ Len(r) \in Nat
  OBVIOUS
<1>2. DOMAIN (q \o r) = 1 .. Len(q) + Len(r)
  BY <1>1
<1>3. \A i \in 1 .. Len(q) : i \in 1 .. Len(q) + Len(r) /\ (q \o r)[i] = q[i]
  BY <1>1
<1>4. ASSUME NEW i \in 1 .. Len(r)
      PROVE  i + Len(q) \in 1 .. Len(q) + Len(r) /\ (q \o r)[i + Len(q)] = r[i]
  BY <1>1
<1>5. ASSUME NEW i \in 1 .. Len(q) + Len(r), i \notin 1 .. Len(q)
      PROVE  i - Len(q) \in 1 .. Len(r) /\ (q \o r)[i] = r[i - Len(q)]
  BY <1>1, <1>5
<1>6. ASSUME NEW x \in Elements(q \o r) PROVE x \in Elements(q) \cup Elements(r)
  <2>1. PICK i \in 1 .. Len(q) + Len(r) : x = (q \o r)[i]
    BY <1>2, <1>6 DEF Elements
  <2>2. CASE i \in 1 .. Len(q)
    BY <1>1, <1>3, <2>1, <2>2 DEF Elements
  <2>3. CASE i \notin 1 .. Len(q)
    BY <1>1, <1>5, <2>1, <2>3 DEF Elements
  <2> QED
    BY <2>2, <2>3
<1>7. ASSUME NEW x \in Elements(q) PROVE x \in Elements(q \o r)
  BY <1>1, <1>2, <1>3, <1>7 DEF Elements
<1>8. ASSUME NEW x \in Elements(r) PROVE x \in Elements(q \o r)
  BY <1>1, <1>2, <1>4, <1>8 DEF Elements
<1> QED
  BY <1>6, <1>7, <1>8

LEMMA PushQueued ==
  ASSUME TypeInv, NEW s \in Scripts, NEW name \in EventNames, Push(s, name), NEW t \in Scripts
  PROVE  Queued(t)' = IF t = s THEN Queued(t) \cup {Event(name, NoOne, curState[s])}
                      ELSE Queued(t)
<1>1. Event(name, NoOne, curState[s]) \in Events
  BY DEF Event, Events, TypeInv, TypeOK
<1>2. queue[s] \in Seq(Events)
  BY DEF TypeInv, TypeOK
<1>3. queue'[t] = IF t = s THEN Append(queue[s], Event(name, NoOne, curState[s])) ELSE queue[t]
  BY DEF Push, TypeInv, TypeOK
<1>4. Elements(Append(queue[s], Event(name, NoOne, curState[s]))) =
        Elements(queue[s]) \cup {Event(name, NoOne, curState[s])}
  BY <1>1, <1>2, AppendElements
<1>5. CASE t = s
  BY <1>3, <1>4, <1>5 DEF Queued
<1>6. CASE t # s
  BY <1>3, <1>6 DEF Queued
<1> QED
  BY <1>5, <1>6

LEMMA PushToAllQueued ==
  ASSUME TypeInv, NEW T, NEW name \in EventNames, PushToAll(T, name), NEW t \in Scripts
  PROVE  Queued(t)' = IF t \in T THEN Queued(t) \cup {Event(name, NoOne, curState[t])}
                      ELSE Queued(t)
<1>1. Event(name, NoOne, curState[t]) \in Events
  BY DEF Event, Events, TypeInv, TypeOK
<1>2. queue[t] \in Seq(Events)
  BY DEF TypeInv, TypeOK
<1>3. queue'[t] = IF t \in T THEN Append(queue[t], Event(name, NoOne, curState[t])) ELSE queue[t]
  BY DEF PushToAll
<1>4. Elements(Append(queue[t], Event(name, NoOne, curState[t]))) =
        Elements(queue[t]) \cup {Event(name, NoOne, curState[t])}
  BY <1>1, <1>2, AppendElements
<1>5. CASE t \in T
  BY <1>3, <1>4, <1>5 DEF Queued
<1>6. CASE t \notin T
  BY <1>3, <1>6 DEF Queued
<1> QED
  BY <1>5, <1>6

LEMMA SetQueued ==
  ASSUME TypeInv, NEW s \in Scripts, NEW q, queue' = [queue EXCEPT ![s] = q],
         NEW t \in Scripts
  PROVE  Queued(t)' = IF t = s THEN Elements(q) ELSE Queued(t)
  BY DEF Queued, TypeInv, TypeOK

LEMMA UnchangedQueued ==
  ASSUME queue' = queue, NEW t
  PROVE  Queued(t)' = Queued(t)
  BY DEF Queued

LEMMA TakeQueued ==
  ASSUME TypeInv, TakeEvent
  PROVE  /\ current' \in Queued(cursor)
         /\ Queued(cursor) = {current'} \cup Queued(cursor)'
         /\ \A t \in Scripts : t # cursor => Queued(t)' = Queued(t)
<1>1. cursor \in Scripts /\ queue[cursor] \in Seq(Events) /\ queue[cursor] # << >>
  BY DEF TakeEvent, TypeInv, TypeOK
<1>2. current' = Head(queue[cursor]) /\ queue' = [queue EXCEPT ![cursor] = Tail(queue[cursor])]
  BY DEF TakeEvent
<1>3. Queued(cursor)' = Elements(Tail(queue[cursor]))
  <2>1. cursor' = cursor
    BY DEF TakeEvent
  <2>2. queue'[cursor] = Tail(queue[cursor])
    BY <1>1, <1>2 DEF TypeInv, TypeOK
  <2> QED
    BY <2>1, <2>2 DEF Queued
<1>4. Queued(cursor) = {current'} \cup Queued(cursor)'
  BY <1>1, <1>2, <1>3, TailElements DEF Queued
<1>5. \A t \in Scripts : t # cursor => Queued(t)' = Queued(t)
  BY <1>1, <1>2, SetQueued
<1> QED
  BY <1>4, <1>5

LEMMA EmptyQueued ==
  ASSUME TypeInv, NEW s \in Scripts
  PROVE  queue[s] = << >> <=> Queued(s) = {}
<1>1. queue[s] \in Seq(Events)
  BY DEF TypeInv, TypeOK
<1>2. queue[s] # << >> => 1 \in DOMAIN queue[s]
  BY <1>1
<1>3. queue[s] = << >> => DOMAIN queue[s] = {}
  BY <1>1
<1> QED
  BY <1>2, <1>3 DEF Queued, Elements

LEMMA TouchQueued ==
  ASSUME TypeInv, NEW s \in Scripts, NEW who \in Avatars, NEW names \in Seq(EventNames),
         Touch(s, who, names), NEW t \in Scripts
  PROVE  /\ Queued(t) \subseteq Queued(t)'
         /\ \A e \in Queued(t)' :
              e \in Queued(t) \/ (t = s /\ e.who = who /\ e.in = curState[s])
<1> DEFINE new == [i \in DOMAIN names |-> Event(names[i], who, curState[s])]
<1>1. new \in Seq(Events) /\ queue[s] \in Seq(Events)
  BY TouchedType DEF TypeInv, TypeOK
<1>2. Queued(t)' = IF t = s THEN Elements(queue[s] \o new) ELSE Queued(t)
  BY SetQueued DEF Touch
<1>3. Elements(queue[s] \o new) = Queued(s) \cup Elements(new)
  BY <1>1, ConcatElements DEF Queued
<1>4. \A e \in Elements(new) : e.who = who /\ e.in = curState[s]
  BY DEF Elements, Event
<1> QED
  BY <1>2, <1>3, <1>4

----------------------------------------------------------------------------
(* Events and states *)

\* QueuedForCurrentState, PendingSwitchNotStranded and EntryNotLost in terms
\* of Queued; with TypeInv each of them is inductive.
HomeInv == \A s \in Scripts : \A e \in Queued(s) : e.in = curState[s]

Serving(s) == cursor = s /\ pc \in {"dispatch", "handler", "switch", "exit"}

PendingInv ==
  \A s \in Scripts : pendingState[s] # NoState => Queued(s) # {} \/ Serving(s)

EntryInv ==
  \A s \in Scripts :
    life[s] = "entering" =>
      \/ \E e \in Queued(s) : e.name = "state_entry"
      \/ cursor = s /\ pc = "exit"
      \/ cursor = s /\ pc = "dispatch" /\ current.name = "state_entry"

LEMMA HomeStep == TypeInv /\ HomeInv /\ [Next]_vars => HomeInv'
<1> SUFFICES ASSUME TypeInv, HomeInv, [Next]_vars PROVE HomeInv'
  OBVIOUS
<1>0. \A name, who, st : Event(name, who, st).in = st
  BY DEF Event
<1>1. ASSUME queue' = queue, curState' = curState PROVE HomeInv'
  BY <1>1, UnchangedQueued DEF HomeInv
<1>2. ASSUME NEW s \in Scripts, NEW name \in EventNames, Push(s, name), curState' = curState
      PROVE  HomeInv'
  BY <1>0, <1>2, PushQueued DEF HomeInv
<1>3. ASSUME NEW T, PushToAll(T, "message"), curState' = curState PROVE HomeInv'
  BY <1>0, <1>3, PushToAllQueued DEF HomeInv, EventNames
<1>4. CASE TakeEvent
  BY <1>4, TakeQueued DEF HomeInv, TakeEvent
<1>5. CASE SwitchState
  <2> DEFINE entry == StateEntry(pendingState[cursor])
  <2>1. cursor \in Scripts
    BY <1>5 DEF SwitchState, TypeInv, CursorInv
  <2>2. queue' = [queue EXCEPT ![cursor] = <<entry>>]
    BY <1>5 DEF SwitchState, EnterState
  <2>3. Elements(<<entry>>) = {entry} /\ entry.in = pendingState[cursor]
    BY <1>0 DEF Elements, StateEntry
  <2>4. curState' = [curState EXCEPT ![cursor] = pendingState[cursor]]
    BY <1>5 DEF SwitchState, EnterState
  <2> QED
    BY <2>1, <2>2, <2>3, <2>4, SetQueued DEF HomeInv, TypeInv, TypeOK
<1>6. CASE SwitchStateAndExit
  <2>1. cursor \in Scripts
    BY <1>6 DEF SwitchStateAndExit, TypeInv, CursorInv
  <2>2. queue' = [queue EXCEPT ![cursor] = << >>] /\ Elements(<< >>) = {}
    BY <1>6 DEF SwitchStateAndExit, EnterState, Elements
  <2>3. \A t \in Scripts : t # cursor => curState'[t] = curState[t]
    BY <1>6 DEF SwitchStateAndExit, EnterState, TypeInv, TypeOK
  <2> QED
    BY <2>1, <2>2, <2>3, SetQueued DEF HomeInv
<1>7. CASE ResetScript
  <2> DEFINE entry == StateEntry(DefaultState)
  <2>1. cursor \in Scripts
    BY <1>7 DEF ResetScript, Running, TypeInv, CursorInv
  <2>2. queue' = [queue EXCEPT ![cursor] = <<entry>>]
    BY <1>7 DEF ResetScript
  <2>3. Elements(<<entry>>) = {entry} /\ entry.in = DefaultState
    BY <1>0 DEF Elements, StateEntry
  <2>4. curState' = [curState EXCEPT ![cursor] = DefaultState]
    BY <1>7 DEF ResetScript
  <2> QED
    BY <2>1, <2>2, <2>3, <2>4, SetQueued DEF HomeInv, TypeInv, TypeOK
<1>8. CASE Die
  <2>1. cursor \in Scripts
    BY <1>8 DEF Die, Running, TypeInv, CursorInv
  <2>2. queue' = [queue EXCEPT ![cursor] = << >>] /\ Elements(<< >>) = {} /\ curState' = curState
    BY <1>8 DEF Die, Elements
  <2> QED
    BY <2>1, <2>2, SetQueued DEF HomeInv
<1>9. ASSUME NEW s \in Scripts, NEW who \in Avatars, NEW names \in Seq(EventNames),
             Touch(s, who, names)
      PROVE  HomeInv'
  <2>1. curState' = curState
    BY <1>9 DEF Touch
  <2> QED
    BY <1>9, <2>1, TouchQueued DEF HomeInv
<1>10. CASE Cycle
  BY <1>1, <1>2, <1>10
  DEF Cycle, StopLoop, FireTimer, SyncClock, NextCycle, LoopEnds, scriptVars, EventNames
<1>11. CASE Drain
  BY <1>1, <1>4, <1>11
  DEF Drain, SkipScript, StartHandler, DropEvent, HandlerReturns, scriptVars
<1>12. CASE StateChange
  <2>1. CASE NoStateChange
    BY <1>1, <2>1 DEF NoStateChange, scriptVars
  <2>2. CASE ExitHandlerReturns
    BY <1>2, <2>2 DEF ExitHandlerReturns, TypeInv, CursorInv, EventNames
  <2> QED
    BY <1>5, <1>6, <1>12, <2>1, <2>2 DEF StateChange
<1>13. CASE Builtin
  BY <1>1, <1>3, <1>7, <1>8, <1>13
  DEF Builtin, Sleep, SetTimer, StopTimer, Post, ChangeState, scriptVars
<1>14. CASE Command
  BY <1>1, <1>3, <1>9, <1>14, TouchNamesType, SystemAssumption
  DEF Command, Wait, Exit, TouchOwner, TouchAs, Deliver, scriptVars
<1>15. CASE RunEnds \/ UNCHANGED vars
  BY <1>1, <1>15 DEF RunEnds, vars, scriptVars
<1> QED
  BY <1>10, <1>11, <1>12, <1>13, <1>14, <1>15 DEF Next, Terminated

\* No event outlives the LSL state it was queued in.
THEOREM EventsKeepTheirState == Spec => []QueuedForCurrentState
<1>1. Init => HomeInv
  BY DEF Init, HomeInv, Queued, Elements, StateEntry, Event
<1>2. HomeInv => QueuedForCurrentState
  BY DEF HomeInv, Queued, Elements, QueuedForCurrentState
<1> QED
  BY <1>1, <1>2, InitType, StepType, HomeStep, PTL DEF Spec

LEMMA PendingStep == TypeInv /\ PendingInv /\ [Next]_vars => PendingInv'
<1> SUFFICES ASSUME TypeInv, PendingInv, [Next]_vars PROVE PendingInv'
  OBVIOUS
\* Nothing is dropped and no state change recorded, and the script that was
\* served, if any, has none or is still served.
<1>1. ASSUME \A t \in Scripts : Queued(t) \subseteq Queued(t)',
             pendingState' = pendingState,
             \A t \in Scripts : Serving(t) => Serving(t)' \/ pendingState[t] = NoState
      PROVE  PendingInv'
  BY <1>1 DEF PendingInv
<1>2. ASSUME queue' = queue PROVE \A t \in Scripts : Queued(t) \subseteq Queued(t)'
  BY <1>2, UnchangedQueued
<1>3. ASSUME NEW s \in Scripts, NEW name \in EventNames, Push(s, name)
      PROVE  \A t \in Scripts : Queued(t) \subseteq Queued(t)'
  BY <1>3, PushQueued
<1>4. ASSUME NEW T, PushToAll(T, "message")
      PROVE  \A t \in Scripts : Queued(t) \subseteq Queued(t)'
  BY <1>4, PushToAllQueued DEF EventNames
<1>5. CASE TakeEvent
  <2>1. Serving(cursor)'
    BY <1>5 DEF TakeEvent, Serving
  <2>2. \A t \in Scripts : t # cursor => Queued(t)' = Queued(t) /\ ~Serving(t)
    BY <1>5, TakeQueued DEF Serving
  <2>3. pendingState' = pendingState /\ cursor' = cursor
    BY <1>5 DEF TakeEvent
  <2> QED
    BY <2>1, <2>2, <2>3 DEF PendingInv, Serving
<1>6. ASSUME cursor \in Scripts, NEW rest, EnterState(cursor, rest) PROVE PendingInv'
  <2>1. /\ pendingState'[cursor] = NoState
        /\ \A t \in Scripts : t # cursor => pendingState'[t] = pendingState[t]
    BY <1>6 DEF EnterState, TypeInv, TypeOK
  <2>2. \A t \in Scripts : t # cursor => Queued(t)' = Queued(t)
    BY <1>6, SetQueued DEF EnterState
  <2> QED
    BY <2>1, <2>2 DEF PendingInv, Serving
\* While a handler runs, the script is being served, whatever it does to its
\* own queue and its recorded state change.
<1>7. ASSUME Running, pc' = pc, cursor' = cursor,
             \A t \in Scripts : t # cursor => Queued(t) \subseteq Queued(t)' /\
                                              pendingState'[t] = pendingState[t]
      PROVE  PendingInv'
  BY <1>7 DEF PendingInv, Serving, Running
<1>8. CASE Cycle
  BY <1>1, <1>2, <1>3, <1>8
  DEF Cycle, StopLoop, FireTimer, SyncClock, NextCycle, LoopEnds, scriptVars, EventNames, Serving
<1>9. CASE Drain
  BY <1>1, <1>2, <1>5, <1>9
  DEF Drain, SkipScript, StartHandler, DropEvent, HandlerReturns, scriptVars, Serving
<1>10. CASE StateChange
  <2>1. CASE NoStateChange
    BY <1>1, <1>2, <2>1 DEF NoStateChange, scriptVars, Serving
  <2>2. CASE SwitchState \/ SwitchStateAndExit
    BY <1>6, <2>2 DEF SwitchState, SwitchStateAndExit, TypeInv, CursorInv
  <2>3. CASE ExitHandlerReturns
    <3>1. PICK c \in Scripts : c = cursor
      BY <2>3 DEF ExitHandlerReturns, TypeInv, CursorInv
    <3>2. Push(c, "state_entry") /\ pendingState' = pendingState
      BY <2>3, <3>1 DEF ExitHandlerReturns
    <3>3. /\ Queued(c)' = Queued(c) \cup {Event("state_entry", NoOne, curState[c])}
          /\ \A t \in Scripts : t # c => Queued(t)' = Queued(t)
      BY <3>2, PushQueued DEF EventNames
    <3> QED
      BY <3>1, <3>2, <3>3 DEF PendingInv, Serving
  <2> QED
    BY <1>10, <2>1, <2>2, <2>3 DEF StateChange
<1>11. CASE Builtin
  <2>1. CASE (\E d \in Sleeps : Sleep(d)) \/ (\E i \in Intervals : SetTimer(i)) \/ StopTimer
    BY <1>1, <1>2, <2>1 DEF Sleep, SetTimer, StopTimer, scriptVars, loopVars, Serving
  <2>2. CASE \E T \in SUBSET Scripts : Post(T)
    BY <1>1, <1>4, <2>2 DEF Post, loopVars, Serving
  <2>3. CASE \E st \in StateIds : ChangeState(st)
    BY <1>2, <1>7, <2>3 DEF ChangeState, loopVars, TypeInv, TypeOK
  <2>4. CASE ResetScript \/ Die
    <3>1. cursor \in Scripts
      BY <2>4 DEF ResetScript, Die, Running, TypeInv, CursorInv
    <3>2. \A t \in Scripts : t # cursor => Queued(t)' = Queued(t)
      BY <2>4, <3>1, SetQueued DEF ResetScript, Die
    <3> QED
      BY <1>7, <2>4, <3>2 DEF ResetScript, Die, loopVars
  <2> QED
    BY <1>11, <2>1, <2>2, <2>3, <2>4 DEF Builtin
<1>12. CASE Command
  <2>1. ASSUME NEW s \in Scripts, NEW who \in Avatars, NEW names \in Seq(EventNames),
               Touch(s, who, names)
        PROVE  PendingInv'
    BY <1>1, <2>1, TouchQueued DEF Touch, Pump, Serving
  <2>2. CASE (\E d \in Sleeps : Wait(d)) \/ Exit
    BY <1>1, <1>2, <2>2 DEF Wait, Exit, Pump, scriptVars, Serving
  <2>3. CASE \E T \in SUBSET Scripts : Deliver(T)
    BY <1>1, <1>4, <2>3 DEF Deliver, Pump, Serving
  <2> QED
    BY <1>12, <2>1, <2>2, <2>3, TouchNamesType, SystemAssumption DEF Command, TouchOwner, TouchAs
<1>13. CASE RunEnds \/ UNCHANGED vars
  BY <1>1, <1>2, <1>13 DEF RunEnds, vars, scriptVars, loopVars, Serving
<1> QED
  BY <1>8, <1>9, <1>10, <1>11, <1>12, <1>13 DEF Next, Terminated

\* A recorded state change is always noticed: its script has an event to come.
THEOREM SwitchesAreNotStranded == Spec => []PendingSwitchNotStranded
<1>1. Init => PendingInv
  BY DEF Init, PendingInv
<1>2. TypeInv /\ PendingInv => PendingSwitchNotStranded
  BY EmptyQueued DEF PendingInv, Serving, PendingSwitchNotStranded
<1> QED
  BY <1>1, <1>2, InitType, StepType, PendingStep, PTL DEF Spec

\* The state_entry a script is owed is on its way: in its queue, about to be
\* queued when state_exit returns, or taken and about to be dispatched.
Owed(s) ==
  \/ \E e \in Queued(s) : e.name = "state_entry"
  \/ cursor = s /\ pc = "exit"
  \/ cursor = s /\ pc = "dispatch" /\ current.name = "state_entry"

LEMMA EntryStep == TypeInv /\ EntryInv /\ [Next]_vars => EntryInv'
<1> SUFFICES ASSUME TypeInv, EntryInv, [Next]_vars PROVE EntryInv'
  OBVIOUS
<1>0. EntryInv <=> \A s \in Scripts : life[s] = "entering" => Owed(s)
  BY DEF EntryInv, Owed
<1>00. EntryInv' <=> \A s \in Scripts : life'[s] = "entering" => Owed(s)'
  BY DEF EntryInv, Owed
\* Nothing is dropped and the loop stands elsewhere.
<1>1. ASSUME \A t \in Scripts : Queued(t) \subseteq Queued(t)',
             life' = life, pc \notin {"dispatch", "exit"} \/ (pc' = pc /\ cursor' = cursor),
             current' = current
      PROVE  EntryInv'
  BY <1>0, <1>00, <1>1 DEF Owed
<1>2. ASSUME queue' = queue PROVE \A t \in Scripts : Queued(t) \subseteq Queued(t)'
  BY <1>2, UnchangedQueued
<1>3. ASSUME NEW s \in Scripts, NEW name \in EventNames, Push(s, name)
      PROVE  \A t \in Scripts : Queued(t) \subseteq Queued(t)'
  BY <1>3, PushQueued
<1>4. ASSUME NEW T, PushToAll(T, "message")
      PROVE  \A t \in Scripts : Queued(t) \subseteq Queued(t)'
  BY <1>4, PushToAllQueued DEF EventNames
<1>5. CASE TakeEvent
  <2>1. \A t \in Scripts : Owed(t) => Owed(t)'
    <3>1. /\ pc = "drain" /\ pc' = "dispatch" /\ cursor' = cursor
          /\ Queued(cursor) = {current'} \cup Queued(cursor)'
          /\ \A t \in Scripts : t # cursor => Queued(t)' = Queued(t)
      BY <1>5, TakeQueued DEF TakeEvent
    <3> QED
      BY <3>1 DEF Owed
  <2> QED
    BY <1>0, <1>00, <1>5, <2>1 DEF TakeEvent
\* The event is dispatched: a state_entry that was owed has come up.
<1>6. ASSUME pc = "dispatch", EntryServed, queue' = queue PROVE EntryInv'
  <2>1. cursor \in Scripts
    BY <1>6 DEF TypeInv, CursorInv
  <2>2. ASSUME NEW t \in Scripts, life'[t] = "entering" PROVE Owed(t)'
    <3>1. life[t] = "entering" /\ (t # cursor \/ current.name # "state_entry")
      BY <1>6, <2>1, <2>2 DEF EntryServed, TypeInv, TypeOK
    <3>2. \E e \in Queued(t) : e.name = "state_entry"
      BY <1>0, <1>6, <2>2, <3>1 DEF Owed
    <3> QED
      BY <1>6, <3>2, UnchangedQueued DEF Owed
  <2> QED
    BY <1>00, <2>2
<1>7. CASE SwitchState
  <2> DEFINE entry == StateEntry(pendingState[cursor])
  <2>1. cursor \in Scripts /\ pc = "switch" /\ pc' = "drain"
    BY <1>7 DEF SwitchState, NextScript, TypeInv, CursorInv
  <2>2. queue' = [queue EXCEPT ![cursor] = <<entry>>]
    BY <1>7 DEF SwitchState, EnterState
  <2>3. Elements(<<entry>>) = {entry} /\ entry.name = "state_entry"
    BY DEF Elements, StateEntry, Event
  <2>4. \A t \in Scripts : t # cursor => life'[t] = life[t]
    BY <1>7, <2>1 DEF SwitchState, EnterState, Entering, TypeInv, TypeOK
  <2> QED
    BY <1>0, <1>00, <2>1, <2>2, <2>3, <2>4, SetQueued DEF Owed
<1>8. CASE SwitchStateAndExit
  <2>1. cursor \in Scripts /\ pc = "switch" /\ pc' = "exit" /\ cursor' = cursor
    BY <1>8 DEF SwitchStateAndExit, TypeInv, CursorInv
  <2>2. queue' = [queue EXCEPT ![cursor] = << >>]
    BY <1>8 DEF SwitchStateAndExit, EnterState
  <2>3. \A t \in Scripts : t # cursor => life'[t] = life[t]
    BY <1>8, <2>1 DEF SwitchStateAndExit, EnterState, Entering, TypeInv, TypeOK
  <2> QED
    BY <1>0, <1>00, <2>1, <2>2, <2>3, SetQueued DEF Owed
<1>9. CASE ExitHandlerReturns
  <2>1. PICK c \in Scripts : c = cursor
    BY <1>9 DEF ExitHandlerReturns, TypeInv, CursorInv
  <2>2. Push(c, "state_entry") /\ life' = life /\ pc = "exit"
    BY <1>9, <2>1 DEF ExitHandlerReturns
  <2>3. /\ Queued(c)' = Queued(c) \cup {Event("state_entry", NoOne, curState[c])}
        /\ \A t \in Scripts : t # c => Queued(t)' = Queued(t)
    BY <2>2, PushQueued DEF EventNames
  <2>4. Event("state_entry", NoOne, curState[c]).name = "state_entry"
    BY DEF Event
  <2> QED
    BY <1>0, <1>00, <2>1, <2>2, <2>3, <2>4 DEF Owed
<1>10. CASE ResetScript
  <2> DEFINE entry == StateEntry(DefaultState)
  <2>1. cursor \in Scripts /\ pc \in {"handler", "exit"} /\ pc' = pc /\ cursor' = cursor
    BY <1>10 DEF ResetScript, Running, loopVars, TypeInv, CursorInv
  <2>2. queue' = [queue EXCEPT ![cursor] = <<entry>>]
    BY <1>10 DEF ResetScript
  <2>3. Elements(<<entry>>) = {entry} /\ entry.name = "state_entry"
    BY DEF Elements, StateEntry, Event
  <2>4. \A t \in Scripts : t # cursor => life'[t] = life[t]
    BY <1>10, <2>1 DEF ResetScript, Entering, TypeInv, TypeOK
  <2> QED
    BY <1>0, <1>00, <2>1, <2>2, <2>3, <2>4, SetQueued DEF Owed
<1>11. CASE Die
  <2>1. cursor \in Scripts /\ pc \in {"handler", "exit"} /\ pc' = pc /\ cursor' = cursor
    BY <1>11 DEF Die, Running, loopVars, TypeInv, CursorInv
  <2>2. queue' = [queue EXCEPT ![cursor] = << >>]
    BY <1>11 DEF Die
  <2>3. life' = [life EXCEPT ![cursor] = "dead"]
    BY <1>11 DEF Die
  <2>4. life'[cursor] = "dead" /\ \A t \in Scripts : t # cursor => life'[t] = life[t]
    BY <2>1, <2>3 DEF TypeInv, TypeOK
  <2> QED
    BY <1>0, <1>00, <2>1, <2>2, <2>4, SetQueued DEF Owed
<1>12. CASE Cycle
  BY <1>1, <1>2, <1>3, <1>12
  DEF Cycle, StopLoop, FireTimer, SyncClock, NextCycle, LoopEnds, scriptVars, EventNames
<1>13. CASE Drain
  <2>1. CASE StartHandler \/ DropEvent
    BY <1>6, <2>1 DEF StartHandler, DropEvent
  <2>2. CASE SkipScript
    BY <1>1, <1>2, <2>2 DEF SkipScript, scriptVars
  <2>3. CASE HandlerReturns
    BY <1>0, <1>00, <1>2, <2>3 DEF HandlerReturns, Owed, scriptVars
  <2> QED
    BY <1>5, <1>13, <2>1, <2>2, <2>3 DEF Drain
<1>14. CASE NoStateChange
  BY <1>1, <1>2, <1>14 DEF NoStateChange, scriptVars
<1>15. CASE Builtin
  <2>1. CASE \/ \E d \in Sleeps : Sleep(d)
             \/ \E i \in Intervals : SetTimer(i)
             \/ StopTimer
             \/ \E st \in StateIds : ChangeState(st)
    BY <1>1, <1>2, <2>1 DEF Sleep, SetTimer, StopTimer, ChangeState, scriptVars, loopVars
  <2>2. CASE \E T \in SUBSET Scripts : Post(T)
    BY <1>1, <1>4, <2>2 DEF Post, loopVars
  <2> QED
    BY <1>10, <1>11, <1>15, <2>1, <2>2 DEF Builtin
<1>16. CASE Command
  <2>1. ASSUME NEW s \in Scripts, NEW who \in Avatars, NEW names \in Seq(EventNames),
               Touch(s, who, names)
        PROVE  EntryInv'
    BY <1>1, <2>1, TouchQueued DEF Touch, Pump
  <2>2. CASE (\E d \in Sleeps : Wait(d)) \/ Exit
    BY <1>1, <1>2, <2>2 DEF Wait, Exit, Pump, scriptVars
  <2>3. CASE \E T \in SUBSET Scripts : Deliver(T)
    BY <1>1, <1>4, <2>3 DEF Deliver, Pump
  <2> QED
    BY <1>16, <2>1, <2>2, <2>3, TouchNamesType, SystemAssumption DEF Command, TouchOwner, TouchAs
<1>17. CASE RunEnds \/ UNCHANGED vars
  BY <1>1, <1>2, <1>17 DEF RunEnds, vars, scriptVars, loopVars
<1> QED
  BY <1>7, <1>8, <1>9, <1>12, <1>13, <1>14, <1>15, <1>16, <1>17
  DEF Next, StateChange, Terminated

\* A state that has been entered gets its state_entry, unless llDie is called.
THEOREM EntriesAreNotLost == Spec => []EntryNotLost
<1>1. Init => EntryInv
  BY DEF Init, EntryInv, Queued, Elements, StateEntry, Event
<1>2. EntryInv => EntryNotLost
  BY DEF EntryInv, Queued, Elements, EntryNotLost
<1> QED
  BY <1>1, <1>2, InitType, StepType, EntryStep, PTL DEF Spec

----------------------------------------------------------------------------
(* Commands and touches *)

\* In a cycle without progress, no timer was due when it began, and every
\* script passed over had nothing queued.
DryInv ==
  pc = "drain" /\ ~progress =>
    DueTimers = {} /\ \A t \in Scripts : t < cursor => Queued(t) = {}

\* While the loop is running, the touches queued for a script, and the one it
\* is being given, are by the avatar its detected slot names.
TouchInv ==
  /\ pc \notin {"settle", "done"} =>
       \A s \in Scripts : \A e \in Queued(s) : e.name \in TouchNames => e.who = detected[s]
  /\ pc \in {"dispatch", "handler"} /\ current.name \in TouchNames =>
       detected[cursor] = current.who

LEMMA DryStep == TypeInv /\ DryInv /\ [Next]_vars => DryInv'
<1> SUFFICES ASSUME TypeInv, DryInv, [Next]_vars PROVE DryInv'
  OBVIOUS
<1> USE DEF DryInv
\* Wherever a cycle ends, stops, starts with a timer or has run an event,
\* there is nothing to show.
<1>1. ASSUME pc' # "drain" \/ progress' = TRUE PROVE DryInv'
  BY <1>1
<1>2. CASE SyncClock
  <2>1. cursor' = 1 /\ DueTimers' = {}
    BY <1>2 DEF SyncClock, DueTimers
  <2> QED
    BY <2>1 DEF Scripts
<1>3. CASE SkipScript
  <2>1. /\ pc = "drain" /\ cursor \in Scripts /\ cursor' = cursor + 1 /\ progress' = progress
        /\ Queued(cursor) = {}
    BY <1>3, EmptyQueued DEF SkipScript, NextScript
  <2>2. \A t \in Scripts : Queued(t)' = Queued(t)
    BY <1>3, UnchangedQueued DEF SkipScript, scriptVars
  <2>3. DueTimers' = DueTimers
    BY <1>3 DEF SkipScript, timeVars, DueTimers
  <2>4. \A t \in Scripts : t < cursor' => t < cursor \/ t = cursor
    BY <2>1 DEF Scripts
  <2> QED
    BY <2>1, <2>2, <2>3, <2>4
<1>4. CASE Cycle
  BY <1>1, <1>2, <1>4 DEF Cycle, StopLoop, FireTimer, NextCycle, LoopEnds
<1>5. CASE Drain
  BY <1>1, <1>3, <1>5 DEF Drain, TakeEvent, StartHandler, DropEvent, HandlerReturns
<1>6. CASE StateChange
  BY <1>1, <1>6
  DEF StateChange, NoStateChange, SwitchState, SwitchStateAndExit, ExitHandlerReturns, Progressed
<1>7. CASE Builtin
  BY <1>1, <1>7
  DEF Builtin, Sleep, SetTimer, StopTimer, Post, ChangeState, ResetScript, Die, Running, loopVars
<1>8. CASE Command
  BY <1>1, <1>8 DEF Command, Wait, Exit, TouchOwner, TouchAs, Touch, Deliver, Pump
<1>9. CASE RunEnds
  BY <1>1, <1>9 DEF RunEnds
<1>10. CASE UNCHANGED vars
  <2>1. \A t \in Scripts : Queued(t)' = Queued(t)
    BY <1>10, UnchangedQueued DEF vars, scriptVars
  <2> QED
    BY <1>10, <2>1 DEF vars, loopVars, timeVars, DueTimers
<1> QED
  BY <1>4, <1>5, <1>6, <1>7, <1>8, <1>9, <1>10 DEF Next, Terminated

LEMMA QuietPump ==
  ASSUME TypeInv, DryInv, Pump, pc # "settle"
  PROVE  DueTimers = {} /\ \A s \in Scripts : Queued(s) = {}
  BY SystemAssumption DEF Pump, RanDry, DryInv, TypeInv, TypeOK, Scripts

LEMMA TouchStep == TypeInv /\ DryInv /\ TouchInv /\ [Next]_vars => TouchInv'
<1> SUFFICES ASSUME TypeInv, DryInv, TouchInv, [Next]_vars PROVE TouchInv'
  OBVIOUS
<1>0. \A name, who, st : Event(name, who, st).name = name
  BY DEF Event
\* Whatever is queued was there before or is no touch, and no other event is
\* taken up.
<1>1. ASSUME \A t \in Scripts : \A e \in Queued(t)' : e \in Queued(t) \/ e.name \notin TouchNames,
             detected' = detected,
             pc \in {"settle", "done"} => pc' \in {"settle", "done"},
             pc' \in {"dispatch", "handler"} =>
               pc \in {"dispatch", "handler"} /\ current' = current /\ cursor' = cursor
      PROVE  TouchInv'
  BY <1>1 DEF TouchInv
<1>2. ASSUME queue' = queue
      PROVE  \A t \in Scripts : \A e \in Queued(t)' : e \in Queued(t) \/ e.name \notin TouchNames
  BY <1>2, UnchangedQueued
<1>3. ASSUME NEW s \in Scripts, NEW name \in EventNames \ TouchNames, Push(s, name)
      PROVE  \A t \in Scripts : \A e \in Queued(t)' : e \in Queued(t) \/ e.name \notin TouchNames
  BY <1>0, <1>3, PushQueued
<1>4. ASSUME NEW T, PushToAll(T, "message")
      PROVE  \A t \in Scripts : \A e \in Queued(t)' : e \in Queued(t) \/ e.name \notin TouchNames
  BY <1>0, <1>4, PushToAllQueued DEF EventNames, TouchNames
<1>5. ASSUME NEW s \in Scripts, NEW q, queue' = [queue EXCEPT ![s] = q],
             \A e \in Elements(q) : e.name \notin TouchNames
      PROVE  \A t \in Scripts : \A e \in Queued(t)' : e \in Queued(t) \/ e.name \notin TouchNames
  BY <1>5, SetQueued
<1>6. /\ Elements(<< >>) = {}
      /\ \A st : \A e \in Elements(<<StateEntry(st)>>) : e.name \notin TouchNames
  BY <1>0 DEF Elements, StateEntry, TouchNames
<1>7. /\ "timer" \in EventNames \ TouchNames
      /\ "state_entry" \in EventNames \ TouchNames
  BY DEF EventNames, TouchNames
<1>8. CASE Cycle
  BY <1>1, <1>2, <1>3, <1>7, <1>8
  DEF Cycle, StopLoop, FireTimer, SyncClock, NextCycle, LoopEnds, scriptVars, commandVars
<1>9. CASE TakeEvent
  <2>1. /\ pc = "drain" /\ pc' = "dispatch" /\ cursor' = cursor /\ detected' = detected
        /\ cursor \in Scripts
        /\ current' \in Queued(cursor)
        /\ Queued(cursor) = {current'} \cup Queued(cursor)'
        /\ \A t \in Scripts : t # cursor => Queued(t)' = Queued(t)
    BY <1>9, TakeQueued DEF TakeEvent, commandVars
  <2> QED
    BY <2>1 DEF TouchInv
<1>10. CASE Drain
  BY <1>1, <1>2, <1>9, <1>10
  DEF Drain, SkipScript, StartHandler, DropEvent, HandlerReturns, NextScript,
      scriptVars, commandVars
<1>11. CASE StateChange
  <2>1. cursor \in Scripts
    BY <1>11
    DEF StateChange, NoStateChange, SwitchState, SwitchStateAndExit, ExitHandlerReturns,
        TypeInv, CursorInv
  <2>2. CASE NoStateChange
    BY <1>1, <1>2, <2>2 DEF NoStateChange, NextScript, scriptVars, commandVars
  <2>3. CASE SwitchState
    BY <1>1, <1>5, <1>6, <2>1, <2>3 DEF SwitchState, EnterState, NextScript, commandVars
  <2>4. CASE SwitchStateAndExit
    BY <1>1, <1>5, <1>6, <2>1, <2>4 DEF SwitchStateAndExit, EnterState, commandVars
  <2>5. CASE ExitHandlerReturns
    BY <1>1, <1>3, <1>7, <2>1, <2>5 DEF ExitHandlerReturns, NextScript, commandVars
  <2> QED
    BY <1>11, <2>2, <2>3, <2>4, <2>5 DEF StateChange
<1>12. CASE Builtin
  <2>1. /\ cursor \in Scripts /\ pc \in {"handler", "exit"} /\ pc' = pc /\ cursor' = cursor
        /\ current' = current /\ detected' = detected
    BY <1>12
    DEF Builtin, Sleep, SetTimer, StopTimer, Post, ChangeState, ResetScript, Die, Running,
        loopVars, commandVars, TypeInv, CursorInv
  <2>2. ASSUME queue' = queue PROVE TouchInv'
    BY <1>1, <1>2, <2>1, <2>2
  <2>3. CASE \E T \in SUBSET Scripts : Post(T)
    BY <1>1, <1>4, <2>1, <2>3 DEF Post
  <2>4. CASE ResetScript \/ Die
    BY <1>1, <1>5, <1>6, <2>1, <2>4 DEF ResetScript, Die
  <2> QED
    BY <1>12, <2>2, <2>3, <2>4
    DEF Builtin, Sleep, SetTimer, StopTimer, ChangeState, scriptVars
<1>13. CASE Command
  <2>1. ASSUME NEW s \in Scripts, NEW who \in Avatars, NEW names \in Seq(EventNames),
               Touch(s, who, names)
        PROVE  TouchInv'
    <3>1. CASE pc = "settle"
      BY <2>1, <3>1 DEF Touch, Pump, TouchInv
    <3>2. CASE pc # "settle"
      <4>1. \A t \in Scripts : Queued(t) = {}
        BY <2>1, <3>2, QuietPump DEF Touch
      <4>2. \A t \in Scripts : \A e \in Queued(t)' : t = s /\ e.who = who
        BY <2>1, <4>1, TouchQueued
      <4>3. detected'[s] = who
        BY <2>1 DEF Touch, TypeInv, TypeOK
      <4>4. pc' \notin {"dispatch", "handler"}
        BY <2>1 DEF Touch, Pump
      <4> QED
        BY <4>2, <4>3, <4>4 DEF TouchInv
    <3> QED
      BY <3>1, <3>2
  <2>2. CASE (\E d \in Sleeps : Wait(d)) \/ Exit
    BY <1>1, <1>2, <2>2 DEF Wait, Exit, Pump, scriptVars
  <2>3. CASE \E T \in SUBSET Scripts : Deliver(T)
    BY <1>1, <1>4, <2>3 DEF Deliver, Pump
  <2> QED
    BY <1>13, <2>1, <2>2, <2>3, TouchNamesType, SystemAssumption DEF Command, TouchOwner, TouchAs
<1>14. CASE RunEnds \/ UNCHANGED vars
  BY <1>1, <1>2, <1>14 DEF RunEnds, vars, scriptVars, loopVars, commandVars
<1> QED
  BY <1>8, <1>10, <1>11, <1>12, <1>13, <1>14 DEF Next, Terminated

\* A touch handler detects the avatar of the touch it was started by.
THEOREM TouchesAreDetected == Spec => []DetectedMatchesTouch
<1>1. Init => DryInv /\ TouchInv
  <2> SUFFICES ASSUME Init PROVE DryInv /\ TouchInv
    OBVIOUS
  <2>1. \A s \in Scripts : queue[s] = <<StateEntry(DefaultState)>>
    BY DEF Init
  <2>2. \A s \in Scripts : \A e \in Queued(s) : e.name \notin TouchNames
    BY <2>1 DEF Queued, Elements, StateEntry, Event, TouchNames
  <2> QED
    BY <2>2 DEF Init, DryInv, TouchInv
<1>2. TouchInv => DetectedMatchesTouch
  BY DEF TouchInv, DetectedMatchesTouch
<1> QED
  BY <1>1, <1>2, InitType, StepType, DryStep, TouchStep, PTL DEF Spec

\* A command is read only when there is nothing left to run, or after the loop.
THEOREM CommandsWait == Spec => CommandsWaitForQuiet
<1> DEFINE Waits == nextCommand' # nextCommand /\ pc # "settle" =>
                      DueTimers = {} /\ \A s \in Scripts : queue[s] = << >>
<1>1. Init => DryInv
  BY DEF Init, DryInv
<1>2. TypeInv /\ DryInv /\ [Next]_vars => [Waits]_vars
  <2> SUFFICES ASSUME TypeInv, DryInv, [Next]_vars, nextCommand' # nextCommand, pc # "settle"
               PROVE  DueTimers = {} /\ \A s \in Scripts : queue[s] = << >>
    OBVIOUS
  <2>1. Pump
    <3>1. ~(Cycle \/ Drain \/ StateChange \/ Builtin \/ RunEnds \/ UNCHANGED vars)
      BY DEF Cycle, StopLoop, FireTimer, SyncClock, NextCycle, LoopEnds, Drain, SkipScript,
         TakeEvent, StartHandler, DropEvent, HandlerReturns, StateChange, NoStateChange,
         SwitchState, SwitchStateAndExit, ExitHandlerReturns, Builtin, Sleep, SetTimer,
         StopTimer, Post, ChangeState, ResetScript, Die, RunEnds, vars, commandVars
    <3>2. Command
      BY <3>1 DEF Next, Terminated
    <3> QED
      BY <3>2 DEF Command, Wait, Exit, TouchOwner, TouchAs, Touch, Deliver
  <2> QED
    BY <2>1, QuietPump, EmptyQueued
<1> QED
  BY <1>1, <1>2, InitType, StepType, DryStep, PTL DEF Spec, CommandsWaitForQuiet

=============================================================================
