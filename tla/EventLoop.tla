----------------------------- MODULE EventLoop -----------------------------
(***************************************************************************)
(* The region's event loop: region_run of region.c, with the part of every *)
(* builtin and of every script command that touches what the loop reads:   *)
(* the per-script event queues, the LSL state machine, the timers and the  *)
(* virtual clock, the step counter and the command cursor.                 *)
(*                                                                         *)
(* What a script computes is left out.  While one of its handlers runs, a  *)
(* script may call any of the builtins below, in any order and any number  *)
(* of times; then the handler returns.  A command file is likewise any     *)
(* list of at most MaxCommands commands.                                   *)
(*                                                                         *)
(* Events carry two fields the C struct does not have and the loop never   *)
(* reads: who (the avatar a touch was made by) and in (the LSL state the   *)
(* receiver was in when the event was queued).                             *)
(***************************************************************************)
EXTENDS Integers, Sequences

CONSTANTS
  NumScripts,    \* scripts in the region: links 1..NumScripts
  StateIds,      \* the LSL states of each script
  DefaultState,  \* the one marked default
  Handles,       \* Handles[s][st]: the events state st of script s handles
  Avatars,       \* who may touch
  Owner,         \* avatars[0], the avatar of a plain TOUCH
  MaxSteps,      \* --steps; 0 = no cap
  WallTimeout,   \* TRUE: --timeout is positive, so a cycle may find it expired
  Intervals,     \* arguments of llSetTimerEvent that arm the timer
  Sleeps,        \* seconds passed to llSleep and WAIT
  MaxCommands,   \* bound: commands in the file
  MaxQueue,      \* bound: a script queues no message beyond this length
  MaxTime,       \* bound: virtual_offset
  NoOne,         \* not an avatar
  NoState        \* pending_state = -1

Scripts == 1 .. NumScripts

ASSUME SystemAssumption ==
  /\ NumScripts \in Nat
  /\ DefaultState \in StateIds
  /\ NoState \notin StateIds
  /\ Owner \in Avatars
  /\ NoOne \notin Avatars
  /\ MaxSteps \in Nat
  /\ WallTimeout \in BOOLEAN
  /\ MaxCommands \in Nat
  /\ MaxQueue \in Nat
  /\ MaxTime \in Nat

\* Virtual time only makes sense for non-negative waits; the code does not
\* reject the others.
ASSUME TimeAssumption ==
  /\ Intervals \subseteq Nat \ {0}
  /\ Sleeps \subseteq Nat

\* "message" stands for every event whose only effect on the loop is that it
\* is queued: listen, link_message, run_time_permissions, money, on_rez, ...
TouchNames == {"touch_start", "touch", "touch_end"}
EventNames == {"state_entry", "timer", "message"} \cup TouchNames

Events == [name : EventNames, who : Avatars \cup {NoOne}, in : StateIds]

NoEvent == [name |-> "none", who |-> NoOne, in |-> NoState]

VARIABLES
  pc,            \* where region_run stands
  cursor,        \* i of the drain loop; scripts[i] is the one that runs
  current,       \* the event popped and being dispatched
  progress,      \* any_progress
  queue,         \* evq_head .. evq_tail of every script
  curState,      \* cur_state
  pendingState,  \* pending_state
  interval,      \* timer_interval
  due,           \* timer_due
  virtualNow,    \* virtual_now
  virtualOffset, \* virtual_offset
  detected,      \* detected[0].key
  nSteps,        \* n_steps
  nCommands,     \* n_command_lines
  nextCommand,   \* next_command
  life,          \* history: a script is "entering" a state until its state_entry
                 \* comes up, "settled" from then on, "dead" after llDie
  exited         \* history: an EXIT command has been consumed

loopVars == <<pc, cursor, current, progress>>
scriptVars == <<queue, curState, pendingState, life>>
timeVars == <<interval, due, virtualNow, virtualOffset>>
commandVars == <<nCommands, nextCommand, exited, detected>>
vars == <<loopVars, scriptVars, timeVars, commandVars, nSteps>>

----------------------------------------------------------------------------
(* Helpers.  A definition whose name ends in _ and a word is a mistake that *)
(* the runs are shown to notice; no specification uses it.                  *)

Capped_late == MaxSteps > 0 /\ nSteps > MaxSteps
Capped_exact == MaxSteps > 0 /\ nSteps = MaxSteps
Capped == MaxSteps > 0 /\ nSteps >= MaxSteps

CountStep_never == UNCHANGED nSteps
\* n_steps++.  The counter is read only under max_steps > 0, so without a cap
\* it stays put and the region may run for ever in finitely many states.
CountStep == nSteps' = IF MaxSteps > 0 THEN nSteps + 1 ELSE nSteps

Progressed_forgotten == UNCHANGED progress
\* any_progress = 1
Progressed == progress' = TRUE

RanDry_unasked == TRUE
RanDry == ~progress

CommandsLeft == nextCommand < nCommands

AdvanceCommand_never == UNCHANGED nextCommand
AdvanceCommand == nextCommand' = nextCommand + 1

Event(name, who, st) == [name |-> name, who |-> who, in |-> st]

StateEntry(st) == Event("state_entry", NoOne, st)

\* script_push_event: append at the tail.
Push(s, name) == queue' = [queue EXCEPT ![s] = Append(@, Event(name, NoOne, curState[s]))]

\* One event for each script of T.
PushToAll(T, name) ==
  queue' = [s \in Scripts |->
              IF s \in T THEN Append(queue[s], Event(name, NoOne, curState[s]))
              ELSE queue[s]]

\* The timers that are due, and the one the scan of region_run picks: the
\* earliest, and the first script among equals (the scan compares with <).
DueTimers == {s \in Scripts : interval[s] > 0 /\ due[s] <= virtualOffset}

Earliest_first_script(s) == s \in DueTimers /\ \A t \in DueTimers : s <= t
Earliest(s) ==
  /\ s \in DueTimers
  /\ \A t \in DueTimers : due[s] < due[t] \/ (due[s] = due[t] /\ s <= t)

Rearm_forgotten(s) == due' = due
Rearm(s) == due' = [due EXCEPT ![s] = @ + interval[s]]

NextScript_hog == /\ pc' = "drain"
                  /\ cursor' = IF 1 \in Scripts /\ queue[1] # <<>> THEN 1 ELSE cursor + 1
\* On to the next script of the drain loop.
NextScript == /\ pc' = "drain"
              /\ cursor' = cursor + 1

\* History: s has entered a state, by a state change or a reset.
Entering(s) == life' = [life EXCEPT ![s] = IF @ = "dead" THEN "dead" ELSE "entering"]

----------------------------------------------------------------------------
(* init_script for every script: default state, state_entry queued *)

Init ==
  /\ pc = "top"
  /\ cursor = 1
  /\ current = NoEvent
  /\ progress = FALSE
  /\ curState = [s \in Scripts |-> DefaultState]
  /\ pendingState = [s \in Scripts |-> NoState]
  /\ queue = [s \in Scripts |-> <<StateEntry(DefaultState)>>]
  /\ interval = [s \in Scripts |-> 0]
  /\ due = [s \in Scripts |-> 0]
  /\ virtualNow = 0
  /\ virtualOffset = 0
  /\ detected = [s \in Scripts |-> NoOne]
  /\ nSteps = 0
  /\ nCommands \in 0 .. MaxCommands
  /\ nextCommand = 0
  /\ life = [s \in Scripts |-> "entering"]
  /\ exited = FALSE

----------------------------------------------------------------------------
(* The top of a cycle *)

\* The step cap and the wall-clock timeout are looked at here and nowhere
\* else.  Wall time is not modelled: with a timeout, any cycle may find it up.
StopLoop ==
  /\ pc = "top"
  /\ Capped \/ WallTimeout
  /\ pc' = "settle"
  /\ UNCHANGED <<cursor, current, progress, scriptVars, timeVars, commandVars, nSteps>>

\* Virtual time steps to the earliest due timer, which queues its event.
FireTimer(s) ==
  /\ pc = "top"
  /\ ~Capped
  /\ Earliest(s)
  /\ virtualNow' = due[s]
  /\ Push(s, "timer")
  /\ Rearm(s)
  /\ progress' = TRUE
  /\ pc' = "drain"
  /\ cursor' = 1
  /\ UNCHANGED <<current, curState, pendingState, life, interval,
                 virtualOffset, commandVars, nSteps>>

\* No timer is due: virtual time catches up with the offset.
SyncClock ==
  /\ pc = "top"
  /\ ~Capped
  /\ DueTimers = {}
  /\ virtualNow' = virtualOffset
  /\ progress' = FALSE
  /\ pc' = "drain"
  /\ cursor' = 1
  /\ UNCHANGED <<current, scriptVars, interval, due, virtualOffset, commandVars, nSteps>>

----------------------------------------------------------------------------
(* Draining: one event per script and cycle *)

SkipScript ==
  /\ pc = "drain"
  /\ cursor \in Scripts
  /\ queue[cursor] = <<>>
  /\ NextScript
  /\ UNCHANGED <<current, progress, scriptVars, timeVars, commandVars, nSteps>>

TakeEvent ==
  /\ pc = "drain"
  /\ cursor \in Scripts
  /\ queue[cursor] # <<>>
  /\ current' = Head(queue[cursor])
  /\ queue' = [queue EXCEPT ![cursor] = Tail(@)]
  /\ pc' = "dispatch"
  /\ UNCHANGED <<cursor, progress, curState, pendingState, life, timeVars,
                 commandVars, nSteps>>

Handled == current.name \in Handles[cursor][curState[cursor]]

\* The state_entry that entering a state owes has come up.
EntryServed ==
  life' = IF current.name = "state_entry" /\ life[cursor] = "entering"
          THEN [life EXCEPT ![cursor] = "settled"] ELSE life

StartHandler ==
  /\ pc = "dispatch"
  /\ Handled
  /\ pc' = "handler"
  /\ EntryServed
  /\ UNCHANGED <<cursor, current, progress, queue, curState, pendingState, timeVars,
                 commandVars, nSteps>>

\* dispatch_event found no handler: the event is dropped, and still counted.
DropEvent ==
  /\ pc = "dispatch"
  /\ ~Handled
  /\ pc' = "switch"
  /\ current' = NoEvent
  /\ EntryServed
  /\ CountStep
  /\ UNCHANGED <<cursor, progress, queue, curState, pendingState, timeVars, commandVars>>

HandlerReturns ==
  /\ pc = "handler"
  /\ pc' = "switch"
  /\ current' = NoEvent
  /\ CountStep
  /\ UNCHANGED <<cursor, progress, scriptVars, timeVars, commandVars>>

----------------------------------------------------------------------------
(* After each dispatch: a recorded state change takes effect *)

NoStateChange ==
  /\ pc = "switch"
  /\ pendingState[cursor] = NoState
  /\ Progressed
  /\ NextScript
  /\ UNCHANGED <<current, scriptVars, timeVars, commandVars, nSteps>>

EnterState_keeping_queue(s, rest) ==
  /\ curState' = [curState EXCEPT ![s] = pendingState[s]]
  /\ pendingState' = [pendingState EXCEPT ![s] = NoState]
  /\ queue' = [queue EXCEPT ![s] = @ \o rest]
  /\ Entering(s)
\* Entering a state: whatever is queued is dropped.
EnterState(s, rest) ==
  /\ curState' = [curState EXCEPT ![s] = pendingState[s]]
  /\ pendingState' = [pendingState EXCEPT ![s] = NoState]
  /\ queue' = [queue EXCEPT ![s] = rest]
  /\ Entering(s)

\* The state left has no state_exit: the new one's state_entry is queued.
SwitchState ==
  /\ pc = "switch"
  /\ pendingState[cursor] # NoState
  /\ "state_exit" \notin Handles[cursor][curState[cursor]]
  /\ EnterState(cursor, <<StateEntry(pendingState[cursor])>>)
  /\ Progressed
  /\ NextScript
  /\ UNCHANGED <<current, timeVars, commandVars, nSteps>>

\* It has one: state_exit runs now, when cur_state is already the new state
\* and the queue is empty, and may call builtins like any handler.
SwitchStateAndExit ==
  /\ pc = "switch"
  /\ pendingState[cursor] # NoState
  /\ "state_exit" \in Handles[cursor][curState[cursor]]
  /\ EnterState(cursor, <<>>)
  /\ pc' = "exit"
  /\ UNCHANGED <<cursor, current, progress, timeVars, commandVars, nSteps>>

ExitHandlerReturns_no_entry ==
  /\ pc = "exit"
  /\ Progressed
  /\ NextScript
  /\ UNCHANGED <<current, scriptVars, timeVars, commandVars, nSteps>>
ExitHandlerReturns ==
  /\ pc = "exit"
  /\ Push(cursor, "state_entry")
  /\ Progressed
  /\ NextScript
  /\ UNCHANGED <<current, curState, pendingState, life, timeVars, commandVars, nSteps>>

----------------------------------------------------------------------------
(* What a running handler may do to the loop *)

Running == pc \in {"handler", "exit"}

Sleep(d) ==
  /\ Running
  /\ virtualOffset + d <= MaxTime
  /\ virtualOffset' = virtualOffset + d
  /\ UNCHANGED <<loopVars, scriptVars, interval, due, virtualNow, commandVars, nSteps>>

SetTimer(i) ==
  /\ Running
  /\ interval' = [interval EXCEPT ![cursor] = i]
  /\ due' = [due EXCEPT ![cursor] = virtualNow + i]
  /\ UNCHANGED <<loopVars, scriptVars, virtualNow, virtualOffset, commandVars, nSteps>>

StopTimer ==
  /\ Running
  /\ interval' = [interval EXCEPT ![cursor] = 0]
  /\ due' = [due EXCEPT ![cursor] = 0]
  /\ UNCHANGED <<loopVars, scriptVars, virtualNow, virtualOffset, commandVars, nSteps>>

\* llSay and its kin reach the scripts with a matching listen, llMessageLinked
\* the links it names, llRequestPermissions and the transfer and HTTP calls
\* the caller itself.
Post(T) ==
  /\ Running
  /\ \A s \in T : Len(queue[s]) < MaxQueue
  /\ PushToAll(T, "message")
  /\ UNCHANGED <<loopVars, curState, pendingState, life, timeVars, commandVars, nSteps>>

\* `state X;` only records the target; the handler goes on to its end.
ChangeState(st) ==
  /\ Running
  /\ pendingState' = [pendingState EXCEPT ![cursor] = st]
  /\ UNCHANGED <<loopVars, queue, curState, life, timeVars, commandVars, nSteps>>

ResetScript_flush_last ==
  /\ Running
  /\ curState' = [curState EXCEPT ![cursor] = DefaultState]
  /\ queue' = [queue EXCEPT ![cursor] = <<>>]
  /\ Entering(cursor)
  /\ UNCHANGED <<loopVars, pendingState, timeVars, commandVars, nSteps>>
\* llResetScript: the queue is dropped, the state is the default one at once,
\* its state_entry is queued.  The handler goes on; a recorded state change,
\* the timer and the listens stay.
ResetScript ==
  /\ Running
  /\ curState' = [curState EXCEPT ![cursor] = DefaultState]
  /\ queue' = [queue EXCEPT ![cursor] = <<StateEntry(DefaultState)>>]
  /\ Entering(cursor)
  /\ UNCHANGED <<loopVars, pendingState, timeVars, commandVars, nSteps>>

\* llDie drops the queue and stops the timer, and that is all it does.
Die ==
  /\ Running
  /\ queue' = [queue EXCEPT ![cursor] = <<>>]
  /\ interval' = [interval EXCEPT ![cursor] = 0]
  /\ life' = [life EXCEPT ![cursor] = "dead"]
  /\ UNCHANGED <<loopVars, curState, pendingState, due, virtualNow, virtualOffset,
                 commandVars, nSteps>>

Builtin ==
  \/ \E d \in Sleeps : Sleep(d)
  \/ \E i \in Intervals : SetTimer(i)
  \/ StopTimer
  \/ \E T \in SUBSET Scripts : T # {} /\ Post(T)
  \/ \E st \in StateIds : ChangeState(st)
  \/ ResetScript
  \/ Die

----------------------------------------------------------------------------
(* The end of a cycle and the command file *)

\* Something ran: go round again.
NextCycle ==
  /\ pc = "drain"
  /\ cursor = NumScripts + 1
  /\ progress
  /\ pc' = "top"
  /\ UNCHANGED <<cursor, current, progress, scriptVars, timeVars, commandVars, nSteps>>

\* Nothing ran and no command is left: the loop ends.
LoopEnds ==
  /\ pc = "drain"
  /\ cursor = NumScripts + 1
  /\ RanDry
  /\ ~CommandsLeft
  /\ pc' = "settle"
  /\ UNCHANGED <<cursor, current, progress, scriptVars, timeVars, commandVars, nSteps>>

\* commands_pump takes the next line: in a cycle in which nothing ran, or,
\* once the loop has ended, until the file is used up.
Pump ==
  /\ CommandsLeft
  /\ AdvanceCommand
  /\ \/ pc = "drain" /\ cursor = NumScripts + 1 /\ RanDry /\ pc' = "top"
     \/ pc = "settle" /\ pc' = "settle"
  /\ UNCHANGED <<cursor, current, progress, nCommands>>

Wait(d) ==
  /\ Pump
  /\ virtualOffset + d <= MaxTime
  /\ virtualOffset' = virtualOffset + d
  /\ CountStep
  /\ UNCHANGED <<scriptVars, interval, due, virtualNow, exited, detected>>

\* EXIT stops the loop by pushing n_steps over the cap; the caller then
\* counts the command itself.
Exit ==
  /\ Pump
  /\ exited' = TRUE
  /\ nSteps' = IF MaxSteps > 0 THEN MaxSteps + 2 ELSE nSteps
  /\ UNCHANGED <<scriptVars, timeVars, detected>>

\* TOUCH, TOUCH_FACE, TOUCH_AS: the toucher replaces what the script would
\* detect, and the touch events are queued (TOUCH alone sends "touch").
Touch(s, who, names) ==
  /\ Pump
  /\ detected' = [detected EXCEPT ![s] = who]
  /\ queue' = [queue EXCEPT ![s] = @ \o [i \in DOMAIN names |-> Event(names[i], who, curState[s])]]
  /\ CountStep
  /\ UNCHANGED <<curState, pendingState, life, timeVars, exited>>

TouchOwner(s) == Touch(s, Owner, <<"touch_start", "touch", "touch_end">>)
TouchAs(s, who) == Touch(s, who, <<"touch_start", "touch_end">>)

\* LISTEN, DIALOG_REPLY, MONEY_FROM, HTTP_IN, ATTACH, ON_REZ, CHANGED queue an
\* event for some scripts; ECHO, SNAPSHOT, IM, ASSERT_* and a command that
\* names nobody for none.
Deliver(T) ==
  /\ Pump
  /\ PushToAll(T, "message")
  /\ CountStep
  /\ UNCHANGED <<curState, pendingState, life, timeVars, exited, detected>>

Command ==
  \/ \E d \in Sleeps : Wait(d)
  \/ Exit
  \/ \E s \in Scripts : TouchOwner(s) \/ \E who \in Avatars : TouchAs(s, who)
  \/ \E T \in SUBSET Scripts : Deliver(T)

RunEnds ==
  /\ pc = "settle"
  /\ ~CommandsLeft
  /\ pc' = "done"
  /\ UNCHANGED <<cursor, current, progress, scriptVars, timeVars, commandVars, nSteps>>

Terminated == pc = "done" /\ UNCHANGED vars

----------------------------------------------------------------------------

Drain == SkipScript \/ TakeEvent \/ StartHandler \/ DropEvent \/ HandlerReturns

StateChange == NoStateChange \/ SwitchState \/ SwitchStateAndExit \/ ExitHandlerReturns

Cycle == StopLoop \/ (\E s \in Scripts : FireTimer(s)) \/ SyncClock \/ NextCycle \/ LoopEnds

Next == Cycle \/ Drain \/ StateChange \/ Builtin \/ Command \/ RunEnds \/ Terminated

Spec == Init /\ [][Next]_vars

\* The loop is one thread that always goes on.  That a handler returns is an
\* assumption about the script: while, do and for are cut off after a million
\* rounds, but a backward jump is not.
Fairness ==
  /\ WF_vars(Cycle \/ Drain \/ StateChange \/ Command \/ RunEnds)

FairSpec == Spec /\ Fairness

----------------------------------------------------------------------------
(* Properties *)

\* Type invariant.
TypeOK ==
  /\ pc \in {"top", "drain", "dispatch", "handler", "switch", "exit", "settle", "done"}
  /\ cursor \in 1 .. NumScripts + 1
  /\ current \in Events \cup {NoEvent}
  /\ progress \in BOOLEAN
  /\ queue \in [Scripts -> Seq(Events)]
  /\ curState \in [Scripts -> StateIds]
  /\ pendingState \in [Scripts -> StateIds \cup {NoState}]
  /\ interval \in [Scripts -> Nat]
  /\ due \in [Scripts -> Nat]
  /\ virtualNow \in Nat
  /\ virtualOffset \in Nat
  /\ detected \in [Scripts -> Avatars \cup {NoOne}]
  /\ nSteps \in Nat
  /\ nCommands \in Nat
  /\ nextCommand \in 0 .. nCommands
  /\ life \in [Scripts -> {"entering", "settled", "dead"}]
  /\ exited \in BOOLEAN

\* region_run against the clock it promises: timers ring at the moment they
\* are due, earliest first, and virtual_now never gives time back or passes one,
\* although the offset it catches up with jumps under llSleep and WAIT while
\* handlers arm timers against the older virtual_now.
Clock == INSTANCE VirtualClock WITH
           period <- interval,
           left <- [s \in Scripts |-> IF interval[s] > 0 THEN due[s] - virtualNow ELSE 0]

ClockSpec == Clock!Spec

\* The cap is tested once a cycle.  What the code does guarantee: when script
\* number k is given an event, at most MaxSteps - 1 + (k - 1) are counted, and
\* none is given once an EXIT command, which only pushes the counter, was read.
StepBound ==
  MaxSteps > 0 /\ pc \in {"dispatch", "handler"} => nSteps < MaxSteps + cursor - 1 /\ ~exited

\* Under a cap, the loop does not even begin a cycle after an EXIT command.
ExitStops == exited /\ MaxSteps > 0 => pc \in {"top", "settle", "done"}

\* No event outlives the LSL state it was queued in: neither a state change
\* nor a reset leaves one behind for the handlers of another state.
QueuedForCurrentState ==
  \A s \in Scripts : \A i \in DOMAIN queue[s] : queue[s][i].in = curState[s]

\* A state change recorded by state_exit is noticed only when the next event
\* is dispatched; there always is one.
PendingSwitchNotStranded ==
  \A s \in Scripts :
    pendingState[s] # NoState =>
      queue[s] # <<>> \/ (cursor = s /\ pc \in {"dispatch", "handler", "switch", "exit"})

\* A state once entered gets its state_entry, whatever its state_exit, a
\* reset or another script does in between, unless the script calls llDie.
EntryNotLost ==
  \A s \in Scripts :
    life[s] = "entering" =>
      \/ \E i \in DOMAIN queue[s] : queue[s][i].name = "state_entry"
      \/ cursor = s /\ pc = "exit"
      \/ cursor = s /\ pc = "dispatch" /\ current.name = "state_entry"

\* detected[] is one slot per script, filled when a touch is queued and read
\* when its handlers run: it still names the avatar of that touch.
DetectedMatchesTouch ==
  pc = "handler" /\ current.name \in TouchNames => detected[cursor] = current.who

\* Inside the loop a command is read only when every script has run dry and
\* no timer is due.
CommandsWaitForQuiet ==
  [][nextCommand' # nextCommand /\ pc # "settle" =>
       DueTimers = {} /\ \A s \in Scripts : queue[s] = <<>>]_vars

\* Round robin: a script with an event gets its turn, however busy the others
\* keep the loop; only it can drop its own queue.
EventuallyServed ==
  \A s \in Scripts :
    queue[s] # <<>> ~> (pc = "dispatch" /\ cursor = s) \/ queue[s] = <<>> \/ pc = "done"

\* A timer that is due rings until it has caught up, unless handlers go on for ever to
\* sleep while it is: one that sleeps as long as its own interval never catches up.
SleptLate(s) == s \in DueTimers /\ virtualOffset' > virtualOffset
TimersCatchUp ==
  \A s \in Scripts :
    <>[][~SleptLate(s)]_vars => (s \in DueTimers ~> s \notin DueTimers \/ pc = "done")

\* If from some moment on handlers do not sleep, queue nothing and change no state, then
\* whatever timers they still arm, stop and arm again, the run comes to rest, reads all
\* its commands, also those that wait, and ends.
KeepsBusy ==
  \/ \E d \in Sleeps : Sleep(d)
  \/ \E T \in SUBSET Scripts : Post(T)
  \/ \E st \in StateIds : ChangeState(st)
  \/ ResetScript
QuietRunEnds == <>[][~KeepsBusy]_vars => <>(pc = "done")

\* Under a cap the run ends, even if the scripts never run dry.
EndsUnderCap == MaxSteps > 0 => <>(pc = "done")

=============================================================================
