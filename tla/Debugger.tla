------------------------------ MODULE Debugger ------------------------------
(***************************************************************************)
(* The line debugger of dbg.c, between the program it stops and the client *)
(* that sends it commands.                                                 *)
(*                                                                         *)
(* Of the region loop there is what the debugger meets: which script runs, *)
(* the frames that are live, the step counter that quit writes.  Events    *)
(* come as they like.  Of a program there are its calls, the lines it      *)
(* reaches and the things it does that a catchpoint may be for.            *)
(***************************************************************************)
EXTENDS Integers, Sequences, SequencesExt

CONSTANTS
  NScripts,     \* scripts of the region
  Lines,        \* line numbers
  Kinds,        \* what can be caught
  Money,        \* the kind of MONEY_FROM
  Frames,       \* frames of running functions; no two have the same, as long as anything points to them
  None,         \* no frame, or no script
  MaxSteps,     \* --steps; 0 is no limit
  MaxFrames,    \* bound: calls in calls
  MaxCommands,  \* bound: commands in the command file
  MaxPoints     \* bound: breakpoints set, and catchpoints set

ASSUME DebuggerAssumption ==
  /\ NScripts \in Nat \ {0}
  /\ Lines \subseteq Nat \ {0}
  /\ Money \in Kinds
  /\ None \notin Frames \cup (1 .. NScripts)
  /\ MaxSteps \in Nat /\ MaxFrames \in Nat
  /\ MaxCommands \in Nat /\ MaxPoints \in Nat

VARIABLES
  mode,         \* DbgMode
  breakpoints,  \* bps, the last one set first
  catchpoints,  \* cps, the last one set first
  nextBreak,    \* next_bp_id
  nextCatch,    \* next_cp_id
  curScript,    \* cur_script
  curFrame,     \* cur_frame
  pc,           \* where region_run is
  cursor,       \* the script it is at
  progress,     \* any_progress
  frames,       \* the list at g_frame, innermost last
  steps,        \* n_steps
  commands,     \* commands left
  paused,       \* why pause_loop waits for a command, or "no"
  told,         \* what the client was last told the program is
  gone          \* the client has closed its end

points == <<breakpoints, catchpoints, nextBreak, nextCatch>>
position == <<curScript, curFrame>>
loop == <<pc, cursor, progress, frames, steps, commands>>
client == <<paused, told, gone>>
vars == <<mode, points, position, loop, client>>

Scripts == 1 .. NScripts
Reasons == {"entry", "line", "catch"}

----------------------------------------------------------------------------
(* Stopping.  A definition whose name ends in _ and a word is a mistake     *)
(* that a run is shown to notice; no specification uses it.                 *)

\* emit_stopped and pause_loop
Stop(reason) ==
  /\ mode' = "paused"
  /\ paused' = reason
  /\ told' = "stopped"
  /\ UNCHANGED gone

Running == paused = "no"

Stops(line) == mode = "step" \/ \E k \in DOMAIN breakpoints : breakpoints[k].line = line

Locate_script_kept ==
  /\ curFrame' = Last(frames)
  /\ UNCHANGED curScript
\* The script and frame that the queries of a pause look names up in.
Locate ==
  /\ curFrame' = Last(frames)
  /\ curScript' = cursor

\* dbg_check_stmt.  A statement without a line is none of its business.
Line ==
  /\ Running
  /\ frames # <<>>
  /\ mode # "dead"
  /\ Locate
  /\ \E line \in Lines : IF Stops(line) THEN Stop("line") ELSE UNCHANGED <<mode, client>>
  /\ UNCHANGED <<points, loop>>

Caught(kind) == mode # "dead" /\ \E k \in DOMAIN catchpoints : catchpoints[k].kind = kind

\* dbg_check_catch, from chat, dialogs and payments of a script.
Catch ==
  /\ Running
  /\ pc \in {"init", "handler", "exit"}
  /\ \E kind \in Kinds : Caught(kind)
  /\ Stop("catch")
  /\ UNCHANGED <<points, position, loop>>

----------------------------------------------------------------------------
(* The program *)

Init ==
  /\ mode = "paused"
  /\ breakpoints = <<>> /\ catchpoints = <<>>
  /\ nextBreak = 1 /\ nextCatch = 1
  /\ curScript = None /\ curFrame = None
  /\ pc = "init" /\ cursor = 1 /\ progress = FALSE
  /\ frames = <<>> /\ steps = 0
  /\ commands \in 0 .. MaxCommands
  /\ paused = "no" /\ told = "running" /\ gone = FALSE

FreshFrames == Frames \ ({frames[k] : k \in DOMAIN frames} \cup {curFrame})
Enter(f) == frames' = Append(frames, f)
Leave == frames' = Front(frames)

Call ==
  /\ Running
  /\ pc = "init" \/ frames # <<>>
  /\ Len(frames) < MaxFrames
  /\ \E f \in FreshFrames : Enter(f)
  /\ UNCHANGED <<mode, points, position, pc, cursor, progress, steps, commands, client>>

FunctionReturns ==
  /\ Running
  /\ Len(frames) > IF pc = "init" THEN 0 ELSE 1
  /\ Leave
  /\ UNCHANGED <<mode, points, position, pc, cursor, progress, steps, commands, client>>

\* init_script, the initialisers of one script after those of the other.
NextInit ==
  /\ Running
  /\ pc = "init" /\ frames = <<>>
  /\ cursor < NScripts
  /\ cursor' = cursor + 1
  /\ UNCHANGED <<mode, points, position, pc, progress, frames, steps, commands, client>>

\* dbg_handshake_pause
Handshake ==
  /\ Running
  /\ pc = "init" /\ frames = <<>>
  /\ cursor = NScripts
  /\ pc' = "top"
  /\ curScript' = 1
  /\ curFrame' = None
  /\ Stop("entry")
  /\ UNCHANGED <<points, cursor, progress, frames, steps, commands>>

\* A cycle begins, with a timer that fires or without, unless the limit of steps,
\* or of time, is reached.
Cycle ==
  /\ Running
  /\ pc = "top"
  /\ MaxSteps > 0 => steps < MaxSteps
  /\ pc' = "drain"
  /\ cursor' = 1
  /\ progress' \in BOOLEAN
  /\ UNCHANGED <<mode, points, position, frames, steps, commands, client>>

LoopStops ==
  /\ Running
  /\ pc = "top"
  /\ pc' = "settle"
  /\ UNCHANGED <<mode, points, position, cursor, progress, frames, steps, commands, client>>

SkipScript ==
  /\ Running
  /\ pc = "drain" /\ cursor \in Scripts
  /\ cursor' = cursor + 1
  /\ UNCHANGED <<mode, points, position, pc, progress, frames, steps, commands, client>>

\* An event that the script has no handler for is counted as well.
DropEvent ==
  /\ Running
  /\ pc = "drain" /\ cursor \in Scripts
  /\ steps' = steps + 1
  /\ cursor' = cursor + 1
  /\ progress' = TRUE
  /\ UNCHANGED <<mode, points, position, pc, frames, commands, client>>

StartHandler ==
  /\ Running
  /\ pc = "drain" /\ cursor \in Scripts
  /\ pc' = "handler"
  /\ \E f \in FreshFrames : Enter(f)
  /\ UNCHANGED <<mode, points, position, cursor, progress, steps, commands, client>>

\* The event is counted; a change of state may be pending, with a state_exit.
HandlerReturns ==
  /\ Running
  /\ pc = "handler" /\ Len(frames) = 1
  /\ steps' = steps + 1
  /\ progress' = TRUE
  /\ \/ pc' = "drain" /\ cursor' = cursor + 1 /\ Leave
     \/ pc' = "exit" /\ UNCHANGED cursor /\ \E f \in FreshFrames : frames' = <<f>>
  /\ UNCHANGED <<mode, points, position, commands, client>>

ExitReturns ==
  /\ Running
  /\ pc = "exit" /\ Len(frames) = 1
  /\ pc' = "drain"
  /\ cursor' = cursor + 1
  /\ Leave
  /\ UNCHANGED <<mode, points, position, progress, steps, commands, client>>

NextCycle ==
  /\ Running
  /\ pc = "drain" /\ cursor = NScripts + 1
  /\ progress
  /\ pc' = "top"
  /\ UNCHANGED <<mode, points, position, cursor, progress, frames, steps, commands, client>>

\* A cycle without progress ends the loop when there is no command left.
NothingLeft ==
  /\ Running
  /\ pc = "drain" /\ cursor = NScripts + 1
  /\ ~progress /\ commands = 0
  /\ pc' = "settle"
  /\ UNCHANGED <<mode, points, position, cursor, progress, frames, steps, commands, client>>

\* commands_pump.  Only MONEY_FROM, of the commands, does what can be caught.
Command ==
  /\ Running
  /\ \/ pc = "drain" /\ cursor = NScripts + 1 /\ ~progress /\ pc' = "command"
     \/ pc = "settle" /\ pc' = "lastCommand"
  /\ commands > 0
  /\ commands' = commands - 1
  /\ \/ UNCHANGED <<mode, client>>
     \/ Caught(Money) /\ Stop("catch")
  /\ UNCHANGED <<points, position, cursor, progress, frames, steps>>

CommandDone ==
  /\ Running
  /\ pc \in {"command", "lastCommand"}
  /\ steps' = steps + 1
  /\ pc' = IF pc = "command" THEN "top" ELSE "settle"
  /\ UNCHANGED <<mode, points, position, cursor, progress, frames, commands, client>>

RunEnds ==
  /\ Running
  /\ pc = "settle" /\ commands = 0
  /\ pc' = "done"
  /\ UNCHANGED <<mode, points, position, cursor, progress, frames, steps, commands, client>>

----------------------------------------------------------------------------
(* The client: handle_command *)

Asks == ~Running /\ ~gone

Resume_silent(m) ==
  /\ mode' = m
  /\ paused' = "no"
  /\ UNCHANGED <<told, gone>>
Resume(m) ==
  /\ mode' = m
  /\ paused' = "no"
  /\ told' = "running"
  /\ UNCHANGED gone

Continue == Asks /\ Resume("run") /\ UNCHANGED <<points, position, loop>>
Step == Asks /\ Resume("step") /\ UNCHANGED <<points, position, loop>>

QuitSteps_kept == steps
QuitSteps == MaxSteps + 1
\* The client is not answered.
Quit ==
  /\ Asks
  /\ mode' = "dead"
  /\ paused' = "no"
  /\ steps' = QuitSteps
  /\ UNCHANGED <<points, position, pc, cursor, progress, frames, commands, told, gone>>

\* The file that a breakpoint names is kept, and looked at nowhere.
Break ==
  /\ Asks
  /\ nextBreak <= MaxPoints
  /\ \E line \in Lines : breakpoints' = <<[id |-> nextBreak, line |-> line]>> \o breakpoints
  /\ nextBreak' = nextBreak + 1
  /\ UNCHANGED <<mode, catchpoints, nextCatch, position, loop, client>>

SetCatch ==
  /\ Asks
  /\ nextCatch <= MaxPoints
  /\ \E kind \in Kinds : catchpoints' = <<[id |-> nextCatch, kind |-> kind]>> \o catchpoints
  /\ nextCatch' = nextCatch + 1
  /\ UNCHANGED <<mode, breakpoints, nextBreak, position, loop, client>>

\* The first one with the id goes.
First(list, k) == \A j \in 1 .. (k - 1) : list[j].id # list[k].id

Clear ==
  /\ Asks
  /\ \E k \in DOMAIN breakpoints : First(breakpoints, k) /\ breakpoints' = RemoveAt(breakpoints, k)
  /\ UNCHANGED <<mode, catchpoints, nextBreak, nextCatch, position, loop, client>>

Uncatch ==
  /\ Asks
  /\ \E k \in DOMAIN catchpoints : First(catchpoints, k) /\ catchpoints' = RemoveAt(catchpoints, k)
  /\ UNCHANGED <<mode, breakpoints, nextBreak, nextCatch, position, loop, client>>

\* print, locals, globals and backtrace read curScript and curFrame, and the frames
\* that called it; breakpoints, catchpoints and snapshots are shown.
Query == Asks /\ UNCHANGED <<mode, points, position, loop, client>>

\* The end of its input: from now on the program goes on at once when it stops.
Disconnect ==
  /\ ~Running
  /\ gone' = TRUE
  /\ mode' = "run"
  /\ paused' = "no"
  /\ UNCHANGED <<points, position, loop, told>>

----------------------------------------------------------------------------
Program ==
  \/ Call \/ FunctionReturns \/ Line \/ Catch
  \/ NextInit \/ Handshake
  \/ Cycle \/ LoopStops \/ SkipScript \/ DropEvent \/ StartHandler \/ HandlerReturns \/ ExitReturns
  \/ NextCycle \/ NothingLeft \/ Command \/ CommandDone \/ RunEnds
Client ==
  \/ Continue \/ Step \/ Quit \/ Break \/ SetCatch \/ Clear \/ Uncatch \/ Query \/ Disconnect
Next == Program \/ Client

Spec == Init /\ [][Next]_vars

----------------------------------------------------------------------------
(* What it promises *)

\* Every variable has its type, and frames are there exactly while code runs.
TypeOK ==
  /\ mode \in {"run", "step", "paused", "dead"}
  /\ breakpoints \in Seq([id : 1 .. MaxPoints, line : Lines])
  /\ catchpoints \in Seq([id : 1 .. MaxPoints, kind : Kinds])
  /\ nextBreak \in 1 .. (MaxPoints + 1) /\ nextCatch \in 1 .. (MaxPoints + 1)
  /\ curScript \in Scripts \cup {None} /\ curFrame \in Frames \cup {None}
  /\ pc \in {"init", "top", "drain", "handler", "exit", "command", "lastCommand", "settle", "done"}
  /\ cursor \in 1 .. (NScripts + 1)
  /\ pc \in {"init", "handler", "exit"} => cursor \in Scripts
  /\ progress \in BOOLEAN
  /\ frames \in Seq(Frames)
  /\ pc \in {"handler", "exit"} => frames # <<>>
  /\ pc \notin {"init", "handler", "exit"} => frames = <<>>
  /\ steps \in Nat
  /\ commands \in 0 .. MaxCommands
  /\ paused \in Reasons \cup {"no"} /\ told \in {"stopped", "running"} /\ gone \in BOOLEAN

Live == {frames[k] : k \in DOMAIN frames}

\* At a pause on a line the queries see the function that reached it, in its
\* script, whatever was called before and whatever ran in between.
LinePauseSeesItsFrame ==
  paused = "line" => frames # <<>> /\ curFrame = Last(frames) /\ curScript = cursor

\* A client that has not gone or quit knows whether the program waits for it: it
\* is told of each stop, and of each time it goes on.
ClientKnows ==
  pc # "init" /\ ~gone /\ mode # "dead" =>
    /\ told = "stopped" <=> ~Running
    /\ mode = "paused" <=> ~Running

\* quit: the loop begins no further cycle, wherever in a handler, a state_exit or
\* a command it was given; and what runs on is not stopped again.
QuitIsFinal ==
  [][mode = "dead" => /\ mode' = "dead" /\ Running'
                      /\ MaxSteps > 0 /\ pc = "top" => pc' \in {"top", "settle"}]_vars

\* "current frame / script we are stopped in (so locals/globals lookups work)",
\* slemu.h: a frame that a pause shows is the frame of a function that still runs.
PauseSeesLiveFrame == Running \/ curFrame \in Live \cup {None}

=============================================================================
