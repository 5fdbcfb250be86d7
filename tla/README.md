# Verification of the slemu region emulator

`slemu` runs LSL bytecode in a headless region: one thread that dispatches
queued events to scripts, with virtual time, a scripted player, a L$ economy, a
project volume on disk and a line debugger. This directory models it in TLA+,
checks the models with TLC and proves theorems about them with TLAPS.

Contents: 1 the system, 2 what is hard about it, 3 what is modelled and how it
corresponds to the code, 4 the runs, 5 fairness, 6 the proofs, 7 disagreements
between documentation and code, 8 what is not modelled, 9 the plan.

## 1. The system

| Part (source under `src/src`) | State | Operations | Interacts with |
|---|---|---|---|
| event loop (`region.c`) | per script: event queue, `cur_state`, `pending_state`, `timer_interval`, `timer_due`; region: `virtual_now`, `virtual_offset`, `n_steps` | `region_run`, `init_script`, `dispatch_event`, `script_push_event` | every builtin that queues an event, sleeps, sets a timer or changes state; `commands_pump` |
| script commands (`commands.c`) | `command_lines`, `next_command`, the chat log, `detected[]` | one per command: WAIT, TOUCH, LISTEN, DIALOG_REPLY, MONEY_FROM, HTTP_IN, EXIT, ASSERT_... | queues of the scripts, avatars, dialogs, URLs |
| economy (`builtins.c`, `region.c`) | avatars with balances, permissions of each script | `llGiveMoney`, `llTransferLindenDollars`, `llRequestPermissions`, MONEY_FROM, registration | volume, configuration |
| project volume (`volume.c`) | `economy.txt`, `lsd/<key>.txt` | load, save, linkset data write / read / delete / list / reset | economy, scripts |
| chat and dialogs (`builtins.c`, `dialog.c`) | listens of each script, open dialogs | say family, `llListen...`, `llDialog`, replies | event queues |
| interpreter (`vm.c`) | frame stack with its returning / jumping flags | `vm_exec`, `vm_eval`, `vm_dispatch` | debugger, builtins |
| debugger (`dbg.c`) | mode, breakpoints, catchpoints, current script and frame | pause loop (`step`, `continue`, `quit`, queries), statement and catch hooks | interpreter, event loop |
| HTTP (`http.c`, `dialog.c`, `config.c`) | fixture list, URLs granted to scripts | reading of fixtures, `llHTTPRequest`, `llRequestURL`, HTTP_IN | event queues |
| startup (`main.c`, `config.c`) | options | registration order of avatars, fixtures | economy, volume, HTTP |
| loader (`loader.c`) | position in the file, error flag | `program_load` | interpreter |
| lists, texts, encodings, JSON (`builtins.c`, `value.c`) | none: the value a call returns | one per builtin | |
| output (`events.c`), utilities (`util.c`) | none that outlives a call | | |

Everything runs in one thread. What makes the order of things hard to foresee is
the queues: a builtin called inside a handler changes queues, states and timers
of its own and of other scripts, and the loop acts on them later.

### What makes each part correct

* **Event loop.** An event is handled in the LSL state it was queued for; a
  state that is entered gets its `state_entry`; a recorded state change is
  carried out; a touch handler detects the avatar of its own touch; timers ring
  when they are due and in order; no script starves; the run ends when it
  should and not before; caps hold.
* **Commands.** A command acts on a region that has come to rest.
* **Economy.** Payments conserve money, nobody spends what it has not got, every
  avatar has one account.
* **Volume.** A run starts from the balances the last one ended with; a killed
  run leaves the record alone unless it was being written. Linkset data is there
  for good once written, and is seen under the keys of its file and no others.
* **Chat.** A message reaches exactly the listens that match when it is said; a
  dialog reply reaches the dialog that is open.
* **Values.** A name means the variable of the innermost scope that has it; a
  value has the type that the compiler gave it; a reset leaves what the start made.
* **Lists.** What one builtin cuts another puts back; sorting and shuffling keep
  strides together; parsing undoes joining.
* **Texts, encodings, JSON.** What is cut fits where it was; decoding gives back what
  was encoded; what is set is got and changes nothing else.
* **Loader.** A file loads as the program that was written, or not at all.
* **Interpreter.** Return, jump and state change leave exactly the constructs
  they should, scopes are closed on every way out, no flag outlives its function,
  and loops end.
* **Debugger.** After `step` the next statement with a line pauses, after
  `continue` only breakpoints and catchpoints do; nothing is read from a frame
  that is gone.
* **HTTP.** One of the fixtures answers by a fixed rule, whichever file it is in; each
  request gets one response, in order; a URL belongs to its script for good.

## 2. What is hard

The list is in `PROJECT.json` under `hazards`, each at its line. The themes:

* the state switch in `region_run`, spread over four steps between which
  handlers run (`region.c:287-312`), and the two builtins that cut across it,
  `llResetScript` and `llDie`;
* time: an offset that jumps under `llSleep` and WAIT, against timers that are
  armed relative to a `virtual_now` lagging behind it;
* limits: `--steps`, `--timeout`, EXIT, each tested at one place of a nested loop;
* one slot for what needs a queue: `detected[]`, `pending_state`, `cur_frame`,
  one open dialog per avatar;
* files that are truncated and rewritten in place, at different moments, and two keys
  that share one;
* lists that grow at the head and are searched from there, so that the last entry read
  or granted is the first one found;
* JSON handled as text, by walking over characters;
* a loader that reads on after an error;
* a recursive interpreter that leaves its constructs by two flags of a frame and
  a field of the script, each tested after every sub-statement;
* values that carry the only type there is at run time, with conversions in a few
  places and none in others;
* one flat list of locals for all scopes of a call;
* indices that each list builtin resolves and clamps in its own way;
* registration order deciding who the owner is.

There is no concurrency beyond this; nothing is shared between threads or
processes.

## 3. The models

### EventLoop

State: the variables are the fields of `Region` and `Script` that the loop uses,
plus `pc`, `cursor`, `current` and `progress` for where `region_run` stands.
`pc` is `"top"` at the head of the outer loop, `"drain"` between two scripts of a
cycle, `"dispatch"` with an event taken, `"handler"` inside a handler,
`"switch"` at the test of `pending_state`, `"exit"` after `state_exit` has run,
`"settle"` in the last pumping of commands, `"done"`.

Actions: `FireTimer`, `SyncClock` and `StopLoop` are the head of the loop;
`TakeEvent`, `SkipScript`, `StartHandler`, `DropEvent` and `NextCycle` the
drain; the builtins `Sleep`, `SetTimer`, `StopTimer`, `Post`, `ChangeState`,
`ResetScript`, `Die` may happen any number of times in a handler, in any order,
until `HandlerReturns`; `SwitchState`, `SwitchStateAndExit`,
`ExitHandlerReturns` and `NoStateChange` are the state switch; `Wait`, `Exit`,
`Touch...`, `Deliver` the commands.

Abstractions:

* What a script computes is left out: a handler is any sequence of builtin calls,
  so the model has at least the behaviours of every script.
* `"message"` stands for every event whose only effect on the loop is that it is
  queued (listen, link_message, money, http_response, ...).
* The command file has up to `MaxCommands` commands, and any command may be the
  next one in it.
* The wall clock is a choice: with `WallTimeout` the loop may stop at any cycle.
* An event carries two fields the C struct has not: `in`, the LSL state it was
  queued in, and `who`, the avatar that touched. They, `life` and `exited` are
  history, written so that properties can be stated; no guard reads them.
* Time is counted in whole steps.

`VirtualClock` is the abstract specification of time: one repeating alarm per script,
which rings exactly when the time left for it has passed; time passes for all
alarms alike and never passes one of them. `ClockSpec` says that `EventLoop`
implements it: what is left for an alarm is `timer_due` less `virtual_now`. The interesting
part is that the loop's own notion of elapsed time (`virtual_offset`) runs ahead, and
handlers re-arm timers while it does.

Bounds: `MaxQueue` (events in a queue), `MaxCommands`, `MaxTime` (largest
`virtual_offset`), `Intervals` and `Sleeps`. They are guards of the actions that
would exceed them: `MaxQueue` of `Post` only, `MaxTime` of `Sleep` and `Wait`.
`state_entry`, `timer` and command events are queued regardless.

A bound on time cuts off what matters most to liveness: a handler that sleeps as long as
the interval of its timer leaves the timer due, is called again, and so on for ever, with
all queues empty at the top of each cycle and no command read. The run about time is
therefore of `MCTime`, which counts times from `virtual_now`: `TurnBack` subtracts it from
every time, at the top of a cycle, before anything but a timer goes on. The loop only compares times
with each other, so nothing it does depends on it, and `MaxTime` is then how far the
offset may run ahead of the clock. TLC refutes `TimersCatchUp` and `QuietRunEnds` on these behaviours if they
are stated without their premises. With them they say:

* a timer catches up unless its script, or another, sleeps again and again while it is due
  (`SleptLate`);
* a run comes to rest once handlers stop sleeping, posting, changing states and
  resetting (`KeepsBusy`). Timers may ring, stop and be armed again for as long as they
  like. Sleeping at all has to stop: a handler that turns its timer off, sleeps, and
  arms it again relative to the `virtual_now` that lags behind has armed it for a
  moment that is past.

### Economy

State: the avatar table as the sequence `avatars` and the function `balance`
(in C one array of structs), the scripts holding PERMISSION_DEBIT, the lines of
`economy.txt`, and `at`, the loop index of load and save. `phase` is where
`main` stands: `"off"` (no process), `"options"`, `"config"`, `"loading"`,
`"running"`, `"saving"`.

Actions: one per operation of `main`, `config_load`, `volume_load_economy`, the
money builtins, MONEY_FROM and `volume_save_economy`; load and save are a step
per line. `Killed` may happen at any moment; `TornLine` is a kill, or a full
disk, in the middle of a line: the next load reads the digits that are there as
the balance. A line torn before its first tab is skipped by the load, which is
`Killed` between two lines.

`Bank` is the abstract specification across runs: accounts that are open while
the region runs and a record on disk. A run starts from the record; money moves
between two accounts at once; the record changes only at the end of a run and to
balances the accounts then have; a run that is killed leaves the record alone,
unless it was being written: then accounts are missing and at most one is wrong.
The code implements this with two half-updates of a table, two scans for the
accounts and a file that is truncated first.

Abstractions: names of avatars, and lines longer than the load's buffer, are
left out; nobody edits the file between runs; the C integers (64 bits) are
integers, balances being capped by `MaxBalance`; stdio's buffering is covered,
as every prefix of the file is reached by a kill. The avatar that the code takes
for the owner is `OwnerUuid`, the first of the table.

### Volume

`Volume` extends `Economy` with linkset data: `lsd`, what is in the files of the
directory, by name. The builtins write as they are called; `TornWrite` is a kill between
the emptying of a file and the end of the write. Everything that `Economy` does leaves
`lsd` alone. `Sanitised` is `sanitise_key`, and `ListKeys` has the names that are listed,
counted and reset: all but the empty one, since `.txt` has no more than four characters.

`Vault` extends `Bank` with a store that changes for good at once. `StoreSurvives`
says that `Volume` implements it: a run that is killed takes its payments with it and not
what it stored. `KeysKeptApart` says which keys may not see a write: all but those that
differ from it only in characters that a file name does not keep. The documentation
has more, a file for each key (section 7).

Abstractions: characters are told apart by being kept or not; a key that is too long for a
file name, or a directory that cannot be written, is left out; values have no byte 0.

### Http

State: the list of fixtures, newest first, with whether lines are about its first entry;
the URLs granted, newest first; what `gen_uuid` counts; the events about HTTP queued for
each script. `phase` is the file `main` is reading. Actions: a line of either file
(`FixtureLine`, `ConfigLine`), `HTTPRequest`, `RequestURL`, the command `HttpIn`, and what
the loop does to queues (`TakeEvent`, `HandlerReturns`, `ThrowAway`, `LoopEnds`).

`OneEntryAnswers` states, over the lines read, that an answer is one entry with a
pattern in the address and nothing of any other; on which of several it is the manual and
the code do not agree (section 7). `Exchange` is the abstract specification
of the rest: rules that do not change while the region runs, one answer to each request,
mail in order unless it is thrown away, addresses that belong to a script for good. `ExchangeSpec` says that `Http` implements it.

Abstractions: of an address there are the patterns in it; with `--http-real` a
request may come back with anything, without delay, as the code waits for `curl`; the
loop's round robin is left out; a command may name any URLs, as if the user could foresee
the random ids (`COVERAGE_REPORT.md:80-84` says that a fixed file cannot). Events of
other kinds come and go without a trace, so a queue has those about HTTP.

Bounds: `MaxLines` of both files together, `MaxIds` (requests, grants and calls),
`MaxQueue`, in the guard of whatever posts.

### Vm

`vm_exec` is a recursive C function. `Vm` makes the C stack visible: `frames` is
the list that `g_frame` heads, and a frame has, besides the fields of the C
struct, `ctl`, the `vm_exec` calls open in it, innermost last. Each has the
statement it is for, a phase (`"start"`, `"eval"` and `"init"` / `"post"` while an
expression is evaluated, `"body"` while a sub-statement runs) and the counter of
its C loop. `pending` is `pending_state >= 0`.

Actions: for each statement kind, one per piece of code between two calls of
`vm_exec` or `vm_eval`; `Call` and `FunctionReturns` are `run_user_func`,
`Dispatch` and `HandlerEnds` are `vm_dispatch`. `Dispatch` may clear `pending`, as
the event loop does after every handler but a `state_exit`.

`Syntax` has the statement trees: a program is a table of statements with kind,
children and name. The constant `Programs` is the set of programs a behaviour may
run; the theorems are about any such set of well-formed trees. A statement is part of
one other at most, and its parts come after it: the loader allocates a statement, then
reads each of its parts into one of its own (`loader.c`, `read_stmt`).

`ControlFlow` is the abstract specification, and knows nothing of flags, frames
or counters: it says from the program text alone which point may be reached
after which. A return goes to the end of the function; a jump to the first label of
its name in the nearest block around it that has one, out of all that lies between; a state
change runs on until the innermost block's next statement and then out of
everything. `FlowSpec` says that `Vm` implements it, with the history fields
`point` (the last statement or expression reached) and `worn` (a loop has just
hit its cap). `depth` of a context and `scope` of a local are history too.

Abstractions: the value of an expression is any value, so a condition may go
either way each time; an expression calls up to `MaxCalls` functions, of any
name, one after the other; of a local there is the scope it was declared in.
Parameters, which live as long as the frame, are left out, as are statements run
without a frame: only initialisers of globals are, and they are expressions.

Bounds: `MaxLoop` is the code's own cap of 1000000, a parameter here; `MaxCalls`
and `MaxFrames` are guards of `Call`. The code has no limit on frames.

### Chat

State: of each script its listens, newest first as in the C list, its event queue
and its prim's name; `next_handle`, which all scripts share; the list of open
dialogs, newest first. `running` is the script in a handler, `entering` says that
the handler is a `state_exit`, and `over` that the loop has ended and only
commands are still pumped.

Actions: `Listen`, `ListenRemove`, `ListenControl`; `Say` (the four builtins that
go through `route_listen`), `RegionSayTo`, `MessageLinked`; `Dialog`; the commands
`ListenCommand` and `DialogReply`; `SetObjectName`. `TakeEvent`, `HandlerReturns`,
`SwitchState`, `ResetScript` and `Die` are what the loop does to queues. Listens
and dialogs outlive a state change, a reset and `llDie`, as nothing in the code
closes them.

`Hearing` is the abstract specification, with sets for lists: scripts have ears,
a message is put there and then into the mail of a script once for each ear it
passes, and later changes to the ears do not take it back; an avatar is asked
one question at a time and answers it once. `HearingSpec` says that `Chat`
implements it. What it has to get right: lists with newest first, handles as the
identity of entries, the removal of the first entry with a handle against the
switching of all, several dialogs of an avatar on the list of which only the
newest may ever be answered, and one answer closing them all.

Abstractions: the loop's round robin is left out, so scripts take events in any
order, which covers it; every other event is `"other"`; the data of link
messages is left out. Filters are told apart by equality with channel, name, key
and text; `Blank` is the empty string, or NULL_KEY, that lets everything pass. A
LISTEN command's speaker is an avatar, or a name nobody has, with key NULL_KEY.
The buttons of a dialog and the textbox flag are left out, since no reply is
compared with them.

Bounds: `MaxHandle` (guard of `Listen`), `MaxDialogs` (guard of `Dialog`) and
`MaxQueue`, in the guard of whatever posts: with it all queues must be shorter,
and may then grow by as many events as there are listens.

### Debugger

State: the fields of `DbgState` (mode, breakpoints and catchpoints with their
next ids, current script and frame), where `region_run` stands, the frames on
the list at `g_frame`, the step counter; of the client, why the program waits for
it (`paused`), what it was last told (`told`) and whether it has gone.

Actions: `Line` is `dbg_check_stmt`, `Catch` is `dbg_check_catch`, `Handshake` is
`dbg_handshake_pause`; `Continue`, `Step`, `Quit`, `Break`, `SetCatch`, `Clear`,
`Uncatch`, `Query` and `Disconnect` are what `pause_loop` does for the client.
The others move the program: initialisers, the cycle with its drain, handlers,
`state_exit`s and commands, calls and returns.

Abstractions: a program is any sequence of calls, lines and things that can be
caught; events come as they like; the loop may stop at the head of any cycle,
which is what `--timeout` does. Queries read the frames and variables and change
nothing, so they are one action. The hit counter, the enabled flag and the
file of a breakpoint are left out, since nothing reads them. A frame is on the
C stack, so a later call may get the address of an earlier one; the model never
gives out the frame that `curFrame` still points to, so that a frame that is gone
can be told from one that runs.

Bounds: `MaxFrames` (guard of `Call`), `MaxCommands`, and `MaxPoints` (guard of
`Break` and `SetCatch`); `MaxSteps` is the option of the program.

### Values

What `vm_eval` computes, as far as types go. State: of each global the tag of its
value; `next`, the global being initialised, and `resetting`, that llResetScript
does it; the frames, each with its scope depth, its list of locals and `temps`, the
values that C functions hold while they evaluate further operands; `crashed`, that
a null pointer was written through. Beside the tag of a local or an operand stands
its static type, which the compiler knew and the interpreter never looks at.

Actions: one per kind of expression (`Literal`, `ReadName`, `Binary`, `Cast`,
`Assign`, `Compound`, `AssignMember`, `PostfixMember`, ...), working on `temps` in the
order of evaluation; `Declare`, `OpenScope`, `CloseScope` for locals; `Dispatch`,
`Call`, `Return` and the two other ways to leave a call; `InitGlobal` and `Reset`.
`Result` is `eval_binary` on tags, `Static` what the compiler accepts; `Coerce` is
`coerce`, and is called where the code calls it and nowhere else.

`Scoping` is the abstract specification of names: calls with nested scopes, each a
function from names to variables, and a name that means the variable of the innermost
scope that has one, or the global. `ScopingSpec` says that `Values` implements it
with one list of locals per frame, searched from its end, and cut by depth.

Abstractions: numbers and texts are left out, so a conditional operator may be
evaluated either way and any division may be by zero; a global is initialised to
nothing, a literal or another global; a builtin returns a value of the type that the
compiler knows, unless there is no such builtin.

Bounds: `MaxValues` (operands and locals of all frames when another one comes),
`MaxDepth` (guard of `OpenScope`), `MaxFrames` (guard of `Call`).

### Lists

An expression nests calls of builtins, so the state is one `value`, what the last
call returned: a number, a text, a list of both, or `Unknown`. Each action is a
builtin with any further arguments: `Slice` (`llList2List`), `Delete`, `Insert`,
`Replace`, `Find`, `Sort`, `Randomize`, `Dump`, `ToCSV`, `FromCSV`, `Parse`,
`PickString`, `PickInteger`, and `Add`, the concatenation of `eval_binary`. The builtins
themselves are operators with the names of the code. Its loops are recursive functions
of a counter, so that they can be proved about: `Places` copies the items that are kept,
`Pass` and `ListSort` are the loops over j and i, `Swapped` the one over k, `Cut` goes from
one separator to the next. The choices of `rand()` become a set of results. A text is the
sequence of its character codes, since cutting and joining is what the properties
are about.

Abstractions: floats are numbers like integers; vectors, rotations and keys are left
out (keys behave as strings here, except that they are no separators); texts are
converted to numbers from decimal digits only; a list that `llListReplaceList` makes
from items beyond its argument is `Unknown`, and goes into no further call.

Bounds: `MaxSize`, the size of a value that another call takes; `Indices` and
`Strides` go one beyond it.

### Strings, Json, Loader

Three modules in the manner of `Lists`, with the texts, JSON texts and programs that calls
give each other. `MCData` puts the four side by side, one kind of value at a time.

`Strings` has the builtins that cut, search, trim and change case, Base64 and the
escapes of URLs. A text is a sequence of bytes, none of them 0. `GetSubString`,
`DeleteSubString` and `InsertString` clamp as `norm_idx` does; `Base64ToString` skips what
is no letter (`Only`); `UnescapeURL` leaves half escapes alone.

`Json` has all of `llJsonGetValue`, `llJsonValueType`, `llJsonSetValue`,
`llJson2List` and `llList2Json`. The code never parses: it walks, from one position to
the next, and so do `SkipWs`, `WalkStr`, `Walk`, `Member`, `Element`, `FindValue`. `SetIsGot`
and `ListsAgree` relate what the builtins that read see to what those that write
have done. Of an object or an array inside another they say only that it is found and what
it is: what llJsonGetValue should return for it is in dispute (section 7). `Quotable` keeps out texts that end the string they are put in, since the code
escapes nothing. Left out: paths that mix keys and indices when setting (nothing is
set), and texts that are not JSON, where walks end somewhere and some loops never.

`Loader` is `program_load`. The layout of each node is a table (`ExprLayout`,
`StmtLayout`, `Layout`), and `Read` follows it, as the code does in one `case` for
each; `v` is what was read last, and after a failed read what the C variable happened to
hold. `Leftovers` has the values it may have held, one for all variables of a width: zeros,
small numbers, and `Wild`, which stands for the numbers whose memory is not to be had, or
which wrap when 1 is added. With `Wild` for the length of a string or the number of items the
load is `"astray"`, one of three outcomes next to `"loaded"` and `"refused"`. The error flag is
looked at when all has been read. The compiler is not part of the repository: `Written` is its
file as the loader expects it. `OnlyWholeFilesLoad` is checked for every statement around every
other, with one expression of each kind, in the versions 0 to 3, and for every prefix of the
file. It asks of version 1 that it loads and of 0 and 3 that they do not; on version 2 the
documentation and the code disagree (section 7).

Abstractions: numbers in files stay below 2^24 (`LittleEndian`), so that a double is the
integer with its bits; a file has one global, function, state and handler; what
follows a whole program is ignored, as in the code. Bounds: `MaxText`, `MaxLength`,
`MaxFile`.

## 4. The runs

| Run | Instance | Distinct states | Shows |
|---|---|---|---|
| `loop_control` | 2 scripts, 2 LSL states, one `state_exit`, 2 avatars, 2 commands, queues of 2 | about 1.05 million | `QueuedForCurrentState`, `PendingSwitchNotStranded`, `EntryNotLost`, `DetectedMatchesTouch`, `CommandsWaitForQuiet` |
| `loop_time` | 2 scripts with timers of 1 or 2, sleeps of 1, one command, time without end, the offset ahead by up to 2 | about 400 000 | `ClockSpec`, `EventuallyServed`, `TimersCatchUp`, `QuietRunEnds` |
| `loop_steps` | 3 scripts, `--steps 4`, a timeout that may strike any time | about 730 000 | `StepBound`, `EndsUnderCap` |
| `economy_bank` | 3 avatars, 1 script, 2 runs on one volume, amounts of both signs, 3 keys of linkset data, kills | about 313 000 | `NoOverdraft`, `SavedWhole`, `MoneyConserved`, `BankSpec`, `StoreSurvives`, `KeysKeptApart` |
| `vm_flow` | 147 programs, cap of 3 iterations, 1 call in an expression, 3 frames | about 260 000 | `UnwindingRunsNothing`, `ScopesMatch`, `FlowSpec`, `HandlersEnd` |
| `chat_hearing` | 2 scripts, 2 avatars, 2 channels, 2 texts, 3 filters, 2 handles, 2 dialogs | about 420 000 | `TypeOK`, `HandlesUnique`, `HearingSpec` |
| `debugger_stops` | 2 scripts, 2 lines, 2 kinds to catch, calls in handlers, `--steps 2`, one command, 2 breakpoints and 2 catchpoints | about 330 000 | `LinePauseSeesItsFrame`, `ClientKnows`, `QuitIsFinal` |
| `script_types` | 3 globals, 2 functions, a handler, 3 values, scopes in scopes, a call in a call | about 220 000 | `KindsHold`, `TypesHold`, `ScopingSpec` |
| `data_laws` | lists of 2 numbers, 2 texts, 5 separators up to size 4; texts of 5 bytes up to length 4; JSON up to length 24; files up to 108 bytes | about 10 600 | `CutAndPaste`, `StridesKept`, `ParseUndoesDump`, `PiecesFit`, `DecodingInverts`, `SetIsGot`, `ListsAgree`, `OnlyWholeFilesLoad` |
| `http_exchange` | 2 scripts, 2 addresses, 2 patterns, 4 lines, 3 ids, queues of 2 | about 875 000 | `OneEntryAnswers`, `ExchangeSpec` |

and two runs that show a disagreement (section 7). Types are proved (section 6), so only
one run checks them as well: `Chat`'s.

Why the bounds are enough to be interesting:

* `loop_control`: a `state_exit` can post to its own script, reset it or change
  state again while the switch goes on; the other script can message it at any
  point. A second touch can be made only when the first has been handled, which
  is what `DetectedMatchesTouch` rests on; two commands and two avatars are
  what it takes to break it. No time passes in this run and no step cap is set:
  the other runs of this module are about those.
* `loop_time`: two timers of different intervals, both due after one handler has slept
  twice, with handlers that re-arm, stop and sleep again. Time never ends: a handler of
  script 1 may sleep as long as its interval each time it is called; script 2 keeps itself
  running by resets, its timer ringing unheard. Two steps ahead is a timer of 1 with two calls
  to catch up. What is cut off are larger gaps between offset and clock, and queues of more
  than one message.
* `loop_steps`: with three scripts and a cap of four the last cycle overruns the
  cap by zero, one and two events. Here the step counter bounds the run.
* `economy_bank`: the second run loads what the first one saved, or left half
  written; three avatars give a payer, a payee and a bystander, and the owner as
  either. `SYMMETRY` over avatars is sound because no action names one and all
  properties are safety properties. Runs end for good after `MaxRuns`, so this
  run does not check deadlock. The keys are two that share a file and the empty one;
  a store that is written in the first run is read, reset or broken in the second.
* `vm_flow`: 144 of the programs are two nested loops of each pair of kinds,
  left from before and from inside the inner one in each pair of the ways there
  are: return, a jump to a label outside the loops, a jump to a label in the outer
  one, a state change. As conditions go either way, each program also has the
  behaviours of the ones with less in them. A function that may change the state
  can be called from every expression. In the other three it is the function that
  has the loop and jumps, to its own label or to one only the handler has, and
  calls itself to a depth of two. Three iterations tell the first, a middle and
  the last one apart.

* `chat_hearing`: with two handles a script has two listens, or one was removed
  before the other came, or the two scripts have one each; of the filters one
  lets everything on a channel pass, one only a certain text of a certain script.
  Two dialogs are of one avatar or of two, from either script. `SYMMETRY` over
  avatars is sound: no action names one, both have the same name in this
  instance, and all properties are safety properties. The program really stops
  after its commands, so deadlock is not checked.
* `debugger_stops`: two scripts take turns as the current one, and a function
  called from a handler returns before the next line. With two steps the cap
  stops some behaviours and `quit` others, from a handler, a `state_exit` and a
  command. `SYMMETRY` over frames is sound: no action names one and all
  properties are safety properties. The run ends, so deadlock is not checked.
* `script_types`: the globals are a float, a vector and a float initialised with the
  first, so a reset in the middle of a handler can read a local for it; parameters
  and locals hide all of them. A literal text, a cast and a declared rotation give
  all kinds but lists; an integer parameter meets a float one, which is where
  conversions happen. Two operands and a variable are what the longest rule (a
  compound assignment to a part) takes. A write through a null pointer ends the
  program, so deadlock is not checked.
* `data_laws`: the state space is small, but each property is checked in every state for
  all arguments: 121 pairs of indices, all strides, all paths, all prefixes. Lists of four
  have two blocks of two, a block cut short, and every mixture of kinds; separators and
  texts that contain each other are among them, and so are the empty separator and one
  that overlaps itself. Texts have a percent sign, digits and
  letters that are hexadecimal or not, a blank and a byte that is not ASCII, and all
  remainders of Base64. JSON texts have brackets, commas and escaped quotes in strings,
  objects in arrays and arrays in arrays, white space everywhere; what is set includes
  each of these.
* `http_exchange`: four lines make two entries for one address in one file, or one in
  each, with a line that comes too late for its entry. One address contains the patterns
  of the other, and a command may name any set of the URLs there are. Three ids are two
  grants and a call that names both, or a request on either side of a state change. The
  run ends, so deadlock is not checked.

Every property of these runs has a mutant (`PROJECT.json`, `mutants`): a change
of one definition, as a slip in the C code would make it, that TLC refutes under
the same configuration. The mutated forms stand in the modules next to the
definitions they vary, with the slip as suffix (`Capped_late`,
`EnterState_keeping_queue`, `Moved_at_once`).

## 5. Fairness

`FairSpec` asks weak fairness of one formula: the disjunction of the loop's own
steps (`Cycle`, `Drain`, `StateChange`, `Command`, `RunEnds`). That is: the
process is not stopped. No fairness is asked of builtin calls; that handlers
return (`HandlerReturns` is part of `Drain`) is assumed, because a script that
loops forever hangs the emulator and nothing in the code prevents it. No
fairness between scripts is assumed: `EventuallyServed` follows from the round
robin of the drain. `RelativeSpec` asks for `TurnBack` as well, which is no step of
the program and keeps it waiting if it does not happen. `EventuallyServed`,
`TimersCatchUp` and `QuietRunEnds` are checked without a step cap, where they are
hardest; `EndsUnderCap` under one.

`Vm!FairSpec` asks weak fairness of `Step`, every action but `Dispatch`: the
interpreter goes on as long as it has something to do. That evaluating an
expression ends is part of it; the model's expressions call finitely many
functions and its stack is bounded, so what `HandlersEnd` shows is that the caps
of the three kinds of loops do what they are for. It is stated for programs
without jumps, since a jump backwards makes a loop that nothing caps.

## 6. The proofs

All theorems hold for every value of the constants that satisfies the
assumptions named in the modules: `SystemAssumption` and `TimeAssumption` in
`EventLoop` (timers have positive intervals and sleeps are not negative; the code
checks neither), `EconomyAssumption` in `Economy`, `VolumeAssumption` in `Volume` (a file
name keeps `_`; keys and values are texts), `SyntaxAssumption` (the trees
are what the compiler writes) and `VmAssumption` for `Vm`, `ChatAssumption` in
`Chat` (link numbers are positive; keys of scripts, avatars and nobody differ),
`DebuggerAssumption` in `Debugger` (there is a script; lines are positive; the
null pointer is no frame), `ListsAssumption` in `Lists` and `StringsAssumption` in `Strings`
(literals are numbers of one digit and texts; a text has no byte 0), `ValuesAssumption` in `Values` (the compiler let the
program pass: initialisers are assignable to their globals).

| Theorem | Says | Inductive invariant |
|---|---|---|
| `EventLoopProofs!TypeCorrect` | `Spec => []TypeOK` | `TypeInv`: types, and where `cursor` and `current` are meaningful |
| `EventLoopProofs!StepsBounded` | `Spec => []StepBound` | `StepInv`: the counter against the cap at every point of the cycle, also after an event has been counted; `ExitInv` |
| `EventLoopProofs!ExitIsFinal` | `Spec => []ExitStops` | `ExitInv`: after EXIT the counter is at least the cap, and the loop stands where it is tested next or no more |
| `EventLoopProofs!EventsKeepTheirState` | `Spec => []QueuedForCurrentState` | `HomeInv`: the property over the set of queued events |
| `EventLoopProofs!SwitchesAreNotStranded` | `Spec => []PendingSwitchNotStranded` | `PendingInv` |
| `EventLoopProofs!EntriesAreNotLost` | `Spec => []EntryNotLost` | `EntryInv` |
| `EventLoopProofs!TouchesAreDetected` | `Spec => []DetectedMatchesTouch` | `DryInv` and `TouchInv`: commands run only with all queues empty, so all touches queued for a script come from one command |
| `EventLoopProofs!CommandsWait` | `Spec => CommandsWaitForQuiet` | `DryInv`: a cycle without progress so far has left the scripts it passed without events |
| `EventLoopProofs!ClockImplemented` | `Spec => ClockSpec` | `ClockInv`: `virtual_now` exceeds neither the offset nor the due time of an armed timer |
| `EventLoopProofs!TimeGoesOn` | `Spec => [][virtualNow' >= virtualNow]_vars` | `ClockInv` |
| `EconomyProofs!TypeCorrect` | `Spec => []TypeOK` | `IInv`, below |
| `EconomyProofs!AccountsAreUnique` | `Spec => []OneAccountEach` | `IInv` |
| `EconomyProofs!RecordIsWhole` | `Spec => []SavedWhole` | `IInv` |
| `EconomyProofs!NobodyOverdrawn` | `Spec => []NoOverdraft` | `IInv` and the property itself |
| `EconomyProofs!TotalIsKept` | `Spec => MoneyConserved` | `IInv`, and the sum of the balances as a fold over finite sets (`Induction`) |
| `EconomyProofs!BankImplemented` | `Spec => BankSpec` | `IInv`; every action is one of `Bank` or leaves it alone |
| `EconomyProofs!VaultImplemented` | `VolumeSpec => StoreSurvives` | `IInv`; every step of `Volume` is one of `Economy` or of the store |
| `EconomyProofs!KeysAreKeptApart` | `VolumeSpec => KeysKeptApart` | none: two keys have one name just if they are alike (`SanitisedAlike`) |
| `VmProofs!TypeCorrect` | `Spec => []TypeOK` | `IInv`, below |
| `VmProofs!NothingRunsWhileUnwinding` | `Spec => []UnwindingRunsNothing` | `IInv` |
| `VmProofs!ScopesAreMatched` | `Spec => []ScopesMatch` | `IInv` |
| `VmProofs!FlowImplemented` | `Spec => FlowSpec` | `IInv` and `FlowInv`, below |
| `ChatProofs!HandlesAreUnique` | `Spec => []HandlesUnique` | `HandleInv`: also, every handle in use is below `nextHandle` |
| `ChatProofs!ChatTypes` | `Spec => []TypeOK` | itself, with what `dialog_close` leaves of its list |
| `ChatProofs!HearingImplemented` | `Spec => HearingSpec` | `TypeOK /\ HandleInv`, below |
| `StandaloneProofs!TypeCorrect` | `Spec => []TypeOK` | `DebugInv`, below |
| `StandaloneProofs!LinePausesAreLocated` | `Spec => []LinePauseSeesItsFrame` | `DebugInv` |
| `StandaloneProofs!ClientIsTold` | `Spec => []ClientKnows` | `DebugInv` |
| `StandaloneProofs!QuitEndsTheRun` | `Spec => QuitIsFinal` | `DebugInv` |
| `StandaloneProofs!ListsTyped` | `ListsSpec => []ListsTypeOK` | itself, with what each loop returns |
| `StandaloneProofs!PiecesKeepTheirPlaces` | `ListsSpec => []CutAndPaste` | `ListsTypeOK`; a law of all lists and indices, below |
| `StandaloneProofs!StridesStayTogether` | `ListsSpec => []StridesKept` | `ListsTypeOK`; a law of all lists and strides, below |
| `StandaloneProofs!WhatIsJoinedIsCutAgain` | `ListsSpec => []ParseUndoesDump` | `ListsTypeOK`; a law of all lists, separators and texts, below |
| `StandaloneProofs!StringsTyped` | `StringsSpec => []StringsTypeOK` | itself, with what each loop returns |
| `StandaloneProofs!StringPiecesKeepTheirPlaces` | `StringsSpec => []PiecesFit` | `StringsTypeOK`; a law of all texts and indices |
| `StandaloneProofs!EverythingComesBack` | `StringsSpec => []DecodingInverts` | `StringsTypeOK`; a law of all texts, below |
| `ValuesProofs!TypeCorrect` | `Spec => []TypeOK` | `Inv(Operand)`, below |
| `ValuesProofs!KindsCorrect` | `Spec => KindsHold` | the step lemmas of `Inv(OfKind)` |
| `ValuesProofs!TypesCorrect` | `Spec => TypesHold` | the step lemmas of `Inv(Alike)` |
| `ValuesProofs!ScopingImplemented` | `Spec => ScopingSpec` | `Inv(Operand)`, of which the order of the locals |
| `HttpProofs!ExchangeImplemented` | `Spec => ExchangeSpec` | `TypeInv` and `UrlInv`: ids fall from the head of the list of URLs |
| `HttpProofs!AnswersAreWhole` | `Spec => []OneEntryAnswers` | `ReadInv`: which lines have made which entry of the table, below |

`IInv` of the economy adds to types and uniqueness one part per loop over the
file: `LoadInv` (the lines read so far are in the table), `SaveInv` (the lines
written so far are the first entries of the table), `DoneInv` (a save that ended
has written them all), `OwnedInv` (from the end of the options on the table is
not empty, so `OwnerUuid` is an account). They are needed because a load or save
in progress says nothing by itself: uniqueness of the lines on file, for
instance, is kept by `SaveLine` only since the file is a copy of the table so far.

`IInv` of the interpreter is a property of each frame by itself. `Sound`: the
frame has its type, its outermost `vm_exec` call is for a block, all but the
innermost call wait for a sub-statement, depths add up from the outside in, and
locals belong to open scopes. `Clean`: while a flag is set it is the only one,
and the innermost call waits as well; no frame but the last has one set. The
properties by themselves are not inductive: that `frame_leave` does not go below
zero follows from the depths of the open calls, and that a flag set by a
statement is met by a block or loop, or ends the function, from every call around
it waiting. Programs are arbitrary trees; the proof goes by the actions and needs
no induction over statements.

`FlowImplemented` sets the C stack and its flags against the text of the program. A step
of `vm_exec` is small, and most are stutters of `ControlFlow`: a block that ends, say,
reaches nothing by itself. What has to be known is that from the point reached last the
text goes on to where the innermost call stands. `FlowInv` says so of each frame, by
the five parts of `OnCourse`:

* `Placed`: the open calls are just those for the blocks and loops around the innermost
  one, from the outside in, and what comes past the statement of a call comes past the
  part that the call around it waits for. So a call may return without a step of the text.
* `Follows`: while no flag is set, the innermost call is about the point reached last, or
  the text goes from that point into its statement, or past the part it waits for.
* `Jumps`: while a jump unwinds, all blocks around it that have its label are still open.
  So the first that catches it is the nearest in the text; it is the innermost call, as
  the calls' statements come one after the other in the tree.
* `Returns`: while a return unwinds, the end of the function may come next.
* `WhilesReached`: a while whose body runs is around the last point, so it may be cut off.

Frames below the last one stand at an expression, `CallsOut`. Once a state is pending a
function may end anywhere, and less is claimed. TLC checked `FlowInv` as an invariant
before it was proved. `ControlFlow` walks the tree with recursive functions (`Way`,
`Around`), and a recursive function satisfies its equation only if some function does.
`Induction` shows that one does, with no induction over the tree: it takes the values
along the path from a place, and does so for any paths, also ones that come back to
where they were (`PathsEnd`, `PathsGather`).

`DebugInv` joins types, the property about line pauses, and `SessionInv`: what
mode, pause and what the client was told have to do with each other before and
after the handshake, and that the counter is beyond the cap once the mode is
`"dead"`. It is what makes `Cycle` impossible after `Quit`.

The three theorems about types of values are one argument. `Inv(G)` says that the static
type and the tag of every global, local and operand are a pair in the set `G`, that
the locals of a frame lie in the order of their scopes, and that globals whose turn
has not come are void. `Closed(G)` collects what the rules of the operations must not
lead out of: literals, `Result` against `Static`, `Coerce` at each place that calls it.
`Tolerant(G)` does the same for the leaks. That a step keeps `Inv(G)` is proved once,
for any closed `G`, action by action; what is left for each theorem is that its set
is closed: all pairs (types), pairs of one kind (also tolerant), pairs of equals
(closed but not tolerant, hence the exceptions in `TypesHold`). The order of the
locals is needed because `frame_leave` goes back to the last local that is not deeper:
without it one that belongs to a closed scope might stay before.

`VaultImplemented` rests on `BankImplemented`: the step lemma of the bank holds for
`Economical`, and the builtins of linkset data leave the bank alone, but for `TornWrite`,
which is a kill. What is new is that names are those of some key: a reset removes names
that it finds on disk, and `SanitisedTwice` says that sanitising them again changes nothing.

`TotalIsKept` is about a sum over the accounts there are, which the community modules
define as a fold, a recursive function chosen over all subsets of the domain. `Induction`
shows that the sum may take its elements in any order, so that two accounts can be taken
out of it and put back changed. Its induction is over sets (`SetInduction`,
`SubsetInduction`): a set of numbers that has 0 and with each its successor has all, for a
set of intervals cannot be without a shortest one. Unlike the induction theorems
of the library, which are about predicates, the provers can apply these.

`HearingImplemented` needs more than that each action of `Chat` looks like one of
`Hearing`. A message is put into the mail of a script once for each ear it passes, and the
code puts it there once for each place of its list that matches: that the two numbers
agree is `HandlesUnique`. `llListenRemove` unlinks the first entry with its handle,
`llListenControl` switches all: with unique handles both are about the same ear. A
question is the first dialog of an avatar on the list; `dialog_close` walks the whole list
and rebuilds it, and the walk is shown, by induction over its steps, to pick just the
entries of other avatars, in their order (`Picked`). So the question of the avatar is gone,
of all the others it is what it was.

`ScopingImplemented` reads one frame as scopes: the variables of depth `d` are the locals
of that depth, the last one where names occur twice. Declaring appends, opening a block
adds an empty scope, and closing one cuts the list after the last local that is not
deeper, which by the order of the locals is all of the outer scopes and nothing else.
A name is searched from the end of the list, `Scoping` searches from the innermost scope: with
the order, the last local of that name is in the innermost scope that has one. The proof
also found what no instance had shown: in a program without globals nothing is being
initialised at first, and `Scoping` said there was. Its `Init` now tells the two apart.

`AnswersAreWhole` compares a table that grows at its head, by lines that change its first
entry, with the lines themselves. `ReadInv` says that there is a numbering of the lines by
the entries they belong to, that a line belongs to the entry before it unless it opens one,
and that each part of an entry is what the last of its lines sets; which entry it is that
answers is then the lemma `LastMatchWinsHolds`. `ExchangeImplemented` adds
that the first URL found with an id is the only one.

`StandaloneProofs` is about the three components that use no other. For `Lists` and
`Strings` the invariant is only the type of the value; the laws then hold for every value
of that type, not just for those that calls can make. What has to be shown is what each
loop computes. A loop is a recursive function of its counter, so that it satisfies its
equation has to be shown first (`LoopExists`), and then what is true after each round
(`LoopKeeps`), both by the induction over sets of `Induction`.

* `Places`, the loop of llDeleteSubList, is compared with the list cut in two
  (`Spliced`): an interval of places taken out leaves what lies before and after it. With
  the indices resolved by `At`, once for the slice and once for the deletion, the cases
  are which of them are beyond an end of the list, and whether they are crossed.
* That llListSort, llListRandomize and `Cut` return lists of the right type rests on what
  their rounds do: `Swapped` returns its list rearranged, also when the strides
  overlap or the last one is cut short, and `Cut` goes forward, so that it ends.
* llListSort sorts because of what holds after each comparison (`Sorting`): the strides
  before the one at `first` are in order with all later ones, the one at `first` with
  those it was compared with, and at each place is an element of the kind there was
  before. `OutOfOrder` is no total order, for numbers and texts are not compared; that it is
  transitive and irreflexive within a kind suffices, as only elements of one kind are
  exchanged. If the strides are whole, an exchange moves nothing else (`SwapPlaced`).
* llListRandomize reaches every order of whole strides: its rounds go from the last
  stride down, each has the choice of the strides that are not yet fixed, and the one that
  is to come there is among them (`LastPlacedGoesOn`).
* What was joined is cut again (`CutsJoined`): `Laid` says where each piece lies in the
  text, from the rounds of the join; the cut that starts where a piece begins stops at
  its end, as no separator begins earlier (`NotInside`), and goes on where the next one
  begins. That no item contains the separator would not be enough, which the attempt at
  a proof showed: pieces joined by one that overlaps itself (`",,"` after an item that ends
  in `","`) are cut too early. So the hypothesis (`Uncut`) is that the separator does not
  begin in the item with what follows it. For CSV the separator that counts is the
  comma, and the space belongs to the item after it (`Spaced`), until it is trimmed.
* Between spacers nothing gets lost (`NothingLost`) and the empty pieces are all that
  llParseString2List leaves out (`CutsAgree`), both from the end of the text backwards.
* Base64 is decoded by position: the letters of group `g` stand for the bytes `3 * g + 1`
  to `3 * g + 3`, `Bits` says which part of which letter makes which byte, and the sums of
  shifted letters are undone by division. A line break, or the pad, changes nothing, for
  the bytes that are letters are the same (`Only`). The lengths that are no multiple
  of three, for which the encoder reads zeros beyond the last byte, are the cases.
* `UnescapeURL` goes by steps of one or three bytes. The escape of the byte at `k` ends at
  a place that grows with `k`, and decoding from the beginning of it gives the byte and
  goes on at its end; by induction from the last byte on, all come back. A text without
  a percent sign is decoded to itself.

Only model-checked:

* the laws of `Json` and `Loader` (`SetIsGot`, `ListsAgree`, `OnlyWholeFilesLoad`): they
  recur over the text of a value or a file, which is induction over data;
* the liveness properties (`EventuallyServed`, `TimersCatchUp`, `QuietRunEnds`,
  `EndsUnderCap`, `HandlersEnd`), which are out of the prover's reach.

## 7. Where documentation and code disagree

The first two have a run that ends in a counterexample.

* `gone_frame_is_read`: `slemu.h:324` has "current frame / script we are stopped
  in (so locals/globals lookups work)". `dbg_check_stmt` points `cur_frame` at a
  frame on the C stack, and nothing resets it when the function returns; a
  catchpoint that stops later, in a MONEY_FROM say, lets `locals` and `backtrace`
  read it. `LinePauseSeesItsFrame` states what does hold.

* `reset_reinitialises`: llResetScript has the comment "Re-initialise globals &
  state" (`builtins.c:703`), and "reruns initialisers" (`DOCUMENTATION.md:143`). A
  global without an initialiser is left void, where `init_script` gives it the zero of
  its type: a list is no list any more, and a `+=` on a number gives void.

Others need no counterexample of many steps. On the first four the properties say only what
both sides have:

* "One file per linkset-data key" (`volume.c:5`, `DOCUMENTATION.md:188`). `sanitise_key`
  writes `_` for every byte that is not a letter, a digit or one of `_-.`
  (`volume.c:112-113`), so that a value written under `a:b` is read under `a/b`, and a
  delete of one is a delete of both. `KeysKeptApart` promises nothing to such pairs.
* "Structural values are mapped to JSON_OBJECT / JSON_ARRAY / JSON_INVALID sentinels"
  (`builtins.c:1254-1255`); llJsonGetValue returns the text of an object or an array, and a
  sentinel only if nothing is found (`builtins.c:1360-1363`). `ListsAgree` leaves open which.
* "The lexer / loader read SLBC v1 only" (`DOCUMENTATION.md:249`); `program_load` accepts
  1 and 2 (`loader.c:284`), and reads the line numbers of 2. `OnlyWholeFilesLoad` asks of
  version 2 only that nothing wrong is loaded.
* "The first match wins" among fixtures (`man/slemu.1:102-103` and `168-170`). Entries are
  linked in at the head of the list, in both files (`http.c:50`, `config.c:43`), and the
  config file is read after the fixture file: the last match wins. `OneEntryAnswers` asks for
  one of those that match.
* `llSleep` is "a real wall-clock sleep, so step-/timeout-caps apply"
  (`DOCUMENTATION.md:140-141`). It adds to `virtual_offset` and returns at once
  (`builtins.c:661-666`), and no cap notices.
* `llRegionSayTo` is among the calls that reach "every `llListen` filter that matches"
  (`README.md:51-53`). It compares the channel only: the listens of the script it is sent
  to hear it whatever name, key or text they filter (`builtins.c:197-207`), as `Tell` has it.

* After `llDie` "the script becomes inert" (`DOCUMENTATION.md:142-143`); its handler goes on
  and may set a timer, and events that reach it later are handled.
* A request that no fixture matches is answered "with an empty 200 response"
  (`man/slemu.1:91-94`); the code answers status 0 with the body `(no fixture match)`, which
  is what the coverage test expects (`COVERAGE_REPORT.md:63`).
* `HTTP_IN <url_substring>` (`commands.c:20`): `inbound_resolve` wants the granted URL to be
  part of the command's text, not the other way round.
* `README.md:44` lists `linkset_data` among the events; nothing queues it.
* Exit status 1 stands for a runtime error or an exceeded budget (`man/slemu.1:209-211`);
  `region_run` returns 0 in all cases (`region.c:330`), as
  `DOCUMENTATION.md:85-90` has it for a cap; it lists no status 1.
* `llDeleteSubString` with an end beyond the last character copies a length of -1
  (`builtins.c:315`), and with crossed indices it deletes one character. `PiecesFit` says
  where the text builtins agree.
* `llIntegerToBase64` goes by way of a C string, so that a number with a zero byte is cut
  short and comes back as 0; a negative number comes back as a positive one.
* `llList2Json` and `llJsonSetValue` escape nothing; a quote in a value makes a text that
  the other builtins read wrongly.
* A file that ends early is refused, but only when all has been read with counts that
  were never set. With a length of 0xFFFFFFFF the buffer is of no bytes and the terminator
  is written 4 GB behind it (`loader.c:294-297`); with other large ones `xmalloc` ends the process.
* `--steps N` is documented as stopping after N events (`man/slemu.1:77-80`); the cap
  is tested once a cycle, and up to one event per further script is still dispatched.
  `StepBound` states what does hold.
* `state X;` is documented as running `state_exit`, then `state_entry`
  (`DOCUMENTATION.md:116-118`). An event that the `state_exit` handler queues for its
  own script comes between the two, and is handled in the new state.
* `--owner` is documented as what `llGetOwner` returns (`README.md:112`); `owner_uuid`
  returns the first registered avatar, and `--avatar` options are registered first.
* llListReplaceList with a start beyond the end of the list, or an end before its
  beginning, reads items outside of it; with crossed indices it duplicates what lies
  between. `CutAndPaste` says where it is right.
* llCSV2List trims the space before every item but the last; the expected output of
  the coverage test has it so (`tests/coverage/expect/06_lists.txt:19`).
* Initialisers of globals and values returned by functions are not converted to the
  declared type; `i /= 0` leaves a float in an integer variable; `r.x += 1` on a
  rotation sets the part from void; `++r.x` on a rotation writes through a null pointer;
  `v.x++` changes nothing and is the integer zero. These are the leaks in `TypesHold`.
* An unknown builtin returns void (`vm.c:551`), where `builtins.c:69-70` and
  `DOCUMENTATION.md:168` say the zero value of its type.

* a comment in `region_run` (`region.c:251-256`) says that the timer's event is
  drained before the next timer is checked; the drain takes one event of each
  script, so a timer event behind another one waits while time moves on.
* `quit` and EXIT end the run through the step cap, which is not tested with
  `--steps 0`: then they do not end it.
* a breakpoint's file is parsed and kept, but all scripts stop at its line
  (`dbg.c`); of the kinds of catchpoints only those with a caller of
  `dbg_check_catch` can ever stop.

## 8. Not modelled, and why

* Script computation and expression values in the event loop: abstracted, see
  section 3. `Vm` has the interpreter's control flow, `Values` its types; what numbers
  come out is left out of both.
* Functions called from the initialiser of a global.
* `quit` in the debugger sets the step counter in the middle of a handler;
  `StepBound` is a statement about runs without `--debug`, `QuitIsFinal` about
  those with.
* The debugger's protocol (`json_esc`, reading of lines) and the order in which
  it lists variables.
* The chat log, which only assertions of the command file read, and those; they print and
  change nothing else.
* MD5, SHA-1, HMAC and `llHash`: nothing relates what they give to anything but their input.
* Numbers in mathematics, vectors and rotations (`llPow`, `llRot2Euler`, ...): floating point.
* `program_free` and the other destructors.
* A global initialiser that calls a builtin runs before the loop; the model
  starts after `init_script`.
* Negative sleeps and intervals, and overflow of 64-bit sums.
* The text of events and JSON output (`events.c`), which nothing reads back;
  `util.c`; about 1200 lines of builtins that return constants.
* The `curl` subprocess of `--http-real`, but for the answers it may give: I/O.
* `MoneyFrom` with a table that has no avatar: `main` always registers an owner.

## 9. Plan

Written so far: `EventLoop`, `VirtualClock`, `Economy`, `Bank`, `Volume`, `Vault`, `Vm`,
`Syntax`, `ControlFlow`, `Chat`, `Hearing`, `Debugger`, `Values`, `Scoping`, `Http`,
`Exchange`, `Lists`, `Strings`, `Json`, `Loader`, with their MC and proof modules. Next, in
this order:

1. The chat log with ASSERT_SAID, as a window over what was said since the last command.
