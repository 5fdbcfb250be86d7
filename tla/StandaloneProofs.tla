-------------------------- MODULE StandaloneProofs --------------------------
(***************************************************************************)
(* Proofs about the three components that need no other: Debugger (what a  *)
(* pause on a line shows, that the client knows where it stands, and that  *)
(* quit is the end), then Lists, then Strings (what the builtins compute   *)
(* from a list and from a text of any length).                             *)
(***************************************************************************)
EXTENDS Debugger, Strings, Lists, Induction, SequenceTheorems, TLAPS

----------------------------------------------------------------------------
(***************************************************************************)
(* Debugger                                                                *)
(***************************************************************************)

\* While globals are initialised there is nothing to stop at; a client that has
\* quit left the counter above the limit.
SessionInv ==
  /\ pc = "init" => Running /\ mode = "paused" /\ breakpoints = <<>> /\ catchpoints = <<>>
  /\ mode = "dead" => Running /\ steps > MaxSteps
  /\ ClientKnows

DebugInv == TypeOK /\ SessionInv /\ LinePauseSeesItsFrame

----------------------------------------------------------------------------
(* Sequences *)

LEMMA Popped ==
  ASSUME NEW S, NEW q \in Seq(S), q # <<>>
  PROVE  Front(q) \in Seq(S) /\ Len(Front(q)) = Len(q) - 1 /\ (Len(q) = 1 => Front(q) = <<>>)
<1>1. Len(q) \in Nat /\ Len(q) >= 1  BY EmptySeq, LenProperties
<1>2. 1 \in 1 .. (Len(q) + 1) /\ (Len(q) - 1) \in (1 - 1) .. Len(q)  BY <1>1
<1> DEFINE t == SubSeq(q, 1, Len(q) - 1)
<1>3. t \in Seq(S) /\ Len(t) = IF 1 <= Len(q) - 1 THEN (Len(q) - 1) - 1 + 1 ELSE 0
  BY <1>1, <1>2, SubSeqProperties
<1> HIDE DEF t
<1>4. \A m, n \in Nat : m >= 1 /\ n = (IF 1 <= m - 1 THEN (m - 1) - 1 + 1 ELSE 0) => n = m - 1
  OBVIOUS
<1>5. Len(t) = Len(q) - 1  BY <1>1, <1>3, <1>4, LenProperties
<1>6. Len(q) = 1 => t = <<>>  BY <1>3, <1>5, EmptySeq
<1> QED  BY <1>3, <1>5, <1>6 DEF t, Front

LEMMA Removed ==
  ASSUME NEW S, NEW q \in Seq(S), NEW n \in DOMAIN q
  PROVE  RemoveAt(q, n) \in Seq(S)
<1>1. n \in 1 .. Len(q) /\ Len(q) \in Nat  BY LenProperties
<1>2. SubSeq(q, 1, n - 1) \in Seq(S)  BY <1>1, SubSeqProperties
<1>3. SubSeq(q, n + 1, Len(q)) \in Seq(S)  BY <1>1, SubSeqProperties
<1> QED  BY <1>2, <1>3, ConcatProperties DEF RemoveAt

LEMMA Pushed ==
  ASSUME NEW S, NEW q \in Seq(S), NEW e \in S
  PROVE  /\ <<e>> \o q \in Seq(S)
         /\ Append(q, e) \in Seq(S) /\ Append(q, e) # <<>>
<1>1. <<e>> \in Seq(S)  OBVIOUS
<1>2. <<e>> \o q \in Seq(S)  BY <1>1, ConcatProperties
<1>3. Append(q, e) \in Seq(S) /\ Append(q, e) # <<>>  BY AppendProperties
<1> QED  BY <1>2, <1>3

----------------------------------------------------------------------------
(* Types *)

LEMMA TypeInit == Init => TypeOK
<1> SUFFICES ASSUME Init PROVE TypeOK  OBVIOUS
<1>1. /\ <<>> \in Seq([id : 1 .. MaxPoints, line : Lines]) /\ <<>> \in Seq([id : 1 .. MaxPoints, kind : Kinds])
      /\ <<>> \in Seq(Frames)
  OBVIOUS
<1>2. 1 \in 1 .. (MaxPoints + 1) /\ 1 \in Scripts /\ 1 \in 1 .. (NScripts + 1)
  BY DebuggerAssumption DEF Scripts
<1> QED  BY <1>1, <1>2 DEF Init, TypeOK

LEMMA FramesStep ==
  ASSUME TypeOK, Next
  PROVE  frames' \in Seq(Frames)
<1>1. frames \in Seq(Frames)  BY DEF TypeOK
<1>2. ASSUME NEW f \in FreshFrames, Enter(f)
      PROVE  frames' \in Seq(Frames)
  BY <1>1, <1>2, Pushed DEF Enter, FreshFrames
<1>3. ASSUME frames # <<>>, Leave  PROVE  frames' \in Seq(Frames)
  BY <1>1, <1>3, Popped DEF Leave
<1>4. Call => frames' \in Seq(Frames)  BY <1>2 DEF Call
<1>5. FunctionReturns => frames' \in Seq(Frames)
  BY <1>1, <1>3, LenProperties, EmptySeq DEF FunctionReturns
<1>6. StartHandler => frames' \in Seq(Frames)  BY <1>2 DEF StartHandler
<1>7. HandlerReturns => frames' \in Seq(Frames)
  <2>1. \A f \in FreshFrames : <<f>> \in Seq(Frames)  BY DEF FreshFrames
  <2>2. Len(frames) = 1 => frames # <<>>  BY EmptySeq
  <2> QED  BY <1>3, <2>1, <2>2 DEF HandlerReturns
<1>8. ExitReturns => frames' \in Seq(Frames)
  BY <1>1, <1>3, LenProperties, EmptySeq DEF ExitReturns
<1>9. CASE frames' = frames  BY <1>1, <1>9
<1> QED
  BY <1>4, <1>5, <1>6, <1>7, <1>8, <1>9
  DEF Next, Program, Client, Line, Catch, NextInit, Handshake, Cycle, LoopStops, SkipScript, DropEvent,
      NextCycle, NothingLeft, Command, CommandDone, RunEnds, Continue, Step, Quit, Break, SetCatch, Clear,
      Uncatch, Query, Disconnect, loop

\* Frames are there while a handler runs, and not between handlers.
FramesMatch ==
  /\ pc \in {"handler", "exit"} => frames # <<>>
  /\ pc \notin {"init", "handler", "exit"} => frames = <<>>

LEMMA FramesMatchStep ==
  ASSUME TypeOK, Next
  PROVE  FramesMatch'
<1>1. frames \in Seq(Frames) /\ FramesMatch  BY DEF TypeOK, FramesMatch
<1>2. \A f \in FreshFrames : Append(frames, f) # <<>>  BY <1>1, Pushed DEF FreshFrames
<1>3. Len(frames) = 1 => Front(frames) = <<>>
  <2>1. Len(frames) = 1 => frames # <<>>  BY EmptySeq
  <2> QED  BY <1>1, <2>1, Popped
<1>4. Call => FramesMatch'  BY <1>1, <1>2 DEF Call, Enter, FramesMatch
<1>5. ASSUME FunctionReturns  PROVE FramesMatch'
  <2>1. CASE pc = "init"  BY <1>5, <2>1 DEF FunctionReturns, FramesMatch
  <2>2. CASE pc # "init"
    <3>1. Len(frames) > 1 /\ Len(frames) \in Nat  BY <1>1, <1>5, <2>2, LenProperties DEF FunctionReturns
    <3>2. frames # <<>>  BY <3>1
    <3>3. Len(frames') = Len(frames) - 1  BY <1>1, <1>5, <3>2, Popped DEF FunctionReturns, Leave
    <3>4. frames' # <<>>  BY <3>1, <3>3
    <3> QED  BY <1>1, <1>5, <2>2, <3>2, <3>4 DEF FunctionReturns, FramesMatch
  <2> QED  BY <2>1, <2>2
<1>6. StartHandler => FramesMatch'  BY <1>1, <1>2 DEF StartHandler, Enter, FramesMatch
<1>7. HandlerReturns => FramesMatch'  BY <1>1, <1>3 DEF HandlerReturns, Leave, FramesMatch
<1>8. ExitReturns => FramesMatch'  BY <1>1, <1>3 DEF ExitReturns, Leave, FramesMatch
<1>9. CASE UNCHANGED <<pc, frames>>  BY <1>1, <1>9 DEF FramesMatch
<1>10. CASE /\ UNCHANGED frames /\ frames = <<>>
            /\ pc' \notin {"handler", "exit"}
  BY <1>10 DEF FramesMatch
<1>11. \/ NextInit \/ Handshake \/ Cycle \/ LoopStops \/ SkipScript \/ DropEvent \/ NextCycle \/ NothingLeft
       \/ Command \/ CommandDone \/ RunEnds
       => UNCHANGED frames /\ frames = <<>> /\ pc' \notin {"handler", "exit"}
  BY <1>1
  DEF NextInit, Handshake, Cycle, LoopStops, SkipScript, DropEvent, NextCycle, NothingLeft, Command,
      CommandDone, RunEnds, FramesMatch
<1>12. Line \/ Catch \/ Client => UNCHANGED <<pc, frames>>
  BY DEF Line, Catch, Client, Continue, Step, Quit, Break, SetCatch, Clear, Uncatch, Query, Disconnect, loop
<1> QED
  BY <1>4, <1>5, <1>6, <1>7, <1>8, <1>9, <1>10, <1>11, <1>12 DEF Next, Program

PointTypes ==
  /\ breakpoints \in Seq([id : 1 .. MaxPoints, line : Lines])
  /\ catchpoints \in Seq([id : 1 .. MaxPoints, kind : Kinds])
  /\ nextBreak \in 1 .. (MaxPoints + 1) /\ nextCatch \in 1 .. (MaxPoints + 1)

LEMMA PointStep ==
  ASSUME TypeOK, Next
  PROVE  PointTypes'
<1>1. PointTypes /\ MaxPoints \in Nat  BY DebuggerAssumption DEF TypeOK, PointTypes
<1>2. Break => PointTypes'
  <2> SUFFICES ASSUME Asks, nextBreak <= MaxPoints, NEW line \in Lines,
                      breakpoints' = <<[id |-> nextBreak, line |-> line]>> \o breakpoints,
                      nextBreak' = nextBreak + 1, UNCHANGED <<catchpoints, nextCatch>>
               PROVE  PointTypes'
    BY DEF Break
  <2>1. [id |-> nextBreak, line |-> line] \in [id : 1 .. MaxPoints, line : Lines]  BY <1>1 DEF PointTypes
  <2>2. breakpoints' \in Seq([id : 1 .. MaxPoints, line : Lines])  BY <1>1, <2>1, Pushed DEF PointTypes
  <2>3. nextBreak' \in 1 .. (MaxPoints + 1)  BY <1>1 DEF PointTypes
  <2> QED  BY <1>1, <2>2, <2>3 DEF PointTypes
<1>3. SetCatch => PointTypes'
  <2> SUFFICES ASSUME Asks, nextCatch <= MaxPoints, NEW kind \in Kinds,
                      catchpoints' = <<[id |-> nextCatch, kind |-> kind]>> \o catchpoints,
                      nextCatch' = nextCatch + 1, UNCHANGED <<breakpoints, nextBreak>>
               PROVE  PointTypes'
    BY DEF SetCatch
  <2>1. [id |-> nextCatch, kind |-> kind] \in [id : 1 .. MaxPoints, kind : Kinds]  BY <1>1 DEF PointTypes
  <2>2. catchpoints' \in Seq([id : 1 .. MaxPoints, kind : Kinds])  BY <1>1, <2>1, Pushed DEF PointTypes
  <2>3. nextCatch' \in 1 .. (MaxPoints + 1)  BY <1>1 DEF PointTypes
  <2> QED  BY <1>1, <2>2, <2>3 DEF PointTypes
<1>4. Clear => PointTypes'  BY <1>1, Removed DEF Clear, PointTypes
<1>5. Uncatch => PointTypes'  BY <1>1, Removed DEF Uncatch, PointTypes
<1>6. CASE UNCHANGED points  BY <1>1, <1>6 DEF points, PointTypes
<1> QED
  BY <1>2, <1>3, <1>4, <1>5, <1>6
  DEF Next, Program, Client, Line, Catch, Call, FunctionReturns, NextInit, Handshake, Cycle, LoopStops,
      SkipScript, DropEvent, StartHandler, HandlerReturns, ExitReturns, NextCycle, NothingLeft, Command,
      CommandDone, RunEnds, Continue, Step, Quit, Query, Disconnect

\* The types of the rest.
PlainTypes ==
  /\ mode \in {"run", "step", "paused", "dead"}
  /\ pc \in {"init", "top", "drain", "handler", "exit", "command", "lastCommand", "settle", "done"}
  /\ cursor \in 1 .. (NScripts + 1)
  /\ pc \in {"init", "handler", "exit"} => cursor \in Scripts
  /\ progress \in BOOLEAN
  /\ steps \in Nat
  /\ commands \in 0 .. MaxCommands
  /\ paused \in Reasons \cup {"no"} /\ told \in {"stopped", "running"} /\ gone \in BOOLEAN

LEMMA PlainStep ==
  ASSUME TypeOK, Next
  PROVE  PlainTypes'
<1>1. PlainTypes /\ NScripts \in Nat \ {0} /\ MaxSteps \in Nat /\ MaxCommands \in Nat
  BY DebuggerAssumption DEF TypeOK, PlainTypes
<1>2. \A n \in Scripts : n \in 1 .. (NScripts + 1) /\ n + 1 \in 1 .. (NScripts + 1)
  BY <1>1 DEF Scripts
<1>3. NScripts \in Scripts /\ 1 \in 1 .. (NScripts + 1)  BY <1>1 DEF Scripts
<1>4. steps + 1 \in Nat /\ QuitSteps \in Nat  BY <1>1 DEF PlainTypes, QuitSteps
<1>5. \A r \in Reasons : Stop(r) => /\ mode' = "paused" /\ paused' \in Reasons /\ told' = "stopped"
                                    /\ gone' = gone
  BY DEF Stop
<1>6. {"entry", "line", "catch"} \subseteq Reasons  BY DEF Reasons
<1>7. Line => PlainTypes'  BY <1>1, <1>5, <1>6 DEF Line, PlainTypes, loop, client
<1>8. Catch \/ Call \/ FunctionReturns => PlainTypes'
  BY <1>1, <1>5, <1>6 DEF Catch, Call, FunctionReturns, PlainTypes, loop, client
<1>9. Handshake => PlainTypes'  BY <1>1, <1>3, <1>5, <1>6 DEF Handshake, PlainTypes
<1>10. NextInit => PlainTypes'
  <2> SUFFICES ASSUME NextInit PROVE PlainTypes'  OBVIOUS
  <2>1. cursor' \in Scripts  BY <1>1 DEF NextInit, PlainTypes, Scripts
  <2> QED  BY <1>1, <1>2, <2>1 DEF NextInit, PlainTypes, client
<1>11. SkipScript => PlainTypes'  BY <1>1, <1>2 DEF SkipScript, PlainTypes, client
<1>12. DropEvent => PlainTypes'  BY <1>1, <1>2, <1>4 DEF DropEvent, PlainTypes, client
<1>13. HandlerReturns => PlainTypes'  BY <1>1, <1>2, <1>4 DEF HandlerReturns, PlainTypes, client
<1>14. ExitReturns => PlainTypes'  BY <1>1, <1>2 DEF ExitReturns, PlainTypes, client
<1>15. Cycle => PlainTypes'  BY <1>1, <1>3 DEF Cycle, PlainTypes, client
<1>16. LoopStops \/ StartHandler \/ NextCycle \/ NothingLeft \/ RunEnds => PlainTypes'
  BY <1>1 DEF LoopStops, StartHandler, NextCycle, NothingLeft, RunEnds, PlainTypes, client
<1>17. Command => PlainTypes'
  <2> SUFFICES ASSUME Command PROVE PlainTypes'  OBVIOUS
  <2>1. commands' \in 0 .. MaxCommands  BY <1>1 DEF Command, PlainTypes
  <2> QED  BY <1>1, <1>5, <1>6, <2>1 DEF Command, PlainTypes, client
<1>18. CommandDone => PlainTypes'  BY <1>1, <1>4 DEF CommandDone, PlainTypes, client
<1>19. Continue \/ Step => PlainTypes'  BY <1>1 DEF Continue, Step, Resume, PlainTypes, loop
<1>20. Quit => PlainTypes'  BY <1>1, <1>4 DEF Quit, PlainTypes
<1>21. Break \/ SetCatch \/ Clear \/ Uncatch \/ Query => PlainTypes'
  BY <1>1 DEF Break, SetCatch, Clear, Uncatch, Query, PlainTypes, loop, client
<1>22. Disconnect => PlainTypes'  BY <1>1 DEF Disconnect, PlainTypes, loop
<1> QED
  BY <1>7, <1>8, <1>9, <1>10, <1>11, <1>12, <1>13, <1>14, <1>15, <1>16, <1>17, <1>18, <1>19, <1>20, <1>21,
     <1>22 DEF Next, Program, Client

LEMMA PositionStep ==
  ASSUME TypeOK, Next
  PROVE  curScript' \in Scripts \cup {None} /\ curFrame' \in Frames \cup {None}
<1>1. curScript \in Scripts \cup {None} /\ curFrame \in Frames \cup {None}  BY DEF TypeOK
<1>2. Line => curScript' \in Scripts \cup {None} /\ curFrame' \in Frames \cup {None}
  <2> SUFFICES ASSUME Line PROVE curScript' \in Scripts /\ curFrame' \in Frames  OBVIOUS
  <2>1. cursor \in Scripts  BY DEF Line, TypeOK
  <2>2. frames \in Seq(Frames) /\ frames # <<>>  BY DEF Line, TypeOK
  <2>3. Len(frames) \in 1 .. Len(frames)  BY <2>2, EmptySeq, LenProperties
  <2>4. Last(frames) \in Frames  BY <2>2, <2>3, ElementOfSeq DEF Last
  <2> QED  BY <2>1, <2>4 DEF Line, Locate
<1>3. Handshake => curScript' \in Scripts \cup {None} /\ curFrame' \in Frames \cup {None}
  BY DebuggerAssumption DEF Handshake, Scripts
<1>4. CASE UNCHANGED position  BY <1>1, <1>4 DEF position
<1> QED
  BY <1>2, <1>3, <1>4
  DEF Next, Program, Client, Catch, Call, FunctionReturns, NextInit, Cycle, LoopStops, SkipScript, DropEvent,
      StartHandler, HandlerReturns, ExitReturns, NextCycle, NothingLeft, Command, CommandDone, RunEnds,
      Continue, Step, Quit, Break, SetCatch, Clear, Uncatch, Query, Disconnect

LEMMA TypeStep == TypeOK /\ [Next]_vars => TypeOK'
<1>1. ASSUME TypeOK, Next  PROVE TypeOK'
  BY <1>1, FramesStep, FramesMatchStep, PointStep, PlainStep, PositionStep
  DEF TypeOK, FramesMatch, PointTypes, PlainTypes, Scripts
<1>2. ASSUME TypeOK, UNCHANGED vars  PROVE TypeOK'
  BY <1>2 DEF TypeOK, vars, points, position, loop, client
<1> QED  BY <1>1, <1>2

----------------------------------------------------------------------------
(* The client and the program *)

LEMMA SessionInit == Init => SessionInv /\ LinePauseSeesItsFrame
BY DEF Init, SessionInv, ClientKnows, LinePauseSeesItsFrame, Running

\* The program goes on by itself: nothing of the session changes.
Quiet ==
  /\ UNCHANGED <<mode, client, breakpoints, catchpoints>>
  /\ steps' \in {steps, steps + 1}
  /\ pc' = "init" => pc = "init"
  /\ Running /\ (pc = "init" => pc' = "init")

LEMMA QuietStep ==
  ASSUME TypeOK, SessionInv, LinePauseSeesItsFrame, Quiet
  PROVE  SessionInv' /\ LinePauseSeesItsFrame'
<1>1. steps \in Nat /\ steps' \in {steps, steps + 1} /\ MaxSteps \in Nat
  BY DebuggerAssumption DEF TypeOK, Quiet
<1>2. paused' = "no"  BY DEF Quiet, client, Running
<1>3. UNCHANGED <<mode, paused, told, gone, breakpoints, catchpoints>> /\ (pc' = "init") = (pc = "init")
  BY DEF Quiet, client
<1>4. steps > MaxSteps => steps' > MaxSteps
  <2>1. \A a, b \in Nat : a > b => a + 1 > b  OBVIOUS
  <2> QED  BY <1>1, <2>1
<1>5. mode' = "dead" => Running' /\ steps' > MaxSteps  BY <1>3, <1>4 DEF SessionInv, Running
<1>6. ClientKnows'  BY <1>3 DEF SessionInv, ClientKnows, Running
<1>7. LinePauseSeesItsFrame'  BY <1>2 DEF LinePauseSeesItsFrame
<1>8. pc' = "init" => Running' /\ mode' = "paused" /\ breakpoints' = <<>> /\ catchpoints' = <<>>
  BY <1>3 DEF SessionInv, Running
<1> QED  BY <1>5, <1>6, <1>7, <1>8 DEF SessionInv

\* The program stops, in no initialiser, for a client that has not quit.
LEMMA StopStep ==
  ASSUME SessionInv, mode # "dead", NEW reason \in Reasons, Stop(reason), pc' # "init",
         reason = "line" => frames' # <<>> /\ curFrame' = Last(frames') /\ curScript' = cursor'
  PROVE  SessionInv' /\ LinePauseSeesItsFrame'
BY DEF SessionInv, Stop, LinePauseSeesItsFrame, ClientKnows, Running, Reasons

\* The client answers a pause, and nothing that the pause shows is touched.
LEMMA ClientStep ==
  ASSUME TypeOK, SessionInv, LinePauseSeesItsFrame, Client
  PROVE  SessionInv' /\ LinePauseSeesItsFrame' /\ mode # "dead"
<1>1. ~Running  BY DEF Client, Continue, Step, Quit, Break, SetCatch, Clear, Uncatch, Query, Disconnect, Asks
<1>2. pc # "init" /\ mode # "dead"  BY <1>1 DEF SessionInv
<1>3. pc' = pc /\ frames' = frames /\ cursor' = cursor /\ UNCHANGED position
  BY DEF Client, Continue, Step, Quit, Break, SetCatch, Clear, Uncatch, Query, Disconnect, loop
<1>4. Continue \/ Step => SessionInv' /\ LinePauseSeesItsFrame'
  BY <1>2, <1>3 DEF Continue, Step, Resume, SessionInv, LinePauseSeesItsFrame, ClientKnows, Running
<1>5. Quit => SessionInv' /\ LinePauseSeesItsFrame'
  <2> SUFFICES ASSUME Quit PROVE SessionInv' /\ LinePauseSeesItsFrame'  OBVIOUS
  <2>1. steps' > MaxSteps  BY DebuggerAssumption DEF Quit, QuitSteps
  <2> QED  BY <1>2, <1>3, <2>1 DEF Quit, SessionInv, LinePauseSeesItsFrame, ClientKnows, Running
<1>6. Break \/ SetCatch \/ Clear \/ Uncatch \/ Query => SessionInv' /\ LinePauseSeesItsFrame'
  BY <1>2, <1>3
  DEF Break, SetCatch, Clear, Uncatch, Query, SessionInv, LinePauseSeesItsFrame, ClientKnows, Running, loop,
      client, position
<1>7. Disconnect => SessionInv' /\ LinePauseSeesItsFrame'
  BY <1>2, <1>3 DEF Disconnect, SessionInv, LinePauseSeesItsFrame, ClientKnows, Running
<1> QED  BY <1>2, <1>4, <1>5, <1>6, <1>7 DEF Client

\* What does not stop the program leaves the session alone.
LEMMA ProgramQuiet ==
  ASSUME TypeOK,
         \/ Call \/ FunctionReturns \/ NextInit \/ Cycle \/ LoopStops \/ SkipScript \/ DropEvent
         \/ StartHandler \/ HandlerReturns \/ ExitReturns \/ NextCycle \/ NothingLeft \/ CommandDone
         \/ RunEnds
  PROVE  Quiet
BY DEF Call, FunctionReturns, NextInit, Cycle, LoopStops, SkipScript, DropEvent, StartHandler, HandlerReturns,
      ExitReturns, NextCycle, NothingLeft, CommandDone, RunEnds, Quiet, points

LEMMA SessionStep ==
  ASSUME DebugInv, [Next]_vars
  PROVE  SessionInv' /\ LinePauseSeesItsFrame'
<1> USE DEF DebugInv
<1>1. {"entry", "line", "catch"} \subseteq Reasons  BY DEF Reasons
<1>2. Line => SessionInv' /\ LinePauseSeesItsFrame'
  <2> SUFFICES ASSUME Line, NEW line \in Lines,
                      IF Stops(line) THEN Stop("line") ELSE UNCHANGED <<mode, client>>
               PROVE  SessionInv' /\ LinePauseSeesItsFrame'
    BY DEF Line
  <2>1. CASE Stops(line)
    <3>1. pc # "init"  BY <2>1 DEF Stops, SessionInv
    <3> QED  BY <1>1, <2>1, <3>1, StopStep DEF Line, Locate, loop
  <2>2. CASE ~Stops(line)
    <3>1. Quiet  BY <2>2 DEF Quiet, Line, loop, points, TypeOK
    <3> QED  BY <3>1, QuietStep
  <2> QED  BY <2>1, <2>2
<1>3. Catch => SessionInv' /\ LinePauseSeesItsFrame'
  <2> SUFFICES ASSUME Catch PROVE SessionInv' /\ LinePauseSeesItsFrame'  OBVIOUS
  <2>1. mode # "dead" /\ catchpoints # <<>>  BY DEF Catch, Caught
  <2>2. pc # "init"  BY <2>1 DEF SessionInv
  <2> QED  BY <1>1, <2>1, <2>2, StopStep DEF Catch, loop
<1>4. Handshake => SessionInv' /\ LinePauseSeesItsFrame'
  <2> SUFFICES ASSUME Handshake PROVE SessionInv' /\ LinePauseSeesItsFrame'  OBVIOUS
  <2>1. mode # "dead" /\ pc' # "init"  BY DEF Handshake, SessionInv
  <2> QED  BY <1>1, <2>1, StopStep DEF Handshake
<1>5. Command => SessionInv' /\ LinePauseSeesItsFrame'
  <2> SUFFICES ASSUME Command PROVE SessionInv' /\ LinePauseSeesItsFrame'  OBVIOUS
  <2>1. CASE UNCHANGED <<mode, client>>
    <3>1. Quiet  BY <2>1 DEF Quiet, Command, points, TypeOK
    <3> QED  BY <3>1, QuietStep
  <2>2. CASE Caught(Money) /\ Stop("catch")
    <3>1. mode # "dead" /\ pc' # "init"  BY <2>2 DEF Caught, Command
    <3> QED  BY <1>1, <2>2, <3>1, StopStep
  <2> QED  BY <2>1, <2>2 DEF Command
<1>6. CASE Client  BY <1>6, ClientStep
<1>7. CASE UNCHANGED vars
  BY <1>7 DEF vars, points, position, loop, client, SessionInv, LinePauseSeesItsFrame, ClientKnows, Running
<1> QED  BY <1>2, <1>3, <1>4, <1>5, <1>6, <1>7, ProgramQuiet, QuietStep DEF Next, Program

LEMMA DebugInvariant == Spec => []DebugInv
<1>1. Init => DebugInv  BY TypeInit, SessionInit DEF DebugInv
<1>2. DebugInv /\ [Next]_vars => DebugInv'  BY TypeStep, SessionStep DEF DebugInv
<1> QED  BY <1>1, <1>2, PTL DEF Spec

\* Types of all variables, and frames exactly while code runs.
THEOREM TypeCorrect == Spec => []TypeOK
BY DebugInvariant, PTL DEF DebugInv

\* A pause on a line shows the function that reached it.
THEOREM LinePausesAreLocated == Spec => []LinePauseSeesItsFrame
BY DebugInvariant, PTL DEF DebugInv

\* The client is told of every stop and every resumption.
THEOREM ClientIsTold == Spec => []ClientKnows
<1>1. DebugInv => ClientKnows  BY DEF DebugInv, SessionInv
<1> QED  BY <1>1, DebugInvariant, PTL

\* After quit the program neither stops again nor begins another cycle.
THEOREM QuitEndsTheRun == Spec => QuitIsFinal
<1> DEFINE Final == mode = "dead" => /\ mode' = "dead" /\ Running'
                                     /\ MaxSteps > 0 /\ pc = "top" => pc' \in {"top", "settle"}
<1>1. ASSUME DebugInv, [Next]_vars, mode = "dead"  PROVE Final
  <2>1. Running /\ steps > MaxSteps /\ pc # "init" /\ steps \in Nat /\ MaxSteps \in Nat
    BY <1>1, DebuggerAssumption DEF DebugInv, SessionInv, TypeOK
  <2>2. CASE Quiet
    <3>1. mode' = "dead" /\ Running'  BY <1>1, <2>1, <2>2 DEF Quiet, client, Running
    <3>2. ~(MaxSteps > 0 /\ Cycle)  BY <2>1 DEF Cycle
    <3>3. MaxSteps > 0 /\ pc = "top" => pc' \in {"top", "settle"}
      BY <1>1, <2>1, <3>2
      DEF Next, Program, Client, Line, Catch, Call, FunctionReturns, NextInit, Handshake, LoopStops, SkipScript,
          DropEvent, StartHandler, HandlerReturns, ExitReturns, NextCycle, NothingLeft, Command, CommandDone,
          RunEnds, Continue, Step, Quit, Break, SetCatch, Clear, Uncatch, Query, Disconnect, Asks, vars, loop,
          DebugInv, TypeOK
    <3> QED  BY <3>1, <3>3
  <2>3. ~Line /\ ~Catch /\ ~Handshake /\ ~Client
    BY <1>1, <2>1 DEF Line, Catch, Caught, Handshake, Client, Continue, Step, Quit, Break, SetCatch, Clear,
                      Uncatch, Query, Disconnect, Asks
  <2>4. Command => Quiet
    BY <1>1, <2>1 DEF Command, Caught, Quiet, points
  <2>5. CASE UNCHANGED vars  BY <1>1, <2>1, <2>5 DEF vars, loop, client, Running
  <2> QED
    BY <1>1, <2>2, <2>3, <2>4, <2>5, ProgramQuiet DEF Next, Program, DebugInv
<1>2. DebugInv /\ [Next]_vars => [Final]_vars  BY <1>1
<1> QED  BY <1>2, DebugInvariant, PTL DEF Spec, QuitIsFinal

----------------------------------------------------------------------------
(***************************************************************************)
(* Lists                                                                   *)
(***************************************************************************)

(* Sequences *)

LEMMA SeqsAre ==
  ASSUME NEW S, NEW n \in Nat, NEW M
  PROVE  M \in [1 .. n -> S] <=> M \in Seq(S) /\ Len(M) = n
<1>1. ASSUME M \in [1 .. n -> S] PROVE M \in Seq(S) /\ Len(M) = n
  BY <1>1
<1>2. ASSUME M \in Seq(S), Len(M) = n PROVE M \in [1 .. n -> S]
  BY <1>2, LenProperties
<1> QED
  BY <1>1, <1>2

LEMMA PartType ==
  ASSUME NEW S, NEW chars \in Seq(S), NEW a \in Nat, NEW b \in Nat, b <= Len(chars)
  PROVE  SubSeq(chars, a + 1, b) \in Seq(S)
<1>1. a + 1 \in Int /\ b \in Int /\ \A k \in (a + 1) .. b : chars[k] \in S
  <2>1. Len(chars) \in Nat /\ \A k \in 1 .. Len(chars) : chars[k] \in S
    BY LenProperties, ElementOfSeq
  <2> QED
    BY <2>1
<1> QED
  BY <1>1, SubSeqProperties

\* A piece before, one in between and one after.
Spliced(L, M, p, q) == SubSeq(L, 1, p) \o M \o SubSeq(L, q, Len(L))

LEMMA SplicedIs ==
  ASSUME NEW S, NEW L \in Seq(S), NEW M \in Seq(S), NEW p \in 0 .. Len(L), NEW q \in 1 .. (Len(L) + 1)
  PROVE  /\ Spliced(L, M, p, q) \in Seq(S) /\ Len(Spliced(L, M, p, q)) = p + Len(M) + Len(L) - q + 1
         /\ \A m \in 1 .. Len(Spliced(L, M, p, q)) : Spliced(L, M, p, q)[m] =
              IF m <= p THEN L[m] ELSE IF m <= p + Len(M) THEN M[m - p] ELSE L[m - p - Len(M) + q - 1]
<1> DEFINE n == Len(L)
           l == Len(M)
           A == SubSeq(L, 1, p)
           B == SubSeq(L, q, n)
           C == A \o M
           R == Spliced(L, M, p, q)
<1>1. n \in Nat /\ l \in Nat /\ p \in 0 .. n /\ q \in 1 .. (n + 1)
  BY LenProperties
<1>2. \A m \in 1 .. n : L[m] \in S
  BY ElementOfSeq
<1>3. R = C \o B /\ Len(M) = l
  BY DEF Spliced
<1> HIDE DEF n, l, R
<1>4. 1 \in Int /\ p \in Int /\ q \in Int /\ n \in Int /\ p \in Nat /\ p <= n /\ 1 <= q /\ q <= n + 1
  BY <1>1
<1>5. /\ A \in Seq(S) /\ Len(A) = p /\ \A m \in 1 .. p : A[m] = L[m]
  <2>1. \A m \in 1 .. p : L[m] \in S
    BY <1>2, <1>4
  <2>2. /\ A \in Seq(S) /\ Len(A) = (IF 1 <= p THEN p - 1 + 1 ELSE 0)
        /\ \A m \in 1 .. (p - 1 + 1) : A[m] = L[1 + m - 1]
    BY <1>4, <2>1, SubSeqProperties
  <2> HIDE DEF A
  <2> QED
    BY <1>4, <2>2
<1>6. /\ B \in Seq(S) /\ Len(B) = n - q + 1 /\ \A m \in 1 .. (n - q + 1) : B[m] = L[q + m - 1]
  <2>1. \A m \in q .. n : L[m] \in S
    BY <1>2, <1>4
  <2>2. /\ B \in Seq(S) /\ Len(B) = (IF q <= n THEN n - q + 1 ELSE 0)
        /\ \A m \in 1 .. (n - q + 1) : B[m] = L[q + m - 1]
    BY <1>4, <2>1, SubSeqProperties
  <2> HIDE DEF B
  <2> QED
    BY <1>4, <2>2
<1> HIDE DEF A, B
<1>7. /\ C \in Seq(S) /\ Len(C) = p + l
      /\ \A m \in 1 .. (p + l) : C[m] = IF m <= p THEN A[m] ELSE M[m - p]
  BY <1>3, <1>5, ConcatProperties
<1> HIDE DEF C
<1>8. /\ R \in Seq(S) /\ Len(R) = (p + l) + (n - q + 1)
      /\ \A m \in 1 .. ((p + l) + (n - q + 1)) : R[m] = IF m <= p + l THEN C[m] ELSE B[m - (p + l)]
  <2>1. /\ C \o B \in Seq(S) /\ Len(C \o B) = Len(C) + Len(B)
        /\ \A m \in 1 .. (Len(C) + Len(B)) : (C \o B)[m] = IF m <= Len(C) THEN C[m] ELSE B[m - Len(C)]
    BY <1>6, <1>7, ConcatProperties
  <2> QED
    BY <1>3, <1>6, <1>7, <2>1
<1>9. ASSUME NEW m \in 1 .. Len(R)
      PROVE  R[m] = IF m <= p THEN L[m] ELSE IF m <= p + l THEN M[m - p] ELSE L[m - p - l + q - 1]
  <2>1. m \in 1 .. ((p + l) + (n - q + 1)) /\ m \in Int /\ 1 <= m /\ m <= (p + l) + (n - q + 1)
    BY <1>1, <1>4, <1>8
  <2>2. R[m] = IF m <= p + l THEN C[m] ELSE B[m - (p + l)]
    BY <1>8, <2>1
  <2>3. CASE m <= p
    <3>1. m \in 1 .. p /\ m \in 1 .. (p + l) /\ m <= p + l
      BY <1>1, <1>4, <2>1, <2>3
    <3> QED
      BY <1>5, <1>7, <2>2, <2>3, <3>1
  <2>4. CASE ~(m <= p) /\ m <= p + l
    <3>1. m \in 1 .. (p + l)
      BY <1>1, <1>4, <2>1, <2>4
    <3> QED
      BY <1>7, <2>2, <2>4, <3>1
  <2>5. CASE ~(m <= p + l)
    <3>1. m - (p + l) \in 1 .. (n - q + 1) /\ q + (m - (p + l)) - 1 = m - p - l + q - 1 /\ ~(m <= p)
      BY <1>1, <1>4, <2>1, <2>5
    <3> QED
      BY <1>6, <2>2, <2>5, <3>1
  <2> QED
    BY <1>1, <1>4, <2>1, <2>3, <2>4, <2>5
<1>10. Len(R) = p + l + n - q + 1
  BY <1>1, <1>4, <1>8
<1> QED
  BY <1>8, <1>9, <1>10 DEF n, l, R

SplicedShape(S, L, M, p, q, R) ==
  /\ R \in Seq(S) /\ Len(R) = p + Len(M) + Len(L) - q + 1
  /\ \A m \in 1 .. Len(R) : R[m] =
       IF m <= p THEN L[m] ELSE IF m <= p + Len(M) THEN M[m - p] ELSE L[m - p - Len(M) + q - 1]

LEMMA SplicedHasShape ==
  ASSUME NEW S, NEW L \in Seq(S), NEW M \in Seq(S), NEW p \in 0 .. Len(L), NEW q \in 1 .. (Len(L) + 1)
  PROVE  SplicedShape(S, L, M, p, q, Spliced(L, M, p, q))
BY SplicedIs DEF SplicedShape

----------------------------------------------------------------------------
(* FlattenSeq *)

FlattenStep(seqs, flatten, k) == IF k = 1 THEN seqs[k] ELSE flatten[k - 1] \o seqs[k]
FlattenLoop(seqs, flatten) == flatten = [k \in 1 .. Len(seqs) |-> FlattenStep(seqs, flatten, k)]

LEMMA FlattenSeqIs ==
  ASSUME NEW seqs, Len(seqs) # 0
  PROVE  FlattenSeq(seqs) = (CHOOSE flatten : FlattenLoop(seqs, flatten))[Len(seqs)]
BY DEF FlattenSeq, FlattenLoop, FlattenStep

Flattens(seqs, n, flat) == flat[0] = <<>> /\ \A k \in 1 .. n : flat[k] = flat[k - 1] \o seqs[k]

\* The sequences put together so far.
LEMMA FlattenLoops ==
  ASSUME NEW S, NEW n \in Nat, NEW seqs \in [1 .. n -> Seq(S)]
  PROVE  \E flat \in [0 .. n -> Seq(S)] : Flattens(seqs, n, flat) /\ FlattenSeq(seqs) = flat[n]
<1>1. Len(seqs) = n /\ seqs \in Seq(Seq(S))
  BY SeqsAre
<1>2. CASE n = 0
  <2>1. FlattenSeq(seqs) = <<>>
    BY <1>1, <1>2, EmptySeq DEF FlattenSeq
  <2> DEFINE flat == [k \in 0 .. n |-> <<>>]
  <2>2. flat \in [0 .. n -> Seq(S)] /\ flat[0] = <<>> /\ flat[n] = <<>> /\ 1 .. n = {}
    BY <1>2, EmptySeq
  <2> HIDE DEF flat
  <2> QED
    BY <2>1, <2>2 DEF Flattens
<1>3. CASE n # 0
  <2> DEFINE F == Seq(S)
             step == [z \in (2 .. n) \X F |-> z[2] \o seqs[z[1]]]
             flatten == CHOOSE g : FlattenLoop(seqs, g)
  <2>1. FlattenSeq(seqs) = flatten[n]
    BY <1>1, <1>3, FlattenSeqIs
  <2>2. ASSUME NEW k \in 2 .. n, NEW y \in F PROVE y \o seqs[k] \in F
    BY ConcatProperties
  <2>3. ASSUME NEW k \in 2 .. n, NEW y \in F PROVE step[<<k, y>>] = y \o seqs[k]
    OBVIOUS
  <2>4. 1 \in Int /\ n \in Int /\ 1 <= n /\ seqs[1] \in F
    BY <1>3
  <2>5. seqs \in [1 .. n -> F]
    OBVIOUS
  <2> HIDE DEF F
  <2>6. ASSUME NEW k \in (1 + 1) .. n, NEW y \in F PROVE step[<<k, y>>] \in F
    <3>1. k \in 2 .. n
      BY <2>4
    <3> HIDE DEF step
    <3> QED
      BY <2>2, <2>3, <3>1
  <2> HIDE DEF step
  <2>7. PICK f \in [1 .. n -> F] : Repeats(1, n, seqs[1], step, f)
    BY <2>4, <2>6, LoopExists
  <2>8. f = [k \in 1 .. n |-> IF k = 1 THEN seqs[1] ELSE step[<<k, f[k - 1]>>]]
    BY <2>7 DEF Repeats
  <2>9. ASSUME NEW k \in 1 .. n PROVE f[k] = FlattenStep(seqs, f, k)
    <3>1. f[k] = IF k = 1 THEN seqs[1] ELSE step[<<k, f[k - 1]>>]
      BY <2>8, Zenon
    <3>2. k # 1 => k \in 2 .. n /\ f[k - 1] \in F
      BY <2>4
    <3> QED
      BY <2>3, <3>1, <3>2 DEF FlattenStep
  <2>10. FlattenLoop(seqs, flatten)
    <3>1. f = [k \in 1 .. n |-> FlattenStep(seqs, f, k)]
      BY <2>8, <2>9
    <3> QED
      BY <1>1, <3>1 DEF FlattenLoop
  <2> HIDE DEF flatten
  <2>11. flatten = [k \in 1 .. n |-> FlattenStep(seqs, flatten, k)]
    BY <1>1, <2>10 DEF FlattenLoop
  <2>12. \A k \in 1 .. n : flatten[k] = FlattenStep(seqs, flatten, k)
    BY <2>11, Zenon
  <2>13. \A k \in 1 .. n : flatten[k] \in F
    <3>1. 1 <= n => flatten[1] \in F
      <4>1. 1 \in 1 .. n /\ FlattenStep(seqs, flatten, 1) = seqs[1]
        BY <2>4 DEF FlattenStep
      <4> QED
        BY <2>4, <2>12, <4>1
    <3>2. ASSUME NEW k \in (1 + 1) .. n, flatten[k - 1] \in F PROVE flatten[k] \in F
      <4>1. k \in 1 .. n /\ k \in 2 .. n /\ k # 1
        BY <2>4
      <4>2. flatten[k] = flatten[k - 1] \o seqs[k]
        <5>1. flatten[k] = FlattenStep(seqs, flatten, k)
          BY <2>12, <4>1
        <5> QED
          BY <4>1, <5>1 DEF FlattenStep
      <4> QED
        BY <2>2, <3>2, <4>1, <4>2
    <3> QED
      BY <2>4, <3>1, <3>2, LoopKeeps
  <2> DEFINE flat == [k \in 0 .. n |-> IF k = 0 THEN <<>> ELSE flatten[k]]
  <2>14. <<>> \in F /\ \A y \in F : <<>> \o y = y
    BY ConcatEmptySeq, EmptySeq DEF F
  <2>15. flat \in [0 .. n -> F]
    <3>1. \A k \in 0 .. n : k # 0 => k \in 1 .. n
      OBVIOUS
    <3> QED
      BY <2>13, <2>14, <3>1
  <2>16. flat[0] = <<>> /\ \A k \in 1 .. n : flat[k] = flatten[k]
    <3>1. 0 \in 0 .. n /\ \A k \in 1 .. n : k \in 0 .. n /\ k # 0
      OBVIOUS
    <3> QED
      BY <3>1
  <2> HIDE DEF flat
  <2>17. ASSUME NEW k \in 1 .. n PROVE flat[k] = flat[k - 1] \o seqs[k]
    <3>1. flatten[k] = FlattenStep(seqs, flatten, k)
      BY <2>12
    <3>2. CASE k = 1
      <4>1. flat[k] = seqs[k] /\ flat[k - 1] = <<>> /\ seqs[k] \in F
        BY <2>5, <2>16, <3>1, <3>2 DEF FlattenStep
      <4> QED
        BY <2>14, <4>1
    <3>3. CASE k # 1
      <4>1. k - 1 \in 1 .. n
        BY <3>3
      <4> QED
        BY <2>16, <3>1, <3>3, <4>1 DEF FlattenStep
    <3> QED
      BY <3>2, <3>3
  <2>18. FlattenSeq(seqs) = flat[n]
    <3>1. n \in 1 .. n
      BY <2>4
    <3> QED
      BY <2>1, <2>16, <3>1
  <2> QED
    BY <2>15, <2>16, <2>17, <2>18 DEF Flattens, F
<1> QED
  BY <1>2, <1>3

LEMMA FlattenType ==
  ASSUME NEW S, NEW n \in Nat, NEW seqs \in [1 .. n -> Seq(S)]
  PROVE  FlattenSeq(seqs) \in Seq(S)
<1>1. PICK flat \in [0 .. n -> Seq(S)] : FlattenSeq(seqs) = flat[n]
  BY FlattenLoops
<1> QED
  BY <1>1

LEMMA MinOfThree ==
  ASSUME NEW a \in Int, NEW b \in Int, NEW c \in Int
  PROVE  Min({a, b, c}) \in {a, b, c} /\ Min({a, b, c}) <= a /\ Min({a, b, c}) <= b /\ Min({a, b, c}) <= c
<1>1. \E m \in {a, b, c} : \A x \in {a, b, c} : m <= x
  <2>1. CASE a <= b /\ a <= c
    BY <2>1
  <2>2. CASE b <= a /\ b <= c
    BY <2>2
  <2>3. CASE c <= a /\ c <= b
    BY <2>3
  <2> QED
    BY <2>1, <2>2, <2>3
<1>2. Min({a, b, c}) \in {a, b, c} /\ \A x \in {a, b, c} : Min({a, b, c}) <= x
  BY <1>1 DEF Min
<1> QED
  BY <1>2

----------------------------------------------------------------------------
(* Division *)

LEMMA DivRest ==
  ASSUME NEW a \in Int, NEW s \in Int, s > 0
  PROVE  a = s * (a \div s) + (a % s)
OBVIOUS

LEMMA DivType ==
  ASSUME NEW a \in Int, NEW s \in Int, s > 0
  PROVE  a \div s \in Int /\ a % s \in Int /\ 0 <= a % s /\ a % s < s
OBVIOUS

LEMMA DivNat ==
  ASSUME NEW a \in Int, NEW s \in Int, s > 0, a >= 0
  PROVE  a \div s >= 0
OBVIOUS

LEMMA DivIs ==
  ASSUME NEW a \in Nat, NEW s \in Nat, s > 0
  PROVE  \E q, r \in Nat : a \div s = q /\ a % s = r /\ a = s * q + r /\ r < s
<1>1. a \in Int /\ s \in Int
  OBVIOUS
<1>2. a \div s \in Nat
  BY <1>1, DivType, DivNat
<1>3. a % s \in Nat /\ a % s < s
  BY <1>1, DivType
<1>4. a = s * (a \div s) + (a % s)
  BY <1>1, DivRest, Zenon
<1> QED
  BY <1>2, <1>3, <1>4, Zenon

LEMMA TimesLess ==
  ASSUME NEW a \in Nat, NEW b \in Nat, NEW s \in Nat, a < b
  PROVE  a * s + s <= b * s
<1>1. \E d \in Nat : b = a + 1 + d
  <2>1. b - a - 1 \in Nat /\ b = a + 1 + (b - a - 1)
    OBVIOUS
  <2> QED
    BY <2>1
<1>2. PICK d \in Nat : b = a + 1 + d
  BY <1>1
<1>3. b * s = a * s + s + d * s
  BY <1>2
<1>4. d * s \in Nat /\ a * s \in Nat
  OBVIOUS
<1> QED
  BY <1>3, <1>4

\* Blocks of one size: where each of their items comes to stand.
InBlocks(seqs, n, w, F) ==
  /\ Len(F) = n * w
  /\ \A q \in 1 .. n : \A j \in 1 .. w : F[(q - 1) * w + j] = seqs[q][j]

LEMMA FlattenBlocks ==
  ASSUME NEW S, NEW n \in Nat, NEW w \in Nat, NEW seqs \in [1 .. n -> Seq(S)],
         \A q \in 1 .. n : Len(seqs[q]) = w
  PROVE  InBlocks(seqs, n, w, FlattenSeq(seqs))
<1>1. PICK flat \in [0 .. n -> Seq(S)] : Flattens(seqs, n, flat) /\ FlattenSeq(seqs) = flat[n]
  BY FlattenLoops
<1> DEFINE G == {k \in 0 .. n : InBlocks(seqs, k, w, flat[k])}
<1>2. 0 \in G
  <2>1. flat[0] = <<>> /\ 0 * w = 0
    BY <1>1 DEF Flattens
  <2> QED
    BY <2>1 DEF InBlocks
<1>3. ASSUME NEW k \in 0 .. (n - 1), k \in G PROVE k + 1 \in G
  <2> DEFINE x == k + 1
             A == flat[k]
             B == seqs[x]
  <2>1. x \in 1 .. n /\ k \in 0 .. n /\ x - 1 = k /\ k \in Nat /\ x \in Nat /\ x = k + 1
    OBVIOUS
  <2>2. A \in Seq(S) /\ B \in Seq(S) /\ Len(B) = w
    BY <2>1
  <2>3. flat[x] = A \o B
    BY <1>1, <2>1 DEF Flattens
  <2>4. Len(A) = k * w /\ \A q \in 1 .. k : \A j \in 1 .. w : A[(q - 1) * w + j] = seqs[q][j]
    BY <1>3 DEF InBlocks
  <2> HIDE DEF A, x
  <2>5. /\ Len(A \o B) = Len(A) + Len(B)
        /\ \A m \in 1 .. (Len(A) + Len(B)) : (A \o B)[m] = IF m <= Len(A) THEN A[m] ELSE B[m - Len(A)]
    <3> HIDE DEF B
    <3> QED
      BY <2>2, ConcatProperties
  <2> DEFINE e == k * w
  <2>6. e \in Nat /\ e + w = x * w /\ e = k * w
    BY <2>1
  <2>7. Len(A \o B) = x * w
    BY <2>2, <2>4, <2>5, <2>6
  <2>8. ASSUME NEW q \in 1 .. x, NEW j \in 1 .. w PROVE (A \o B)[(q - 1) * w + j] = seqs[q][j]
    <3> DEFINE h == (q - 1) * w
    <3>1. q - 1 \in Nat /\ q \in Nat /\ j \in Nat /\ h \in Nat
      BY <2>1
    <3>2. CASE q = x
      <4>1. h = e
        BY <2>1, <2>6, <3>2
      <4> HIDE DEF h, e
      <4>2. h + j \in 1 .. (e + w) /\ ~(h + j <= e) /\ (h + j) - e = j
        <5>1. e \in Int /\ 0 <= e /\ h = e /\ j \in Int /\ 1 <= j /\ j <= w
          BY <2>6, <3>1, <4>1
        <5> QED
          BY <5>1
      <4>3. Len(A) = e
        BY <2>4, <2>6
      <4>4. (A \o B)[h + j] = B[j]
        BY <2>2, <2>5, <4>2, <4>3
      <4> QED
        BY <3>2, <4>4 DEF h
    <3>3. CASE q # x
      <4>1. q \in 1 .. k /\ q - 1 < k
        BY <2>1, <3>1, <3>3
      <4>2. h + w <= e
        BY <2>1, <3>1, <4>1, TimesLess
      <4>3. A[h + j] = seqs[q][j]
        BY <2>4, <4>1
      <4> HIDE DEF h, e
      <4>4. h + j \in 1 .. (e + w) /\ h + j <= e
        BY <2>6, <3>1, <4>2
      <4>5. Len(A) = e
        BY <2>4, <2>6
      <4>6. (A \o B)[h + j] = A[h + j]
        BY <2>2, <2>5, <4>4, <4>5
      <4> QED
        BY <4>3, <4>6 DEF h
    <3> QED
      BY <3>2, <3>3
  <2>9. InBlocks(seqs, x, w, flat[x])
    BY <2>3, <2>7, <2>8 DEF InBlocks
  <2> QED
    BY <2>1, <2>9 DEF x
<1> HIDE DEF G
<1>4. 0 .. n \subseteq G
  <2>1. 0 \in Int /\ n \in Int
    OBVIOUS
  <2> QED
    BY <1>2, <1>3, <2>1, IntervalInduction
<1>5. InBlocks(seqs, n, w, flat[n])
  BY <1>4 DEF G
<1> QED
  BY <1>1, <1>5

LEMMA StridesFit ==
  ASSUME NEW n \in Nat, NEW s \in Nat, s > 0
  PROVE  /\ (n + s - 1) \div s \in Nat
         /\ n <= ((n + s - 1) \div s) * s
         /\ \A b \in 0 .. ((n + s - 1) \div s - 1) : b * s \in Nat /\ b * s < n
<1> DEFINE c == (n + s - 1) \div s
<1>1. c \in Nat /\ s * c <= n + s - 1 /\ n + s - 1 < s * c + s
  <2> DEFINE a == n + s - 1
  <2>1. a \in Nat
    OBVIOUS
  <2> HIDE DEF a
  <2>2. PICK q, r \in Nat : a \div s = q /\ a % s = r /\ a = s * q + r /\ r < s
    BY <2>1, DivIs
  <2>3. c = q
    BY <2>2 DEF a, c
  <2>4. s * q \in Nat
    OBVIOUS
  <2>5. s * q <= a /\ a < s * q + s
    BY <2>1, <2>2, <2>4
  <2> QED
    BY <2>3, <2>5 DEF a
<1> HIDE DEF c
<1>2. s * c = c * s
  BY <1>1
<1>3. ASSUME NEW b \in 0 .. (c - 1) PROVE b * s \in Nat /\ b * s < n
  <2>1. b * s \in Nat /\ b * s + s <= c * s
    BY <1>1, TimesLess
  <2>2. c * s \in Nat
    BY <1>1
  <2> QED
    BY <1>1, <1>2, <2>1, <2>2
<1>4. c * s \in Nat
  BY <1>1
<1> QED
  BY <1>1, <1>2, <1>3, <1>4 DEF c

----------------------------------------------------------------------------
(* Positions *)

LEMMA AtLeastIs ==
  ASSUME NEW a \in Int, NEW b \in Int
  PROVE  AtLeast(a, b) = IF a >= b THEN a ELSE b
BY DEF AtLeast, Max

LEMMA AtMostIs ==
  ASSUME NEW a \in Int, NEW b \in Int
  PROVE  AtMost(a, b) = IF a <= b THEN a ELSE b
BY DEF AtMost, Min

\* Where the bounds of a piece come to lie.
LEMMA BoundsAre ==
  ASSUME NEW S, NEW L \in Seq(S), NEW i \in Int
  PROVE  /\ At(L, i) = IF i < 0 THEN i + Len(L) ELSE i
         /\ At(L, i) \in Int /\ Len(L) \in Nat
         /\ From(L, i) = IF At(L, i) >= 0 THEN At(L, i) ELSE 0
         /\ To(L, i) = IF At(L, i) <= Len(L) - 1 THEN At(L, i) ELSE Len(L) - 1
<1>1. Len(L) \in Nat
  BY LenProperties
<1>2. At(L, i) \in Int
  BY <1>1 DEF At
<1> QED
  BY <1>1, <1>2, AtLeastIs, AtMostIs DEF At, From, To

----------------------------------------------------------------------------
(* The loop of llDeleteSubList *)

PlacesStep(L, kept, some, k) ==
  IF k = 0 THEN <<>> ELSE IF k \in kept THEN Append(some[k - 1], L[k]) ELSE some[k - 1]
PlacesLoop(L, kept, some) == some = [k \in 0 .. Len(L) |-> PlacesStep(L, kept, some, k)]

LEMMA PlacesIs ==
  ASSUME NEW L, NEW kept
  PROVE  Places(L, kept) = (CHOOSE some : PlacesLoop(L, kept, some))[Len(L)]
BY DEF Places, PlacesLoop, PlacesStep

Placing(S, L, kept) ==
  \E some \in [0 .. Len(L) -> Seq(S)] :
    /\ \A k \in 0 .. Len(L) : some[k] = PlacesStep(L, kept, some, k)
    /\ Places(L, kept) = some[Len(L)]

LEMMA PlacesLoops ==
  ASSUME NEW S, NEW L \in Seq(S), NEW kept
  PROVE  Placing(S, L, kept)
<1> DEFINE n == Len(L)
           step == [z \in (1 .. n) \X Seq(S) |-> IF z[1] \in kept THEN Append(z[2], L[z[1]]) ELSE z[2]]
<1>1. 0 \in Int /\ n \in Int /\ n \in Nat /\ <<>> \in Seq(S) /\ \A k \in 1 .. n : L[k] \in S
  BY LenProperties, ElementOfSeq, EmptySeq
<1>2. ASSUME NEW k \in 1 .. n, NEW y \in Seq(S)
      PROVE  step[<<k, y>>] = IF k \in kept THEN Append(y, L[k]) ELSE y
  BY <1>1
<1>3. ASSUME NEW k \in (0 + 1) .. n, NEW y \in Seq(S) PROVE step[<<k, y>>] \in Seq(S)
  <2>1. k \in 1 .. n
    BY <1>1
  <2> QED
    BY <1>1, <1>2, <2>1, AppendProperties
<1>4. \E f \in [0 .. n -> Seq(S)] : Repeats(0, n, <<>>, step, f)
  <2> HIDE DEF n, step
  <2> QED
    BY <1>1, <1>3, LoopExists
<1>5. PICK f \in [0 .. n -> Seq(S)] : f = [k \in 0 .. n |-> IF k = 0 THEN <<>> ELSE step[<<k, f[k - 1]>>]]
  BY <1>4 DEF Repeats
<1>6. ASSUME NEW k \in 0 .. n PROVE f[k] = PlacesStep(L, kept, f, k)
  <2> HIDE DEF n, step
  <2>1. f[k] = IF k = 0 THEN <<>> ELSE step[<<k, f[k - 1]>>]
    BY <1>5, Zenon
  <2>2. k # 0 => k \in 1 .. n /\ k - 1 \in 0 .. n
    BY <1>1
  <2>3. k # 0 => f[k - 1] \in Seq(S)
    BY <2>2
  <2> QED
    BY <1>2, <2>1, <2>2, <2>3 DEF PlacesStep
<1> DEFINE some == CHOOSE g : PlacesLoop(L, kept, g)
<1>7. PlacesLoop(L, kept, some)
  <2>1. f = [k \in 0 .. n |-> PlacesStep(L, kept, f, k)]
    BY <1>5, <1>6
  <2> QED
    BY <2>1 DEF PlacesLoop
<1> HIDE DEF some
<1>8. some = [k \in 0 .. n |-> PlacesStep(L, kept, some, k)]
  BY <1>7 DEF PlacesLoop
<1>9. \A k \in 0 .. n : some[k] = PlacesStep(L, kept, some, k)
  BY <1>8, Zenon
<1>10. \A k \in 0 .. n : some[k] \in Seq(S)
  <2>1. some[0] \in Seq(S)
    <3>1. PlacesStep(L, kept, some, 0) = <<>>
      BY DEF PlacesStep
    <3>2. some[0] = PlacesStep(L, kept, some, 0)
      BY <1>1, <1>9
    <3> QED
      BY <1>1, <3>1, <3>2
  <2>2. ASSUME NEW k \in (0 + 1) .. n, some[k - 1] \in Seq(S) PROVE some[k] \in Seq(S)
    <3> HIDE DEF n
    <3>1. k \in 0 .. n /\ k \in 1 .. n /\ k # 0
      BY <1>1
    <3>2. PlacesStep(L, kept, some, k) \in Seq(S)
      BY <1>1, <2>2, <3>1, AppendProperties DEF PlacesStep
    <3> QED
      BY <1>9, <3>1, <3>2
  <2> HIDE DEF n
  <2> QED
    BY <1>1, <2>1, <2>2, LoopKeeps
<1>11. some \in [0 .. n -> Seq(S)]
  BY <1>8, <1>10
<1>12. Places(L, kept) = some[n]
  BY PlacesIs DEF some
<1> HIDE DEF some
<1> QED
  BY <1>9, <1>11, <1>12 DEF Placing

\* The items but those from p + 1 to q - 1.
Without(L, p, q, M) ==
  /\ Len(M) = p + Len(L) - q + 1
  /\ \A m \in 1 .. Len(M) : M[m] = IF m <= p THEN L[m] ELSE L[m + q - p - 1]

LEMMA PlacesAround ==
  ASSUME NEW S, NEW L \in Seq(S), NEW p \in 0 .. Len(L), NEW q \in (p + 1) .. (Len(L) + 1),
         NEW kept, \A k \in DOMAIN L : k \in kept <=> k <= p \/ k >= q
  PROVE  Places(L, kept) \in Seq(S) /\ Without(L, p, q, Places(L, kept))
<1> DEFINE n == Len(L)
           Many(k) == IF k <= p THEN k ELSE IF k < q THEN p ELSE p + k - q + 1
           Holds(k, x) == /\ x \in Seq(S) /\ Len(x) = Many(k)
                          /\ \A m \in 1 .. Len(x) : x[m] = IF m <= p THEN L[m] ELSE L[m + q - p - 1]
<1>1. /\ 0 \in Int /\ n \in Int /\ n \in Nat /\ p \in Nat /\ q \in Nat /\ p <= n /\ p < q /\ q <= n + 1
      /\ DOMAIN L = 1 .. n /\ \A k \in 1 .. n : L[k] \in S
  BY LenProperties, ElementOfSeq
<1>2. PICK some \in [0 .. n -> Seq(S)] :
        (\A k \in 0 .. n : some[k] = PlacesStep(L, kept, some, k)) /\ Places(L, kept) = some[n]
  <2>1. Placing(S, L, kept)
    BY PlacesLoops
  <2> QED
    BY <2>1 DEF Placing
<1> DEFINE G == {k \in 0 .. n : Holds(k, some[k])}
<1>3. 0 \in G
  <2>1. some[0] = PlacesStep(L, kept, some, 0) /\ PlacesStep(L, kept, some, 0) = <<>>
    BY <1>1, <1>2 DEF PlacesStep
  <2>2. Holds(0, <<>>)
    BY <1>1, EmptySeq
  <2> HIDE DEF Holds
  <2> QED
    BY <1>1, <2>1, <2>2
<1>4. ASSUME NEW k \in 0 .. (n - 1), k \in G PROVE k + 1 \in G
  <2>1. k \in 0 .. n /\ k + 1 \in 1 .. n /\ k + 1 \in 0 .. n /\ Holds(k, some[k])
    BY <1>1, <1>4
  <2>2. some[k + 1] = PlacesStep(L, kept, some, k + 1)
    BY <1>2, <2>1
  <2>3. PlacesStep(L, kept, some, k + 1) = IF k + 1 \in kept THEN Append(some[k], L[k + 1]) ELSE some[k]
    BY <2>1 DEF PlacesStep
  <2>4. k + 1 \in kept <=> k + 1 <= p \/ k + 1 >= q
    BY <1>1, <2>1
  <2>5. CASE k + 1 \in kept
    <3> DEFINE x == some[k]
               y == Append(x, L[k + 1])
    <3>0. x \in Seq(S) /\ L[k + 1] \in S
      BY <1>1, <2>1
    <3> HIDE DEF x
    <3>1. /\ y \in Seq(S) /\ Len(y) = Len(x) + 1
          /\ \A m \in 1 .. Len(x) : y[m] = x[m]
          /\ y[Len(x) + 1] = L[k + 1]
      BY <3>0, AppendProperties
    <3>2. Len(x) \in Nat
      BY <3>0, LenProperties
    <3> HIDE DEF y
    <3>3. Len(x) = Many(k) /\ Many(k + 1) = Many(k) + 1
      BY <1>1, <2>1, <2>4, <2>5 DEF x
    <3>4. ASSUME NEW m \in 1 .. Len(y) PROVE y[m] = IF m <= p THEN L[m] ELSE L[m + q - p - 1]
      <4>1. CASE m \in 1 .. Len(x)
        BY <2>1, <3>1, <4>1 DEF x
      <4>2. CASE m = Len(x) + 1
        <5>1. k + 1 = IF m <= p THEN m ELSE m + q - p - 1
          BY <1>1, <2>1, <2>4, <2>5, <3>3, <4>2
        <5> QED
          BY <3>1, <4>2, <5>1
      <4> QED
        BY <3>1, <3>2, <4>1, <4>2
    <3>5. Holds(k + 1, y)
      <4> HIDE DEF Many
      <4>1. Len(y) = Many(k + 1)
        BY <3>1, <3>3
      <4> QED
        BY <3>1, <3>4, <4>1
    <3> HIDE DEF Holds
    <3> QED
      BY <2>1, <2>2, <2>3, <2>5, <3>5 DEF x, y
  <2>6. CASE k + 1 \notin kept
    <3>1. Many(k + 1) = Many(k)
      BY <1>1, <2>1, <2>4, <2>6
    <3>2. Holds(k + 1, some[k])
      BY <2>1, <3>1
    <3> HIDE DEF Holds
    <3> QED
      BY <2>1, <2>2, <2>3, <2>6, <3>2
  <2> QED
    BY <2>5, <2>6
<1>5. n \in G
  <2> HIDE DEF G, n
  <2>1. 0 .. n \subseteq G
    BY <1>1, <1>3, <1>4, IntervalInduction
  <2> QED
    BY <1>1, <2>1
<1>6. Holds(n, Places(L, kept))
  BY <1>2, <1>5
<1>7. Many(n) = p + n - q + 1
  <2> HIDE DEF n
  <2> QED
    BY <1>1
<1> QED
  BY <1>6, <1>7 DEF Without

----------------------------------------------------------------------------
(* Taking out, putting back *)

\* S is M, put into L after the item at pos.
Inserted(L, M, pos, R) ==
  /\ Len(R) = Len(L) + Len(M)
  /\ \A m \in 1 .. Len(R) :
       R[m] = IF m <= pos THEN L[m] ELSE IF m <= pos + Len(M) THEN M[m - pos] ELSE L[m - Len(M)]

LEMMA InsertIs ==
  ASSUME NEW S, NEW L \in Seq(S), NEW M \in Seq(S), NEW i \in Int
  PROVE  /\ ListInsertList(L, M, i) \in Seq(S)
         /\ i \in 0 .. Len(L) => Inserted(L, M, i, ListInsertList(L, M, i))
         /\ i > Len(L) => Inserted(L, M, Len(L), ListInsertList(L, M, i))
<1>1. PICK p \in 0 .. Len(L) :
        /\ ListInsertList(L, M, i) = Spliced(L, M, p, p + 1)
        /\ i \in 0 .. Len(L) => p = i
        /\ i > Len(L) => p = Len(L)
  <2> DEFINE pos == AtMost(AtLeast(At(L, i), 0), Len(L))
  <2>1. Len(L) \in Nat /\ At(L, i) \in Int /\ At(L, i) = IF i < 0 THEN i + Len(L) ELSE i
    BY BoundsAre
  <2>2. AtLeast(At(L, i), 0) = IF At(L, i) >= 0 THEN At(L, i) ELSE 0
    BY <2>1, AtLeastIs
  <2>3. /\ pos \in 0 .. Len(L)
        /\ i \in 0 .. Len(L) => pos = i
        /\ i > Len(L) => pos = Len(L)
    BY <2>1, <2>2, AtMostIs
  <2>4. ListInsertList(L, M, i) = Spliced(L, M, pos, pos + 1)
    BY DEF ListInsertList, Spliced
  <2> HIDE DEF pos
  <2> QED
    BY <2>3, <2>4
<1> DEFINE R == Spliced(L, M, p, p + 1)
<1>2. Len(L) \in Nat /\ Len(M) \in Nat /\ p + 1 \in 1 .. (Len(L) + 1)
  BY LenProperties
<1>3. /\ R \in Seq(S) /\ Len(R) = p + Len(M) + Len(L) - (p + 1) + 1
      /\ \A m \in 1 .. Len(R) : R[m] =
           IF m <= p THEN L[m] ELSE IF m <= p + Len(M) THEN M[m - p] ELSE L[m - p - Len(M) + (p + 1) - 1]
  <2> DEFINE q == p + 1
  <2>1. q \in 1 .. (Len(L) + 1)
    BY <1>2
  <2>2. R = Spliced(L, M, p, q)
    OBVIOUS
  <2> HIDE DEF q, R
  <2>3. SplicedShape(S, L, M, p, q, Spliced(L, M, p, q))
    BY <2>1, SplicedHasShape
  <2>4. SplicedShape(S, L, M, p, q, R)
    BY <2>2, <2>3
  <2> QED
    BY <2>4 DEF SplicedShape, q
<1> HIDE DEF R
<1>4. Inserted(L, M, p, R)
  <2>1. Len(R) = Len(L) + Len(M)
    BY <1>2, <1>3
  <2>2. ASSUME NEW m \in 1 .. Len(R) PROVE m - p - Len(M) + (p + 1) - 1 = m - Len(M)
    BY <1>2, <2>1
  <2> QED
    BY <1>3, <2>1, <2>2 DEF Inserted
<1> QED
  BY <1>1, <1>3, <1>4 DEF R

\* llDeleteSubList leaves what llList2List does not return.
LEMMA DeleteIs ==
  ASSUME NEW S, NEW L \in Seq(S), NEW i \in Int, NEW j \in Int
  PROVE  /\ DeleteSubList(L, i, j) \in Seq(S)
         /\ From(L, i) <= To(L, j) =>
              /\ To(L, j) < Len(L)
              /\ Without(L, From(L, i), To(L, j) + 2, DeleteSubList(L, i, j))
         /\ From(L, i) > To(L, j) => DeleteSubList(L, i, j) = L
<1> DEFINE kept == {k \in DOMAIN L : k - 1 < At(L, i) \/ k - 1 > At(L, j)}
           n == Len(L)
           f == From(L, i)
           t == To(L, j)
           D == DeleteSubList(L, i, j)
<1>1. /\ n \in Nat /\ At(L, i) \in Int /\ At(L, j) \in Int
      /\ f = (IF At(L, i) >= 0 THEN At(L, i) ELSE 0)
      /\ t = (IF At(L, j) <= n - 1 THEN At(L, j) ELSE n - 1)
      /\ DOMAIN L = 1 .. n /\ Len(L) = n
  BY BoundsAre, LenProperties
<1>2. D = Places(L, kept)
  BY DEF DeleteSubList
<1>3. \A k \in 1 .. n : k \in kept <=> (k - 1 < At(L, i) \/ k - 1 > At(L, j))
  BY <1>1
<1> HIDE DEF kept, n, f, t, D
<1>4. CASE f <= t
  <2>1. f \in 0 .. n /\ t + 2 \in (f + 1) .. (n + 1) /\ t < n
    BY <1>1, <1>4
  <2>2. \A k \in 1 .. n : k \in kept <=> k <= f \/ k >= t + 2
    BY <1>1, <1>3, <1>4
  <2>3. D \in Seq(S)
    BY <1>1, <1>2, <2>1, <2>2, PlacesAround
  <2>4. Without(L, f, t + 2, D)
    BY <1>1, <1>2, <2>1, <2>2, PlacesAround
  <2> QED
    BY <1>1, <1>4, <2>1, <2>3, <2>4 DEF n, f, t, D
<1>5. CASE f > t
  <2>1. n \in 0 .. n /\ n + 1 \in (n + 1) .. (n + 1)
    BY <1>1
  <2>2. \A k \in 1 .. n : k \in kept <=> k <= n \/ k >= n + 1
    BY <1>1, <1>3, <1>5
  <2>3. D \in Seq(S)
    BY <1>1, <1>2, <2>1, <2>2, PlacesAround
  <2>4. Without(L, n, n + 1, D)
    BY <1>1, <1>2, <2>1, <2>2, PlacesAround
  <2>5. Len(D) = n /\ \A m \in 1 .. n : D[m] = L[m]
    BY <1>1, <2>4 DEF Without
  <2>6. D = L
    BY <1>1, <2>3, <2>5, SeqEqual
  <2> QED
    BY <1>1, <1>5, <2>3, <2>6 DEF n, f, t, D
<1> QED
  BY <1>1, <1>4, <1>5

LEMMA PieceIs ==
  ASSUME NEW S, NEW L \in Seq(S), NEW i \in Int, NEW j \in Int
  PROVE  /\ List2List(L, i, j) \in Seq(S)
         /\ From(L, i) <= To(L, j) => Len(List2List(L, i, j)) = To(L, j) - From(L, i) + 1
         /\ \A m \in 1 .. (To(L, j) - From(L, i) + 1) : List2List(L, i, j)[m] = L[From(L, i) + m]
         /\ From(L, i) > To(L, j) => List2List(L, i, j) = <<>>
<1> DEFINE f == From(L, i)
           t == To(L, j)
           n == Len(L)
           P == SubSeq(L, f + 1, t + 1)
<1>1. n \in Nat /\ f \in Nat /\ t \in Int /\ t < n /\ n = Len(L)
  <2>1. At(L, i) \in Int /\ Len(L) \in Nat /\ From(L, i) = IF At(L, i) >= 0 THEN At(L, i) ELSE 0
    BY BoundsAre
  <2>2. At(L, j) \in Int /\ To(L, j) = IF At(L, j) <= Len(L) - 1 THEN At(L, j) ELSE Len(L) - 1
    BY BoundsAre
  <2>3. f \in Nat
    BY <2>1
  <2>4. t \in Int /\ t < n
    BY <2>1, <2>2
  <2> QED
    BY <2>1, <2>3, <2>4
<1>2. List2List(L, i, j) = P
  BY DEF List2List, From, To
<1>3. \A m \in 1 .. n : L[m] \in S
  BY ElementOfSeq
<1> HIDE DEF f, t, n
<1>4. f + 1 \in Int /\ t + 1 \in Int /\ \A m \in (f + 1) .. (t + 1) : L[m] \in S
  BY <1>1, <1>3
<1>5. /\ P \in Seq(S) /\ Len(P) = (IF f + 1 <= t + 1 THEN (t + 1) - (f + 1) + 1 ELSE 0)
      /\ \A m \in 1 .. ((t + 1) - (f + 1) + 1) : P[m] = L[(f + 1) + m - 1]
  BY <1>4, SubSeqProperties
<1> HIDE DEF P
<1>6. /\ f <= t => Len(P) = t - f + 1
      /\ f > t => Len(P) = 0
      /\ \A m \in 1 .. (t - f + 1) : P[m] = L[f + m]
  <2>1. f \in Int /\ t \in Int
    BY <1>1
  <2> HIDE DEF P
  <2>2. f <= t => Len(P) = t - f + 1
    BY <1>5, <2>1
  <2>3. f > t => Len(P) = 0
    BY <1>5, <2>1
  <2>4. ASSUME NEW m \in 1 .. (t - f + 1) PROVE P[m] = L[f + m]
    <3>1. (f + 1) + m - 1 = f + m /\ m \in 1 .. ((t + 1) - (f + 1) + 1)
      BY <2>1
    <3> QED
      BY <1>5, <3>1
  <2> QED
    BY <2>2, <2>3, <2>4
<1>7. f > t => P = <<>>
  BY <1>5, <1>6, EmptySeq
<1> QED
  BY <1>2, <1>5, <1>6, <1>7 DEF f, t

LEMMA FromTo ==
  ASSUME NEW S, NEW L \in Seq(S), NEW i \in Int
  PROVE  /\ Len(L) \in Nat
         /\ From(L, i) \in Nat
         /\ To(L, i) \in Int /\ To(L, i) < Len(L)
<1>1. Len(L) \in Nat /\ At(L, i) \in Int /\ From(L, i) = IF At(L, i) >= 0 THEN At(L, i) ELSE 0
  BY BoundsAre
<1>2. To(L, i) = IF At(L, i) <= Len(L) - 1 THEN At(L, i) ELSE Len(L) - 1
  BY BoundsAre
<1> QED
  BY <1>1, <1>2

\* Inserting the piece again where it was.
LEMMA InsertBack ==
  ASSUME NEW S, NEW L \in Seq(S), NEW i \in Int, NEW j \in Int
  PROVE  ListInsertList(DeleteSubList(L, i, j), List2List(L, i, j), From(L, i)) = L
<1> DEFINE n == Len(L)
           f == From(L, i)
           t == To(L, j)
           D == DeleteSubList(L, i, j)
           P == List2List(L, i, j)
           R == ListInsertList(D, P, f)
<1>1. n \in Nat /\ f \in Nat /\ t \in Int /\ n = Len(L) /\ D \in Seq(S) /\ P \in Seq(S)
  <2>1. D \in Seq(S)
    BY DeleteIs
  <2>2. P \in Seq(S)
    BY PieceIs
  <2> HIDE DEF D, P
  <2> QED
    BY <2>1, <2>2, FromTo
<1>2. f <= t => t < n /\ Without(L, f, t + 2, D)
  BY DeleteIs
<1>3. f > t => D = L
  BY DeleteIs
<1>4. /\ f <= t => Len(P) = t - f + 1
      /\ \A m \in 1 .. (t - f + 1) : P[m] = L[f + m]
  BY PieceIs
<1>5. f > t => P = <<>>
  BY PieceIs
<1> HIDE DEF n, f, t, D, P
<1>6. R \in Seq(S)
  BY <1>1, InsertIs
<1>7. f \in 0 .. Len(D) => Inserted(D, P, f, R)
  BY <1>1, InsertIs
<1>8. f > Len(D) => Inserted(D, P, Len(D), R)
  BY <1>1, InsertIs
<1> HIDE DEF R
<1>9. CASE f <= t
  <2>1. /\ Len(D) = f + n - (t + 2) + 1
        /\ \A m \in 1 .. Len(D) : D[m] = IF m <= f THEN L[m] ELSE L[m + (t + 2) - f - 1]
    BY <1>1, <1>2, <1>9 DEF Without
  <2>2. Len(P) = t - f + 1 /\ f \in 0 .. Len(D)
    BY <1>1, <1>2, <1>4, <1>9, <2>1
  <2>3. /\ Len(R) = Len(D) + Len(P)
        /\ \A m \in 1 .. Len(R) :
             R[m] = IF m <= f THEN D[m] ELSE IF m <= f + Len(P) THEN P[m - f] ELSE D[m - Len(P)]
    BY <1>7, <2>2 DEF Inserted
  <2>4. Len(R) = n
    BY <1>1, <2>1, <2>2, <2>3
  <2>5. ASSUME NEW m \in 1 .. n PROVE R[m] = L[m]
    <3>1. R[m] = IF m <= f THEN D[m] ELSE IF m <= f + Len(P) THEN P[m - f] ELSE D[m - Len(P)]
      BY <2>3, <2>4
    <3>2. CASE m <= f
      <4>1. m \in 1 .. Len(D)
        BY <1>1, <2>2, <3>2
      <4> QED
        BY <2>1, <3>1, <3>2, <4>1
    <3>3. CASE ~(m <= f) /\ m <= f + Len(P)
      <4>1. m - f \in 1 .. (t - f + 1) /\ f + (m - f) = m
        BY <1>1, <2>2, <3>3
      <4> QED
        BY <1>4, <3>1, <3>3, <4>1
    <3>4. CASE ~(m <= f) /\ ~(m <= f + Len(P))
      <4>1. /\ m - Len(P) \in 1 .. Len(D) /\ ~(m - Len(P) <= f)
            /\ (m - Len(P)) + (t + 2) - f - 1 = m
        <5> DEFINE y == Len(P)
                   z == Len(D)
        <5>1. y \in Nat /\ z \in Nat /\ y = t - f + 1 /\ z = f + n - t - 1
          BY SMTT(30), <1>1, <1>9, <2>1, <2>2
        <5>2. ~(m <= f) /\ ~(m <= f + y) /\ m \in 1 .. n
          BY <3>4
        <5>3. f \in Nat /\ t \in Int /\ n \in Nat
          BY <1>1
        <5> HIDE DEF y, z, f, t, n
        <5>4. m - y \in 1 .. z /\ ~(m - y <= f) /\ (m - y) + (t + 2) - f - 1 = m
          BY <5>1, <5>2, <5>3
        <5> QED
          BY <5>4 DEF y, z
      <4> QED
        BY <2>1, <3>1, <3>4, <4>1
    <3> QED
      BY <3>2, <3>3, <3>4
  <2> QED
    BY <1>1, <1>6, <2>4, <2>5, SeqEqual DEF R, D, P, f
<1>10. CASE f > t
  <2>1. D = L /\ P = <<>> /\ Len(P) = 0
    BY <1>3, <1>5, <1>10, EmptySeq
  <2>2. PICK p \in 0 .. n : Inserted(L, P, p, R)
    BY <1>1, <1>7, <1>8, <2>1
  <2>3. Len(R) = n /\ \A m \in 1 .. n : R[m] = L[m]
    BY <1>1, <2>1, <2>2 DEF Inserted
  <2> QED
    BY <1>1, <1>6, <2>3, SeqEqual DEF R, D, P, f
<1> QED
  BY <1>1, <1>9, <1>10

\* llListReplaceList inserts in the place of the piece what it is given.
LEMMA ReplaceIsInsert ==
  ASSUME NEW S, NEW L \in Seq(S), NEW M \in Seq(S), NEW i \in Int, NEW j \in Int, InBounds(L, i, j)
  PROVE  /\ ListReplaceList(L, M, i, j) \in Seq(S)
         /\ From(L, i) <= To(L, j) + 1 =>
              ListReplaceList(L, M, i, j) = ListInsertList(DeleteSubList(L, i, j), M, From(L, i))
<1> DEFINE n == Len(L)
           l == Len(M)
           f == From(L, i)
           t == To(L, j)
           D == DeleteSubList(L, i, j)
           R == ListInsertList(D, M, f)
           Q == Spliced(L, M, f, t + 2)
<1>1. /\ n \in Nat /\ l \in Nat /\ f \in 0 .. n /\ t \in -1 .. (n - 1) /\ t + 2 \in 1 .. (n + 1)
      /\ n = Len(L) /\ l = Len(M) /\ D \in Seq(S)
  <2>1. D \in Seq(S)
    BY DeleteIs
  <2>2. n \in Nat /\ l \in Nat /\ f \in Nat /\ t \in Int /\ t < n /\ f <= n /\ t >= -1
    BY FromTo, LenProperties DEF InBounds
  <2> HIDE DEF n, l, f, t
  <2>3. f \in 0 .. n /\ t \in -1 .. (n - 1) /\ t + 2 \in 1 .. (n + 1)
    BY <2>2
  <2> QED
    BY <2>1, <2>2, <2>3 DEF n, l
<1>2. Q = ListReplaceList(L, M, i, j)
  BY DEF Spliced, ListReplaceList
<1>3. Q \in Seq(S)
  BY <1>1, SplicedIs
<1>4. Len(Q) = f + Len(M) + Len(L) - (t + 2) + 1
  <2> DEFINE q == t + 2
  <2>1. f \in 0 .. Len(L) /\ q \in 1 .. (Len(L) + 1)
    BY <1>1
  <2> HIDE DEF q, f
  <2>2. Len(Spliced(L, M, f, q)) = f + Len(M) + Len(L) - q + 1
    BY <2>1, SplicedIs
  <2> QED
    BY <2>2 DEF q
<1>5. \A m \in 1 .. Len(Q) :
        Q[m] = IF m <= f THEN L[m] ELSE IF m <= f + Len(M) THEN M[m - f] ELSE L[m - f - Len(M) + (t + 2) - 1]
  <2> DEFINE q == t + 2
  <2>1. f \in 0 .. Len(L) /\ q \in 1 .. (Len(L) + 1)
    BY <1>1
  <2> HIDE DEF q, f
  <2>2. \A m \in 1 .. Len(Spliced(L, M, f, q)) :
          Spliced(L, M, f, q)[m] =
            IF m <= f THEN L[m] ELSE IF m <= f + Len(M) THEN M[m - f] ELSE L[m - f - Len(M) + q - 1]
    BY <2>1, SplicedIs
  <2> QED
    BY <2>2 DEF q
<1>6. f <= t => Without(L, f, t + 2, D)
  BY DeleteIs
<1>7. f > t => D = L
  BY DeleteIs
<1> HIDE DEF n, f, t, l, D
<1>8. R \in Seq(S)
  BY <1>1, InsertIs
<1>9. f \in 0 .. Len(D) => Inserted(D, M, f, R)
  BY <1>1, InsertIs
<1> HIDE DEF Q, R
<1>10. ASSUME f <= t + 1 PROVE Q = R
  <2>1. /\ Len(D) = f + n - (t + 2) + 1
        /\ \A m \in 1 .. Len(D) : D[m] = IF m <= f THEN L[m] ELSE L[m + (t + 2) - f - 1]
    <3>1. CASE f <= t
      BY <1>1, <1>6, <3>1 DEF Without
    <3>2. CASE f > t
      BY <1>1, <1>7, <1>10, <3>2
    <3> QED
      BY <1>1, <3>1, <3>2
  <2>2. f \in 0 .. Len(D)
    BY <1>1, <1>10, <2>1
  <2>3. /\ Len(R) = Len(D) + l
        /\ \A m \in 1 .. Len(R) : R[m] = IF m <= f THEN D[m] ELSE IF m <= f + l THEN M[m - f] ELSE D[m - l]
    BY <1>1, <1>9, <2>2 DEF Inserted
  <2>4. Len(R) = Len(Q)
    BY <1>1, <1>4, <2>1, <2>3
  <2>5. ASSUME NEW m \in 1 .. Len(Q) PROVE Q[m] = R[m]
    <3>0. m \in Int /\ 1 <= m /\ m <= Len(D) + l
      BY <1>1, <1>4, <2>1, <2>3, <2>4
    <3>1. R[m] = IF m <= f THEN D[m] ELSE IF m <= f + l THEN M[m - f] ELSE D[m - l]
      BY <2>3, <2>4
    <3>2. Q[m] = IF m <= f THEN L[m] ELSE IF m <= f + l THEN M[m - f] ELSE L[m - f - l + (t + 2) - 1]
      BY <1>1, <1>5
    <3>3. CASE m <= f
      <4>1. m \in 1 .. Len(D)
        BY <1>1, <2>2, <3>0, <3>3
      <4> QED
        BY <2>1, <3>1, <3>2, <3>3, <4>1
    <3>4. CASE ~(m <= f) /\ m <= f + l
      BY <3>1, <3>2, <3>4
    <3>5. CASE ~(m <= f) /\ ~(m <= f + l)
      <4>0. l \in Nat /\ f \in Nat /\ t \in Int /\ Len(D) \in Int
        BY <1>1, <2>1
      <4>1. m - l \in 1 .. Len(D) /\ ~(m - l <= f) /\ (m - l) + (t + 2) - f - 1 = m - f - l + (t + 2) - 1
        BY <3>0, <3>5, <4>0
      <4> QED
        BY <2>1, <3>1, <3>2, <3>5, <4>1
    <3> QED
      BY <3>3, <3>4, <3>5
  <2> QED
    BY <1>3, <1>8, <2>4, <2>5, SeqEqual
<1> QED
  BY <1>2, <1>3, <1>10 DEF f, t, R, D

\* llListFindList finds a piece of the list, at its place or earlier.
LEMMA FindsPiece ==
  ASSUME NEW S, NEW L \in Seq(S), NEW i \in Int, NEW j \in Int,
         NEW P, P = List2List(L, i, j), P # <<>>,
         NEW found, found = ListFindList(L, P)
  PROVE  found \in 0 .. From(L, i) /\ List2List(L, found, found + Len(P) - 1) = P
<1> DEFINE n == Len(L)
           l == Len(P)
           f == From(L, i)
           t == To(L, j)
           places == {p \in 0 .. (Len(L) - Len(P)) : \A k \in DOMAIN P : Equal(L[p + k], P[k])}
<1>1. n \in Nat /\ f \in Nat /\ t \in Int /\ t < n /\ n = Len(L) /\ l = Len(P)
  BY SMTT(30), BoundsAre
<1>2. f <= t /\ P \in Seq(S)
  BY <1>1, PieceIs
<1>3. l = t - f + 1 /\ \A m \in 1 .. l : P[m] = L[f + m]
  BY <1>1, <1>2, PieceIs
<1>4. DOMAIN P = 1 .. l
  BY <1>2, LenProperties
<1> HIDE DEF n, l, f, t
<1>5. f \in places
  BY <1>1, <1>2, <1>3, <1>4 DEF Equal
<1>6. \A p \in places : p \in 0 .. (n - l) /\ \A k \in 1 .. l : L[p + k] = P[k]
  BY <1>1, <1>4 DEF Equal
<1>7. places \in SUBSET Nat
  BY <1>1, <1>6
<1>8. places # {} => found = Min(places)
  BY DEF ListFindList
<1> HIDE DEF places
<1>9. found \in places /\ found <= f
  BY <1>5, <1>7, <1>8, MinIsLeast
<1>10. found \in 0 .. (n - l) /\ \A k \in 1 .. l : L[found + k] = P[k]
  BY <1>6, <1>9
<1> DEFINE last == found + Len(P) - 1
           Q == List2List(L, found, last)
<1>11. found \in Int /\ last \in Int /\ From(L, found) = found /\ To(L, last) = last /\ last = found + l - 1
  <2>1. found \in Int /\ last \in Int /\ 0 <= found /\ 0 <= last /\ last <= n - 1 /\ last = found + l - 1
    BY <1>1, <1>2, <1>3, <1>10
  <2> HIDE DEF last
  <2>2. From(L, found) = found
    BY <1>1, <2>1, BoundsAre
  <2>3. To(L, last) = last
    BY <1>1, <2>1, BoundsAre
  <2> QED
    BY <2>1, <2>2, <2>3
<1> HIDE DEF last
<1>12. Q \in Seq(S)
  BY <1>11, PieceIs
<1>13. Len(Q) = l
  <2>1. From(L, found) <= To(L, last) => Len(Q) = To(L, last) - From(L, found) + 1
    BY <1>11, PieceIs
  <2>2. l >= 1
    BY <1>1, <1>2, <1>3
  <2> QED
    BY SMTT(30), <1>1, <1>3, <1>11, <2>1, <2>2
<1>14. \A m \in 1 .. l : Q[m] = L[found + m]
  <2>1. \A m \in 1 .. (To(L, last) - From(L, found) + 1) : Q[m] = L[From(L, found) + m]
    BY <1>11, PieceIs
  <2>2. last - found + 1 = l
    BY <1>1, <1>3, <1>11
  <2> QED
    BY <1>11, <2>1, <2>2
<1>15. Q = P
  BY <1>1, <1>2, <1>10, <1>12, <1>13, <1>14, SeqEqual
<1> QED
  BY <1>1, <1>9, <1>10, <1>15 DEF f, Q, last

----------------------------------------------------------------------------
(* The loops of llListSort and llListRandomize *)

Exchanged(M, p, q) == [M EXCEPT ![p] = M[q], ![q] = M[p]]
SwapStep(L, i, j, swap, k) == IF k = 0 THEN L ELSE Exchanged(swap[k - 1], i + k, j + k)
SwapLoop(L, i, j, both, swap) == swap = [k \in 0 .. both |-> SwapStep(L, i, j, swap, k)]

LEMMA SwappedIs ==
  ASSUME NEW L, NEW i, NEW j, NEW stride, NEW both, both = Min({stride, Len(L) - i, Len(L) - j})
  PROVE  Swapped(L, i, j, stride) = (CHOOSE swap : SwapLoop(L, i, j, both, swap))[both]
BY DEF Swapped, SwapLoop, SwapStep, Exchanged

Swaps(n, L, i, j, stride, both, swap) ==
  /\ both <= stride /\ i + both <= n /\ j + both <= n /\ both \in {stride, n - i, n - j}
  /\ \A k \in 0 .. both : swap[k] = SwapStep(L, i, j, swap, k)
  /\ Swapped(L, i, j, stride) = swap[both]

\* The strides change places an element at a time, none of it outside the list.
LEMMA SwapLoops ==
  ASSUME NEW S, NEW n \in Nat, NEW L \in [1 .. n -> S], NEW i \in 0 .. n, NEW j \in 0 .. n, NEW stride \in Nat
  PROVE  \E both \in Nat : \E swap \in [0 .. both -> [1 .. n -> S]] : Swaps(n, L, i, j, stride, both, swap)
<1> DEFINE both == Min({stride, n - i, n - j})
           F == [1 .. n -> S]
<1>1. Len(L) = n
  BY SeqsAre
<1>2. both \in Nat /\ both <= stride /\ i + both <= n /\ j + both <= n /\ both \in {stride, n - i, n - j}
  <2>1. stride \in Int /\ n - i \in Int /\ n - j \in Int /\ n - i >= 0 /\ n - j >= 0
    OBVIOUS
  <2>2. both \in {stride, n - i, n - j} /\ both <= stride /\ both <= n - i /\ both <= n - j
    BY <2>1, MinOfThree
  <2> HIDE DEF both
  <2> QED
    BY <2>1, <2>2
<1> DEFINE swap == CHOOSE g : SwapLoop(L, i, j, both, g)
<1>3. Swapped(L, i, j, stride) = swap[both]
  BY <1>1, SwappedIs
<1> HIDE DEF both
<1> DEFINE step == [z \in (1 .. both) \X F |-> Exchanged(z[2], i + z[1], j + z[1])]
<1>4. ASSUME NEW k \in 1 .. both, NEW M \in F PROVE Exchanged(M, i + k, j + k) \in F
  <2>1. i + k \in 1 .. n /\ j + k \in 1 .. n
    BY <1>2
  <2> QED
    BY <2>1 DEF Exchanged
<1>5. ASSUME NEW k \in 1 .. both, NEW M \in F PROVE step[<<k, M>>] = Exchanged(M, i + k, j + k)
  OBVIOUS
<1>6. \A k \in (0 + 1) .. both : \A M \in F : step[<<k, M>>] \in F
  <2>1. ASSUME NEW k \in (0 + 1) .. both, NEW M \in F PROVE step[<<k, M>>] \in F
    <3>1. k \in 1 .. both
      BY <1>2
    <3> HIDE DEF step, F
    <3> QED
      BY <1>4, <1>5, <3>1
  <2> QED
    BY <2>1
<1>7. 0 \in Int /\ both \in Int /\ L \in F
  BY <1>2
<1> HIDE DEF step, F
<1>8. PICK f \in [0 .. both -> F] : Repeats(0, both, L, step, f)
  BY <1>6, <1>7, LoopExists
<1>9. f = [k \in 0 .. both |-> IF k = 0 THEN L ELSE step[<<k, f[k - 1]>>]]
  BY <1>8 DEF Repeats
<1>10. ASSUME NEW k \in 0 .. both PROVE f[k] = SwapStep(L, i, j, f, k)
  <2>1. f[k] = IF k = 0 THEN L ELSE step[<<k, f[k - 1]>>]
    BY <1>9, Zenon
  <2>2. k # 0 => k \in 1 .. both /\ f[k - 1] \in F
    BY <1>2
  <2> QED
    BY <1>5, <2>1, <2>2 DEF SwapStep
<1>11. SwapLoop(L, i, j, both, swap)
  <2>1. f = [k \in 0 .. both |-> SwapStep(L, i, j, f, k)]
    BY <1>9, <1>10
  <2> QED
    BY <2>1 DEF SwapLoop
<1> HIDE DEF swap
<1>12. swap = [k \in 0 .. both |-> SwapStep(L, i, j, swap, k)]
  BY <1>11 DEF SwapLoop
<1>13. \A k \in 0 .. both : swap[k] = SwapStep(L, i, j, swap, k)
  BY <1>12, Zenon
<1>14. \A k \in 0 .. both : swap[k] \in F
  <2>1. swap[0] \in F
    <3>1. 0 \in 0 .. both
      BY <1>2
    <3>2. SwapStep(L, i, j, swap, 0) = L
      BY DEF SwapStep
    <3> QED
      BY <1>7, <1>13, <3>1, <3>2
  <2>2. ASSUME NEW k \in (0 + 1) .. both, swap[k - 1] \in F PROVE swap[k] \in F
    <3>1. k \in 0 .. both /\ k \in 1 .. both /\ k # 0
      BY <1>2
    <3>2. SwapStep(L, i, j, swap, k) \in F
      BY <1>4, <2>2, <3>1 DEF SwapStep
    <3> QED
      BY <1>13, <3>1, <3>2
  <2> QED
    BY <1>7, <2>1, <2>2, LoopKeeps
<1>15. swap \in [0 .. both -> F]
  BY <1>12, <1>14
<1> QED
  BY <1>2, <1>3, <1>13, <1>15 DEF F, Swaps

Traded(L, i, j, k, m) ==
  IF i < m /\ m <= i + k THEN L[m - i + j] ELSE IF j < m /\ m <= j + k THEN L[m - j + i] ELSE L[m]

SwappedApart(S, n, L, i, j, stride, both) ==
  /\ both <= stride /\ i + both <= n /\ j + both <= n /\ both \in {stride, n - i, n - j}
  /\ Swapped(L, i, j, stride) \in [1 .. n -> S]
  /\ \A m \in 1 .. n : Swapped(L, i, j, stride)[m] = Traded(L, i, j, both, m)

\* Strides that do not overlap change places whole.
LEMMA SwapsApart ==
  ASSUME NEW S, NEW n \in Nat, NEW L \in [1 .. n -> S], NEW i \in 0 .. n, NEW j \in 0 .. n, NEW stride \in Nat,
         i + stride <= j \/ j + stride <= i \/ i = j
  PROVE  \E both \in Nat : SwappedApart(S, n, L, i, j, stride, both)
<1>0. PICK both \in Nat : \E swap \in [0 .. both -> [1 .. n -> S]] : Swaps(n, L, i, j, stride, both, swap)
  BY SwapLoops
<1>1. PICK swap \in [0 .. both -> [1 .. n -> S]] :
           /\ both <= stride /\ i + both <= n /\ j + both <= n /\ both \in {stride, n - i, n - j}
           /\ \A k \in 0 .. both : swap[k] = SwapStep(L, i, j, swap, k)
           /\ Swapped(L, i, j, stride) = swap[both]
  BY <1>0 DEF Swaps
<1> DEFINE G == {k \in 0 .. both : \A m \in 1 .. n : swap[k][m] = Traded(L, i, j, k, m)}
<1>2. 0 \in G
  <2>1. swap[0] = L
    <3>1. swap[0] = SwapStep(L, i, j, swap, 0)
      BY <1>1
    <3> QED
      BY <3>1 DEF SwapStep
  <2>2. ASSUME NEW m \in 1 .. n PROVE Traded(L, i, j, 0, m) = L[m]
    BY DEF Traded
  <2> QED
    BY <1>1, <2>1, <2>2
<1>3. ASSUME NEW k \in 0 .. (both - 1), k \in G PROVE k + 1 \in G
  <2> DEFINE M == swap[k]
             p == i + (k + 1)
             q == j + (k + 1)
  <2>1. /\ k \in Nat /\ k + 1 \in 0 .. both /\ k + 1 # 0 /\ (k + 1) - 1 = k /\ k \in 0 .. both
        /\ p \in 1 .. n /\ q \in 1 .. n /\ k < stride
    BY <1>1
  <2>2. swap[k + 1] = Exchanged(M, p, q)
    <3>1. swap[k + 1] = SwapStep(L, i, j, swap, k + 1)
      BY <1>1, <2>1
    <3> QED
      BY <2>1, <3>1 DEF SwapStep
  <2>3. M \in [1 .. n -> S] /\ \A m \in 1 .. n : M[m] = Traded(L, i, j, k, m)
    BY <1>3, <2>1
  <2>4. ASSUME NEW m \in 1 .. n
        PROVE  Exchanged(M, p, q)[m] = IF m = q THEN M[p] ELSE IF m = p THEN M[q] ELSE M[m]
    BY <2>1, <2>3 DEF Exchanged
  <2>5. p \in Int /\ q \in Int /\ p = i + k + 1 /\ q = j + k + 1 /\ i \in Int /\ j \in Int
    BY <2>1
  <2> HIDE DEF M, p, q
  <2>6. M[p] = L[p] /\ M[q] = L[q]
    <3>1. M[p] = Traded(L, i, j, k, p) /\ M[q] = Traded(L, i, j, k, q)
      BY <2>1, <2>3
    <3>2. CASE i = j
      BY <2>1, <2>5, <3>1, <3>2 DEF Traded
    <3>3. CASE i # j
      <4>1. ~(i < p /\ p <= i + k) /\ ~(j < p /\ p <= j + k) /\ ~(i < q /\ q <= i + k) /\ ~(j < q /\ q <= j + k)
        BY <2>1, <2>5, <3>3
      <4> QED
        BY <3>1, <4>1 DEF Traded
    <3> QED
      BY <3>2, <3>3
  <2>7. ASSUME NEW m \in 1 .. n PROVE Exchanged(M, p, q)[m] = Traded(L, i, j, k + 1, m)
    <3>1. M[m] = Traded(L, i, j, k, m)
      BY <2>3
    <3>2. CASE m = p
      <4>1. i < m /\ m <= i + (k + 1) /\ m - i + j = q
        BY <2>1, <2>5, <3>2
      <4> QED
        BY <2>4, <2>6, <3>2, <4>1 DEF Traded
    <3>3. CASE m = q /\ m # p
      <4>1. j < m /\ m <= j + (k + 1) /\ m - j + i = p /\ ~(i < m /\ m <= i + (k + 1))
        BY <2>1, <2>5, <3>3
      <4> QED
        BY <2>4, <2>6, <3>3, <4>1 DEF Traded
    <3>4. CASE m # p /\ m # q
      <4>1. (m <= i + (k + 1) <=> m <= i + k) /\ (m <= j + (k + 1) <=> m <= j + k)
        BY <2>1, <2>5, <3>4
      <4> QED
        BY <2>4, <3>1, <3>4, <4>1 DEF Traded
    <3> QED
      BY <3>2, <3>3, <3>4
  <2> QED
    BY <2>1, <2>2, <2>7 DEF G
<1>4. both \in G
  <2>1. 0 \in Int /\ both \in Int /\ both \in 0 .. both
    BY <1>1
  <2> HIDE DEF G
  <2>2. 0 .. both \subseteq G
    BY <1>2, <1>3, <2>1, IntervalInduction
  <2> QED
    BY <2>1, <2>2
<1> QED
  BY <1>1, <1>4 DEF SwappedApart

LEMMA OrdersAre ==
  ASSUME NEW D, NEW p
  PROVE  p \in Orders(D) <=>
           /\ p \in [D -> D]
           /\ \A v, w \in D : p[v] = p[w] => v = w
           /\ \A w \in D : \E v \in D : p[v] = w
BY DEF Orders, Bijection, Injection, Surjection, IsInjective

LEMMA RearrangedSelf ==
  ASSUME NEW L
  PROVE  Rearranged(L, L)
<1> DEFINE p == [k \in DOMAIN L |-> k]
<1>1. p \in Orders(DOMAIN L) /\ \A k \in DOMAIN L : L[k] = L[p[k]]
  BY OrdersAre
<1> QED
  BY <1>1 DEF Rearranged

LEMMA ExchangedRearranged ==
  ASSUME NEW S, NEW n \in Nat, NEW L \in [1 .. n -> S], NEW M \in [1 .. n -> S], Rearranged(M, L),
         NEW a \in 1 .. n, NEW b \in 1 .. n
  PROVE  Exchanged(M, a, b) \in [1 .. n -> S] /\ Rearranged(Exchanged(M, a, b), L)
<1> DEFINE D == 1 .. n
           R == Exchanged(M, a, b)
<1>1. DOMAIN M = D /\ Len(M) = n /\ Len(L) = n
  BY SeqsAre
<1>2. PICK p \in Orders(D) : \A k \in D : M[k] = L[p[k]]
  BY <1>1 DEF Rearranged
<1>3. p \in [D -> D] /\ (\A v, w \in D : p[v] = p[w] => v = w) /\ \A w \in D : \E v \in D : p[v] = w
  <2> HIDE DEF D
  <2>1. p \in Orders(D)
    OBVIOUS
  <2>2. p \in [D -> D]
    BY <2>1, OrdersAre
  <2>3. \A v, w \in D : p[v] = p[w] => v = w
    BY <2>1, OrdersAre
  <2>4. \A w \in D : \E v \in D : p[v] = w
    BY <2>1, OrdersAre
  <2> QED
    BY <2>2, <2>3, <2>4
<1>4. R \in [D -> S] /\ \A k \in D : R[k] = IF k = b THEN M[a] ELSE IF k = a THEN M[b] ELSE M[k]
  BY DEF Exchanged
<1>5. DOMAIN R = D /\ Len(R) = n
  BY <1>4, SeqsAre
<1> DEFINE q == [k \in D |-> IF k = b THEN p[a] ELSE IF k = a THEN p[b] ELSE p[k]]
<1>6. q \in Orders(D)
  <2>1. q \in [D -> D]
    BY <1>3
  <2>2. ASSUME NEW w \in D PROVE \E v \in D : q[v] = w
    <3>1. PICK v \in D : p[v] = w
      BY <1>3
    <3>2. CASE v = a
      BY <3>1, <3>2
    <3>3. CASE v = b /\ v # a
      BY <3>1, <3>3
    <3>4. CASE v # a /\ v # b
      BY <3>1, <3>4
    <3> QED
      BY <3>2, <3>3, <3>4
  <2>3. \A v, w \in D : q[v] = q[w] => v = w
    BY <1>3
  <2> HIDE DEF q, D
  <2> QED
    BY <2>1, <2>2, <2>3, OrdersAre
<1>7. \A k \in D : R[k] = L[q[k]]
  BY <1>2, <1>4
<1> HIDE DEF D, R, q
<1>8. Rearranged(R, L)
  BY <1>1, <1>5, <1>6, <1>7 DEF Rearranged
<1> QED
  BY <1>4, <1>8 DEF D, R

\* Whether they overlap or not, no element gets lost.
LEMMA SwapRearranges ==
  ASSUME NEW S, NEW n \in Nat, NEW L \in [1 .. n -> S], NEW M \in [1 .. n -> S], Rearranged(M, L),
         NEW i \in 0 .. n, NEW j \in 0 .. n, NEW stride \in Nat
  PROVE  Swapped(M, i, j, stride) \in [1 .. n -> S] /\ Rearranged(Swapped(M, i, j, stride), L)
<1>0. PICK both \in Nat : \E swap \in [0 .. both -> [1 .. n -> S]] : Swaps(n, M, i, j, stride, both, swap)
  BY SwapLoops
<1>1. PICK swap \in [0 .. both -> [1 .. n -> S]] :
           /\ both <= stride /\ i + both <= n /\ j + both <= n
           /\ \A k \in 0 .. both : swap[k] = SwapStep(M, i, j, swap, k)
           /\ Swapped(M, i, j, stride) = swap[both]
  BY <1>0 DEF Swaps
<1> DEFINE R == {T \in [1 .. n -> S] : Rearranged(T, L)}
<1>2. 0 <= both => swap[0] \in R
  <2>1. swap[0] = SwapStep(M, i, j, swap, 0)
    BY <1>1
  <2> QED
    BY <2>1 DEF SwapStep
<1>3. ASSUME NEW k \in (0 + 1) .. both, swap[k - 1] \in R PROVE swap[k] \in R
  <2>1. k \in 0 .. both /\ k # 0 /\ i + k \in 1 .. n /\ j + k \in 1 .. n
    BY <1>1
  <2>2. swap[k] = Exchanged(swap[k - 1], i + k, j + k)
    <3>1. swap[k] = SwapStep(M, i, j, swap, k)
      BY <1>1, <2>1
    <3> QED
      BY <2>1, <3>1 DEF SwapStep
  <2>3. swap[k - 1] \in [1 .. n -> S] /\ Rearranged(swap[k - 1], L)
    BY <1>3
  <2> QED
    BY <2>1, <2>2, <2>3, ExchangedRearranged
<1>4. \A k \in 0 .. both : swap[k] \in R
  <2>1. 0 \in Int /\ both \in Int
    BY <1>1
  <2> HIDE DEF R
  <2> QED
    BY <1>2, <1>3, <2>1, LoopKeeps
<1> QED
  BY <1>1, <1>4

LEMMA CountFits ==
  ASSUME NEW L, NEW n \in Nat, Len(L) = n, NEW stride \in Nat, stride > 0
  PROVE  /\ Count(L, stride) \in Nat /\ n <= Count(L, stride) * stride
         /\ \A k \in 1 .. Count(L, stride) : (k - 1) * stride \in 0 .. n /\ (k - 1) * stride < n
<1> DEFINE c == Count(L, stride)
<1>2. c = (n + stride - 1) \div stride
  BY DEF Count
<1>3. c \in Nat /\ n <= c * stride /\ \A b \in 0 .. (c - 1) : b * stride \in Nat /\ b * stride < n
  BY <1>2, StridesFit
<1> HIDE DEF c
<1>4. ASSUME NEW k \in 1 .. c PROVE (k - 1) * stride \in 0 .. n /\ (k - 1) * stride < n
  <2> DEFINE b == k - 1
  <2>1. b \in 0 .. (c - 1)
    BY <1>3
  <2> HIDE DEF b
  <2>2. b * stride \in Nat /\ b * stride < n
    BY <1>3, <2>1
  <2>3. b * stride \in 0 .. n
    BY <2>2
  <2> QED
    BY <2>2, <2>3 DEF b
<1> QED
  BY <1>3, <1>4 DEF c

LEMMA CountIs ==
  ASSUME NEW S, NEW n \in Nat, NEW L \in [1 .. n -> S], NEW stride \in Nat, stride > 0
  PROVE  /\ Count(L, stride) \in Nat /\ n <= Count(L, stride) * stride
         /\ \A k \in 1 .. Count(L, stride) : (k - 1) * stride \in 0 .. n /\ (k - 1) * stride < n
<1>1. Len(L) = n
  BY SeqsAre
<1> QED
  BY <1>1, CountFits

LEMMA ComparedType ==
  ASSUME NEW S, NEW n \in Nat, NEW L \in [1 .. n -> S], NEW M \in [1 .. n -> S], Rearranged(M, L),
         NEW i \in 0 .. n, NEW j \in 0 .. n, NEW stride \in Nat, NEW ascending
  PROVE  Compared(M, i, j, stride, ascending) \in [1 .. n -> S] /\ Rearranged(Compared(M, i, j, stride, ascending), L)
BY SwapRearranges DEF Compared

PassStep(L, first, stride, ascending, pass, k) ==
  IF k = first THEN L ELSE Compared(pass[k - 1], (first - 1) * stride, (k - 1) * stride, stride, ascending)
PassLoop(L, first, stride, ascending, pass) ==
  pass = [k \in first .. Count(L, stride) |-> PassStep(L, first, stride, ascending, pass, k)]

LEMMA PassIs ==
  ASSUME NEW L, NEW first, NEW stride, NEW ascending
  PROVE  Pass(L, first, stride, ascending) =
           (CHOOSE pass : PassLoop(L, first, stride, ascending, pass))[Count(L, stride)]
BY DEF Pass, PassLoop, PassStep

Passes(L, first, stride, ascending, pass) ==
  /\ \A k \in first .. Count(L, stride) : pass[k] = PassStep(L, first, stride, ascending, pass, k)
  /\ Pass(L, first, stride, ascending) = pass[Count(L, stride)]

\* The lists that a pass goes through, each the same but for the order.
LEMMA PassLoops ==
  ASSUME NEW S, NEW n \in Nat, NEW L \in [1 .. n -> S], NEW stride \in Nat, stride > 0,
         NEW first \in 1 .. Count(L, stride), NEW ascending
  PROVE  \E pass \in [first .. Count(L, stride) -> {M \in [1 .. n -> S] : Rearranged(M, L)}] :
           Passes(L, first, stride, ascending, pass)
<1> DEFINE c == Count(L, stride)
           F == {M \in [1 .. n -> S] : Rearranged(M, L)}
           pass == CHOOSE g : PassLoop(L, first, stride, ascending, g)
           At0(k) == (k - 1) * stride
<1>1. c \in Nat /\ first \in 1 .. c /\ \A k \in 1 .. c : At0(k) \in 0 .. n
  BY CountIs
<1>2. Pass(L, first, stride, ascending) = pass[c]
  BY PassIs
<1>3. ASSUME NEW k \in (first + 1) .. c, NEW M \in F PROVE Compared(M, At0(first), At0(k), stride, ascending) \in F
  <2>1. k \in 1 .. c
    BY <1>1
  <2>2. At0(first) \in 0 .. n /\ At0(k) \in 0 .. n
    BY <1>1, <2>1
  <2>3. M \in [1 .. n -> S] /\ Rearranged(M, L)
    OBVIOUS
  <2> HIDE DEF At0
  <2> QED
    BY <2>2, <2>3, ComparedType
<1>4. L \in F
  BY RearrangedSelf
<1>5. \A k, g : PassStep(L, first, stride, ascending, g, k) =
                  IF k = first THEN L ELSE Compared(g[k - 1], At0(first), At0(k), stride, ascending)
  BY DEF PassStep
<1> HIDE DEF At0, F, c
<1> DEFINE step == [z \in ((first + 1) .. c) \X F |-> Compared(z[2], At0(first), At0(z[1]), stride, ascending)]
<1>6. ASSUME NEW k \in (first + 1) .. c, NEW M \in F
      PROVE  step[<<k, M>>] = Compared(M, At0(first), At0(k), stride, ascending)
  OBVIOUS
<1>7. \A k \in (first + 1) .. c : \A M \in F : step[<<k, M>>] \in F
  <2> HIDE DEF step
  <2> QED
    BY <1>3, <1>6
<1>8. first \in Int /\ c \in Int /\ first <= c
  BY <1>1
<1> HIDE DEF step
<1>9. PICK f \in [first .. c -> F] : Repeats(first, c, L, step, f)
  BY <1>4, <1>7, <1>8, LoopExists
<1>10. f = [k \in first .. c |-> IF k = first THEN L ELSE step[<<k, f[k - 1]>>]]
  BY <1>9 DEF Repeats
<1>11. ASSUME NEW k \in first .. c PROVE f[k] = PassStep(L, first, stride, ascending, f, k)
  <2>1. f[k] = IF k = first THEN L ELSE step[<<k, f[k - 1]>>]
    BY <1>10, Zenon
  <2>2. k # first => k \in (first + 1) .. c /\ f[k - 1] \in F
    BY <1>8
  <2>3. CASE k = first
    BY <1>5, <2>1, <2>3
  <2>4. CASE k # first
    BY ZenonT(60), <1>5, <1>6, <2>1, <2>2, <2>4
  <2> QED
    BY <2>3, <2>4
<1>12. PassLoop(L, first, stride, ascending, pass)
  <2>1. f = [k \in first .. c |-> PassStep(L, first, stride, ascending, f, k)]
    BY <1>10, <1>11
  <2> QED
    BY <2>1 DEF PassLoop, c
<1> HIDE DEF pass
<1>13. pass = [k \in first .. c |-> PassStep(L, first, stride, ascending, pass, k)]
  BY <1>12 DEF PassLoop, c
<1>14. \A k \in first .. c : pass[k] = PassStep(L, first, stride, ascending, pass, k)
  BY <1>13, Zenon
<1>15. \A k \in first .. c : pass[k] \in F
  <2>1. first <= c => pass[first] \in F
    BY <1>4, <1>5, <1>8, <1>14
  <2>2. ASSUME NEW k \in (first + 1) .. c, pass[k - 1] \in F PROVE pass[k] \in F
    <3>1. k \in first .. c /\ k # first
      BY <1>8
    <3>2. pass[k] = Compared(pass[k - 1], At0(first), At0(k), stride, ascending)
      BY <1>5, <1>14, <3>1
    <3> QED
      BY <1>3, <2>2, <3>2
  <2> QED
    BY <1>8, <2>1, <2>2, LoopKeeps
<1>16. pass \in [first .. c -> F]
  BY <1>13, <1>15
<1> QED
  BY <1>2, <1>14, <1>16 DEF F, c, Passes

LEMMA RearrangedAgain ==
  ASSUME NEW S, NEW n \in Nat, NEW L \in [1 .. n -> S], NEW M \in [1 .. n -> S], NEW T \in [1 .. n -> S],
         Rearranged(T, M), Rearranged(M, L)
  PROVE  Rearranged(T, L)
<1> DEFINE D == 1 .. n
<1>1. DOMAIN T = D /\ DOMAIN M = D /\ Len(T) = n /\ Len(M) = n /\ Len(L) = n
  BY SeqsAre
<1>2. PICK p \in Orders(D) : \A k \in D : T[k] = M[p[k]]
  BY <1>1 DEF Rearranged
<1>3. PICK q \in Orders(D) : \A k \in D : M[k] = L[q[k]]
  BY <1>1 DEF Rearranged
<1> HIDE DEF D
<1>4. p \in Orders(D) /\ q \in Orders(D)
  OBVIOUS
<1>5. p \in [D -> D] /\ q \in [D -> D]
  BY <1>4, OrdersAre
<1>6. \A v, w \in D : p[v] = p[w] => v = w
  BY <1>4, OrdersAre
<1>7. \A v, w \in D : q[v] = q[w] => v = w
  BY <1>4, OrdersAre
<1>8. \A w \in D : \E v \in D : p[v] = w
  BY <1>4, OrdersAre
<1>9. \A w \in D : \E v \in D : q[v] = w
  BY <1>4, OrdersAre
<1> DEFINE r == [k \in D |-> q[p[k]]]
<1>10. r \in [D -> D]
  BY <1>5
<1>11. \A v, w \in D : r[v] = r[w] => v = w
  BY <1>5, <1>6, <1>7
<1>12. ASSUME NEW w \in D PROVE \E v \in D : r[v] = w
  <2>1. PICK u \in D : q[u] = w
    BY <1>9
  <2>2. PICK v \in D : p[v] = u
    BY <1>8
  <2> QED
    BY <2>1, <2>2
<1>13. \A k \in D : T[k] = L[r[k]]
  BY <1>2, <1>3, <1>5
<1> HIDE DEF r
<1>14. r \in Orders(D)
  BY <1>10, <1>11, <1>12, OrdersAre
<1> QED
  BY <1>1, <1>13, <1>14 DEF Rearranged

SortStep(L, stride, ascending, sorted, k) == IF k = 0 THEN L ELSE Pass(sorted[k - 1], k, stride, ascending)
SortLoop(L, stride, ascending, sorted) ==
  sorted = [k \in 0 .. Count(L, stride) |-> SortStep(L, stride, ascending, sorted, k)]

LEMMA ListSortIs ==
  ASSUME NEW L, NEW n, NEW ascending, NEW stride, stride = AtLeast(n, 1)
  PROVE  ListSort(L, n, ascending) = (CHOOSE sorted : SortLoop(L, stride, ascending, sorted))[Count(L, stride)]
BY DEF ListSort, SortLoop, SortStep

Sorts(L, m, stride, ascending, sorted) ==
  /\ \A k \in 0 .. Count(L, stride) : sorted[k] = SortStep(L, stride, ascending, sorted, k)
  /\ ListSort(L, m, ascending) = sorted[Count(L, stride)]

\* The lists after each pass.
LEMMA SortLoops ==
  ASSUME NEW S, NEW n \in Nat, NEW L \in [1 .. n -> S], NEW m \in Int, NEW ascending,
         NEW stride, stride = AtLeast(m, 1)
  PROVE  \E sorted \in [0 .. Count(L, stride) -> {M \in [1 .. n -> S] : Rearranged(M, L)}] :
           Sorts(L, m, stride, ascending, sorted)
<1> DEFINE c == Count(L, stride)
           F == {M \in [1 .. n -> S] : Rearranged(M, L)}
           sorted == CHOOSE g : SortLoop(L, stride, ascending, g)
<1>1. stride \in Nat /\ stride > 0
  BY AtLeastIs
<1>2. c \in Nat
  BY <1>1, CountIs
<1>3. ListSort(L, m, ascending) = sorted[c]
  BY ListSortIs
<1>4. ASSUME NEW k \in 1 .. c, NEW M \in F PROVE Pass(M, k, stride, ascending) \in F
  <2>1. M \in [1 .. n -> S] /\ Rearranged(M, L)
    OBVIOUS
  <2>2. Count(M, stride) = c
    BY <2>1, SeqsAre DEF Count
  <2>3. k \in 1 .. Count(M, stride)
    BY <2>2
  <2>4. PICK pass \in [k .. Count(M, stride) -> {T \in [1 .. n -> S] : Rearranged(T, M)}] :
          Passes(M, k, stride, ascending, pass)
    BY <1>1, <2>1, <2>3, PassLoops
  <2>5. Count(M, stride) \in k .. Count(M, stride)
    BY <1>2, <2>2
  <2>6. pass[Count(M, stride)] \in [1 .. n -> S] /\ Rearranged(pass[Count(M, stride)], M)
    BY <2>5
  <2> QED
    BY ZenonT(60), <2>1, <2>4, <2>6, RearrangedAgain DEF Passes
<1>5. L \in F
  BY RearrangedSelf
<1> HIDE DEF F, c
<1> DEFINE step == [z \in (1 .. c) \X F |-> Pass(z[2], z[1], stride, ascending)]
<1>6. ASSUME NEW k \in 1 .. c, NEW M \in F PROVE step[<<k, M>>] = Pass(M, k, stride, ascending)
  OBVIOUS
<1>7. ASSUME NEW k \in (0 + 1) .. c, NEW M \in F PROVE step[<<k, M>>] \in F
  <2>1. k \in 1 .. c
    BY <1>2
  <2> HIDE DEF step
  <2> QED
    BY <1>4, <1>6, <2>1
<1>8. 0 \in Int /\ c \in Int /\ 0 <= c
  BY <1>2
<1> HIDE DEF step
<1>9. PICK f \in [0 .. c -> F] : Repeats(0, c, L, step, f)
  BY <1>5, <1>7, <1>8, LoopExists
<1>10. f = [k \in 0 .. c |-> IF k = 0 THEN L ELSE step[<<k, f[k - 1]>>]]
  BY <1>9 DEF Repeats
<1>11. ASSUME NEW k \in 0 .. c PROVE f[k] = SortStep(L, stride, ascending, f, k)
  <2>1. f[k] = IF k = 0 THEN L ELSE step[<<k, f[k - 1]>>]
    BY <1>10, Zenon
  <2>2. k # 0 => k \in 1 .. c /\ f[k - 1] \in F
    BY <1>8
  <2> QED
    BY <1>6, <2>1, <2>2 DEF SortStep
<1>12. SortLoop(L, stride, ascending, sorted)
  <2>1. f = [k \in 0 .. c |-> SortStep(L, stride, ascending, f, k)]
    BY <1>10, <1>11
  <2> QED
    BY <2>1 DEF SortLoop, c
<1> HIDE DEF sorted
<1>13. sorted = [k \in 0 .. c |-> SortStep(L, stride, ascending, sorted, k)]
  BY <1>12 DEF SortLoop, c
<1>14. \A k \in 0 .. c : sorted[k] = SortStep(L, stride, ascending, sorted, k)
  BY <1>13, Zenon
<1>15. \A k \in 0 .. c : sorted[k] \in F
  <2>1. 0 <= c => sorted[0] \in F
    <3>1. 0 \in 0 .. c /\ SortStep(L, stride, ascending, sorted, 0) = L
      BY <1>8 DEF SortStep
    <3> QED
      BY <1>5, <1>14, <3>1
  <2>2. ASSUME NEW k \in (0 + 1) .. c, sorted[k - 1] \in F PROVE sorted[k] \in F
    <3>1. k \in 0 .. c /\ k \in 1 .. c /\ k # 0
      BY <1>8
    <3>2. sorted[k] = Pass(sorted[k - 1], k, stride, ascending)
      <4>1. sorted[k] = SortStep(L, stride, ascending, sorted, k)
        BY <1>14, <3>1
      <4> QED
        BY <3>1, <4>1 DEF SortStep
    <3> QED
      BY <1>4, <2>2, <3>1, <3>2
  <2> QED
    BY <1>8, <2>1, <2>2, LoopKeeps
<1>16. sorted \in [0 .. c -> F]
  BY <1>13, <1>15
<1> QED
  BY <1>3, <1>14, <1>16 DEF F, c, Sorts

Moved(M, n, k, stride, j) == Swapped(M, n - k * stride, j * stride, stride)
LeftStep(L, n, stride, left, k) ==
  IF k = 0 THEN {L} ELSE {Moved(M, n, k, stride, j) : M \in left[k - 1], j \in 0 .. ((n - k * stride) \div stride)}
LeftLoop(L, n, stride, rounds, left) == left = [k \in 0 .. rounds |-> LeftStep(L, n, stride, left, k)]

LEMMA ListRandomizeIs ==
  ASSUME NEW L, L # <<>>, NEW m
  PROVE  LET stride == AtLeast(m, 1)
             rounds == (Len(L) - 1) \div stride
         IN  ListRandomize(L, m) = (CHOOSE left : LeftLoop(L, Len(L), stride, rounds, left))[rounds]
BY DEF ListRandomize, LeftLoop, LeftStep, Moved

Shuffles(L, n, m, stride, rounds, left) ==
  /\ \A k \in 0 .. rounds : left[k] = LeftStep(L, n, stride, left, k)
  /\ ListRandomize(L, m) = left[rounds]

LEMMA RoundsFit ==
  ASSUME NEW n \in Nat, n > 0, NEW stride \in Nat, stride > 0
  PROVE  /\ (n - 1) \div stride \in Nat
         /\ \A k \in 1 .. ((n - 1) \div stride) :
              /\ n - k * stride \in 0 .. n
              /\ (n - k * stride) \div stride \in Nat
              /\ \A j \in 0 .. ((n - k * stride) \div stride) : j * stride \in 0 .. n
<1>1. n - 1 \in Nat
  OBVIOUS
<1>2. PICK q \in Nat, r \in Nat : (n - 1) \div stride = q /\ n - 1 = stride * q + r
  BY <1>1, DivIs
<1>3. ASSUME NEW k \in 1 .. q PROVE n - k * stride \in 0 .. n /\ n - k * stride > 0
  <2>1. q = k \/ (k < q /\ k \in Nat)
    OBVIOUS
  <2>2. k * stride \in Nat /\ q * stride \in Nat /\ k * stride <= q * stride
    <3>1. CASE q = k
      BY <3>1
    <3>2. CASE k < q
      <4>1. k \in Nat
        OBVIOUS
      <4> QED
        BY <3>2, <4>1, TimesLess
    <3> QED
      BY <2>1, <3>1, <3>2
  <2>3. q * stride <= n - 1
    <3>1. stride * q = q * stride
      OBVIOUS
    <3> QED
      BY <1>2, <2>2, <3>1
  <2> QED
    BY <2>2, <2>3
<1>4. ASSUME NEW k \in 1 .. q
      PROVE  /\ (n - k * stride) \div stride \in Nat
             /\ \A j \in 0 .. ((n - k * stride) \div stride) : j * stride \in 0 .. n
  <2> DEFINE i == n - k * stride
  <2>1. i \in Nat /\ i <= n
    BY <1>3
  <2> HIDE DEF i
  <2>2. PICK a \in Nat, b \in Nat : i \div stride = a /\ i = stride * a + b
    BY <2>1, DivIs
  <2>3. ASSUME NEW j \in 0 .. a PROVE j * stride \in 0 .. n
    <3>1. j \in Nat /\ j * stride \in Nat /\ a * stride \in Nat
      OBVIOUS
    <3>2. j = a \/ j < a
      OBVIOUS
    <3>3. j * stride <= a * stride
      <4>1. CASE j = a
        BY <3>1, <4>1
      <4>2. CASE j < a
        BY <3>1, <4>2, TimesLess
      <4> QED
        BY <3>2, <4>1, <4>2
    <3>4. stride * a = a * stride
      OBVIOUS
    <3> QED
      BY <2>1, <2>2, <3>1, <3>3, <3>4
  <2> QED
    BY <2>2, <2>3 DEF i
<1> QED
  BY <1>2, <1>3, <1>4

\* What may be left after each round.
LEMMA RandomizeLoops ==
  ASSUME NEW S, NEW n \in Nat, n > 0, NEW L \in [1 .. n -> S], NEW m \in Int,
         NEW stride, stride = AtLeast(m, 1), NEW rounds, rounds = (n - 1) \div stride
  PROVE  \E left \in [0 .. rounds -> SUBSET {M \in [1 .. n -> S] : Rearranged(M, L)}] :
           Shuffles(L, n, m, stride, rounds, left)
<1> DEFINE F == {M \in [1 .. n -> S] : Rearranged(M, L)}
           left == CHOOSE g : LeftLoop(L, n, stride, rounds, g)
           Js(k) == 0 .. ((n - k * stride) \div stride)
           Round(X, k) == {Moved(M, n, k, stride, j) : M \in X, j \in Js(k)}
<1>1. stride \in Nat /\ stride > 0
  BY AtLeastIs
<1>2. /\ rounds \in Nat
      /\ \A k \in 1 .. rounds : n - k * stride \in 0 .. n /\ \A j \in Js(k) : j * stride \in 0 .. n
  BY <1>1, RoundsFit
<1>3. ListRandomize(L, m) = left[rounds]
  <2>1. n = Len(L) /\ L # <<>>
    BY SeqsAre, EmptySeq
  <2> QED
    BY <2>1, ListRandomizeIs, Zenon
<1>4. ASSUME NEW k \in 1 .. rounds, NEW X \in SUBSET F PROVE Round(X, k) \in SUBSET F
  <2>1. ASSUME NEW M \in X, NEW j \in Js(k) PROVE Moved(M, n, k, stride, j) \in F
    <3>1. n - k * stride \in 0 .. n /\ j * stride \in 0 .. n
      BY <1>2
    <3>2. M \in [1 .. n -> S] /\ Rearranged(M, L)
      OBVIOUS
    <3>3. Swapped(M, n - k * stride, j * stride, stride) \in [1 .. n -> S]
      BY <1>1, <3>1, <3>2, SwapRearranges
    <3>4. Rearranged(Swapped(M, n - k * stride, j * stride, stride), L)
      BY <1>1, <3>1, <3>2, SwapRearranges
    <3> QED
      BY <3>3, <3>4 DEF Moved
  <2> QED
    BY <2>1
<1>5. {L} \in SUBSET F
  BY RearrangedSelf
<1>6. \A k, g : LeftStep(L, n, stride, g, k) = IF k = 0 THEN {L} ELSE Round(g[k - 1], k)
  BY DEF LeftStep
<1> HIDE DEF F, Round
<1> DEFINE step == [z \in (1 .. rounds) \X SUBSET F |-> Round(z[2], z[1])]
<1>7. ASSUME NEW k \in 1 .. rounds, NEW X \in SUBSET F PROVE step[<<k, X>>] = Round(X, k)
  OBVIOUS
<1>8. ASSUME NEW k \in (0 + 1) .. rounds, NEW X \in SUBSET F PROVE step[<<k, X>>] \in SUBSET F
  <2>1. k \in 1 .. rounds
    BY <1>2
  <2> HIDE DEF step
  <2>2. step[<<k, X>>] = Round(X, k)
    BY <1>7, <2>1
  <2> QED
    BY <1>4, <2>1, <2>2
<1>9. 0 \in Int /\ rounds \in Int /\ 0 <= rounds
  BY <1>2
<1> HIDE DEF step
<1>10. PICK f \in [0 .. rounds -> SUBSET F] : Repeats(0, rounds, {L}, step, f)
  BY <1>5, <1>8, <1>9, LoopExists
<1>11. f = [k \in 0 .. rounds |-> IF k = 0 THEN {L} ELSE step[<<k, f[k - 1]>>]]
  BY <1>10 DEF Repeats
<1>12. ASSUME NEW k \in 0 .. rounds PROVE f[k] = LeftStep(L, n, stride, f, k)
  <2>1. f[k] = IF k = 0 THEN {L} ELSE step[<<k, f[k - 1]>>]
    BY <1>11, Zenon
  <2>2. k # 0 => k \in 1 .. rounds /\ f[k - 1] \in SUBSET F
    BY <1>9
  <2>3. k # 0 => step[<<k, f[k - 1]>>] = Round(f[k - 1], k)
    BY <1>7, <2>2
  <2>4. LeftStep(L, n, stride, f, k) = IF k = 0 THEN {L} ELSE Round(f[k - 1], k)
    BY <1>6, Zenon
  <2> QED
    BY <2>1, <2>3, <2>4, Zenon
<1>13. LeftLoop(L, n, stride, rounds, left)
  <2>1. f = [k \in 0 .. rounds |-> LeftStep(L, n, stride, f, k)]
    BY <1>11, <1>12
  <2> QED
    BY <2>1 DEF LeftLoop
<1> HIDE DEF left
<1>14. left = [k \in 0 .. rounds |-> LeftStep(L, n, stride, left, k)]
  BY <1>13 DEF LeftLoop
<1>15. \A k \in 0 .. rounds : left[k] = LeftStep(L, n, stride, left, k)
  BY <1>14, Zenon
<1>16. \A k \in 0 .. rounds : left[k] \in SUBSET F
  <2>1. 0 <= rounds => left[0] \in SUBSET F
    BY <1>5, <1>6, <1>9, <1>15
  <2>2. ASSUME NEW k \in (0 + 1) .. rounds, left[k - 1] \in SUBSET F PROVE left[k] \in SUBSET F
    <3>1. k \in 0 .. rounds /\ k \in 1 .. rounds /\ k # 0
      BY <1>9
    <3>2. left[k] = Round(left[k - 1], k)
      BY <1>6, <1>15, <3>1
    <3> QED
      BY <1>4, <2>2, <3>1, <3>2
  <2> DEFINE G == SUBSET F
  <2> HIDE DEF G
  <2> QED
    BY <1>9, <2>1, <2>2, LoopKeeps
<1>17. left \in [0 .. rounds -> SUBSET F]
  BY <1>14, <1>16
<1> QED
  BY <1>3, <1>15, <1>17 DEF F, Shuffles

----------------------------------------------------------------------------
(* Texts *)

Elements == [kind : {"number"}, n : Int] \cup [kind : {"text"}, chars : Seq(Nat)]

LEMMA CharsType ==
  ASSUME NEW e \in Elements
  PROVE  Chars(e) \in Seq(Nat)
<1>1. Min(Digits) \in 48 .. 57
  <2>1. Digits \in SUBSET Nat /\ Digits # {} /\ Digits = 48 .. 57
    BY DEF Digits
  <2> QED
    BY <2>1, MinIsLeast
<1>2. CASE e.kind = "text"
  BY <1>2 DEF Chars, Elements
<1>3. CASE e.kind # "text"
  <2>1. e.n \in Int
    BY <1>3 DEF Elements
  <2>2. e.n < 0 => Min(Digits) - e.n \in Nat
    BY <1>1, <2>1
  <2>3. ~(e.n < 0) => Min(Digits) + e.n \in Nat
    BY <1>1, <2>1
  <2> QED
    BY <1>3, <2>1, <2>2, <2>3 DEF Chars, Minus
<1> QED
  BY <1>2, <1>3

LEMMA DumpType ==
  ASSUME NEW L \in Seq(Elements), NEW separator \in Seq(Nat)
  PROVE  DumpList2String(L, separator) \in Seq(Nat)
<1> DEFINE n == Len(L)
           seqs == [k \in DOMAIN L |-> IF k = 1 THEN Chars(L[k]) ELSE separator \o Chars(L[k])]
<1>1. n \in Nat /\ DOMAIN L = 1 .. n
  BY LenProperties
<1>2. ASSUME NEW k \in 1 .. n PROVE Chars(L[k]) \in Seq(Nat) /\ separator \o Chars(L[k]) \in Seq(Nat)
  <2>1. L[k] \in Elements
    BY ElementOfSeq
  <2> QED
    BY <2>1, CharsType, ConcatProperties
<1>3. seqs \in [1 .. n -> Seq(Nat)]
  BY <1>1, <1>2
<1> HIDE DEF seqs, n
<1>4. FlattenSeq(seqs) \in Seq(Nat)
  BY <1>1, <1>3, FlattenType
<1> QED
  BY <1>4 DEF DumpList2String, seqs

LEMMA MatchIs ==
  ASSUME NEW S, NEW chars \in Seq(S), NEW pos \in 0 .. Len(chars), NEW strings \in Seq(Seq(S))
  PROVE  /\ Match(chars, pos, strings) \in Seq(S)
         /\ Len(Match(chars, pos, strings)) \in Nat
         /\ pos + Len(Match(chars, pos, strings)) <= Len(chars)
<1> DEFINE There(s) == s # <<>> /\ pos + Len(s) <= Len(chars) /\ SubSeq(chars, pos + 1, pos + Len(s)) = s
           hits == {k \in DOMAIN strings : There(strings[k])}
           M == Match(chars, pos, strings)
<1>1. M = IF hits = {} THEN <<>> ELSE strings[Min(hits)]
  BY DEF Match
<1>2. Len(chars) \in Nat /\ pos \in Nat /\ pos <= Len(chars)
  BY LenProperties
<1> HIDE DEF M
<1>3. CASE hits = {}
  BY <1>1, <1>2, <1>3, EmptySeq DEF M
<1>4. CASE hits # {}
  <2>1. hits \in SUBSET Nat
    BY LenProperties
  <2>2. Min(hits) \in hits
    <3> HIDE DEF hits
    <3> QED
      BY <1>4, <2>1, MinIsLeast
  <2>3. Min(hits) \in DOMAIN strings /\ There(strings[Min(hits)])
    BY <2>2
  <2>4. strings[Min(hits)] \in Seq(S)
    BY <2>3, ElementOfSeq, LenProperties
  <2> HIDE DEF hits
  <2> QED
    BY <1>1, <1>4, <2>3, <2>4, LenProperties DEF M
<1> QED
  BY <1>3, <1>4 DEF M

Separator(chars, separators, pos) == Match(chars, pos, separators)
Spacer(chars, separators, spacers, pos) ==
  IF Separator(chars, separators, pos) = <<>> THEN Match(chars, pos, spacers) ELSE <<>>
After(chars, separators, spacers, pos) ==
  pos + Len(Separator(chars, separators, pos)) + Len(Spacer(chars, separators, spacers, pos))
StopAt(chars, separators, spacers, start) ==
  Min({p \in start .. Len(chars) : After(chars, separators, spacers, p) > p \/ p = Len(chars)})
Pieces(chars, separators, spacers, keep, start, pos) ==
  (IF pos > start \/ keep THEN <<SubSeq(chars, start + 1, pos)>> ELSE <<>>)
  \o (IF Spacer(chars, separators, spacers, pos) # <<>> THEN <<Spacer(chars, separators, spacers, pos)>> ELSE <<>>)
CutFrom(chars, separators, spacers, keep, cut, start, pos) ==
  IF pos = Len(chars) THEN Remaining(chars, start, keep)
  ELSE Pieces(chars, separators, spacers, keep, start, pos) \o cut[After(chars, separators, spacers, pos)]
CutStep(chars, separators, spacers, keep, cut, start) ==
  CutFrom(chars, separators, spacers, keep, cut, start, StopAt(chars, separators, spacers, start))
CutLoop(chars, separators, spacers, keep, cut) ==
  cut = [start \in 0 .. Len(chars) |-> CutStep(chars, separators, spacers, keep, cut, start)]

LEMMA CutIs ==
  ASSUME NEW chars, NEW separators, NEW spacers, NEW keep
  PROVE  Cut(chars, separators, spacers, keep) = (CHOOSE cut : CutLoop(chars, separators, spacers, keep, cut))[0]
BY DEF Cut, CutLoop, CutStep, CutFrom, StopAt, Pieces, After, Spacer, Separator

LEMMA AfterIs ==
  ASSUME NEW S, NEW chars \in Seq(S), NEW separators \in Seq(Seq(S)), NEW spacers \in Seq(Seq(S)),
         NEW pos \in 0 .. Len(chars)
  PROVE  After(chars, separators, spacers, pos) \in pos .. Len(chars) /\ Spacer(chars, separators, spacers, pos) \in Seq(S)
<1> DEFINE s == Separator(chars, separators, pos)
           t == Spacer(chars, separators, spacers, pos)
           n == Len(chars)
<1>1. s \in Seq(S) /\ Len(s) \in Nat /\ pos + Len(s) <= n /\ n \in Nat
  BY MatchIs, LenProperties DEF Separator
<1>2. CASE s = <<>>
  <2>1. t \in Seq(S) /\ Len(t) \in Nat /\ pos + Len(t) <= n
    BY <1>2, MatchIs DEF Spacer
  <2>2. Len(s) = 0
    BY <1>2, EmptySeq
  <2> HIDE DEF s, t, n
  <2>3. pos + Len(s) + Len(t) \in pos .. n
    BY <1>1, <2>1, <2>2
  <2> QED
    BY <2>1, <2>3 DEF After, s, t, n
<1>3. CASE s # <<>>
  <2>1. t = <<>> /\ t \in Seq(S) /\ Len(t) = 0
    BY <1>3, EmptySeq DEF Spacer
  <2> HIDE DEF s, t, n
  <2>2. pos + Len(s) + Len(t) \in pos .. n
    BY <1>1, <2>1
  <2> QED
    BY <2>1, <2>2 DEF After, s, t, n
<1> QED
  BY <1>2, <1>3

LEMMA PiecesType ==
  ASSUME NEW S, NEW chars \in Seq(S), NEW separators \in Seq(Seq(S)), NEW spacers \in Seq(Seq(S)),
         NEW start \in 0 .. Len(chars), NEW pos \in 0 .. Len(chars), NEW keep
  PROVE  Pieces(chars, separators, spacers, keep, start, pos) \in Seq(Seq(S))
<1>1. SubSeq(chars, start + 1, pos) \in Seq(S)
  BY PartType, LenProperties
<1>2. (IF pos > start \/ keep THEN <<SubSeq(chars, start + 1, pos)>> ELSE <<>>) \in Seq(Seq(S))
  BY <1>1
<1>3. Spacer(chars, separators, spacers, pos) \in Seq(S)
  BY AfterIs
<1>4. (IF Spacer(chars, separators, spacers, pos) # <<>> THEN <<Spacer(chars, separators, spacers, pos)>> ELSE <<>>)
        \in Seq(Seq(S))
  BY <1>3
<1> QED
  BY <1>2, <1>4, ConcatProperties DEF Pieces

LEMMA StopIs ==
  ASSUME NEW S, NEW chars \in Seq(S), NEW separators \in Seq(Seq(S)), NEW spacers \in Seq(Seq(S)),
         NEW start \in 0 .. Len(chars)
  PROVE  LET pos == StopAt(chars, separators, spacers, start)
         IN  /\ pos \in start .. Len(chars)
             /\ pos # Len(chars) => After(chars, separators, spacers, pos) \in (pos + 1) .. Len(chars)
             /\ \A p \in start .. (pos - 1) : After(chars, separators, spacers, p) = p
<1> DEFINE goes(p) == After(chars, separators, spacers, p)
           n == Len(chars)
           pos == StopAt(chars, separators, spacers, start)
           stops == {p \in start .. n : goes(p) > p \/ p = n}
<1>1. n \in Nat /\ start \in 0 .. n
  BY LenProperties
<1>2. \A p \in 0 .. n : goes(p) \in p .. n
  BY AfterIs
<1>3. pos = Min(stops)
  BY DEF StopAt
<1> HIDE DEF n, goes, pos
<1>4. stops \in SUBSET Nat /\ n \in stops
  BY <1>1
<1>5. pos \in stops /\ \A p \in stops : pos <= p
  <2> HIDE DEF stops
  <2>1. stops \in SUBSET Nat /\ stops # {}
    BY <1>4
  <2>2. Min(stops) \in stops
    BY <2>1, MinIsLeast
  <2>3. \A p \in stops : Min(stops) <= p
    BY <2>1, MinIsLeast
  <2> QED
    BY <1>3, <2>2, <2>3
<1>6. pos \in start .. n /\ (goes(pos) > pos \/ pos = n)
  BY <1>5
<1>7. pos # n => goes(pos) \in (pos + 1) .. n
  BY <1>1, <1>2, <1>6
<1>8. ASSUME NEW p \in start .. (pos - 1) PROVE goes(p) = p
  <2>1. p \in start .. n /\ p \in 0 .. n /\ p # n /\ ~(pos <= p)
    BY <1>1, <1>6
  <2>2. ~(goes(p) > p)
    BY <1>5, <2>1
  <2> QED
    BY <1>2, <2>1, <2>2
<1> QED
  BY <1>6, <1>7, <1>8 DEF n, goes, pos

Cuts(chars, separators, spacers, keep, cut) ==
  /\ \A start \in 0 .. Len(chars) : cut[start] = CutStep(chars, separators, spacers, keep, cut, start)
  /\ Cut(chars, separators, spacers, keep) = cut[0]

\* A text is cut into texts.
LEMMA CutLoops ==
  ASSUME NEW S, NEW chars \in Seq(S), NEW separators \in Seq(Seq(S)), NEW spacers \in Seq(Seq(S)), NEW keep
  PROVE  \E cut \in [0 .. Len(chars) -> Seq(Seq(S))] : Cuts(chars, separators, spacers, keep, cut)
<1> DEFINE n == Len(chars)
           F == Seq(Seq(S))
           D == 0 .. n
           stop(start) == StopAt(chars, separators, spacers, start)
           goes(start) == After(chars, separators, spacers, stop(start))
           parts(start) == Pieces(chars, separators, spacers, keep, start, stop(start))
           rest(start) == Remaining(chars, start, keep)
           T == {x \in D : stop(x) = n}
           on == [x \in D |-> goes(x)]
           val == [x \in D |-> rest(x)]
           step == [z \in D \X F |-> parts(z[1]) \o z[2]]
           measure == [x \in D |-> n - x]
           cut == CHOOSE g : CutLoop(chars, separators, spacers, keep, g)
<1>1. n \in Nat
  BY LenProperties
<1>2. Cut(chars, separators, spacers, keep) = cut[0]
  BY CutIs
<1>3. \A x \in D : stop(x) \in x .. n /\ (stop(x) # n => goes(x) \in (stop(x) + 1) .. n)
  BY StopIs
<1>4. \A x \in D : parts(x) \in F
  <2>1. ASSUME NEW x \in D PROVE parts(x) \in F
    <3>1. stop(x) \in 0 .. n
      BY <1>1, <1>3
    <3> HIDE DEF stop
    <3> QED
      BY <3>1, PiecesType
  <2> QED
    BY <2>1
<1>5. \A x \in D : rest(x) \in F
  <2>1. ASSUME NEW x \in D PROVE rest(x) \in F
    <3>1. SubSeq(chars, x + 1, n) \in Seq(S)
      BY <1>1, PartType
    <3> QED
      BY <3>1 DEF Remaining
  <2> QED
    BY <2>1
<1>6. <<>> \in F /\ \A x, y \in F : x \o y \in F
  BY EmptySeq, ConcatProperties
<1>7. \A g, x : CutStep(chars, separators, spacers, keep, g, x) =
                  IF stop(x) = n THEN rest(x) ELSE parts(x) \o g[goes(x)]
  BY DEF CutStep, CutFrom
<1> HIDE DEF n, F, goes, parts, stop, rest
<1>8. \A x \in D \ T : on[x] \in D /\ measure[on[x]] < measure[x]
  <2>1. ASSUME NEW x \in D, stop(x) # n PROVE goes(x) \in D /\ n - goes(x) < n - x
    BY <1>1, <1>3, <2>1
  <2> QED
    BY <2>1
<1>9. measure \in [D -> Nat] /\ \A x \in D : measure[x] <= n
  BY <1>1
<1>10. \A x \in D : on[x] = goes(x) /\ val[x] = rest(x) /\ (x \in T <=> stop(x) = n)
  OBVIOUS
<1>11. \A x \in D : \A y \in F : step[<<x, y>>] = parts(x) \o y
  OBVIOUS
<1>12. D = 0 .. n /\ 0 \in D
  BY <1>1
<1> HIDE DEF D, T, on, val, step, measure
<1>13. \A x \in D \cap T : val[x] \in F
  BY <1>5, <1>10
<1>14. \A x \in D \ T : \A y \in F : step[<<x, y>>] \in F
  BY <1>4, <1>6, <1>11
<1>15. PICK f \in [D -> F] : Recurses(D, T, on, val, step, f)
  BY <1>1, <1>6, <1>8, <1>9, <1>13, <1>14, RecursionExists
<1>16. f = [x \in D |-> IF x \in T THEN val[x] ELSE step[<<x, f[on[x]]>>]]
  BY <1>15 DEF Recurses
<1>17. ASSUME NEW x \in D PROVE f[x] = CutStep(chars, separators, spacers, keep, f, x)
  <2>1. f[x] = IF x \in T THEN val[x] ELSE step[<<x, f[on[x]]>>]
    BY <1>16, Zenon
  <2>2. CASE x \in T
    BY <1>7, <1>10, <2>1, <2>2
  <2>3. CASE x \notin T
    <3>1. on[x] \in D /\ on[x] = goes(x) /\ f[on[x]] \in F /\ stop(x) # n
      BY <1>8, <1>10, <2>3
    <3>2. step[<<x, f[on[x]]>>] = parts(x) \o f[on[x]]
      BY <1>11, <3>1
    <3> QED
      BY <1>7, <2>1, <2>3, <3>1, <3>2
  <2> QED
    BY <2>2, <2>3
<1>18. CutLoop(chars, separators, spacers, keep, cut)
  <2>1. f = [x \in D |-> CutStep(chars, separators, spacers, keep, f, x)]
    BY <1>16, <1>17
  <2> QED
    BY <1>12, <2>1 DEF CutLoop, n
<1> HIDE DEF cut
<1>19. cut = [x \in D |-> CutStep(chars, separators, spacers, keep, cut, x)]
  BY <1>12, <1>18 DEF CutLoop, n
<1>20. \A x \in D : cut[x] = CutStep(chars, separators, spacers, keep, cut, x)
  BY <1>19, Zenon
<1>21. ASSUME NEW x \in D, \A y \in D : y > x => cut[y] = f[y] PROVE cut[x] = f[x]
  <2>1. cut[x] = CutStep(chars, separators, spacers, keep, cut, x)
    BY <1>20
  <2>2. f[x] = CutStep(chars, separators, spacers, keep, f, x)
    BY <1>17
  <2>3. stop(x) # n => cut[goes(x)] = f[goes(x)]
    BY <1>1, <1>3, <1>12, <1>21
  <2> QED
    BY <1>7, <2>1, <2>2, <2>3
<1>22. \A x \in D : cut[x] = f[x]
  <2> DEFINE G == {k \in 0 .. n : \A y \in D : y >= n - k => cut[y] = f[y]}
  <2>1. 0 \in G
    <3>1. ASSUME NEW y \in D, y >= n - 0 PROVE cut[y] = f[y]
      BY <1>1, <1>12, <1>21, <3>1
    <3> QED
      BY <1>1, <3>1
  <2>2. ASSUME NEW k \in 0 .. (n - 1), k \in G PROVE k + 1 \in G
    <3>1. ASSUME NEW y \in D, y >= n - (k + 1) PROVE cut[y] = f[y]
      <4>1. \A z \in D : z > y => cut[z] = f[z]
        BY <1>1, <1>12, <2>2, <3>1
      <4> QED
        BY <1>21, <4>1
    <3> QED
      BY <1>1, <3>1
  <2>3. n \in G
    <3>1. 0 \in Int /\ n \in Int /\ n \in 0 .. n
      BY <1>1
    <3> HIDE DEF G
    <3>2. 0 .. n \subseteq G
      BY <2>1, <2>2, <3>1, IntervalInduction
    <3> QED
      BY <3>1, <3>2
  <2> QED
    BY <1>1, <1>12, <2>3
<1>23. cut = f
  BY <1>16, <1>19, <1>22
<1>24. cut \in [D -> F]
  BY <1>23
<1> QED
  BY <1>2, <1>12, <1>20, <1>24 DEF n, F, Cuts

LEMMA CutType ==
  ASSUME NEW S, NEW chars \in Seq(S), NEW separators \in Seq(Seq(S)), NEW spacers \in Seq(Seq(S)), NEW keep
  PROVE  Cut(chars, separators, spacers, keep) \in Seq(Seq(S))
<1>1. PICK cut \in [0 .. Len(chars) -> Seq(Seq(S))] : Cuts(chars, separators, spacers, keep, cut)
  BY CutLoops
<1>2. 0 \in 0 .. Len(chars)
  BY LenProperties
<1> QED
  BY <1>1, <1>2 DEF Cuts

LEMMA TrimmedType ==
  ASSUME NEW chars \in Seq(Nat)
  PROVE  Trimmed(chars) \in Seq(Nat)
<1> DEFINE spaces == {k \in 0 .. Len(chars) : \A m \in 1 .. k : chars[m] = Space}
<1>1. Len(chars) \in Nat
  BY LenProperties
<1>2. spaces \in SUBSET (0 .. Len(chars)) /\ 0 \in spaces
  BY <1>1
<1>3. Max(spaces) \in 0 .. Len(chars)
  <2> HIDE DEF spaces
  <2>1. Max(spaces) \in spaces
    BY <1>1, <1>2, MaxIsGreatest
  <2> QED
    BY <1>2, <2>1
<1> HIDE DEF spaces
<1>4. SubSeq(chars, Max(spaces) + 1, Len(chars)) \in Seq(Nat)
  BY <1>1, <1>3, PartType
<1> QED
  BY <1>4 DEF Trimmed, spaces

LEMMA TextsType ==
  ASSUME NEW strings \in Seq(Seq(Nat))
  PROVE  Texts(strings) \in Seq(Elements)
<1>1. DOMAIN strings = 1 .. Len(strings) /\ Len(strings) \in Nat
  BY LenProperties
<1>2. \A k \in 1 .. Len(strings) : Text(strings[k]) \in Elements
  BY ElementOfSeq DEF Text, Elements
<1>3. Texts(strings) \in [1 .. Len(strings) -> Elements]
  BY <1>1, <1>2 DEF Texts
<1> QED
  BY <1>1, <1>3, SeqsAre

LEMMA CSVType ==
  ASSUME NEW chars \in Seq(Nat)
  PROVE  CSV2List(chars) \in Seq(Elements)
<1> DEFINE pieces == Cut(chars, <<<<Comma>>>>, <<>>, TRUE)
           n == Len(pieces)
           T == [k \in DOMAIN pieces |-> Text(IF k < Len(pieces) THEN Trimmed(pieces[k]) ELSE pieces[k])]
<1>1. pieces \in Seq(Seq(Nat))
  <2>1. <<<<Comma>>>> \in Seq(Seq(Nat)) /\ <<>> \in Seq(Seq(Nat))
    BY DEF Comma
  <2> QED
    BY <2>1, CutType
<1>2. CSV2List(chars) = T
  BY DEF CSV2List
<1> HIDE DEF pieces
<1>3. DOMAIN pieces = 1 .. n /\ n \in Nat
  BY <1>1, LenProperties
<1>4. ASSUME NEW k \in 1 .. n PROVE Text(IF k < Len(pieces) THEN Trimmed(pieces[k]) ELSE pieces[k]) \in Elements
  <2>1. pieces[k] \in Seq(Nat)
    BY <1>1, ElementOfSeq
  <2>2. Trimmed(pieces[k]) \in Seq(Nat)
    BY <2>1, TrimmedType
  <2> QED
    BY <2>1, <2>2 DEF Text, Elements
<1>5. T \in [1 .. n -> Elements]
  BY <1>3, <1>4
<1> QED
  BY <1>2, <1>3, <1>5, SeqsAre

----------------------------------------------------------------------------
(* The values *)

\* A list is a sequence of numbers and texts, a text one of codes.
ListsTypeOK ==
  /\ IsList => value.items \in Seq(Elements)
  /\ IsText => value.chars \in Seq(Nat)

LEMMA ReturnsList ==
  ASSUME NEW L \in Seq(Elements), value' = List(L)
  PROVE  ListsTypeOK'
BY DEF ListsTypeOK, IsList, IsText, List

LEMMA ReturnsText ==
  ASSUME NEW chars \in Seq(Nat), value' = Text(chars)
  PROVE  ListsTypeOK'
BY DEF ListsTypeOK, IsList, IsText, Text

LEMMA ReturnsNumber ==
  ASSUME NEW n, value' = Number(n)
  PROVE  ListsTypeOK'
BY DEF ListsTypeOK, IsList, IsText, Number

LEMMA ItemsType ==
  ASSUME NEW e \in Items
  PROVE  e \in Elements /\ <<e>> \in Seq(Elements)
<1>1. e \in Elements
  BY ListsAssumption DEF Elements
<1> QED
  BY <1>1

LEMMA FewType ==
  ASSUME NEW M \in Few(Items)
  PROVE  M \in Seq(Elements)
BY ItemsType, EmptySeq DEF Few

LEMMA FewSeparators ==
  ASSUME NEW s \in Few(Separators)
  PROVE  s \in Seq(Seq(Nat))
<1>1. \A x \in Separators : <<x>> \in Seq(Seq(Nat))
  BY ListsAssumption
<1> QED
  BY <1>1, EmptySeq DEF Few

LEMMA SortType ==
  ASSUME NEW S, NEW L \in Seq(S), NEW m \in Int, NEW ascending
  PROVE  ListSort(L, m, ascending) \in Seq(S)
<1> DEFINE n == Len(L)
           stride == AtLeast(m, 1)
<1>1. n \in Nat /\ L \in [1 .. n -> S]
  BY LenProperties, SeqsAre
<1>2. stride \in Nat /\ stride > 0
  BY AtLeastIs
<1> HIDE DEF n
<1>3. Count(L, stride) \in Nat
  BY <1>1, <1>2, CountIs
<1>4. PICK sorted \in [0 .. Count(L, stride) -> {M \in [1 .. n -> S] : Rearranged(M, L)}] :
        Sorts(L, m, stride, ascending, sorted)
  BY <1>1, SortLoops
<1>5. ListSort(L, m, ascending) \in [1 .. n -> S]
  <2>1. Count(L, stride) \in 0 .. Count(L, stride)
    BY <1>3
  <2> QED
    BY <1>4, <2>1 DEF Sorts
<1> QED
  BY <1>1, <1>5, SeqsAre

LEMMA RandomizeType ==
  ASSUME NEW S, NEW L \in Seq(S), NEW m \in Int, NEW T \in ListRandomize(L, m)
  PROVE  T \in Seq(S)
<1> DEFINE n == Len(L)
           stride == AtLeast(m, 1)
           rounds == (n - 1) \div stride
<1>1. n \in Nat /\ L \in [1 .. n -> S]
  BY LenProperties, SeqsAre
<1>2. CASE L = <<>>
  BY <1>2 DEF ListRandomize
<1>3. CASE L # <<>>
  <2>1. n > 0
    BY <1>3, EmptySeq
  <2>2. stride \in Nat /\ stride > 0
    BY AtLeastIs
  <2>3. rounds \in Nat
    BY <1>1, <2>1, <2>2, RoundsFit
  <2> HIDE DEF n
  <2>4. PICK left \in [0 .. rounds -> SUBSET {M \in [1 .. n -> S] : Rearranged(M, L)}] :
          Shuffles(L, n, m, stride, rounds, left)
    BY <1>1, <2>1, RandomizeLoops
  <2>5. T \in [1 .. n -> S]
    <3> HIDE DEF rounds, stride
    <3>1. rounds \in 0 .. rounds
      BY <2>3
    <3> QED
      BY <2>4, <3>1 DEF Shuffles
  <2> QED
    BY <1>1, <2>5, SeqsAre
<1> QED
  BY <1>2, <1>3

LEMMA ListsStepType ==
  ASSUME ListsTypeOK, [ListsNext]_value
  PROVE  ListsTypeOK'
<1>1. IsList => L0 \in Seq(Elements)
  BY DEF ListsTypeOK, L0
<1>2. IsText => value.chars \in Seq(Nat)
  BY DEF ListsTypeOK
<1>3. Indices \subseteq Int /\ Strides \subseteq Int
  <2>1. MaxSize \in Nat
    BY ListsAssumption
  <2> QED
    BY <2>1 DEF Indices, Strides
<1>4. CASE Literal
  <2>1. CASE value' = List(<<>>)
    BY <2>1, EmptySeq, ReturnsList
  <2>2. CASE value' \in Items
    <3>1. value' \in Elements
      BY <2>2, ItemsType
    <3> QED
      BY <3>1 DEF ListsTypeOK, IsList, IsText, Elements
  <2> QED
    BY <1>4, <2>1, <2>2 DEF Literal
<1>5. CASE Add
  <2>1. PICK e \in Items : value' = List(Append(L0, e))
    BY <1>5 DEF Add, Returns
  <2>2. Append(L0, e) \in Seq(Elements)
    BY <1>1, <1>5, ItemsType, AppendProperties DEF Add
  <2> QED
    BY <2>1, <2>2, ReturnsList
<1>6. CASE Slice
  <2>1. PICK i, j \in Indices : value' = List(List2List(L0, i, j))
    BY <1>6 DEF Slice, Returns
  <2>2. List2List(L0, i, j) \in Seq(Elements)
    BY <1>1, <1>3, <1>6, PieceIs DEF Slice
  <2> QED
    BY <2>1, <2>2, ReturnsList
<1>7. CASE Delete
  <2>1. PICK i, j \in Indices : value' = List(DeleteSubList(L0, i, j))
    BY <1>7 DEF Delete, Returns
  <2>2. DeleteSubList(L0, i, j) \in Seq(Elements)
    BY <1>1, <1>3, <1>7, DeleteIs DEF Delete
  <2> QED
    BY <2>1, <2>2, ReturnsList
<1>8. CASE Insert
  <2>1. PICK e \in Items, i \in Indices : value' = List(ListInsertList(L0, <<e>>, i))
    BY <1>8 DEF Insert, Returns
  <2>2. L0 \in Seq(Elements) /\ <<e>> \in Seq(Elements) /\ i \in Int
    BY <1>1, <1>3, <1>8, ItemsType DEF Insert
  <2>3. ListInsertList(L0, <<e>>, i) \in Seq(Elements)
    BY <2>2, InsertIs
  <2> QED
    BY <2>1, <2>3, ReturnsList
<1>9. CASE Replace
  <2>1. PICK M \in Few(Items), i, j \in Indices :
          value' = IF InBounds(L0, i, j) THEN List(ListReplaceList(L0, M, i, j)) ELSE Unknown
    BY <1>9 DEF Replace, Returns
  <2>2. L0 \in Seq(Elements) /\ M \in Seq(Elements) /\ i \in Int /\ j \in Int
    BY <1>1, <1>3, <1>9, FewType DEF Replace
  <2>3. CASE InBounds(L0, i, j)
    <3>1. ListReplaceList(L0, M, i, j) \in Seq(Elements)
      BY <2>2, <2>3, ReplaceIsInsert
    <3> QED
      BY <2>1, <2>3, <3>1, ReturnsList
  <2>4. CASE ~InBounds(L0, i, j)
    BY <2>1, <2>4 DEF Unknown, ListsTypeOK, IsList, IsText
  <2> QED
    BY <2>3, <2>4
<1>10. CASE Find
  <2>1. \E n : value' = Number(n)
    BY <1>10 DEF Find, Returns
  <2> QED
    BY <2>1, ReturnsNumber
<1>11. CASE Sort
  <2>1. PICK m \in Strides, ascending \in BOOLEAN : value' = List(ListSort(L0, m, ascending))
    BY <1>11 DEF Sort, Returns
  <2>2. ListSort(L0, m, ascending) \in Seq(Elements)
    BY <1>1, <1>3, <1>11, SortType DEF Sort
  <2> QED
    BY <2>1, <2>2, ReturnsList
<1>12. CASE Randomize
  <2>1. PICK m \in Strides : \E T \in ListRandomize(L0, m) : value' = List(T)
    BY <1>12 DEF Randomize, Returns
  <2>2. PICK T \in ListRandomize(L0, m) : value' = List(T)
    BY <2>1
  <2>3. T \in Seq(Elements)
    BY <1>1, <1>3, <1>12, RandomizeType DEF Randomize
  <2> QED
    BY <2>2, <2>3, ReturnsList
<1>13. CASE Dump
  <2>1. PICK s \in Separators \cup {<<>>} : value' = Text(DumpList2String(L0, s))
    BY <1>13 DEF Dump, Returns
  <2>2. s \in Seq(Nat)
    BY ListsAssumption, EmptySeq
  <2>3. DumpList2String(L0, s) \in Seq(Nat)
    BY <1>1, <1>13, <2>2, DumpType DEF Dump
  <2> QED
    BY <2>1, <2>3, ReturnsText
<1>14. CASE ToCSV
  <2>1. value' = Text(DumpList2String(L0, <<Comma, Space>>))
    BY <1>14 DEF ToCSV, Returns, List2CSV
  <2>2. <<Comma, Space>> \in Seq(Nat)
    BY DEF Comma, Space
  <2>3. DumpList2String(L0, <<Comma, Space>>) \in Seq(Nat)
    BY <1>1, <1>14, <2>2, DumpType DEF ToCSV
  <2> QED
    BY <2>1, <2>3, ReturnsText
<1>15. CASE FromCSV
  <2>1. value' = List(CSV2List(value.chars)) /\ value.chars \in Seq(Nat)
    BY <1>2, <1>15 DEF FromCSV, Returns
  <2> QED
    BY <2>1, CSVType, ReturnsList
<1>16. CASE Parse
  <2>1. PICK separators, spacers \in Few(Separators), keep \in BOOLEAN :
          value' = List(Texts(Cut(value.chars, separators, spacers, keep)))
    BY <1>16 DEF Parse, Returns, ParseString
  <2>2. value.chars \in Seq(Nat) /\ separators \in Seq(Seq(Nat)) /\ spacers \in Seq(Seq(Nat))
    BY <1>2, <1>16, FewSeparators DEF Parse
  <2>3. Cut(value.chars, separators, spacers, keep) \in Seq(Seq(Nat))
    BY <2>2, CutType
  <2> QED
    BY <2>1, <2>3, TextsType, ReturnsList
<1>17. CASE PickString
  <2>1. PICK i \in Indices : value' = List2String(L0, i)
    BY <1>17 DEF PickString, Returns
  <2>2. L0 \in Seq(Elements) /\ i \in Int
    BY <1>1, <1>3, <1>17 DEF PickString
  <2>3. CASE At(L0, i) \in 0 .. (Len(L0) - 1)
    <3>1. L0[At(L0, i) + 1] \in Elements
      <4>1. Len(L0) \in Nat /\ At(L0, i) + 1 \in 1 .. Len(L0)
        BY <2>2, <2>3, LenProperties
      <4> QED
        BY <2>2, <4>1, ElementOfSeq
    <3>2. Chars(L0[At(L0, i) + 1]) \in Seq(Nat)
      BY <3>1, CharsType
    <3> QED
      BY <2>1, <2>3, <3>2, ReturnsText DEF List2String
  <2>4. CASE At(L0, i) \notin 0 .. (Len(L0) - 1)
    BY <2>1, <2>4, EmptySeq, ReturnsText DEF List2String
  <2> QED
    BY <2>3, <2>4
<1>18. CASE PickInteger
  <2>1. PICK i \in Indices : value' = List2Integer(L0, i)
    BY <1>18 DEF PickInteger, Returns
  <2>2. value'.kind = "number"
    BY <2>1 DEF List2Integer, Number
  <2> QED
    BY <2>2 DEF ListsTypeOK, IsList, IsText
<1>19. CASE UNCHANGED value
  BY <1>19 DEF ListsTypeOK, IsList, IsText
<1> QED
  BY <1>4, <1>5, <1>6, <1>7, <1>8, <1>9, <1>10, <1>11, <1>12, <1>13, <1>14, <1>15, <1>16, <1>17, <1>18, <1>19
  DEF ListsNext

\* What the builtins of lists return is a list of numbers and texts or a text, whatever
\* they are given.
THEOREM ListsTyped == ListsSpec => []ListsTypeOK
<1>1. ListsInit => ListsTypeOK
  BY EmptySeq DEF ListsInit, ListsTypeOK, IsList, IsText, List
<1>2. ListsTypeOK /\ [ListsNext]_value => ListsTypeOK'
  BY ListsStepType
<1> QED
  BY <1>1, <1>2, PTL DEF ListsSpec

LEMMA CutsAndPastes ==
  ASSUME ListsTypeOK
  PROVE  CutAndPaste
<1> SUFFICES ASSUME IsList, NEW i \in Indices, NEW j \in Indices
             PROVE  LET piece == List2List(L0, i, j)
                        rest == DeleteSubList(L0, i, j)
                        found == ListFindList(L0, piece)
                    IN  /\ ListInsertList(rest, piece, From(L0, i)) = L0
                        /\ InBounds(L0, i, j) /\ From(L0, i) <= To(L0, j) + 1 =>
                             \A M \in Few(Items) : ListReplaceList(L0, M, i, j) = ListInsertList(rest, M, From(L0, i))
                        /\ piece # <<>> =>
                             /\ found \in 0 .. From(L0, i)
                             /\ List2List(L0, found, found + Len(piece) - 1) = piece
  BY DEF CutAndPaste
<1>1. L0 \in Seq(Elements)
  BY DEF ListsTypeOK, L0
<1>2. i \in Int /\ j \in Int
  BY ListsAssumption DEF Indices
<1>3. ListInsertList(DeleteSubList(L0, i, j), List2List(L0, i, j), From(L0, i)) = L0
  BY <1>1, <1>2, InsertBack
<1>4. ASSUME InBounds(L0, i, j), From(L0, i) <= To(L0, j) + 1, NEW M \in Few(Items)
      PROVE  ListReplaceList(L0, M, i, j) = ListInsertList(DeleteSubList(L0, i, j), M, From(L0, i))
  <2>1. M \in Seq(Elements)
    BY FewType
  <2> QED
    BY <1>1, <1>2, <1>4, <2>1, ReplaceIsInsert
<1>5. ASSUME NEW piece, piece = List2List(L0, i, j), piece # <<>>
      PROVE  /\ ListFindList(L0, piece) \in 0 .. From(L0, i)
             /\ List2List(L0, ListFindList(L0, piece), ListFindList(L0, piece) + Len(piece) - 1) = piece
  BY <1>1, <1>2, <1>5, FindsPiece
<1> QED
  BY <1>3, <1>4, <1>5

\* llDeleteSubList removes what llList2List returns, llListReplaceList puts something
\* else in its place and llListFindList finds it, whatever the lists and the indices are.
THEOREM PiecesKeepTheirPlaces == ListsSpec => []CutAndPaste
<1>1. ListsTypeOK => CutAndPaste
  BY CutsAndPastes
<1> QED
  BY <1>1, ListsTyped, PTL

----------------------------------------------------------------------------
(* The order of llListSort *)

\* strcmp orders texts strictly.
LEMMA BeforeStrict ==
  ASSUME NEW s \in Seq(Nat)
  PROVE  ~Before(s, s)
<1> SUFFICES ASSUME NEW k \in DOMAIN s, s[k] < s[k] PROVE FALSE
  BY DEF Before
<1>1. s[k] \in Nat
  BY LenProperties, ElementOfSeq
<1> QED
  BY <1>1

LEMMA BeforeGoesOn ==
  ASSUME NEW s \in Seq(Nat), NEW t \in Seq(Nat), NEW u \in Seq(Nat), Before(s, t), Before(t, u)
  PROVE  Before(s, u)
<1>1. PICK k \in DOMAIN t : /\ \A m \in 1 .. (k - 1) : m \in DOMAIN s /\ s[m] = t[m]
                            /\ k \notin DOMAIN s \/ s[k] < t[k]
  BY DEF Before
<1>2. PICK l \in DOMAIN u : /\ \A m \in 1 .. (l - 1) : m \in DOMAIN t /\ t[m] = u[m]
                            /\ l \notin DOMAIN t \/ t[l] < u[l]
  BY DEF Before
<1>3. DOMAIN s = 1 .. Len(s) /\ DOMAIN t = 1 .. Len(t) /\ DOMAIN u = 1 .. Len(u)
  BY LenProperties
<1>4. Len(s) \in Nat /\ Len(t) \in Nat /\ Len(u) \in Nat
  BY LenProperties
<1>5. (\A m \in DOMAIN s : s[m] \in Nat) /\ (\A m \in DOMAIN t : t[m] \in Nat) /\ \A m \in DOMAIN u : u[m] \in Nat
  BY <1>3, ElementOfSeq
<1>6. k \in 1 .. Len(t) /\ l \in 1 .. Len(u)
  BY <1>3
<1>7. CASE k < l
  <2>1. k \in 1 .. (l - 1) /\ k \in DOMAIN u
    BY <1>3, <1>4, <1>6, <1>7
  <2>2. t[k] = u[k]
    BY <1>2, <2>1
  <2>3. ASSUME NEW m \in 1 .. (k - 1) PROVE m \in DOMAIN s /\ s[m] = u[m]
    <3>1. m \in 1 .. (l - 1)
      BY <1>4, <1>6, <1>7
    <3> QED
      BY <1>1, <1>2, <3>1
  <2>4. k \notin DOMAIN s \/ s[k] < u[k]
    BY <1>1, <2>2
  <2> QED
    BY <2>1, <2>3, <2>4 DEF Before
<1>8. CASE l < k
  <2>1. l \in 1 .. (k - 1) /\ l \in DOMAIN t
    BY <1>3, <1>4, <1>6, <1>8
  <2>2. s[l] = t[l]
    BY <1>1, <2>1
  <2>3. ASSUME NEW m \in 1 .. (l - 1) PROVE m \in DOMAIN s /\ s[m] = u[m]
    <3>1. m \in 1 .. (k - 1)
      BY <1>4, <1>6, <1>8
    <3> QED
      BY <1>1, <1>2, <3>1
  <2>4. s[l] < u[l]
    BY <1>2, <2>1, <2>2
  <2> QED
    BY <2>3, <2>4 DEF Before
<1>9. CASE k = l
  <2>1. ASSUME NEW m \in 1 .. (k - 1) PROVE m \in DOMAIN s /\ s[m] = u[m]
    BY <1>1, <1>2, <1>9
  <2>2. t[k] < u[k]
    BY <1>2, <1>9
  <2>3. t[k] \in Nat /\ u[k] \in Nat /\ (k \in DOMAIN s => s[k] \in Nat)
    BY <1>5, <1>9
  <2>4. k \notin DOMAIN s \/ s[k] < u[k]
    BY SMTT(30), <1>1, <2>2, <2>3
  <2> QED
    BY <1>9, <2>1, <2>4 DEF Before
<1> QED
  BY <1>4, <1>6, <1>7, <1>8, <1>9

\* So are elements, as far as they are compared.
LEMMA LessIsOrder ==
  ASSUME NEW e \in Elements, NEW f \in Elements, NEW g \in Elements
  PROVE  /\ ~Less(e, e)
         /\ Less(e, f) /\ Less(f, g) => Less(e, g)
         /\ Less(e, f) => e.kind = f.kind
<1>1. \A x \in Elements : /\ x.kind = "number" => x.n \in Int
                          /\ x.kind = "text" => x.chars \in Seq(Nat)
                          /\ x.kind \in {"number", "text"}
  BY DEF Elements
<1>2. ~Less(e, e)
  BY <1>1, BeforeStrict DEF Less
<1>3. ASSUME Less(e, f), Less(f, g) PROVE Less(e, g)
  <2>1. CASE f.kind = "number"
    <3>1. e.kind = "number" /\ g.kind = "number" /\ e.n < f.n /\ f.n < g.n
      BY <1>3, <2>1 DEF Less
    <3> QED
      BY <1>1, <2>1, <3>1 DEF Less
  <2>2. CASE f.kind = "text"
    <3>1. e.kind = "text" /\ g.kind = "text" /\ Before(e.chars, f.chars) /\ Before(f.chars, g.chars)
      BY <1>3, <2>2 DEF Less
    <3> QED
      BY <1>1, <2>2, <3>1, BeforeGoesOn DEF Less
  <2> QED
    BY <1>1, <2>1, <2>2
<1>4. Less(e, f) => e.kind = f.kind
  BY DEF Less
<1> QED
  BY <1>2, <1>3, <1>4

LEMMA OutOfOrderIsOrder ==
  ASSUME NEW e \in Elements, NEW f \in Elements, NEW g \in Elements, NEW ascending
  PROVE  /\ ~OutOfOrder(e, e, ascending)
         /\ OutOfOrder(e, f, ascending) /\ OutOfOrder(f, g, ascending) => OutOfOrder(e, g, ascending)
         /\ OutOfOrder(e, f, ascending) => e.kind = f.kind
<1>1. CASE ascending
  BY <1>1, LessIsOrder DEF OutOfOrder
<1>2. CASE ~ascending
  BY <1>2, LessIsOrder DEF OutOfOrder
<1> QED
  BY <1>1, <1>2

----------------------------------------------------------------------------
(* Strides that change places *)

Start(q, w) == (q - 1) * w

LEMMA StartsApart ==
  ASSUME NEW a \in Nat \ {0}, NEW q \in Nat \ {0}, NEW w \in Nat
  PROVE  /\ Start(a, w) \in Nat
         /\ a < q => Start(a, w) + w <= Start(q, w)
<1>1. a - 1 \in Nat /\ q - 1 \in Nat
  OBVIOUS
<1>2. (a - 1) * w \in Nat
  BY <1>1
<1>3. a < q => (a - 1) * w + w <= (q - 1) * w
  <2> HAVE a < q
  <2>1. a - 1 < q - 1
    OBVIOUS
  <2> QED
    BY <1>1, <2>1, TimesLess
<1> QED
  BY <1>2, <1>3 DEF Start

Inside(a, both, m, w) == Start(a, w) < m /\ m <= Start(a, w) + both

\* The items of one stride are in no other.
LEMMA InsideOne ==
  ASSUME NEW a \in Nat \ {0}, NEW q \in Nat \ {0}, NEW w \in Nat, NEW x \in 1 .. w, NEW both \in 0 .. w
  PROVE  /\ q # a => ~Inside(a, both, Start(q, w) + x, w)
         /\ q = a => (Inside(a, both, Start(q, w) + x, w) <=> x <= both)
<1>1. Start(a, w) \in Nat /\ Start(q, w) \in Nat
  BY StartsApart
<1>2. CASE q = a
  BY <1>1, <1>2 DEF Inside
<1>3. CASE q < a
  <2>1. Start(q, w) + w <= Start(a, w)
    BY <1>3, StartsApart
  <2> QED
    BY <1>1, <1>3, <2>1 DEF Inside
<1>4. CASE a < q
  <2>1. Start(a, w) + w <= Start(q, w)
    BY <1>4, StartsApart
  <2> QED
    BY <1>1, <1>4, <2>1 DEF Inside
<1> QED
  BY <1>2, <1>3, <1>4

SwappedAt(M, T, a, b, both, w, q, x) ==
  T[Start(q, w) + x] = IF x <= both /\ q = a THEN M[Start(b, w) + x]
                       ELSE IF x <= both /\ q = b THEN M[Start(a, w) + x]
                       ELSE M[Start(q, w) + x]

\* Two strides change places, as far as both are in the list, and the others keep theirs.
LEMMA StridesSwapped ==
  ASSUME NEW S, NEW n \in Nat, NEW M \in [1 .. n -> S], NEW w \in Nat, w > 0,
         NEW a \in Nat \ {0}, NEW b \in Nat \ {0}, Start(a, w) \in 0 .. n, Start(b, w) \in 0 .. n,
         NEW T, T = Swapped(M, Start(a, w), Start(b, w), w)
  PROVE  /\ T \in [1 .. n -> S]
         /\ \E both \in Nat :
              /\ both <= w /\ both \in {w, n - Start(a, w), n - Start(b, w)}
              /\ \A q \in Nat \ {0} : \A x \in 1 .. w :
                   Start(q, w) + x \in 1 .. n => SwappedAt(M, T, a, b, both, w, q, x)
<1> DEFINE i == Start(a, w)
           j == Start(b, w)
<1>1. i \in 0 .. n /\ j \in 0 .. n /\ i \in Nat /\ j \in Nat
  BY StartsApart
<1>2. i + w <= j \/ j + w <= i \/ i = j
  <2>1. a < b \/ b < a \/ a = b
    OBVIOUS
  <2> QED
    BY <2>1, StartsApart
<1> HIDE DEF i, j
<1>3. PICK both \in Nat :
           /\ both <= w /\ i + both <= n /\ j + both <= n /\ both \in {w, n - i, n - j}
           /\ Swapped(M, i, j, w) \in [1 .. n -> S]
           /\ \A m \in 1 .. n : Swapped(M, i, j, w)[m] = Traded(M, i, j, both, m)
  <2>1. \E both \in Nat : SwappedApart(S, n, M, i, j, w, both)
    BY <1>1, <1>2, SwapsApart
  <2> QED
    BY <2>1 DEF SwappedApart
<1>4. T = Swapped(M, i, j, w)
  BY DEF i, j
<1>5. both \in 0 .. w
  BY <1>3
<1>6. ASSUME NEW q \in Nat \ {0}, NEW x \in 1 .. w, Start(q, w) + x \in 1 .. n
      PROVE  SwappedAt(M, T, a, b, both, w, q, x)
  <2> DEFINE s == Start(q, w)
             m == s + x
  <2>1. s \in Nat /\ m \in 1 .. n /\ x \in Nat
    BY <1>6, StartsApart
  <2>2. T[m] = IF Inside(a, both, m, w) THEN M[m - i + j] ELSE IF Inside(b, both, m, w) THEN M[m - j + i] ELSE M[m]
    BY <1>3, <1>4, <2>1 DEF Traded, Inside, i, j
  <2>3. q # a => ~Inside(a, both, m, w)
    BY <1>5, InsideOne
  <2>4. q = a => (Inside(a, both, m, w) <=> x <= both)
    BY <1>5, InsideOne
  <2>5. q # b => ~Inside(b, both, m, w)
    BY <1>5, InsideOne
  <2>6. q = b => (Inside(b, both, m, w) <=> x <= both)
    BY <1>5, InsideOne
  <2>7. q = a => m - i + j = j + x
    <3>1. q = a => s = i
      BY DEF i
    <3> HIDE DEF s
    <3> QED
      BY <1>1, <2>1, <3>1
  <2>8. q = b => m - j + i = i + x
    <3>1. q = b => s = j
      BY DEF j
    <3> HIDE DEF s
    <3> QED
      BY <1>1, <2>1, <3>1
  <2>9. T[m] = IF x <= both /\ q = a THEN M[j + x] ELSE IF x <= both /\ q = b THEN M[i + x] ELSE M[m]
    <3> HIDE DEF m
    <3>1. CASE q = a
      BY <2>2, <2>4, <2>5, <2>6, <2>7, <3>1
    <3>2. CASE q # a /\ q = b
      BY <2>2, <2>3, <2>6, <2>8, <3>2
    <3>3. CASE q # a /\ q # b
      BY <2>2, <2>3, <2>5, <3>3
    <3> QED
      BY <3>1, <3>2, <3>3
  <2> QED
    BY <2>9 DEF SwappedAt, i, j
<1> QED
  BY <1>3, <1>4, <1>6 DEF i, j

----------------------------------------------------------------------------
(* llListSort *)

HeadAt(M, q, w) == M[Start(q, w) + 1]
HeadsSwapped(S, n, M, T, a, b, c, w) ==
  /\ T \in [1 .. n -> S]
  /\ \A q \in 1 .. c :
    HeadAt(T, q, w) = IF q = a THEN HeadAt(M, b, w) ELSE IF q = b THEN HeadAt(M, a, w) ELSE HeadAt(M, q, w)

LEMMA HeadsIn ==
  ASSUME NEW S, NEW n \in Nat, NEW M \in [1 .. n -> S], NEW w \in Nat, w > 0, NEW c, c = Count(M, w)
  PROVE  /\ c \in Nat
         /\ \A q \in 1 .. c : Start(q, w) \in 0 .. n /\ Start(q, w) + 1 \in 1 .. n /\ HeadAt(M, q, w) \in S
<1>1. c \in Nat /\ \A q \in 1 .. c : (q - 1) * w \in 0 .. n /\ (q - 1) * w < n
  BY CountIs
<1>2. ASSUME NEW q \in 1 .. c PROVE Start(q, w) \in 0 .. n /\ Start(q, w) + 1 \in 1 .. n
  <2>1. Start(q, w) \in 0 .. n /\ Start(q, w) < n
    BY <1>1 DEF Start
  <2> QED
    BY <2>1
<1> QED
  BY <1>1, <1>2 DEF HeadAt

LEMMA HeadsSwap ==
  ASSUME NEW S, NEW n \in Nat, NEW M \in [1 .. n -> S], NEW w \in Nat, w > 0, NEW c, c = Count(M, w),
         NEW a \in 1 .. c, NEW b \in 1 .. c, NEW T, T = Swapped(M, Start(a, w), Start(b, w), w)
  PROVE  HeadsSwapped(S, n, M, T, a, b, c, w)
<1>1. c \in Nat /\ \A q \in 1 .. c : Start(q, w) \in 0 .. n /\ Start(q, w) + 1 \in 1 .. n
  BY HeadsIn
<1>2. a \in Nat \ {0} /\ b \in Nat \ {0} /\ \A q \in 1 .. c : q \in Nat \ {0}
  BY <1>1
<1>3. T \in [1 .. n -> S]
  BY <1>1, <1>2, StridesSwapped
<1>4. PICK both \in Nat :
         /\ both <= w /\ both \in {w, n - Start(a, w), n - Start(b, w)}
         /\ \A q \in Nat \ {0} : \A x \in 1 .. w : Start(q, w) + x \in 1 .. n => SwappedAt(M, T, a, b, both, w, q, x)
  BY <1>1, <1>2, StridesSwapped
<1>5. 1 <= both /\ 1 \in 1 .. w
  <2>1. w >= 1 /\ n - Start(a, w) >= 1 /\ n - Start(b, w) >= 1
    <3>1. Start(a, w) \in 0 .. n /\ Start(a, w) + 1 \in 1 .. n /\ Start(b, w) \in 0 .. n /\ Start(b, w) + 1 \in 1 .. n
      BY <1>1
    <3> QED
      BY <3>1
  <2> QED
    BY <1>4, <2>1
<1>6. ASSUME NEW q \in 1 .. c PROVE HeadAt(T, q, w) = IF q = a THEN HeadAt(M, b, w) ELSE IF q = b THEN HeadAt(M, a, w) ELSE HeadAt(M, q, w)
  <2>1. SwappedAt(M, T, a, b, both, w, q, 1)
    BY <1>1, <1>2, <1>4, <1>5
  <2> QED
    BY <1>5, <2>1 DEF SwappedAt, HeadAt
<1> QED
  BY <1>3, <1>6 DEF HeadsSwapped

\* The heads before the first are in order with all after them, the first with those
\* that it was compared with.
InOrder(M, w, c, first, k, ascending) ==
  /\ \A p \in 1 .. (first - 1) : \A q \in 1 .. c :
       p < q => ~OutOfOrder(HeadAt(M, p, w), HeadAt(M, q, w), ascending)
  /\ \A q \in 1 .. k : first < q => ~OutOfOrder(HeadAt(M, first, w), HeadAt(M, q, w), ascending)
KindsKept(M, T, w, c) == \A q \in 1 .. c : HeadAt(T, q, w).kind = HeadAt(M, q, w).kind

ComparedFirst(n, M, T, w, c, first, k, ascending) ==
  T \in [1 .. n -> Elements] /\ InOrder(T, w, c, first, k, ascending) /\ KindsKept(M, T, w, c)

LEMMA ComparedSorts ==
  ASSUME NEW n \in Nat, NEW M \in [1 .. n -> Elements], NEW w \in Nat, w > 0, NEW c, c = Count(M, w), NEW ascending,
         NEW first \in 1 .. c, NEW k \in (first + 1) .. c, InOrder(M, w, c, first, k - 1, ascending),
         NEW T, T = Compared(M, (first - 1) * w, (k - 1) * w, w, ascending)
  PROVE  ComparedFirst(n, M, T, w, c, first, k, ascending)
<1> USE DEF ComparedFirst
<1> DEFINE H(q) == HeadAt(M, q, w)
           Bad(e, f) == OutOfOrder(e, f, ascending)
<1>1. c \in Nat /\ \A q \in 1 .. c : H(q) \in Elements
  BY HeadsIn
<1>2. k \in 1 .. c /\ first < k /\ first \in Int /\ k \in Int
  BY <1>1
<1>3. T = IF Bad(H(first), H(k)) THEN Swapped(M, Start(first, w), Start(k, w), w) ELSE M
  BY DEF Compared, Start, HeadAt
<1>4. /\ \A p \in 1 .. (first - 1) : \A q \in 1 .. c : p < q => ~Bad(H(p), H(q))
      /\ \A q \in 1 .. (k - 1) : first < q => ~Bad(H(first), H(q))
  BY DEF InOrder
<1>5. /\ \A e, f, g \in Elements : Bad(e, f) /\ Bad(f, g) => Bad(e, g)
      /\ \A e, f \in Elements : Bad(e, f) => e.kind = f.kind
      /\ \A e \in Elements : ~Bad(e, e)
  BY OutOfOrderIsOrder
<1>6. CASE ~Bad(H(first), H(k))
  <2>1. T = M
    BY <1>3, <1>6
  <2>2. \A q \in 1 .. k : first < q => ~Bad(H(first), H(q))
    <3>1. \A q \in 1 .. k : q \in 1 .. (k - 1) \/ q = k
      BY <1>2
    <3> QED
      BY <1>4, <1>6, <3>1
  <2> QED
    BY <1>4, <2>1, <2>2 DEF InOrder, KindsKept
<1>7. CASE Bad(H(first), H(k))
  <2>1. T = Swapped(M, Start(first, w), Start(k, w), w)
    BY <1>3, <1>7
  <2>2. HeadsSwapped(Elements, n, M, T, first, k, c, w)
    BY <1>2, <2>1, HeadsSwap
  <2> DEFINE I(q) == HeadAt(T, q, w)
  <2>4. \A q \in 1 .. c : I(q) = IF q = first THEN H(k) ELSE IF q = k THEN H(first) ELSE H(q)
    BY <2>2 DEF HeadsSwapped
  <2> HIDE DEF H, I, Bad
  <2>5. I(first) = H(k) /\ I(k) = H(first) /\ H(first) \in Elements /\ H(k) \in Elements
    BY <1>1, <1>2, <2>4
  <2>6. ASSUME NEW p \in 1 .. (first - 1), NEW q \in 1 .. c, p < q PROVE ~Bad(I(p), I(q))
    <3>1. p \in 1 .. c /\ p # first /\ p # k /\ p < first /\ p < k
      BY <1>1, <1>2
    <3>2. I(p) = H(p)
      BY <2>4, <3>1
    <3>3. first \in 1 .. c /\ k \in 1 .. c
      BY <1>2
    <3>4. CASE q = first
      BY <1>4, <2>5, <3>1, <3>2, <3>3, <3>4
    <3>5. CASE q = k /\ q # first
      BY <1>4, <2>5, <3>1, <3>2, <3>3, <3>5
    <3>6. CASE q # k /\ q # first
      <4>1. I(q) = H(q)
        BY <2>4, <3>6
      <4> QED
        BY <1>4, <2>6, <3>2, <4>1
    <3> QED
      BY <3>4, <3>5, <3>6
  <2>7. ASSUME NEW q \in 1 .. k, first < q PROVE ~Bad(I(first), I(q))
    <3>1. CASE q = k
      BY <1>5, <1>7, <2>5, <3>1
    <3>2. CASE q # k
      <4>1. q \in 1 .. (k - 1) /\ q \in 1 .. c /\ q # first
        BY <1>1, <1>2, <2>7, <3>2
      <4>2. ~Bad(H(first), H(q)) /\ I(q) = H(q) /\ H(q) \in Elements
        BY <1>1, <1>4, <2>4, <2>7, <3>2, <4>1
      <4> QED
        BY <1>5, <1>7, <2>5, <4>2
    <3> QED
      BY <3>1, <3>2
  <2>8. ASSUME NEW q \in 1 .. c PROVE I(q).kind = H(q).kind
    BY <1>5, <1>7, <2>4, <2>5
  <2>9. InOrder(T, w, c, first, k, ascending)
    BY <2>6, <2>7 DEF InOrder, I, Bad
  <2>10. KindsKept(M, T, w, c)
    BY <2>8 DEF KindsKept, I, H
  <2> QED
    BY <2>2, <2>9, <2>10 DEF HeadsSwapped
<1> QED
  BY <1>6, <1>7

----------------------------------------------------------------------------
(* Strides in another order *)

ExchangesTwo(D, p, a, b, r) ==
  r \in Orders(D) /\ \A q \in D : r[q] = IF q = b THEN p[a] ELSE IF q = a THEN p[b] ELSE p[q]

LEMMA OrdersExchange ==
  ASSUME NEW D, NEW p \in Orders(D), NEW a \in D, NEW b \in D
  PROVE  ExchangesTwo(D, p, a, b, Exchanged(p, a, b))
<1> DEFINE r == Exchanged(p, a, b)
<1>1. p \in [D -> D]
  BY OrdersAre
<1>2. \A v, w \in D : p[v] = p[w] => v = w
  BY OrdersAre
<1>3. \A w \in D : \E v \in D : p[v] = w
  BY OrdersAre
<1>4. r \in [D -> D] /\ \A q \in D : r[q] = IF q = b THEN p[a] ELSE IF q = a THEN p[b] ELSE p[q]
  BY <1>1 DEF Exchanged
<1> HIDE DEF r
<1>5. \A v, w \in D : r[v] = r[w] => v = w
  BY <1>2, <1>4
<1>6. ASSUME NEW w \in D PROVE \E v \in D : r[v] = w
  <2>1. PICK v \in D : p[v] = w
    BY <1>3
  <2>2. CASE v = a
    BY <1>4, <2>1, <2>2
  <2>3. CASE v = b /\ v # a
    BY <1>4, <2>1, <2>3
  <2>4. CASE v # a /\ v # b
    BY <1>4, <2>1, <2>4
  <2> QED
    BY <2>2, <2>3, <2>4
<1>7. r \in Orders(D)
  BY <1>4, <1>5, <1>6, OrdersAre
<1> QED
  BY <1>4, <1>7 DEF r, ExchangesTwo

\* The strides of T are those of L, in the order p.
Placed(T, L, p, c, w) == \A q \in 1 .. c : \A x \in 1 .. w : T[Start(q, w) + x] = L[Start(p[q], w) + x]
PlacedBy(S, n, T, L, p, c, w) == T \in [1 .. n -> S] /\ p \in Orders(1 .. c) /\ Placed(T, L, p, c, w)

LEMMA PlacedSelf ==
  ASSUME NEW S, NEW n, NEW L \in [1 .. n -> S], NEW c, NEW w
  PROVE  \E p \in Orders(1 .. c) : PlacedBy(S, n, L, L, p, c, w)
<1> DEFINE p == [q \in 1 .. c |-> q]
<1>1. \A q \in 1 .. c : p[q] = q
  OBVIOUS
<1>2. p \in Orders(1 .. c)
  <2> DEFINE D == 1 .. c
  <2>1. p \in [D -> D] /\ (\A v, u \in D : p[v] = p[u] => v = u) /\ \A u \in D : \E v \in D : p[v] = u
    BY <1>1
  <2> HIDE DEF D, p
  <2>2. p \in Orders(D)
    BY <2>1, OrdersAre
  <2> QED
    BY <2>2 DEF D
<1> HIDE DEF p
<1>3. PlacedBy(S, n, L, L, p, c, w)
  BY <1>1, <1>2 DEF PlacedBy, Placed
<1> QED
  BY <1>2, <1>3

LEMMA WholeFits ==
  ASSUME NEW c \in Nat, NEW w \in Nat, NEW n, n = c * w, NEW q \in 1 .. c
  PROVE  /\ q \in Nat \ {0}
         /\ Start(q, w) \in 0 .. n
         /\ Start(q, w) + w <= n
         /\ \A x \in 1 .. w : Start(q, w) + x \in 1 .. n
<1>1. q \in Nat \ {0} /\ c + 1 \in Nat \ {0} /\ q < c + 1
  OBVIOUS
<1>2. Start(q, w) \in Nat /\ Start(q, w) + w <= Start(c + 1, w)
  BY <1>1, StartsApart
<1>3. Start(c + 1, w) = n /\ n \in Nat
  BY DEF Start
<1> QED
  BY <1>1, <1>2, <1>3

LEMMA SwapPlaced ==
  ASSUME NEW S, NEW n \in Nat, NEW L \in [1 .. n -> S], NEW M, NEW w \in Nat, w > 0, NEW c \in Nat, n = c * w,
         NEW p, PlacedBy(S, n, M, L, p, c, w),
         NEW a \in 1 .. c, NEW b \in 1 .. c, NEW T, T = Swapped(M, Start(a, w), Start(b, w), w)
  PROVE  PlacedBy(S, n, T, L, Exchanged(p, a, b), c, w)
<1>1. M \in [1 .. n -> S] /\ p \in Orders(1 .. c)
  BY DEF PlacedBy
<1>2. \A q \in 1 .. c : \A x \in 1 .. w : M[Start(q, w) + x] = L[Start(p[q], w) + x]
  BY DEF PlacedBy, Placed
<1> DEFINE r == Exchanged(p, a, b)
           D == 1 .. c
<1>0. p \in Orders(D) /\ a \in D /\ b \in D
  BY <1>1
<1> HIDE DEF D
<1>3. r \in Orders(D) /\ \A q \in D : r[q] = IF q = b THEN p[a] ELSE IF q = a THEN p[b] ELSE p[q]
  <2>1. ExchangesTwo(D, p, a, b, r)
    BY <1>0, OrdersExchange
  <2> QED
    BY <2>1 DEF ExchangesTwo
<1> HIDE DEF r
<1>4. \A q \in 1 .. c : q \in Nat \ {0} /\ Start(q, w) \in 0 .. n /\ \A x \in 1 .. w : Start(q, w) + x \in 1 .. n
  BY WholeFits
<1>5. n - Start(a, w) >= w /\ n - Start(b, w) >= w
  <2>1. Start(a, w) + w <= n /\ Start(b, w) + w <= n /\ Start(a, w) \in 0 .. n /\ Start(b, w) \in 0 .. n
    BY WholeFits
  <2> QED
    BY <2>1
<1>6. T \in [1 .. n -> S]
  BY <1>1, <1>4, StridesSwapped
<1>7. PICK both \in Nat :
         /\ both <= w /\ both \in {w, n - Start(a, w), n - Start(b, w)}
         /\ \A q \in Nat \ {0} : \A x \in 1 .. w : Start(q, w) + x \in 1 .. n => SwappedAt(M, T, a, b, both, w, q, x)
  BY <1>1, <1>4, StridesSwapped
<1>8. both = w
  BY <1>5, <1>7
<1>9. ASSUME NEW q \in 1 .. c, NEW x \in 1 .. w PROVE T[Start(q, w) + x] = L[Start(r[q], w) + x]
  <2>1. SwappedAt(M, T, a, b, both, w, q, x)
    BY <1>4, <1>7
  <2>2. x <= both
    BY <1>8
  <2>3. r[q] = IF q = b THEN p[a] ELSE IF q = a THEN p[b] ELSE p[q]
    BY <1>3 DEF D
  <2>4. CASE q = a
    <3>1. T[Start(q, w) + x] = M[Start(b, w) + x] /\ r[q] = p[b]
      BY <2>1, <2>2, <2>3, <2>4 DEF SwappedAt
    <3> QED
      BY <1>2, <3>1
  <2>5. CASE q = b /\ q # a
    <3>1. T[Start(q, w) + x] = M[Start(a, w) + x] /\ r[q] = p[a]
      BY <2>1, <2>2, <2>3, <2>5 DEF SwappedAt
    <3> QED
      BY <1>2, <3>1
  <2>6. CASE q # b /\ q # a
    <3>1. T[Start(q, w) + x] = M[Start(q, w) + x] /\ r[q] = p[q]
      BY <2>1, <2>2, <2>3, <2>6 DEF SwappedAt
    <3> QED
      BY <1>2, <3>1
  <2> QED
    BY <2>4, <2>5, <2>6
<1> QED
  BY <1>3, <1>6, <1>9 DEF r, D, PlacedBy, Placed

----------------------------------------------------------------------------
(* How far llListSort has come *)

Sorting(n, L, M, w, c, first, k, ascending) ==
  /\ M \in [1 .. n -> Elements]
  /\ InOrder(M, w, c, first, k, ascending)
  /\ KindsKept(L, M, w, c)
  /\ n = c * w => \E p : PlacedBy(Elements, n, M, L, p, c, w)

LEMMA ComparedGoesOn ==
  ASSUME NEW n \in Nat, NEW L \in [1 .. n -> Elements], NEW M, NEW w \in Nat, w > 0, NEW c, c = Count(L, w),
         NEW ascending, NEW first \in 1 .. c, NEW k \in (first + 1) .. c,
         Sorting(n, L, M, w, c, first, k - 1, ascending),
         NEW T, T = Compared(M, (first - 1) * w, (k - 1) * w, w, ascending)
  PROVE  Sorting(n, L, T, w, c, first, k, ascending)
<1>1. M \in [1 .. n -> Elements] /\ InOrder(M, w, c, first, k - 1, ascending) /\ KindsKept(L, M, w, c)
  BY DEF Sorting
<1>2. c = Count(M, w) /\ c \in Nat
  <2>1. Len(M) = n /\ Len(L) = n
    BY <1>1, SeqsAre
  <2>2. c = Count(M, w)
    BY <2>1 DEF Count
  <2> QED
    BY <2>2, CountIs
<1>3. T \in [1 .. n -> Elements] /\ InOrder(T, w, c, first, k, ascending) /\ KindsKept(M, T, w, c)
  <2>1. ComparedFirst(n, M, T, w, c, first, k, ascending)
    BY <1>1, <1>2, ComparedSorts
  <2> QED
    BY <2>1 DEF ComparedFirst
<1>4. KindsKept(L, T, w, c)
  BY <1>1, <1>3 DEF KindsKept
<1>5. ASSUME n = c * w PROVE \E p : PlacedBy(Elements, n, T, L, p, c, w)
  <2>1. PICK p : PlacedBy(Elements, n, M, L, p, c, w)
    BY <1>5 DEF Sorting
  <2>2. first \in 1 .. c /\ k \in 1 .. c
    BY <1>2
  <2>3. T = Swapped(M, Start(first, w), Start(k, w), w) \/ T = M
    BY DEF Compared, Start
  <2>4. CASE T = Swapped(M, Start(first, w), Start(k, w), w)
    <3>1. PlacedBy(Elements, n, T, L, Exchanged(p, first, k), c, w)
      BY <1>2, <1>5, <2>1, <2>2, <2>4, SwapPlaced
    <3> QED
      BY <3>1
  <2> QED
    BY <2>1, <2>3, <2>4
<1> QED
  BY <1>3, <1>4, <1>5 DEF Sorting

LEMMA PassGoesOn ==
  ASSUME NEW n \in Nat, NEW L \in [1 .. n -> Elements], NEW M, NEW w \in Nat, w > 0, NEW c, c = Count(L, w),
         NEW ascending, NEW first \in 1 .. c, Sorting(n, L, M, w, c, first, first, ascending),
         NEW T, T = Pass(M, first, w, ascending)
  PROVE  Sorting(n, L, T, w, c, first + 1, first + 1, ascending)
<1>1. M \in [1 .. n -> Elements]
  BY DEF Sorting
<1>2. c = Count(M, w) /\ c \in Nat
  <2>1. Len(M) = n /\ Len(L) = n
    BY <1>1, SeqsAre
  <2>2. c = Count(M, w)
    BY <2>1 DEF Count
  <2> QED
    BY <2>2, CountIs
<1>3. \E pass : Passes(M, first, w, ascending, pass)
  <2>1. first \in 1 .. Count(M, w)
    BY <1>2
  <2>2. \E pass \in [first .. Count(M, w) -> {R \in [1 .. n -> Elements] : Rearranged(R, M)}] :
           Passes(M, first, w, ascending, pass)
    BY <1>1, <2>1, PassLoops
  <2> QED
    BY <2>2
<1>4. PICK pass : Passes(M, first, w, ascending, pass)
  BY <1>3
<1>5. /\ \A k \in first .. c : pass[k] = PassStep(M, first, w, ascending, pass, k)
      /\ T = pass[c]
  BY <1>2, <1>4 DEF Passes
<1> DEFINE G == {k \in first .. c : Sorting(n, L, pass[k], w, c, first, k, ascending)}
<1>6. first \in G
  <2>1. first \in first .. c
    BY <1>2
  <2>2. pass[first] = M
    BY <1>5, <2>1 DEF PassStep
  <2> QED
    BY <2>1, <2>2
<1>7. ASSUME NEW k \in first .. (c - 1), k \in G PROVE k + 1 \in G
  <2> DEFINE x == k + 1
  <2>1. x \in first .. c /\ x \in (first + 1) .. c /\ x # first /\ x - 1 = k
    BY <1>2
  <2>2. Sorting(n, L, pass[k], w, c, first, x - 1, ascending)
    BY <1>7, <2>1
  <2> HIDE DEF x
  <2>3. pass[x] = Compared(pass[k], (first - 1) * w, (x - 1) * w, w, ascending)
    <3>1. pass[x] = PassStep(M, first, w, ascending, pass, x)
      BY <1>5, <2>1
    <3> QED
      BY <2>1, <3>1 DEF PassStep
  <2>4. Sorting(n, L, pass[x], w, c, first, x, ascending)
    BY <2>1, <2>2, <2>3, ComparedGoesOn
  <2> QED
    BY <2>1, <2>4 DEF x
<1> HIDE DEF G
<1>8. c \in G
  <2>1. first \in Int /\ c \in Int /\ c \in first .. c
    BY <1>2
  <2> QED
    BY <1>6, <1>7, <2>1, IntervalInduction
<1>9. Sorting(n, L, T, w, c, first, c, ascending)
  BY <1>5, <1>8 DEF G
<1>10. InOrder(T, w, c, first + 1, first + 1, ascending)
  <2>1. /\ \A p \in 1 .. (first - 1) : \A q \in 1 .. c :
             p < q => ~OutOfOrder(HeadAt(T, p, w), HeadAt(T, q, w), ascending)
        /\ \A q \in 1 .. c : first < q => ~OutOfOrder(HeadAt(T, first, w), HeadAt(T, q, w), ascending)
    BY <1>9 DEF Sorting, InOrder
  <2>2. ASSUME NEW p \in 1 .. ((first + 1) - 1), NEW q \in 1 .. c, p < q
        PROVE  ~OutOfOrder(HeadAt(T, p, w), HeadAt(T, q, w), ascending)
    <3>1. p = first \/ p \in 1 .. (first - 1)
      BY <1>2
    <3> QED
      BY <2>1, <2>2, <3>1
  <2>3. ASSUME NEW q \in 1 .. (first + 1), first + 1 < q PROVE FALSE
    BY <1>2, <2>3
  <2> QED
    BY <2>2, <2>3 DEF InOrder
<1> QED
  BY <1>9, <1>10 DEF Sorting

\* After the last pass all heads are in order.
LEMMA SortGoesOn ==
  ASSUME NEW n \in Nat, NEW L \in [1 .. n -> Elements], NEW m \in Int, NEW ascending,
         NEW w, w = AtLeast(m, 1), NEW c, c = Count(L, w)
  PROVE  /\ Sorting(n, L, ListSort(L, m, ascending), w, c, c + 1, c + 1, ascending)
         /\ Rearranged(ListSort(L, m, ascending), L)
<1>1. w \in Nat /\ w > 0
  BY AtLeastIs
<1>2. c \in Nat
  BY <1>1, CountIs
<1>3. PICK sorted \in [0 .. Count(L, w) -> {M \in [1 .. n -> Elements] : Rearranged(M, L)}] :
        Sorts(L, m, w, ascending, sorted)
  BY SortLoops
<1>4. /\ \A k \in 0 .. c : sorted[k] = SortStep(L, w, ascending, sorted, k)
      /\ ListSort(L, m, ascending) = sorted[c]
  BY <1>3 DEF Sorts
<1>5. Rearranged(sorted[c], L)
  <2>1. c \in 0 .. c
    BY <1>2
  <2> QED
    BY <1>3, <2>1
<1> DEFINE G == {k \in 0 .. c : Sorting(n, L, sorted[k], w, c, k + 1, k + 1, ascending)}
<1>6. 0 \in G
  <2>1. 0 \in 0 .. c
    BY <1>2
  <2>2. sorted[0] = L
    BY <1>4, <2>1 DEF SortStep
  <2>3. InOrder(L, w, c, 1, 1, ascending)
    BY DEF InOrder
  <2>4. KindsKept(L, L, w, c)
    BY DEF KindsKept
  <2>5. \E p : PlacedBy(Elements, n, L, L, p, c, w)
    <3>1. \E p \in Orders(1 .. c) : PlacedBy(Elements, n, L, L, p, c, w)
      BY PlacedSelf
    <3> QED
      BY <3>1
  <2>6. Sorting(n, L, L, w, c, 1, 1, ascending)
    BY <2>3, <2>4, <2>5 DEF Sorting
  <2>7. 0 + 1 = 1
    OBVIOUS
  <2> QED
    BY <2>1, <2>2, <2>6, <2>7
<1>7. ASSUME NEW k \in 0 .. (c - 1), k \in G PROVE k + 1 \in G
  <2> DEFINE x == k + 1
  <2>1. x \in 0 .. c /\ x \in 1 .. c /\ x # 0 /\ x - 1 = k
    BY <1>2
  <2>2. Sorting(n, L, sorted[k], w, c, x, x, ascending)
    BY <1>7
  <2> HIDE DEF x
  <2>3. sorted[x] = Pass(sorted[k], x, w, ascending)
    <3>1. sorted[x] = SortStep(L, w, ascending, sorted, x)
      BY <1>4, <2>1
    <3> QED
      BY <2>1, <3>1 DEF SortStep
  <2>4. Sorting(n, L, sorted[x], w, c, x + 1, x + 1, ascending)
    BY <1>1, <2>1, <2>2, <2>3, PassGoesOn
  <2> QED
    BY <2>1, <2>4 DEF x
<1> HIDE DEF G
<1>8. c \in G
  <2>1. 0 \in Int /\ c \in Int /\ c \in 0 .. c
    BY <1>2
  <2> QED
    BY <1>6, <1>7, <2>1, IntervalInduction
<1> QED
  BY <1>4, <1>5, <1>8 DEF G

----------------------------------------------------------------------------
(* Heads and blocks *)

LEMMA HeadsAre ==
  ASSUME NEW L, NEW n \in Nat, n = Len(L), DOMAIN L = 1 .. n, NEW m \in Int, NEW w, w = AtLeast(m, 1),
         NEW c, c = Count(L, w), NEW k \in Heads(L, m)
  PROVE  \E q \in 1 .. c : k = Start(q, w) + 1
<1>1. w \in Nat /\ w > 0
  BY AtLeastIs
<1>2. c \in Nat /\ n <= c * w
  BY <1>1, CountFits
<1>3. k \in 1 .. n /\ (k - 1) % w = 0
  BY SeqsAre DEF Heads
<1> DEFINE d == k - 1
<1>4. d \in Nat /\ d < n /\ d % w = 0 /\ k = d + 1
  BY <1>3
<1> HIDE DEF d
<1>5. PICK q \in Nat, r \in Nat : d \div w = q /\ d % w = r /\ d = w * q + r /\ r < w
  BY <1>1, <1>4, DivIs
<1>6. d = q * w
  <2>1. r = 0
    BY <1>4, <1>5, Zenon
  <2>2. w * q = q * w /\ q * w \in Nat
    BY <1>1
  <2> QED
    BY <1>5, <2>1, <2>2
<1>7. q < c
  <2> SUFFICES ASSUME ~(q < c) PROVE FALSE
    OBVIOUS
  <2>1. q = c \/ c < q
    BY <1>2
  <2>2. c * w \in Nat /\ q * w \in Nat
    BY <1>1, <1>2
  <2>3. CASE q = c
    BY <1>2, <1>4, <1>6, <2>2, <2>3
  <2>4. CASE c < q
    <3>1. c * w + w <= q * w
      BY <1>1, <1>2, <2>4, TimesLess
    <3> DEFINE u == c * w
               v == q * w
    <3>2. u \in Nat /\ v \in Nat /\ u + w <= v /\ d = v /\ n <= u
      BY <1>2, <1>6, <2>2, <3>1
    <3> HIDE DEF u, v
    <3> QED
      BY <1>1, <1>4, <3>2
  <2> QED
    BY <2>1, <2>3, <2>4
<1>8. q + 1 \in 1 .. c /\ (q + 1) - 1 = q
  BY <1>2, <1>7
<1>9. Start(q + 1, w) = d
  BY <1>6, <1>8 DEF Start
<1> QED
  BY <1>4, <1>8, <1>9

LEMMA StartsOrdered ==
  ASSUME NEW a \in Nat \ {0}, NEW b \in Nat \ {0}, NEW w \in Nat, Start(a, w) + 1 < Start(b, w) + 1
  PROVE  a < b
<1>1. Start(a, w) \in Nat /\ Start(b, w) \in Nat
  BY StartsApart
<1>2. b < a => Start(b, w) + w <= Start(a, w)
  BY StartsApart
<1>3. a = b => Start(a, w) = Start(b, w)
  OBVIOUS
<1>4. a < b \/ a = b \/ b < a
  OBVIOUS
<1> QED
  BY <1>1, <1>2, <1>3, <1>4

LEMMA WholeIs ==
  ASSUME NEW L, NEW n \in Nat, n = Len(L), DOMAIN L = 1 .. n, NEW m \in Int, NEW w, w = AtLeast(m, 1),
         NEW c, c = Count(L, w), Whole(L, m)
  PROVE  n = c * w /\ n \div w = c
<1>1. w \in Nat /\ w > 0
  BY AtLeastIs
<1>2. c \in Nat /\ n <= c * w /\ \A k \in 1 .. c : (k - 1) * w < n
  BY <1>1, CountFits
<1>3. n % w = 0
  BY SeqsAre DEF Whole
<1>4. PICK q \in Nat, r \in Nat : n \div w = q /\ n % w = r /\ n = w * q + r /\ r < w
  BY <1>1, DivIs
<1>5. n = q * w
  <2>1. r = 0
    BY <1>3, <1>4
  <2>2. w * q \in Nat
    BY <1>1
  <2>3. w * q = q * w
    BY <1>1
  <2> QED
    BY <1>4, <2>1, <2>2, <2>3
<1>6. ~(q < c)
  <2> SUFFICES ASSUME q < c PROVE FALSE
    OBVIOUS
  <2>1. q + 1 \in 1 .. c /\ (q + 1) - 1 = q
    BY <1>2
  <2>2. q * w < n
    BY <1>2, <2>1
  <2> QED
    BY <1>5, <2>2
<1>7. ~(c < q)
  <2> SUFFICES ASSUME c < q PROVE FALSE
    OBVIOUS
  <2> DEFINE u == c * w
             v == q * w
  <2>1. c * w + w <= q * w
    BY <1>1, <1>2, TimesLess
  <2>2. u \in Nat /\ v \in Nat /\ u + w <= v /\ n = v /\ n <= u
    BY <1>1, <1>2, <1>5, <2>1
  <2> HIDE DEF u, v
  <2> QED
    BY <1>1, <2>2
<1>8. q = c
  BY <1>2, <1>6, <1>7
<1> QED
  BY <1>4, <1>5, <1>8

BlocksOf(S, L, B, c, w) ==
  /\ B \in [1 .. c -> Seq(S)]
  /\ \A q \in 1 .. c : Len(B[q]) = w
  /\ \A q \in 1 .. c : \A x \in 1 .. w : B[q][x] = L[Start(q, w) + x]

LEMMA BlocksAre ==
  ASSUME NEW S, NEW n \in Nat, NEW L \in [1 .. n -> S], NEW m \in Int, NEW w, w = AtLeast(m, 1),
         NEW c \in Nat, n = c * w, n \div w = c
  PROVE  BlocksOf(S, L, Blocks(L, m), c, w)
<1> DEFINE B == Blocks(L, m)
<1>1. w \in Nat /\ w > 0
  BY AtLeastIs
<1>2. Len(L) = n /\ L \in Seq(S)
  BY SeqsAre
<1>3. B = [q \in 1 .. c |-> SubSeq(L, (q - 1) * w + 1, q * w)]
  BY <1>2 DEF Blocks
<1> HIDE DEF B
<1>4. ASSUME NEW q \in 1 .. c
      PROVE  B[q] \in Seq(S) /\ Len(B[q]) = w /\ \A x \in 1 .. w : B[q][x] = L[Start(q, w) + x]
  <2> DEFINE s == Start(q, w)
             e == s + w
             P == SubSeq(L, s + 1, e)
  <2>1. s \in Nat /\ e <= n /\ \A x \in 1 .. w : s + x \in 1 .. n
    <3>1. s \in 0 .. n /\ s + w <= n /\ \A x \in 1 .. w : s + x \in 1 .. n
      BY <1>1, WholeFits
    <3> QED
      BY <3>1
  <2>2. q * w = e /\ (q - 1) * w = s
    <3>1. q \in Nat /\ q * w = (q - 1) * w + w
      BY <1>1
    <3> QED
      BY <3>1 DEF Start
  <2>3. B[q] = P
    BY <1>3, <2>2
  <2> HIDE DEF s
  <2>4. s + 1 \in Int /\ e \in Int /\ \A k \in (s + 1) .. e : L[k] \in S
    <3>1. s \in Int /\ e \in Int /\ 0 <= s /\ e <= n
      BY <1>1, <2>1
    <3> HIDE DEF e
    <3>2. \A k \in (s + 1) .. e : k \in 1 .. n
      BY <3>1
    <3> QED
      BY <3>1, <3>2
  <2> HIDE DEF e
  <2>5. /\ P \in Seq(S) /\ Len(P) = (IF s + 1 <= e THEN e - (s + 1) + 1 ELSE 0)
        /\ \A k \in 1 .. (e - (s + 1) + 1) : P[k] = L[(s + 1) + k - 1]
    BY <2>4, SubSeqProperties
  <2> HIDE DEF P
  <2>6. s + 1 <= e /\ e - (s + 1) + 1 = w
    <3>1. e = s + w /\ s \in Int /\ w \in Int /\ w >= 1
      BY <1>1, <2>1 DEF e
    <3>2. s + 1 <= e
      BY <3>1
    <3>3. e - (s + 1) + 1 = w
      <4>1. \A x, y \in Int : (x + y) - (x + 1) + 1 = y
        OBVIOUS
      <4> QED
        BY <3>1, <4>1
    <3> QED
      BY <3>2, <3>3
  <2>7. Len(P) = w
    BY <2>5, <2>6
  <2>8. ASSUME NEW x \in 1 .. w PROVE P[x] = L[s + x]
    <3>1. (s + 1) + x - 1 = s + x
      BY <2>1
    <3> QED
      BY <2>5, <2>6, <3>1
  <2> QED
    BY <2>3, <2>5, <2>7, <2>8 DEF s
<1> QED
  BY <1>3, <1>4 DEF BlocksOf, B

LEMMA BlocksRearranged ==
  ASSUME NEW S, NEW c \in Nat, NEW w \in Nat, NEW n, NEW L, NEW T, NEW B, NEW D, NEW p,
         BlocksOf(S, L, B, c, w), BlocksOf(S, T, D, c, w), PlacedBy(S, n, T, L, p, c, w)
  PROVE  Rearranged(D, B)
<1>1. B \in [1 .. c -> Seq(S)] /\ D \in [1 .. c -> Seq(S)]
  BY DEF BlocksOf
<1>2. Len(B) = c /\ Len(D) = c /\ DOMAIN D = 1 .. c
  <2> DEFINE F == Seq(S)
  <2>1. B \in [1 .. c -> F] /\ D \in [1 .. c -> F]
    BY <1>1
  <2> HIDE DEF F
  <2>2. Len(B) = c /\ Len(D) = c
    BY <2>1, SeqsAre
  <2> QED
    BY <2>1, <2>2
<1>3. p \in Orders(1 .. c)
  BY DEF PlacedBy
<1>4. p \in [1 .. c -> 1 .. c]
  <2> DEFINE E == 1 .. c
  <2> HIDE DEF E
  <2>1. p \in Orders(E) => p \in [E -> E]
    BY OrdersAre
  <2> QED
    BY <1>3, <2>1 DEF E
<1>5. ASSUME NEW q \in 1 .. c PROVE D[q] = B[p[q]]
  <2>1. p[q] \in 1 .. c
    BY <1>4
  <2>2. D[q] \in Seq(S) /\ Len(D[q]) = w /\ B[p[q]] \in Seq(S) /\ Len(B[p[q]]) = w
    BY <1>1, <2>1 DEF BlocksOf
  <2>3. ASSUME NEW x \in 1 .. w PROVE D[q][x] = B[p[q]][x]
    <3>1. D[q][x] = T[Start(q, w) + x]
      BY DEF BlocksOf
    <3>2. T[Start(q, w) + x] = L[Start(p[q], w) + x]
      BY DEF PlacedBy, Placed
    <3>3. B[p[q]][x] = L[Start(p[q], w) + x]
      BY <2>1 DEF BlocksOf
    <3> QED
      BY <3>1, <3>2, <3>3
  <2> DEFINE P == D[q]
             Q == B[p[q]]
  <2> HIDE DEF P, Q
  <2>4. P \in Seq(S) /\ Q \in Seq(S) /\ Len(P) = Len(Q) /\ \A x \in 1 .. Len(P) : P[x] = Q[x]
    BY <2>2, <2>3 DEF P, Q
  <2>5. P = Q
    BY <2>4, SeqEqual
  <2> QED
    BY <2>5 DEF P, Q
<1> QED
  BY <1>2, <1>3, <1>5 DEF Rearranged

----------------------------------------------------------------------------
(* What llListSort returns *)

SortKept(L, S, m, ascending) ==
  /\ \A k \in Heads(L, m) : S[k].kind = L[k].kind
  /\ \A j, k \in Heads(L, m) : j < k => ~OutOfOrder(S[j], S[k], ascending)
  /\ Rearranged(S, L)
  /\ Whole(L, m) => Rearranged(Blocks(S, m), Blocks(L, m))

LEMMA SortKeeps ==
  ASSUME NEW L \in Seq(Elements), NEW m \in Int, NEW ascending, NEW T, T = ListSort(L, m, ascending)
  PROVE  SortKept(L, T, m, ascending)
<1> DEFINE n == Len(L)
           w == AtLeast(m, 1)
           c == Count(L, w)
<1>1. n \in Nat /\ L \in [1 .. n -> Elements] /\ n = Len(L) /\ DOMAIN L = 1 .. n
  BY LenProperties
<1> HIDE DEF n
<1>2. w \in Nat /\ w > 0
  BY AtLeastIs
<1>3. w = AtLeast(m, 1) /\ c = Count(L, w)
  OBVIOUS
<1> HIDE DEF w, c
<1>4. c \in Nat
  BY <1>1, <1>2, <1>3, CountIs
<1>5. Sorting(n, L, T, w, c, c + 1, c + 1, ascending) /\ Rearranged(T, L)
  BY <1>1, <1>3, SortGoesOn
<1>6. ASSUME NEW k \in Heads(L, m)
      PROVE  \E q \in 1 .. c : k = Start(q, w) + 1 /\ T[k] = HeadAt(T, q, w) /\ L[k] = HeadAt(L, q, w)
  <2>1. PICK q \in 1 .. c : k = Start(q, w) + 1
    BY <1>1, <1>3, HeadsAre
  <2> QED
    BY <2>1 DEF HeadAt
<1>7. ASSUME NEW k \in Heads(L, m) PROVE T[k].kind = L[k].kind
  <2>1. PICK q \in 1 .. c : k = Start(q, w) + 1 /\ T[k] = HeadAt(T, q, w) /\ L[k] = HeadAt(L, q, w)
    BY <1>6
  <2>2. HeadAt(T, q, w).kind = HeadAt(L, q, w).kind
    BY <1>5 DEF Sorting, KindsKept
  <2> QED
    BY <2>1, <2>2
<1>8. ASSUME NEW j \in Heads(L, m), NEW k \in Heads(L, m), j < k
      PROVE  ~OutOfOrder(T[j], T[k], ascending)
  <2>1. PICK p \in 1 .. c : j = Start(p, w) + 1 /\ T[j] = HeadAt(T, p, w)
    BY <1>6
  <2>2. PICK q \in 1 .. c : k = Start(q, w) + 1 /\ T[k] = HeadAt(T, q, w)
    BY <1>6
  <2>3. p \in Nat \ {0} /\ q \in Nat \ {0}
    OBVIOUS
  <2>4. p < q
    <3>1. Start(p, w) + 1 < Start(q, w) + 1
      BY <1>8, <2>1, <2>2
    <3> QED
      BY <1>2, <2>3, <3>1, StartsOrdered
  <2>5. p \in 1 .. ((c + 1) - 1)
    BY <1>4
  <2>6. ~OutOfOrder(HeadAt(T, p, w), HeadAt(T, q, w), ascending)
    <3>1. InOrder(T, w, c, c + 1, c + 1, ascending)
      BY <1>5 DEF Sorting
    <3> QED
      BY <2>4, <2>5, <3>1 DEF InOrder
  <2> QED
    BY <2>1, <2>2, <2>6
<1>9. ASSUME Whole(L, m) PROVE Rearranged(Blocks(T, m), Blocks(L, m))
  <2>1. n = c * w /\ n \div w = c
    BY <1>1, <1>3, <1>9, WholeIs
  <2>2. T \in [1 .. n -> Elements]
    BY <1>5 DEF Sorting
  <2>3. PICK p : PlacedBy(Elements, n, T, L, p, c, w)
    BY <1>5, <2>1 DEF Sorting
  <2>4. BlocksOf(Elements, L, Blocks(L, m), c, w)
    BY <1>1, <1>3, <1>4, <2>1, BlocksAre
  <2>5. BlocksOf(Elements, T, Blocks(T, m), c, w)
    BY <1>1, <1>3, <1>4, <2>1, <2>2, BlocksAre
  <2> QED
    BY <1>2, <1>4, <2>3, <2>4, <2>5, BlocksRearranged
<1> QED
  BY <1>5, <1>7, <1>8, <1>9 DEF SortKept

----------------------------------------------------------------------------
(* Blocks glued together *)

\* Every place is in one block.
InABlock(n, c, w, m) == \E q \in 1 .. c : \E x \in 1 .. w : m = Start(q, w) + x
LEMMA PlacesInBlocks ==
  ASSUME NEW c \in Nat, NEW w \in Nat, w > 0, NEW n, n = c * w, NEW m \in 1 .. n
  PROVE  InABlock(n, c, w, m)
<1> DEFINE d == m - 1
<1>1. n \in Nat
  OBVIOUS
<1>2. d \in Nat /\ d < n /\ m = d + 1
  BY <1>1
<1> HIDE DEF d
<1>3. PICK q \in Nat, r \in Nat : d \div w = q /\ d % w = r /\ d = w * q + r /\ r < w
  BY <1>2, DivIs
<1>4. w * q = q * w /\ q * w \in Nat /\ c * w \in Nat
  OBVIOUS
<1>5. q < c
  <2> SUFFICES ASSUME ~(q < c) PROVE FALSE
    OBVIOUS
  <2>1. q = c \/ c < q
    OBVIOUS
  <2>2. CASE q = c
    BY <1>1, <1>2, <1>3, <1>4, <2>2
  <2>3. CASE c < q
    <3>1. c * w + w <= q * w
      BY <2>3, TimesLess
    <3> DEFINE u == c * w
               v == q * w
    <3>2. u \in Nat /\ v \in Nat /\ u + w <= v /\ d = v + r /\ n = u
      BY <1>3, <1>4, <3>1
    <3> HIDE DEF u, v
    <3> QED
      BY <1>2, <1>3, <3>2
  <2> QED
    BY <2>1, <2>2, <2>3
<1>6. q + 1 \in 1 .. c /\ (q + 1) - 1 = q
  BY <1>5
<1>7. r + 1 \in 1 .. w
  BY <1>3
<1>8. m = Start(q + 1, w) + (r + 1)
  <2>1. Start(q + 1, w) = q * w
    BY <1>6 DEF Start
  <2> DEFINE v == q * w
  <2>2. v \in Nat /\ d = v + r /\ Start(q + 1, w) = v
    BY <1>3, <1>4, <2>1
  <2> HIDE DEF v
  <2> QED
    BY <1>2, <2>2
<1> QED
  BY <1>6, <1>7, <1>8 DEF InABlock

\* Where the blocks go determines the list.
LEMMA PlacedOnce ==
  ASSUME NEW S, NEW c \in Nat, NEW w \in Nat, w > 0, NEW n \in Nat, n = c * w, NEW L, NEW T, NEW R, NEW p,
         PlacedBy(S, n, T, L, p, c, w), PlacedBy(S, n, R, L, p, c, w)
  PROVE  T = R
<1>1. T \in [1 .. n -> S] /\ R \in [1 .. n -> S]
  BY DEF PlacedBy
<1>2. ASSUME NEW m \in 1 .. n PROVE T[m] = R[m]
  <2>1. PICK q \in 1 .. c : \E x \in 1 .. w : m = Start(q, w) + x
    <3>1. InABlock(n, c, w, m)
      BY PlacesInBlocks
    <3> QED
      BY <3>1 DEF InABlock
  <2>2. PICK x \in 1 .. w : m = Start(q, w) + x
    BY <2>1
  <2>3. T[Start(q, w) + x] = L[Start(p[q], w) + x] /\ R[Start(q, w) + x] = L[Start(p[q], w) + x]
    BY DEF PlacedBy, Placed
  <2> QED
    BY <2>2, <2>3
<1> DEFINE D == 1 .. n
<1>3. T \in [D -> S] /\ R \in [D -> S] /\ \A m \in D : T[m] = R[m]
  BY <1>1, <1>2
<1> HIDE DEF D
<1> QED
  BY <1>3

Glued(B, p) == FlattenSeq([b \in DOMAIN B |-> B[p[b]]])

LEMMA GluedIsPlaced ==
  ASSUME NEW S, NEW c \in Nat, NEW w \in Nat, NEW n \in Nat, n = c * w, NEW L, NEW B, BlocksOf(S, L, B, c, w),
         NEW p \in Orders(1 .. c)
  PROVE  PlacedBy(S, n, Glued(B, p), L, p, c, w)
<1> DEFINE F == Seq(S)
           seqs == [b \in DOMAIN B |-> B[p[b]]]
<1>1. B \in [1 .. c -> F] /\ (\A q \in 1 .. c : Len(B[q]) = w)
      /\ \A q \in 1 .. c : \A x \in 1 .. w : B[q][x] = L[Start(q, w) + x]
  BY DEF BlocksOf
<1>2. p \in [1 .. c -> 1 .. c]
  <2> DEFINE E == 1 .. c
  <2> HIDE DEF E
  <2>1. p \in Orders(E) => p \in [E -> E]
    BY OrdersAre
  <2> QED
    BY <2>1 DEF E
<1> HIDE DEF F
<1>3. seqs \in [1 .. c -> F] /\ \A q \in 1 .. c : seqs[q] = B[p[q]]
  BY <1>1, <1>2
<1> HIDE DEF seqs
<1>4. \A q \in 1 .. c : Len(seqs[q]) = w
  BY <1>1, <1>2, <1>3
<1> DEFINE T == FlattenSeq(seqs)
<1>5. seqs \in [1 .. c -> Seq(S)]
  BY <1>3 DEF F
<1>6. InBlocks(seqs, c, w, T)
  BY <1>4, <1>5, FlattenBlocks
<1>7. T \in Seq(S)
  BY <1>5, FlattenType
<1>8. T = Glued(B, p)
  BY DEF Glued, seqs
<1> HIDE DEF T
<1>9. Len(T) = n /\ \A q \in 1 .. c : \A x \in 1 .. w : T[(q - 1) * w + x] = seqs[q][x]
  BY <1>6 DEF InBlocks
<1>10. T \in [1 .. n -> S]
  <2>1. n \in Nat
    OBVIOUS
  <2> QED
    BY <1>7, <1>9, <2>1, SeqsAre
<1>11. ASSUME NEW q \in 1 .. c, NEW x \in 1 .. w PROVE T[Start(q, w) + x] = L[Start(p[q], w) + x]
  <2>1. p[q] \in 1 .. c
    BY <1>2
  <2>2. T[Start(q, w) + x] = seqs[q][x]
    BY <1>9 DEF Start
  <2>3. B[p[q]][x] = L[Start(p[q], w) + x]
    BY <1>1, <2>1
  <2> QED
    BY <1>3, <2>2, <2>3
<1>12. PlacedBy(S, n, T, L, p, c, w)
  BY <1>10, <1>11 DEF PlacedBy, Placed
<1> QED
  BY <1>8, <1>12

IsGlued(S, n, L, B, c, w, T, p) == T = Glued(B, p)
LEMMA PlacedIsGlued ==
  ASSUME NEW S, NEW c \in Nat, NEW w \in Nat, w > 0, NEW n \in Nat, n = c * w, NEW L, NEW B, BlocksOf(S, L, B, c, w),
         NEW T, NEW p, PlacedBy(S, n, T, L, p, c, w)
  PROVE  IsGlued(S, n, L, B, c, w, T, p)
<1>1. p \in Orders(1 .. c)
  BY DEF PlacedBy
<1> DEFINE R == Glued(B, p)
<1>2. PlacedBy(S, n, R, L, p, c, w)
  BY <1>1, GluedIsPlaced
<1> HIDE DEF R
<1>3. T = R
  BY <1>2, PlacedOnce
<1> QED
  BY <1>3 DEF R, IsGlued

----------------------------------------------------------------------------
(* What llListRandomize returns *)

LEMMA RoundsAre ==
  ASSUME NEW c \in Nat, c > 0, NEW w \in Nat, w > 0, NEW n, n = c * w
  PROVE  (n - 1) \div w = c - 1
<1> DEFINE d == n - 1
<1>1. d \in Nat
  <2>1. 0 * w + w <= c * w
    BY TimesLess
  <2> QED
    BY <2>1
<1>2. n = d + 1 /\ n \in Nat
  BY <1>1
<1> HIDE DEF d
<1>3. PICK q \in Nat, r \in Nat : d \div w = q /\ d % w = r /\ d = w * q + r /\ r < w
  BY <1>1, DivIs
<1>4. w * q = q * w /\ q * w \in Nat /\ c * w \in Nat
  OBVIOUS
<1>5. q < c
  <2> SUFFICES ASSUME ~(q < c) PROVE FALSE
    OBVIOUS
  <2>1. q = c \/ c < q
    OBVIOUS
  <2>2. CASE q = c
    BY <1>2, <1>3, <1>4, <2>2
  <2>3. CASE c < q
    <3>1. c * w + w <= q * w
      BY <2>3, TimesLess
    <3> DEFINE u == c * w
               v == q * w
    <3>2. u \in Nat /\ v \in Nat /\ u + w <= v /\ d = v + r /\ n = u
      BY <1>3, <1>4, <3>1
    <3> HIDE DEF u, v
    <3> QED
      BY <1>2, <1>3, <3>2
  <2> QED
    BY <2>1, <2>2, <2>3
<1>6. ~(q + 1 < c)
  <2> SUFFICES ASSUME q + 1 < c PROVE FALSE
    OBVIOUS
  <2> DEFINE s == q + 1
  <2>1. s \in Nat /\ s < c /\ s = q + 1
    OBVIOUS
  <2> HIDE DEF s
  <2>2. s * w + w <= c * w
    BY <2>1, TimesLess
  <2>3. s * w = q * w + w
    BY <2>1
  <2> DEFINE u == c * w
             v == q * w
  <2>4. u \in Nat /\ v \in Nat /\ v + w + w <= u /\ d = v + r /\ n = u
    BY <1>3, <1>4, <2>2, <2>3
  <2> HIDE DEF u, v
  <2> QED
    BY <1>2, <1>3, <2>4
<1>7. q = c - 1
  BY <1>5, <1>6
<1> QED
  BY <1>3, <1>7 DEF d

\* A round changes the last stride that it may with one before it or with itself.
Round(left, c, w, k) ==
  \A T : T \in left[k] <=> \E M \in left[k - 1] : \E b \in 1 .. (c - k + 1) :
                             T = Swapped(M, Start(c - k + 1, w), Start(b, w), w)

LEMMA RoundIs ==
  ASSUME NEW c \in Nat, NEW w \in Nat, w > 0, NEW n, n = c * w, NEW L, NEW left, NEW k \in 1 .. (c - 1),
         left[k] = LeftStep(L, n, w, left, k)
  PROVE  Round(left, c, w, k)
<1> DEFINE e == c - k
           i == n - k * w
<1>1. e \in Nat /\ k \in Nat /\ c = e + k
  OBVIOUS
<1> HIDE DEF e
<1>2. i = e * w
  BY <1>1
<1>3. i \div w = e
  <2>1. e * w \in Nat
    BY <1>1
  <2>2. PICK q \in Nat, r \in Nat : i \div w = q /\ i % w = r /\ i = w * q + r /\ r < w
    BY <1>2, <2>1, DivIs
  <2> DEFINE u == q * w
             v == e * w
  <2>3. u \in Nat /\ v \in Nat /\ v = u + r
    BY <1>1, <1>2, <2>2
  <2>4. ~(q < e)
    <3>1. q < e => q * w + w <= e * w
      BY <1>1, TimesLess
    <3>2. q < e => u + w <= v
      BY <3>1
    <3> HIDE DEF u, v
    <3> QED
      BY <2>2, <2>3, <3>2
  <2>5. ~(e < q)
    <3>1. e < q => e * w + w <= q * w
      BY <1>1, TimesLess
    <3>2. e < q => v + w <= u
      BY <3>1
    <3> HIDE DEF u, v
    <3> QED
      BY <2>3, <3>2
  <2> QED
    BY <1>1, <2>2, <2>4, <2>5
<1>4. \A T : T \in left[k] <=> \E M \in left[k - 1] : \E j \in 0 .. e : T = Swapped(M, i, j * w, w)
  <2>1. k # 0
    BY <1>1
  <2> DEFINE many == i \div w
  <2>2. many = e
    BY <1>3
  <2>3. LeftStep(L, n, w, left, k) = {Moved(M, n, k, w, j) : M \in left[k - 1], j \in 0 .. many}
    BY <2>1 DEF LeftStep
  <2> HIDE DEF many, i
  <2>4. \A T : T \in left[k] <=> \E M \in left[k - 1] : \E j \in 0 .. many : T = Moved(M, n, k, w, j)
    BY <2>3
  <2>5. \A M, j : Moved(M, n, k, w, j) = Swapped(M, i, j * w, w)
    BY DEF Moved, i
  <2> QED
    BY <2>2, <2>4, <2>5
<1>5. c - k + 1 = e + 1 /\ i = Start(c - k + 1, w)
  <2>1. c - k + 1 = e + 1 /\ (c - k + 1) - 1 = e
    BY <1>1
  <2> QED
    BY <1>2, <2>1 DEF Start
<1> HIDE DEF i
<1>6. ASSUME NEW T, T \in left[k]
      PROVE  \E M \in left[k - 1] : \E b \in 1 .. (c - k + 1) : T = Swapped(M, Start(c - k + 1, w), Start(b, w), w)
  <2>1. PICK M \in left[k - 1], j \in 0 .. e : T = Swapped(M, i, j * w, w)
    BY <1>4, <1>6
  <2>2. j + 1 \in 1 .. (e + 1) /\ (j + 1) - 1 = j
    BY <1>1
  <2>3. Start(j + 1, w) = j * w
    BY <2>2 DEF Start
  <2> QED
    BY <1>5, <2>1, <2>2, <2>3
<1>7. ASSUME NEW T, NEW M \in left[k - 1], NEW b \in 1 .. (c - k + 1),
             T = Swapped(M, Start(c - k + 1, w), Start(b, w), w)
      PROVE  T \in left[k]
  <2>1. b - 1 \in 0 .. e /\ Start(b, w) = (b - 1) * w
    BY <1>1, <1>5 DEF Start
  <2> QED
    BY <1>4, <1>5, <1>7, <2>1
<1> QED
  BY <1>6, <1>7 DEF Round

LEMMA ShufflesPlace ==
  ASSUME NEW S, NEW n \in Nat, NEW L \in [1 .. n -> S], NEW c \in Nat, c > 0, NEW w \in Nat, w > 0, n = c * w,
         NEW left, left[0] = {L}, \A k \in 1 .. (c - 1) : Round(left, c, w, k), NEW T \in left[c - 1]
  PROVE  \E p : PlacedBy(S, n, T, L, p, c, w)
<1> DEFINE rounds == c - 1
           G == {k \in 0 .. rounds : \A M \in left[k] : \E p : PlacedBy(S, n, M, L, p, c, w)}
<1>1. rounds \in Nat /\ rounds < c
  OBVIOUS
<1>2. 0 \in G
  <2>1. \E p \in Orders(1 .. c) : PlacedBy(S, n, L, L, p, c, w)
    BY PlacedSelf
  <2>2. \A M \in left[0] : \E p : PlacedBy(S, n, M, L, p, c, w)
    BY <2>1
  <2> QED
    BY <1>1, <2>2
<1>3. ASSUME NEW k \in 0 .. (rounds - 1), k \in G PROVE k + 1 \in G
  <2> DEFINE x == k + 1
  <2>1. x \in 1 .. (c - 1) /\ x \in 0 .. rounds /\ x - 1 = k
    BY <1>1
  <2> HIDE DEF x
  <2>2. ASSUME NEW M \in left[x] PROVE \E p : PlacedBy(S, n, M, L, p, c, w)
    <3> DEFINE a == c - x + 1
    <3>1. a \in 1 .. c
      BY <2>1
    <3>2. \E P \in left[k] : \E b \in 1 .. a : M = Swapped(P, Start(a, w), Start(b, w), w)
      BY <2>1 DEF Round
    <3> HIDE DEF a
    <3>3. PICK P \in left[k] : \E b \in 1 .. a : M = Swapped(P, Start(a, w), Start(b, w), w)
      BY <3>2
    <3>4. PICK b \in 1 .. a : M = Swapped(P, Start(a, w), Start(b, w), w)
      BY <3>3
    <3>5. b \in 1 .. c
      BY <3>1
    <3>6. PICK p : PlacedBy(S, n, P, L, p, c, w)
      BY <1>3
    <3>7. PlacedBy(S, n, M, L, Exchanged(p, a, b), c, w)
      BY <3>1, <3>4, <3>5, <3>6, SwapPlaced
    <3> QED
      BY <3>7
  <2> QED
    BY <2>1, <2>2 DEF x
<1> HIDE DEF G
<1>4. rounds \in G
  <2>1. 0 \in Int /\ rounds \in Int /\ rounds \in 0 .. rounds
    BY <1>1
  <2> HIDE DEF rounds
  <2> QED
    BY <1>2, <1>3, <2>1, IntervalInduction
<1> QED
  BY <1>4 DEF G

\* The last blocks are where they belong.
LastPlaced(S, n, L, c, w, p, k, M, r) ==
  PlacedBy(S, n, M, L, r, c, w) /\ \A q \in 1 .. c : q > c - k => r[q] = p[q]

LEMMA LastPlacedGoesOn ==
  ASSUME NEW S, NEW n \in Nat, NEW L \in [1 .. n -> S], NEW c \in Nat, NEW w \in Nat, w > 0, n = c * w,
         NEW p \in Orders(1 .. c), NEW k \in 1 .. (c - 1), NEW M, NEW r, LastPlaced(S, n, L, c, w, p, k - 1, M, r)
  PROVE  \E b \in 1 .. (c - k + 1) : \E s :
           LastPlaced(S, n, L, c, w, p, k, Swapped(M, Start(c - k + 1, w), Start(b, w), w), s)
<1> DEFINE D == 1 .. c
           a == c - k + 1
<1>1. a \in 1 .. c /\ a \in D /\ a \in Int /\ \A q \in D : q \in Int /\ (q > c - (k - 1) <=> q > a)
                       /\ (q > c - k <=> q > a \/ q = a)
  OBVIOUS
<1>2. PlacedBy(S, n, M, L, r, c, w) /\ \A q \in D : q > a => r[q] = p[q]
  BY <1>1 DEF LastPlaced
<1>3. r \in Orders(D) /\ p \in Orders(D)
  BY <1>2 DEF PlacedBy
<1> HIDE DEF D, a
<1>4. /\ p \in [D -> D] /\ (\A v, u \in D : p[v] = p[u] => v = u)
      /\ \A u \in D : \E v \in D : r[v] = u
  BY <1>3, OrdersAre
<1>5. p[a] \in D
  BY <1>1, <1>4
<1>6. PICK b \in D : r[b] = p[a]
  BY <1>4, <1>5
<1>7. ~(b > a)
  <2> SUFFICES ASSUME b > a PROVE FALSE
    OBVIOUS
  <2>1. p[b] = p[a]
    BY <1>2, <1>6
  <2>2. b = a
    BY <1>1, <1>4, <2>1
  <2> QED
    BY <1>1, <2>2
<1>8. b \in 1 .. a /\ b \in 1 .. c
  BY <1>1, <1>7 DEF D
<1> DEFINE T == Swapped(M, Start(a, w), Start(b, w), w)
           s == Exchanged(r, a, b)
<1>9. PlacedBy(S, n, T, L, s, c, w)
  BY <1>1, <1>2, <1>8, SwapPlaced
<1>10. ExchangesTwo(D, r, a, b, s)
  BY <1>1, <1>3, OrdersExchange
<1> HIDE DEF T, s
<1>11. ASSUME NEW q \in D, q > a \/ q = a PROVE s[q] = p[q]
  <2>1. s[q] = IF q = b THEN r[a] ELSE IF q = a THEN r[b] ELSE r[q]
    BY <1>10 DEF ExchangesTwo
  <2>2. CASE q = a
    BY <1>6, <2>1, <2>2
  <2>3. CASE q > a
    <3>1. q # a /\ q # b
      BY <1>1, <1>7, <2>3
    <3> QED
      BY <1>2, <2>1, <2>3, <3>1
  <2> QED
    BY <1>11, <2>2, <2>3
<1>12. LastPlaced(S, n, L, c, w, p, k, T, s)
  BY <1>1, <1>9, <1>11 DEF LastPlaced, D
<1> QED
  BY <1>8, <1>12 DEF T, a

LEMMA AllPlaced ==
  ASSUME NEW S, NEW n, NEW L, NEW c \in Nat, c > 0, NEW w, NEW M, NEW r,
         NEW p \in Orders(1 .. c), LastPlaced(S, n, L, c, w, p, c - 1, M, r)
  PROVE  PlacedBy(S, n, M, L, p, c, w)
<1> DEFINE D == 1 .. c
<1>1. PlacedBy(S, n, M, L, r, c, w) /\ \A q \in D : q > 1 => r[q] = p[q]
  BY DEF LastPlaced
<1>2. r \in Orders(D) /\ p \in Orders(D)
  BY <1>1 DEF PlacedBy
<1>3. 1 \in D /\ \A q \in D : q > 1 \/ q = 1
  OBVIOUS
<1> HIDE DEF D
<1>4. /\ p \in [D -> D] /\ r \in [D -> D]
      /\ (\A v, u \in D : p[v] = p[u] => v = u)
      /\ \A u \in D : \E v \in D : r[v] = u
  BY <1>2, OrdersAre
<1>5. r[1] = p[1]
  <2>1. PICK v \in D : r[v] = p[1]
    BY <1>3, <1>4
  <2>2. CASE v > 1
    <3>1. p[v] = p[1]
      BY <1>1, <2>1, <2>2
    <3>2. v = 1
      BY <1>3, <1>4, <3>1
    <3> QED
      BY <2>1, <3>2
  <2> QED
    BY <1>3, <2>1, <2>2
<1>6. \A q \in D : r[q] = p[q]
  BY <1>1, <1>3, <1>5
<1>7. r = p
  BY <1>4, <1>6
<1> QED
  BY <1>1, <1>7

LEMMA ShufflesReach ==
  ASSUME NEW S, NEW n \in Nat, NEW L \in [1 .. n -> S], NEW c \in Nat, c > 0, NEW w \in Nat, w > 0, n = c * w,
         NEW left, left[0] = {L}, \A k \in 1 .. (c - 1) : Round(left, c, w, k), NEW p \in Orders(1 .. c)
  PROVE  \E M \in left[c - 1] : PlacedBy(S, n, M, L, p, c, w)
<1> DEFINE rounds == c - 1
           G == {k \in 0 .. rounds : \E M \in left[k] : \E r : LastPlaced(S, n, L, c, w, p, k, M, r)}
<1>1. rounds \in Nat /\ rounds < c
  OBVIOUS
<1>2. 0 \in G
  <2>1. PICK r : PlacedBy(S, n, L, L, r, c, w)
    <3>1. \E r \in Orders(1 .. c) : PlacedBy(S, n, L, L, r, c, w)
      BY PlacedSelf
    <3> QED
      BY <3>1
  <2>2. \A q \in 1 .. c : ~(q > c - 0)
    OBVIOUS
  <2>3. LastPlaced(S, n, L, c, w, p, 0, L, r)
    BY <2>1, <2>2 DEF LastPlaced
  <2>4. 0 \in 0 .. rounds /\ L \in left[0]
    BY <1>1
  <2> QED
    BY <2>3, <2>4
<1>3. ASSUME NEW k \in 0 .. (rounds - 1), k \in G PROVE k + 1 \in G
  <2> DEFINE x == k + 1
             a == c - x + 1
  <2>1. x \in 1 .. (c - 1) /\ x \in 0 .. rounds /\ x - 1 = k
    BY <1>1
  <2> HIDE DEF x
  <2>2. PICK M \in left[k] : \E r : LastPlaced(S, n, L, c, w, p, k, M, r)
    BY <1>3
  <2>3. PICK r : LastPlaced(S, n, L, c, w, p, x - 1, M, r)
    BY <2>1, <2>2
  <2>4. \E b \in 1 .. a : \E s : LastPlaced(S, n, L, c, w, p, x, Swapped(M, Start(a, w), Start(b, w), w), s)
    BY <2>1, <2>3, LastPlacedGoesOn
  <2>5. \A T : T \in left[x] <=> \E P \in left[k] : \E b \in 1 .. a : T = Swapped(P, Start(a, w), Start(b, w), w)
    BY <2>1 DEF Round
  <2> HIDE DEF a
  <2>6. PICK b \in 1 .. a : \E s : LastPlaced(S, n, L, c, w, p, x, Swapped(M, Start(a, w), Start(b, w), w), s)
    BY <2>4
  <2> DEFINE T == Swapped(M, Start(a, w), Start(b, w), w)
  <2>7. T \in left[x]
    BY <2>2, <2>5, <2>6
  <2>8. \E s : LastPlaced(S, n, L, c, w, p, x, T, s)
    BY <2>6
  <2> HIDE DEF T
  <2> QED
    BY <2>1, <2>7, <2>8 DEF x
<1> HIDE DEF G
<1>4. rounds \in G
  <2>1. 0 \in Int /\ rounds \in Int /\ rounds \in 0 .. rounds
    BY <1>1
  <2> HIDE DEF rounds
  <2> QED
    BY <1>2, <1>3, <2>1, IntervalInduction
<1>5. PICK M \in left[c - 1] : \E r : LastPlaced(S, n, L, c, w, p, c - 1, M, r)
  BY <1>4 DEF G
<1>6. PICK r : LastPlaced(S, n, L, c, w, p, c - 1, M, r)
  BY <1>5
<1>7. PlacedBy(S, n, M, L, p, c, w)
  BY <1>6, AllPlaced
<1> QED
  BY <1>5, <1>7

\* With whole strides: every order of the blocks, and nothing else.
RandomizedAs(L, B, c, R) == \A T : T \in R <=> \E p \in Orders(1 .. c) : T = Glued(B, p)

LEMMA RandomizesSome ==
  ASSUME NEW S, NEW n \in Nat, n > 0, NEW L \in [1 .. n -> S], NEW m \in Int, NEW w, w = AtLeast(m, 1),
         NEW c \in Nat, n = c * w, NEW B, BlocksOf(S, L, B, c, w), NEW R, R = ListRandomize(L, m)
  PROVE  RandomizedAs(L, B, c, R)
<1>1. w \in Nat /\ w > 0
  BY AtLeastIs
<1>2. c > 0
  <2>1. c = 0 => c * w = 0
    BY <1>1
  <2> QED
    BY <2>1
<1> DEFINE rounds == c - 1
<1>3. rounds = (n - 1) \div w
  BY <1>1, <1>2, RoundsAre
<1> HIDE DEF rounds
<1>4. PICK left : Shuffles(L, n, m, w, rounds, left)
  <2>1. \E left \in [0 .. rounds -> SUBSET {M \in [1 .. n -> S] : Rearranged(M, L)}] :
           Shuffles(L, n, m, w, rounds, left)
    BY ZenonT(60), <1>3, RandomizeLoops
  <2> QED
    BY <2>1
<1>5. rounds \in Nat /\ rounds = c - 1
  BY <1>2 DEF rounds
<1>6. (\A k \in 0 .. rounds : left[k] = LeftStep(L, n, w, left, k)) /\ R = left[c - 1]
  BY <1>4, <1>5 DEF Shuffles
<1>7. left[0] = {L}
  <2>1. 0 \in 0 .. rounds
    BY <1>5
  <2>2. left[0] = LeftStep(L, n, w, left, 0)
    BY <1>6, <2>1
  <2> QED
    BY <2>2 DEF LeftStep
<1>8. \A k \in 1 .. (c - 1) : Round(left, c, w, k)
  <2> SUFFICES ASSUME NEW k \in 1 .. (c - 1) PROVE Round(left, c, w, k)
    OBVIOUS
  <2>1. left[k] = LeftStep(L, n, w, left, k)
    BY <1>5, <1>6
  <2> QED
    BY <1>1, <2>1, RoundIs
<1>9. ASSUME NEW T \in R PROVE \E p \in Orders(1 .. c) : T = Glued(B, p)
  <2>1. T \in left[c - 1]
    BY <1>6
  <2>2. \E p : PlacedBy(S, n, T, L, p, c, w)
    BY <1>1, <1>2, <1>7, <1>8, <2>1, ShufflesPlace
  <2>3. PICK p : PlacedBy(S, n, T, L, p, c, w)
    BY <2>2
  <2>4. T = Glued(B, p)
    <3>1. IsGlued(S, n, L, B, c, w, T, p)
      BY <1>1, <2>3, PlacedIsGlued
    <3> QED
      BY <3>1 DEF IsGlued
  <2>5. p \in Orders(1 .. c)
    BY <2>3 DEF PlacedBy
  <2> QED
    BY <2>4, <2>5
<1>10. ASSUME NEW p \in Orders(1 .. c) PROVE Glued(B, p) \in R
  <2>1. \E M \in left[c - 1] : PlacedBy(S, n, M, L, p, c, w)
    BY <1>1, <1>2, <1>7, <1>8, ShufflesReach
  <2>2. PICK M \in left[c - 1] : PlacedBy(S, n, M, L, p, c, w)
    BY <2>1
  <2>3. M = Glued(B, p)
    <3>1. IsGlued(S, n, L, B, c, w, M, p)
      BY <1>1, <2>2, PlacedIsGlued
    <3> QED
      BY <3>1 DEF IsGlued
  <2> QED
    BY <1>6, <2>3
<1> QED
  BY <1>9, <1>10 DEF RandomizedAs

LEMMA RandomizesNone ==
  ASSUME NEW S, NEW L \in [1 .. 0 -> S], NEW m \in Int, NEW w, w = AtLeast(m, 1),
         NEW B, BlocksOf(S, L, B, 0, w), NEW R, R = ListRandomize(L, m)
  PROVE  RandomizedAs(L, B, 0, R)
<1>1. w \in Nat /\ w > 0
  BY AtLeastIs
<1>2. L = <<>>
  <2>1. L \in Seq(S) /\ Len(L) = 0
    BY SeqsAre
  <2> QED
    BY <2>1, EmptySeq
<1>3. R = {L}
  BY <1>2 DEF ListRandomize
<1>4. ASSUME NEW p \in Orders(1 .. 0) PROVE Glued(B, p) = L
  <2> DEFINE T == Glued(B, p)
  <2>1. PlacedBy(S, 0, T, L, p, 0, w)
    <3>1. 0 = 0 * w
      BY <1>1
    <3> QED
      BY <1>1, <3>1, GluedIsPlaced
  <2> HIDE DEF T
  <2>2. T \in [1 .. 0 -> S]
    BY <2>1 DEF PlacedBy
  <2>3. T \in Seq(S) /\ Len(T) = 0
    BY <2>2, SeqsAre
  <2>4. T = <<>>
    BY <2>3, EmptySeq
  <2> QED
    BY <1>2, <2>4 DEF T
<1>5. \E p : p \in Orders(1 .. 0)
  <2>1. \E p \in Orders(1 .. 0) : PlacedBy(S, 0, L, L, p, 0, w)
    BY PlacedSelf
  <2> QED
    BY <2>1
<1> QED
  BY <1>3, <1>4, <1>5 DEF RandomizedAs

Randomized(L, m, R) ==
  IF Whole(L, m) THEN R = {Glued(Blocks(L, m), p) : p \in Orders(DOMAIN Blocks(L, m))}
  ELSE \A T \in R : Rearranged(T, L)

LEMMA RandomizeKeeps ==
  ASSUME NEW S, NEW L \in Seq(S), NEW m \in Int, NEW R, R = ListRandomize(L, m)
  PROVE  Randomized(L, m, R)
<1> DEFINE n == Len(L)
           w == AtLeast(m, 1)
           c == Count(L, w)
           B == Blocks(L, m)
<1>1. n \in Nat /\ L \in [1 .. n -> S] /\ n = Len(L) /\ DOMAIN L = 1 .. n
  BY LenProperties
<1> HIDE DEF n
<1>2. w \in Nat /\ w > 0
  BY AtLeastIs
<1>3. w = AtLeast(m, 1) /\ c = Count(L, w)
  OBVIOUS
<1> HIDE DEF w, c
<1>4. c \in Nat
  BY <1>1, <1>2, <1>3, CountIs
<1>5. ASSUME Whole(L, m) PROVE R = {Glued(B, p) : p \in Orders(DOMAIN B)}
  <2>1. n = c * w /\ n \div w = c
    BY <1>1, <1>3, <1>5, WholeIs
  <2>2. BlocksOf(S, L, B, c, w)
    BY <1>1, <1>3, <1>4, <2>1, BlocksAre
  <2> HIDE DEF B
  <2>3. DOMAIN B = 1 .. c
    BY <2>2 DEF BlocksOf
  <2>4. RandomizedAs(L, B, c, R)
    <3>1. CASE n > 0
      BY <1>1, <1>3, <1>4, <2>1, <2>2, <3>1, RandomizesSome
    <3>2. CASE n = 0
      <4>1. c = 0
        <5>1. c > 0 => 0 * w + w <= c * w
          BY <1>2, <1>4, TimesLess
        <5> DEFINE u == c * w
        <5>2. u = 0 /\ (c > 0 => w <= u)
          BY <1>2, <2>1, <3>2, <5>1
        <5> HIDE DEF u
        <5> QED
          BY <1>2, <1>4, <5>2
      <4>2. L \in [1 .. 0 -> S] /\ BlocksOf(S, L, B, 0, w)
        BY <1>1, <2>2, <3>2, <4>1
      <4>3. RandomizedAs(L, B, 0, R)
        BY <1>3, <4>2, RandomizesNone
      <4> QED
        BY <4>1, <4>3
    <3> QED
      BY <1>1, <3>1, <3>2
  <2>5. \A T : T \in R <=> \E p \in Orders(DOMAIN B) : T = Glued(B, p)
    BY <2>3, <2>4 DEF RandomizedAs
  <2> QED
    BY <2>5
<1>6. ASSUME NEW T \in R PROVE Rearranged(T, L)
  <2>1. CASE n = 0
    <3>1. L = <<>>
      BY <1>1, <2>1, EmptySeq
    <3>2. R = {L}
      BY <3>1 DEF ListRandomize
    <3> QED
      BY <3>2, RearrangedSelf
  <2>2. CASE n > 0
    <3> DEFINE rounds == (n - 1) \div w
    <3>1. PICK left \in [0 .. rounds -> SUBSET {M \in [1 .. n -> S] : Rearranged(M, L)}] :
             Shuffles(L, n, m, w, rounds, left)
      BY <1>1, <1>3, <2>2, RandomizeLoops
    <3>2. rounds \in Nat
      BY <1>1, <1>2, <2>2, RoundsFit
    <3> HIDE DEF rounds
    <3>3. R = left[rounds]
      BY <3>1 DEF Shuffles
    <3>4. rounds \in 0 .. rounds
      BY <3>2
    <3>5. left[rounds] \in SUBSET {M \in [1 .. n -> S] : Rearranged(M, L)}
      BY <3>1, <3>4
    <3> QED
      BY <3>3, <3>5
  <2> QED
    BY <1>1, <2>1, <2>2
<1> QED
  BY <1>5, <1>6 DEF Randomized

LEMMA StridesAreKept ==
  ASSUME ListsTypeOK
  PROVE  StridesKept
<1> SUFFICES ASSUME IsList, NEW m \in Strides
             PROVE  /\ \A ascending \in BOOLEAN : SortKept(L0, ListSort(L0, m, ascending), m, ascending)
                    /\ Randomized(L0, m, ListRandomize(L0, m))
  BY DEF StridesKept, SortKept, Randomized, Glued
<1>1. L0 \in Seq(Elements)
  BY DEF ListsTypeOK, L0
<1>2. m \in Int
  BY DEF Strides
<1>3. ASSUME NEW ascending \in BOOLEAN PROVE SortKept(L0, ListSort(L0, m, ascending), m, ascending)
  BY <1>1, <1>2, SortKeeps
<1>4. Randomized(L0, m, ListRandomize(L0, m))
  BY <1>1, <1>2, RandomizeKeeps
<1> QED
  BY <1>3, <1>4

\* However strides overlap the end of the list, llListSort leaves the heads in order
\* where they can be compared and moves whole strides only; llListRandomize may return
\* every order of the strides and nothing else.
THEOREM StridesStayTogether == ListsSpec => []StridesKept
BY ListsTyped, StridesAreKept, PTL

----------------------------------------------------------------------------
(* Sequences put together *)

Joins(S, a, b, A, B, C) ==
  C \in [1 .. (a + b) -> S] /\ (\A k \in 1 .. a : C[k] = A[k]) /\ \A k \in 1 .. b : C[a + k] = B[k]
LEMMA JoinedType ==
  ASSUME NEW S, NEW a \in Nat, NEW b \in Nat, NEW A \in [1 .. a -> S], NEW B \in [1 .. b -> S]
  PROVE  Joins(S, a, b, A, B, A \o B)
<1>1. A \in Seq(S) /\ Len(A) = a /\ B \in Seq(S) /\ Len(B) = b
  BY SeqsAre
<1> DEFINE C == A \o B
<1>2. C \in Seq(S) /\ Len(C) = a + b /\ \A k \in 1 .. (a + b) : C[k] = IF k <= a THEN A[k] ELSE B[k - a]
  BY <1>1, ConcatProperties
<1> HIDE DEF C
<1>3. C \in [1 .. (a + b) -> S]
  BY <1>2, SeqsAre
<1>4. ASSUME NEW k \in 1 .. a PROVE C[k] = A[k]
  <2>1. k \in 1 .. (a + b) /\ k <= a
    OBVIOUS
  <2> QED
    BY <1>2, <2>1
<1>5. ASSUME NEW k \in 1 .. b PROVE C[a + k] = B[k]
  <2>1. a + k \in 1 .. (a + b) /\ ~(a + k <= a) /\ (a + k) - a = k
    OBVIOUS
  <2> QED
    BY <1>2, <2>1
<1> QED
  BY <1>3, <1>4, <1>5 DEF Joins, C

LEMMA FlattenJoin ==
  ASSUME NEW S, NEW A \in Seq(Seq(S)), NEW B \in Seq(Seq(S))
  PROVE  FlattenSeq(A \o B) = FlattenSeq(A) \o FlattenSeq(B)
<1> DEFINE F == Seq(S)
           a == Len(A)
           b == Len(B)
           C == A \o B
           n == a + b
<1>1. a \in Nat /\ b \in Nat /\ A \in [1 .. a -> F] /\ B \in [1 .. b -> F]
  BY LenProperties
<1> HIDE DEF a, b
<1>2. C \in [1 .. n -> F] /\ (\A k \in 1 .. a : C[k] = A[k]) /\ \A k \in 1 .. b : C[a + k] = B[k]
  <2> HIDE DEF F
  <2>1. Joins(F, a, b, A, B, C)
    BY <1>1, JoinedType
  <2> QED
    BY <2>1 DEF Joins
<1>3. n \in Nat /\ a \in 0 .. n
  BY <1>1
<1> HIDE DEF C
<1>4. PICK flatA \in [0 .. a -> F] : Flattens(A, a, flatA) /\ FlattenSeq(A) = flatA[a]
  BY <1>1, FlattenLoops
<1>5. PICK flatB \in [0 .. b -> F] : Flattens(B, b, flatB) /\ FlattenSeq(B) = flatB[b]
  BY <1>1, FlattenLoops
<1>6. PICK flat \in [0 .. n -> F] : Flattens(C, n, flat) /\ FlattenSeq(C) = flat[n]
  <2> HIDE DEF n
  <2> QED
    BY <1>2, <1>3, FlattenLoops
<1>7. \A x \in F : x \o <<>> = x
  BY ConcatEmptySeq DEF F
<1>8. \A x, y, z \in F : (x \o y) \o z = x \o (y \o z)
  BY SMTT(30), ConcatAssociative DEF F
<1> HIDE DEF F
<1> DEFINE G == {k \in 0 .. a : flat[k] = flatA[k]}
           H == {k \in 0 .. b : flat[a + k] = flatA[a] \o flatB[k]}
<1>9. a \in G
  <2>1. 0 \in G
    BY <1>1, <1>4, <1>6 DEF Flattens
  <2>2. ASSUME NEW k \in 0 .. (a - 1), k \in G PROVE k + 1 \in G
    <3> DEFINE x == k + 1
    <3>1. x \in 1 .. a /\ x \in 1 .. n /\ x - 1 = k /\ x \in 0 .. a
      BY <1>1
    <3> HIDE DEF x, n
    <3>2. flat[x] = flat[k] \o C[x] /\ flatA[x] = flatA[k] \o A[x] /\ C[x] = A[x]
      BY <1>2, <1>4, <1>6, <3>1 DEF Flattens
    <3>3. flat[k] = flatA[k]
      BY <2>2
    <3> QED
      BY <3>1, <3>2, <3>3 DEF x
  <2> HIDE DEF G
  <2>3. 0 \in Int /\ a \in Int /\ a \in 0 .. a
    BY <1>1
  <2> QED
    BY <2>1, <2>2, <2>3, IntervalInduction
<1>10. b \in H
  <2>1. 0 \in H
    <3>1. a + 0 = a /\ 0 \in 0 .. b /\ flatB[0] = <<>> /\ flatA[a] \in F
      BY <1>1, <1>4, <1>5 DEF Flattens
    <3> QED
      BY <1>7, <1>9, <3>1
  <2>2. ASSUME NEW k \in 0 .. (b - 1), k \in H PROVE k + 1 \in H
    <3> DEFINE x == k + 1
               y == a + x
    <3>1. x \in 1 .. b /\ x - 1 = k /\ x \in 0 .. b /\ y \in 1 .. n /\ y - 1 = a + k
      BY <1>1
    <3>2. C[y] = B[x]
      BY <1>2, <3>1
    <3> HIDE DEF x, y, n
    <3>3. flat[y] = flat[a + k] \o C[y] /\ flatB[x] = flatB[k] \o B[x]
      BY <1>5, <1>6, <3>1 DEF Flattens
    <3>4. flat[a + k] = flatA[a] \o flatB[k]
      BY <2>2
    <3>5. flatA[a] \in F /\ flatB[k] \in F /\ B[x] \in F
      BY <1>1, <1>4, <1>5, <3>1
    <3>6. flat[y] = flatA[a] \o flatB[x]
      <4>1. (flatA[a] \o flatB[k]) \o B[x] = flatA[a] \o (flatB[k] \o B[x])
        BY <1>8, <3>5
      <4> QED
        BY <3>2, <3>3, <3>4, <4>1
    <3> QED
      BY <3>1, <3>6 DEF x, y
  <2> HIDE DEF H
  <2>3. 0 \in Int /\ b \in Int /\ b \in 0 .. b
    BY <1>1
  <2> QED
    BY <2>1, <2>2, <2>3, IntervalInduction
<1> QED
  BY <1>4, <1>5, <1>6, <1>10 DEF C

LEMMA FlattenOne ==
  ASSUME NEW S, NEW x \in Seq(S)
  PROVE  FlattenSeq(<<x>>) = x /\ FlattenSeq(<<>>) = <<>>
<1> DEFINE F == Seq(S)
<1>1. <<x>> \in [1 .. 1 -> F] /\ <<>> \in [1 .. 0 -> F] /\ <<x>>[1] = x
  OBVIOUS
<1>2. PICK flat \in [0 .. 1 -> F] : Flattens(<<x>>, 1, flat) /\ FlattenSeq(<<x>>) = flat[1]
  <2> DEFINE X == <<x>>
  <2>1. X \in [1 .. 1 -> F]
    BY <1>1
  <2> HIDE DEF X
  <2>2. \E flat \in [0 .. 1 -> F] : Flattens(X, 1, flat) /\ FlattenSeq(X) = flat[1]
    BY <2>1, FlattenLoops
  <2> QED
    BY <2>2 DEF X
<1>3. flat[1] = flat[0] \o x /\ flat[0] = <<>>
  <2>1. 1 \in 1 .. 1 /\ 1 - 1 = 0
    OBVIOUS
  <2> QED
    BY <1>1, <1>2, <2>1 DEF Flattens
<1>4. FlattenSeq(<<x>>) = x
  BY <1>2, <1>3, ConcatEmptySeq
<1>5. FlattenSeq(<<>>) = <<>>
  <2>1. PICK none \in [0 .. 0 -> F] : Flattens(<<>>, 0, none) /\ FlattenSeq(<<>>) = none[0]
    BY <1>1, FlattenLoops
  <2> QED
    BY <2>1 DEF Flattens
<1> QED
  BY <1>4, <1>5

\* The pieces that are not empty.
Nonempty(C) == Places(C, {k \in DOMAIN C : C[k] # <<>>})
IfNonempty(x) == IF x = <<>> THEN <<>> ELSE <<x>>

LEMMA NonemptyIsFlat ==
  ASSUME NEW S, NEW C \in Seq(Seq(S))
  PROVE  Nonempty(C) = FlattenSeq([k \in 1 .. Len(C) |-> IfNonempty(C[k])])
<1> DEFINE F == Seq(S)
           n == Len(C)
           kept == {k \in DOMAIN C : C[k] # <<>>}
           seqs == [k \in 1 .. n |-> IfNonempty(C[k])]
<1>1. n \in Nat /\ DOMAIN C = 1 .. n /\ \A k \in 1 .. n : C[k] \in F
  BY LenProperties, ElementOfSeq
<1>2. \A k \in 1 .. n : seqs[k] = IfNonempty(C[k]) /\ seqs[k] \in Seq(F)
  <2>1. \A x \in F : IfNonempty(x) \in Seq(F)
    BY DEF IfNonempty
  <2> QED
    BY <1>1, <2>1
<1>3. seqs \in [1 .. n -> Seq(F)]
  BY <1>2
<1> HIDE DEF seqs
<1>4. PICK some \in [0 .. n -> Seq(F)] : /\ \A k \in 0 .. n : some[k] = PlacesStep(C, kept, some, k)
                                         /\ Places(C, kept) = some[n]
  <2>1. \E some \in [0 .. Len(C) -> Seq(F)] : /\ \A k \in 0 .. Len(C) : some[k] = PlacesStep(C, kept, some, k)
                                             /\ Places(C, kept) = some[Len(C)]
    <3> HIDE DEF kept
    <3>1. Placing(F, C, kept)
      BY PlacesLoops
    <3> QED
      BY <3>1 DEF Placing
  <2> QED
    BY <2>1
<1> HIDE DEF n
<1>5. PICK flat \in [0 .. n -> Seq(F)] : Flattens(seqs, n, flat) /\ FlattenSeq(seqs) = flat[n]
  BY <1>1, <1>3, FlattenLoops
<1> HIDE DEF F
<1>6. \A s \in Seq(F) : s \o <<>> = s
  BY ConcatEmptySeq
<1>7. \A s \in Seq(F) : \A x \in F : Append(s, x) = s \o <<x>>
  OBVIOUS
<1> DEFINE G == {k \in 0 .. n : some[k] = flat[k]}
<1>8. n \in G
  <2>1. 0 \in G
    <3>1. 0 \in 0 .. n /\ flat[0] = <<>>
      BY <1>1, <1>5 DEF Flattens
    <3>2. some[0] = PlacesStep(C, kept, some, 0)
      BY <1>4, <3>1
    <3> QED
      BY <3>1, <3>2 DEF PlacesStep
  <2>2. ASSUME NEW k \in 0 .. (n - 1), k \in G PROVE k + 1 \in G
    <3> DEFINE x == k + 1
    <3>1. x \in 1 .. n /\ x - 1 = k /\ x \in 0 .. n /\ x # 0 /\ k \in 0 .. n
      BY <1>1
    <3> HIDE DEF x
    <3>2. some[x] = IF C[x] # <<>> THEN Append(some[k], C[x]) ELSE some[k]
      <4>1. some[x] = PlacesStep(C, kept, some, x)
        BY <1>4, <3>1
      <4>2. x \in kept <=> C[x] # <<>>
        BY <1>1, <3>1
      <4> HIDE DEF kept
      <4> QED
        BY <3>1, <4>1, <4>2 DEF PlacesStep
    <3>3. flat[x] = flat[k] \o IfNonempty(C[x])
      BY <1>2, <1>5, <3>1 DEF Flattens
    <3>4. some[k] \in Seq(F) /\ C[x] \in F /\ some[k] = flat[k]
      BY <1>1, <1>4, <2>2, <3>1
    <3>5. some[x] = flat[x]
      BY <1>6, <1>7, <3>2, <3>3, <3>4 DEF IfNonempty
    <3> QED
      BY <3>1, <3>5 DEF x
  <2> HIDE DEF G
  <2>3. 0 \in Int /\ n \in Int /\ n \in 0 .. n
    BY <1>1
  <2> QED
    BY <2>1, <2>2, <2>3, IntervalInduction
<1>9. Nonempty(C) = some[n]
  BY <1>4 DEF Nonempty
<1> QED
  BY <1>5, <1>8, <1>9 DEF seqs, n

LEMMA NonemptyJoin ==
  ASSUME NEW S, NEW A \in Seq(Seq(S)), NEW B \in Seq(Seq(S))
  PROVE  Nonempty(A \o B) = Nonempty(A) \o Nonempty(B)
<1> DEFINE F == Seq(S)
           a == Len(A)
           b == Len(B)
           C == A \o B
           seqA == [k \in 1 .. a |-> IfNonempty(A[k])]
           seqB == [k \in 1 .. b |-> IfNonempty(B[k])]
           seqC == [k \in 1 .. Len(C) |-> IfNonempty(C[k])]
<1>1. a \in Nat /\ b \in Nat /\ A \in [1 .. a -> F] /\ B \in [1 .. b -> F]
  BY LenProperties
<1>2. Nonempty(A) = FlattenSeq(seqA) /\ Nonempty(B) = FlattenSeq(seqB)
  BY NonemptyIsFlat
<1>3. C \in Seq(Seq(S)) /\ Len(C) = a + b
  BY ConcatProperties
<1>4. Nonempty(C) = FlattenSeq(seqC)
  <2> HIDE DEF C
  <2> QED
    BY <1>3, NonemptyIsFlat
<1> HIDE DEF a, b
<1>5. Joins(F, a, b, A, B, C)
  <2> HIDE DEF F
  <2> QED
    BY <1>1, JoinedType
<1> HIDE DEF C
<1>6. seqA \in [1 .. a -> Seq(F)] /\ seqB \in [1 .. b -> Seq(F)] /\ seqC \in [1 .. (a + b) -> Seq(F)]
  <2>1. \A x \in F : IfNonempty(x) \in Seq(F)
    BY DEF IfNonempty
  <2>2. C \in [1 .. (a + b) -> F]
    BY <1>5 DEF Joins
  <2> QED
    BY <1>1, <1>3, <2>1, <2>2
<1>7. \A k \in 1 .. a : seqC[k] = seqA[k]
  <2>1. \A k \in 1 .. a : k \in 1 .. (a + b)
    BY <1>1
  <2> QED
    BY <1>3, <1>5, <2>1 DEF Joins
<1>8. \A k \in 1 .. b : seqC[a + k] = seqB[k]
  <2>1. \A k \in 1 .. b : a + k \in 1 .. (a + b)
    BY <1>1
  <2> QED
    BY <1>3, <1>5, <2>1 DEF Joins
<1> HIDE DEF seqA, seqB, seqC
<1> DEFINE X == Seq(F)
<1>9. seqC = seqA \o seqB
  <2> DEFINE T == seqA \o seqB
  <2> HIDE DEF X
  <2>1. Joins(X, a, b, seqA, seqB, T)
    <3>1. seqA \in [1 .. a -> X] /\ seqB \in [1 .. b -> X]
      BY <1>6 DEF X
    <3> QED
      BY <1>1, <3>1, JoinedType
  <2> HIDE DEF T
  <2>2. ASSUME NEW m \in 1 .. (a + b) PROVE seqC[m] = T[m]
    <3>1. m \in 1 .. a \/ (m - a \in 1 .. b /\ m = a + (m - a))
      BY <1>1
    <3> QED
      BY <1>7, <1>8, <2>1, <3>1 DEF Joins
  <2>3. seqC \in [1 .. (a + b) -> X]
    BY <1>6 DEF X
  <2>4. seqC = T
    <3> DEFINE D == 1 .. (a + b)
    <3>1. seqC \in [D -> X] /\ T \in [D -> X] /\ \A m \in D : seqC[m] = T[m]
      BY <2>1, <2>2, <2>3 DEF Joins
    <3> HIDE DEF D
    <3> QED
      BY <3>1
  <2> QED
    BY <2>4 DEF T
<1>10. seqA \in Seq(Seq(F)) /\ seqB \in Seq(Seq(F))
  <2> HIDE DEF X
  <2>1. seqA \in [1 .. a -> X] /\ seqB \in [1 .. b -> X]
    BY <1>6 DEF X
  <2>2. seqA \in Seq(X) /\ seqB \in Seq(X)
    BY <1>1, <2>1, SeqsAre
  <2> QED
    BY <2>2 DEF X
<1>11. FlattenSeq(seqA \o seqB) = FlattenSeq(seqA) \o FlattenSeq(seqB)
  <2> HIDE DEF F
  <2> QED
    BY <1>10, FlattenJoin
<1> QED
  BY <1>2, <1>4, <1>9, <1>11 DEF C

LEMMA NonemptyOne ==
  ASSUME NEW S, NEW x \in Seq(S)
  PROVE  Nonempty(<<x>>) = IfNonempty(x) /\ Nonempty(<<>>) = <<>>
<1> DEFINE F == Seq(S)
           y == IfNonempty(x)
<1>1. <<x>> \in Seq(F) /\ <<>> \in Seq(F) /\ Len(<<x>>) = 1 /\ Len(<<>>) = 0 /\ y \in Seq(F)
  BY DEF IfNonempty
<1> HIDE DEF F
<1>2. Nonempty(<<x>>) = FlattenSeq([k \in 1 .. 1 |-> IfNonempty(<<x>>[k])])
  <2> DEFINE X == <<x>>
  <2>1. X \in Seq(Seq(S)) /\ Len(X) = 1
    BY <1>1 DEF F
  <2> HIDE DEF X
  <2>2. Nonempty(X) = FlattenSeq([k \in 1 .. 1 |-> IfNonempty(X[k])])
    BY <2>1, NonemptyIsFlat
  <2> QED
    BY <2>2 DEF X
<1>3. [k \in 1 .. 1 |-> IfNonempty(<<x>>[k])] = <<y>>
  <2>1. \A k \in 1 .. 1 : k = 1
    OBVIOUS
  <2>2. [k \in 1 .. 1 |-> IfNonempty(<<x>>[k])] = [k \in 1 .. 1 |-> y]
    BY <2>1
  <2> HIDE DEF y
  <2> QED
    BY <2>2
<1>4. FlattenSeq(<<y>>) = y /\ FlattenSeq(<<>>) = <<>>
  <2> HIDE DEF y
  <2> QED
    BY <1>1, FlattenOne
<1>5. Nonempty(<<>>) = <<>>
  <2>1. Nonempty(<<>>) = FlattenSeq([k \in 1 .. Len(<<>>) |-> IfNonempty(<<>>[k])])
    BY <1>1, NonemptyIsFlat DEF F
  <2>2. [k \in 1 .. Len(<<>>) |-> IfNonempty(<<>>[k])] = <<>>
    OBVIOUS
  <2> QED
    BY <1>4, <2>1, <2>2
<1> QED
  BY <1>2, <1>3, <1>4, <1>5

----------------------------------------------------------------------------
(* What Cut leaves out and what it keeps *)

\* What holds at a place if it holds at all later ones holds at all.
LEMMA FromTheEnd ==
  ASSUME NEW n \in Nat, NEW G, \A x \in 0 .. n : (\A y \in 0 .. n : y > x => y \in G) => x \in G
  PROVE  0 .. n \subseteq G
<1> DEFINE H == {k \in 0 .. n : \A y \in 0 .. n : y >= n - k => y \in G}
<1>1. 0 \in H
  <2>1. ASSUME NEW y \in 0 .. n, y >= n - 0 PROVE y \in G
    <3>1. \A z \in 0 .. n : ~(z > y)
      BY <2>1
    <3> QED
      BY <3>1
  <2> QED
    BY <2>1
<1>2. ASSUME NEW k \in 0 .. (n - 1), k \in H PROVE k + 1 \in H
  <2>1. ASSUME NEW y \in 0 .. n, y >= n - (k + 1) PROVE y \in G
    <3>1. \A z \in 0 .. n : z > y => z \in G
      BY <1>2, <2>1
    <3> QED
      BY <3>1
  <2> QED
    BY <2>1
<1>3. n \in H
  <2>1. 0 \in Int /\ n \in Int /\ n \in 0 .. n
    OBVIOUS
  <2> HIDE DEF H
  <2> QED
    BY <1>1, <1>2, <2>1, IntervalInduction
<1> QED
  BY <1>3

PieceOfText(S, chars, a, b, P) ==
  P \in Seq(S) /\ Len(P) = b - a /\ \A k \in 1 .. (b - a) : P[k] = chars[a + k]

LEMMA PieceOfTextIs ==
  ASSUME NEW S, NEW chars \in Seq(S), NEW a \in Nat, NEW b \in Nat, a <= b, b <= Len(chars)
  PROVE  PieceOfText(S, chars, a, b, SubSeq(chars, a + 1, b))
<1> DEFINE P == SubSeq(chars, a + 1, b)
<1>1. a + 1 \in Int /\ b \in Int /\ \A k \in (a + 1) .. b : chars[k] \in S
  <2>1. Len(chars) \in Nat /\ \A k \in 1 .. Len(chars) : chars[k] \in S
    BY LenProperties, ElementOfSeq
  <2> QED
    BY <2>1
<1>2. /\ P \in Seq(S) /\ Len(P) = (IF a + 1 <= b THEN b - (a + 1) + 1 ELSE 0)
      /\ \A k \in 1 .. (b - (a + 1) + 1) : P[k] = chars[(a + 1) + k - 1]
  BY <1>1, SubSeqProperties
<1> HIDE DEF P
<1>3. b - (a + 1) + 1 = b - a /\ Len(P) = b - a
  BY <1>2
<1>4. \A k \in 1 .. (b - a) : (a + 1) + k - 1 = a + k
  OBVIOUS
<1> QED
  BY <1>2, <1>3, <1>4 DEF PieceOfText, P

LEMMA PiecesJoin ==
  ASSUME NEW S, NEW chars \in Seq(S), NEW a \in Nat, NEW b \in Nat, NEW c \in Nat, a <= b, b <= c, c <= Len(chars)
  PROVE  SubSeq(chars, a + 1, b) \o SubSeq(chars, b + 1, c) = SubSeq(chars, a + 1, c)
<1> DEFINE P == SubSeq(chars, a + 1, b)
           Q == SubSeq(chars, b + 1, c)
           R == SubSeq(chars, a + 1, c)
           T == P \o Q
<1>1. PieceOfText(S, chars, a, b, P) /\ PieceOfText(S, chars, b, c, Q) /\ PieceOfText(S, chars, a, c, R)
  <2>1. b <= Len(chars) /\ a <= c
    BY LenProperties
  <2> HIDE DEF P, Q, R
  <2>2. PieceOfText(S, chars, a, b, P)
    BY <2>1, PieceOfTextIs DEF P
  <2>3. PieceOfText(S, chars, b, c, Q)
    BY <2>1, PieceOfTextIs DEF Q
  <2>4. PieceOfText(S, chars, a, c, R)
    BY <2>1, PieceOfTextIs DEF R
  <2> QED
    BY <2>2, <2>3, <2>4
<1> HIDE DEF P, Q, R
<1>2. /\ P \in Seq(S) /\ Q \in Seq(S) /\ R \in Seq(S)
      /\ Len(P) = b - a /\ Len(Q) = c - b /\ Len(R) = c - a
      /\ \A k \in 1 .. (b - a) : P[k] = chars[a + k]
      /\ \A k \in 1 .. (c - b) : Q[k] = chars[b + k]
      /\ \A k \in 1 .. (c - a) : R[k] = chars[a + k]
  BY <1>1 DEF PieceOfText
<1>3. T \in Seq(S) /\ Len(T) = Len(P) + Len(Q)
      /\ \A k \in 1 .. (Len(P) + Len(Q)) : T[k] = IF k <= Len(P) THEN P[k] ELSE Q[k - Len(P)]
  BY <1>2, ConcatProperties
<1> HIDE DEF T
<1>4. Len(P) + Len(Q) = c - a
  BY <1>2
<1>5. ASSUME NEW k \in 1 .. (c - a) PROVE T[k] = R[k]
  <2>1. T[k] = IF k <= b - a THEN P[k] ELSE Q[k - (b - a)]
    BY <1>2, <1>3, <1>4
  <2>2. CASE k <= b - a
    <3>1. k \in 1 .. (b - a)
      BY <2>2
    <3>2. P[k] = chars[a + k] /\ R[k] = chars[a + k]
      BY <1>2, <3>1
    <3> QED
      BY <2>1, <2>2, <3>2
  <2>3. CASE ~(k <= b - a)
    <3>1. k - (b - a) \in 1 .. (c - b) /\ b + (k - (b - a)) = a + k
      BY <2>3
    <3> QED
      BY <1>2, <2>1, <2>3, <3>1
  <2> QED
    BY <2>2, <2>3
<1>6. T = R
  BY <1>2, <1>3, <1>4, <1>5, SeqEqual
<1> QED
  BY <1>6 DEF T, P, Q, R

LEMMA PiecesAgree ==
  ASSUME NEW S, NEW chars \in Seq(S), NEW separators \in Seq(Seq(S)), NEW spacers \in Seq(Seq(S)),
         NEW start \in 0 .. Len(chars), NEW pos \in start .. Len(chars)
  PROVE  /\ Nonempty(Pieces(chars, separators, spacers, TRUE, start, pos)) =
              Pieces(chars, separators, spacers, FALSE, start, pos)
         /\ Nonempty(Remaining(chars, start, TRUE)) = Remaining(chars, start, FALSE)
<1> DEFINE F == Seq(S)
           n == Len(chars)
           P == SubSeq(chars, start + 1, pos)
           R == SubSeq(chars, start + 1, n)
           s == Spacer(chars, separators, spacers, pos)
           I == IF s # <<>> THEN <<s>> ELSE <<>>
<1>1. n \in Nat /\ start \in Nat /\ pos \in Nat /\ start <= pos /\ pos <= n /\ start <= n
  BY LenProperties
<1>2. P \in F /\ Len(P) = pos - start /\ R \in F /\ Len(R) = n - start
  <2>1. PieceOfText(S, chars, start, pos, P) /\ PieceOfText(S, chars, start, n, R)
    <3>1. PieceOfText(S, chars, start, pos, P)
      BY <1>1, PieceOfTextIs
    <3>2. PieceOfText(S, chars, start, n, R)
      BY <1>1, PieceOfTextIs
    <3> QED
      BY <3>1, <3>2
  <2> QED
    BY <2>1 DEF PieceOfText
<1>3. s \in F
  <2>1. pos \in 0 .. Len(chars)
    BY <1>1
  <2> QED
    BY <2>1, AfterIs
<1>4. Pieces(chars, separators, spacers, TRUE, start, pos) = <<P>> \o I
      /\ Pieces(chars, separators, spacers, FALSE, start, pos) = (IF pos > start THEN <<P>> ELSE <<>>) \o I
      /\ Remaining(chars, start, TRUE) = <<R>>
      /\ Remaining(chars, start, FALSE) = (IF start < n THEN <<R>> ELSE <<>>)
  BY DEF Pieces, Remaining
<1> HIDE DEF n, P, R, s, F
<1>5. Nonempty(<<P>>) = IfNonempty(P) /\ Nonempty(<<R>>) = IfNonempty(R) /\ Nonempty(I) = I
  <2>1. Nonempty(<<P>>) = IfNonempty(P)
    BY <1>2, NonemptyOne DEF F
  <2>2. Nonempty(<<R>>) = IfNonempty(R)
    BY <1>2, NonemptyOne DEF F
  <2>3. Nonempty(<<s>>) = IfNonempty(s) /\ Nonempty(<<>>) = <<>>
    BY <1>3, NonemptyOne DEF F
  <2> QED
    BY <2>1, <2>2, <2>3 DEF IfNonempty
<1>6. <<P>> \in Seq(F) /\ I \in Seq(F)
  BY <1>2, <1>3
<1>7. IfNonempty(P) = (IF pos > start THEN <<P>> ELSE <<>>) /\ IfNonempty(R) = (IF start < n THEN <<R>> ELSE <<>>)
  <2>1. P = <<>> <=> Len(P) = 0
    BY <1>2, EmptySeq DEF F
  <2>2. R = <<>> <=> Len(R) = 0
    BY <1>2, EmptySeq DEF F
  <2> QED
    BY <1>1, <1>2, <2>1, <2>2 DEF IfNonempty
<1>8. Nonempty(<<P>> \o I) = Nonempty(<<P>>) \o Nonempty(I)
  <2> HIDE DEF I
  <2> DEFINE X == <<P>>
  <2>1. X \in Seq(Seq(S)) /\ I \in Seq(Seq(S))
    BY <1>6 DEF F
  <2> HIDE DEF X
  <2>2. Nonempty(X \o I) = Nonempty(X) \o Nonempty(I)
    BY <2>1, NonemptyJoin
  <2> QED
    BY <2>2 DEF X
<1> QED
  BY <1>4, <1>5, <1>7, <1>8

\* llParseString2List leaves out the empty pieces.
LEMMA CutsAgree ==
  ASSUME NEW S, NEW chars \in Seq(S), NEW separators \in Seq(Seq(S)), NEW spacers \in Seq(Seq(S))
  PROVE  Cut(chars, separators, spacers, FALSE) = Nonempty(Cut(chars, separators, spacers, TRUE))
<1> DEFINE n == Len(chars)
           D == 0 .. n
           F == Seq(Seq(S))
           stop(start) == StopAt(chars, separators, spacers, start)
           goes(start) == After(chars, separators, spacers, stop(start))
           parts(keep, start) == Pieces(chars, separators, spacers, keep, start, stop(start))
           rest(keep, start) == Remaining(chars, start, keep)
<1>1. n \in Nat
  BY LenProperties
<1>2. PICK all \in [D -> F] : Cuts(chars, separators, spacers, TRUE, all)
  BY CutLoops
<1>3. PICK some \in [D -> F] : Cuts(chars, separators, spacers, FALSE, some)
  BY CutLoops
<1>4. \A x \in D : stop(x) \in x .. n /\ (stop(x) # n => goes(x) \in (stop(x) + 1) .. n)
  BY StopIs
<1>5. \A x \in D : Nonempty(parts(TRUE, x)) = parts(FALSE, x) /\ Nonempty(rest(TRUE, x)) = rest(FALSE, x)
  <2> SUFFICES ASSUME NEW x \in D
               PROVE  Nonempty(parts(TRUE, x)) = parts(FALSE, x) /\ Nonempty(rest(TRUE, x)) = rest(FALSE, x)
    OBVIOUS
  <2>1. stop(x) \in x .. Len(chars)
    BY <1>4
  <2> HIDE DEF stop
  <2> QED
    BY <2>1, PiecesAgree
<1>6. \A x \in D : parts(TRUE, x) \in F
  <2> SUFFICES ASSUME NEW x \in D PROVE parts(TRUE, x) \in F
    OBVIOUS
  <2>1. stop(x) \in 0 .. Len(chars)
    BY <1>1, <1>4
  <2> HIDE DEF stop
  <2> QED
    BY <2>1, PiecesType
<1>7. /\ \A x \in D : all[x] = IF stop(x) = n THEN rest(TRUE, x) ELSE parts(TRUE, x) \o all[goes(x)]
      /\ \A x \in D : some[x] = IF stop(x) = n THEN rest(FALSE, x) ELSE parts(FALSE, x) \o some[goes(x)]
      /\ Cut(chars, separators, spacers, TRUE) = all[0] /\ Cut(chars, separators, spacers, FALSE) = some[0]
  BY <1>2, <1>3 DEF Cuts, CutStep, CutFrom
<1>8. \A A, B \in F : Nonempty(A \o B) = Nonempty(A) \o Nonempty(B)
  BY NonemptyJoin
<1> HIDE DEF n, F, stop, goes, parts, rest
<1> DEFINE G == {x \in D : some[x] = Nonempty(all[x])}
<1>9. ASSUME NEW x \in D, \A y \in D : y > x => y \in G PROVE x \in G
  <2>1. CASE stop(x) = n
    <3>1. all[x] = rest(TRUE, x) /\ some[x] = rest(FALSE, x)
      BY <1>7, <2>1
    <3> QED
      BY <1>5, <3>1
  <2>2. CASE stop(x) # n
    <3>1. goes(x) \in D /\ goes(x) > x
      BY <1>1, <1>4, <2>2
    <3>2. all[x] = parts(TRUE, x) \o all[goes(x)] /\ some[x] = parts(FALSE, x) \o some[goes(x)]
      BY <1>7, <2>2
    <3>3. some[goes(x)] = Nonempty(all[goes(x)])
      BY <1>9, <3>1
    <3>4. Nonempty(parts(TRUE, x) \o all[goes(x)]) = Nonempty(parts(TRUE, x)) \o Nonempty(all[goes(x)])
      BY <1>2, <1>6, <1>8, <3>1
    <3> QED
      BY <1>5, <3>2, <3>3, <3>4
  <2> QED
    BY <2>1, <2>2
<1>10. 0 \in G
  <2> HIDE DEF G
  <2>1. D \subseteq G
    BY <1>1, <1>9, FromTheEnd
  <2> QED
    BY <1>1, <2>1
<1> QED
  BY <1>7, <1>10

LEMMA MatchStands ==
  ASSUME NEW S, NEW chars \in Seq(S), NEW pos \in 0 .. Len(chars), NEW strings \in Seq(Seq(S)),
         NEW M, M = Match(chars, pos, strings)
  PROVE  /\ M # <<>> => SubSeq(chars, pos + 1, pos + Len(M)) = M
         /\ strings = <<>> => M = <<>>
<1> DEFINE There(s) == s # <<>> /\ pos + Len(s) <= Len(chars) /\ SubSeq(chars, pos + 1, pos + Len(s)) = s
           hits == {k \in DOMAIN strings : There(strings[k])}
<1>1. M = IF hits = {} THEN <<>> ELSE strings[Min(hits)]
  BY DEF Match
<1>2. CASE hits = {}
  BY <1>1, <1>2
<1>3. CASE hits # {}
  <2>1. hits \in SUBSET Nat
    BY LenProperties
  <2>2. Min(hits) \in hits
    <3> HIDE DEF hits
    <3> QED
      BY <1>3, <2>1, MinIsLeast
  <2>3. There(strings[Min(hits)])
    BY <2>2
  <2>4. strings # <<>>
    BY <2>2
  <2> HIDE DEF hits
  <2>5. M = strings[Min(hits)]
    BY <1>1, <1>3
  <2> QED
    BY <2>3, <2>4, <2>5
<1> QED
  BY <1>2, <1>3

\* With spacers alone nothing gets lost.
LEMMA NothingLost ==
  ASSUME NEW S, NEW chars \in Seq(S), NEW spacers \in Seq(Seq(S))
  PROVE  FlattenSeq(Cut(chars, <<>>, spacers, TRUE)) = chars
<1> DEFINE n == Len(chars)
           D == 0 .. n
           F == Seq(S)
           none == <<>>
           stop(start) == StopAt(chars, none, spacers, start)
           goes(start) == After(chars, none, spacers, stop(start))
           parts(start) == Pieces(chars, none, spacers, TRUE, start, stop(start))
           part(a, b) == SubSeq(chars, a + 1, b)
<1>1. n \in Nat /\ none \in Seq(F)
  BY LenProperties, EmptySeq
<1> HIDE DEF none
<1>2. PICK all \in [D -> Seq(F)] : Cuts(chars, none, spacers, TRUE, all)
  BY <1>1, CutLoops
<1>3. \A x \in D : stop(x) \in x .. n /\ (stop(x) # n => goes(x) \in (stop(x) + 1) .. n)
  BY <1>1, StopIs
<1>4. \A x \in D : parts(x) \in Seq(F)
  <2> SUFFICES ASSUME NEW x \in D PROVE parts(x) \in Seq(F)
    OBVIOUS
  <2>1. stop(x) \in 0 .. Len(chars)
    BY <1>1, <1>3
  <2> HIDE DEF stop
  <2> QED
    BY <1>1, <2>1, PiecesType
<1>5. /\ \A x \in D : all[x] = IF stop(x) = n THEN <<part(x, n)>> ELSE parts(x) \o all[goes(x)]
      /\ Cut(chars, none, spacers, TRUE) = all[0]
  BY <1>2 DEF Cuts, CutStep, CutFrom, Remaining
<1>6. \A A, B \in Seq(F) : FlattenSeq(A \o B) = FlattenSeq(A) \o FlattenSeq(B)
  BY FlattenJoin
<1>7. \A y \in F : FlattenSeq(<<y>>) = y /\ FlattenSeq(<<>>) = <<>> /\ y \o <<>> = y
  BY FlattenOne, ConcatEmptySeq
<1>8. \A a, b \in D : a <= b => part(a, b) \in F
  <2> SUFFICES ASSUME NEW a \in D, NEW b \in D, a <= b PROVE part(a, b) \in F
    OBVIOUS
  <2>1. a \in Nat /\ b \in Nat /\ b <= Len(chars)
    BY <1>1
  <2>2. PieceOfText(S, chars, a, b, part(a, b))
    BY <2>1, PieceOfTextIs
  <2> QED
    BY <2>2 DEF PieceOfText
<1>9. \A a, b, c \in D : a <= b /\ b <= c => part(a, b) \o part(b, c) = part(a, c)
  <2> SUFFICES ASSUME NEW a \in D, NEW b \in D, NEW c \in D, a <= b, b <= c PROVE part(a, b) \o part(b, c) = part(a, c)
    OBVIOUS
  <2>1. a \in Nat /\ b \in Nat /\ c \in Nat /\ c <= Len(chars)
    BY <1>1
  <2> QED
    BY <2>1, PiecesJoin
<1>10. ASSUME NEW x \in D, stop(x) # n PROVE FlattenSeq(parts(x)) = part(x, goes(x))
  <2> DEFINE pos == stop(x)
             s == Spacer(chars, none, spacers, pos)
             P == part(x, pos)
  <2>1. pos \in D /\ x <= pos /\ goes(x) \in D /\ pos < goes(x)
    <3>1. pos \in x .. n /\ goes(x) \in (pos + 1) .. n
      BY <1>3, <1>10
    <3> HIDE DEF pos, goes
    <3> QED
      BY <1>1, <3>1
  <2>2. s = Match(chars, pos, spacers) /\ goes(x) = pos + Len(s)
    <3> HIDE DEF pos
    <3>1. pos \in 0 .. Len(chars)
      BY <2>1
    <3>2. Separator(chars, none, pos) = <<>>
      BY ZenonT(60), <1>1, <3>1, MatchStands DEF Separator, none
    <3>3. Len(Separator(chars, none, pos)) = 0
      BY <3>2, EmptySeq
    <3>4. s = Match(chars, pos, spacers)
      BY <3>2 DEF Spacer
    <3>5. Len(s) \in Nat
      BY <3>1, <3>4, MatchIs
    <3>6. After(chars, none, spacers, pos) = pos + Len(s)
      BY <3>1, <3>3, <3>5 DEF After
    <3> QED
      BY <3>4, <3>6 DEF pos
  <2>3. parts(x) = <<P>> \o (IF s # <<>> THEN <<s>> ELSE <<>>)
    BY DEF Pieces
  <2> HIDE DEF pos, s, goes, parts, stop
  <2>4. s \in F /\ s # <<>>
    <3>1. pos \in 0 .. Len(chars)
      BY <2>1
    <3>2. s \in F
      BY <2>2, <3>1, MatchIs
    <3>3. s = <<>> => Len(s) = 0
      BY EmptySeq
    <3> QED
      BY <1>1, <2>1, <2>2, <3>2, <3>3
  <2>5. s = part(pos, goes(x))
    <3>1. pos \in 0 .. Len(chars)
      BY <2>1
    <3>2. SubSeq(chars, pos + 1, pos + Len(s)) = s
      BY <2>2, <2>4, <3>1, MatchStands
    <3> QED
      BY <2>2, <3>2
  <2> HIDE DEF part, F
  <2>6. P \in F
    BY <1>8, <2>1
  <2>7. parts(x) = <<P>> \o <<s>>
    BY <2>3, <2>4
  <2>8. <<P>> \in Seq(F) /\ <<s>> \in Seq(F)
    BY <2>4, <2>6
  <2>9. FlattenSeq(<<P>> \o <<s>>) = P \o s
    <3>1. FlattenSeq(<<P>> \o <<s>>) = FlattenSeq(<<P>>) \o FlattenSeq(<<s>>)
      BY <1>6, <2>8
    <3> HIDE DEF P
    <3> QED
      BY <1>7, <2>4, <2>6, <3>1
  <2>10. P \o s = part(x, goes(x))
    <3>1. pos <= goes(x)
      BY <1>1, <2>1
    <3> QED
      BY <1>9, <2>1, <2>5, <3>1
  <2> QED
    BY <2>7, <2>9, <2>10
<1> HIDE DEF n, F, stop, goes, parts, part
<1> DEFINE G == {x \in D : FlattenSeq(all[x]) = part(x, n)}
<1>11. ASSUME NEW x \in D, \A y \in D : y > x => y \in G PROVE x \in G
  <2>1. n \in D /\ x <= n
    BY <1>1
  <2>2. CASE stop(x) = n
    <3>1. part(x, n) \in F
      BY <1>8, <2>1
    <3> QED
      BY <1>5, <1>7, <2>2, <3>1
  <2>3. CASE stop(x) # n
    <3>1. goes(x) \in D /\ goes(x) > x /\ x <= goes(x) /\ goes(x) <= n
      <4>1. stop(x) \in x .. n /\ goes(x) \in (stop(x) + 1) .. n
        BY <1>3, <2>3
      <4> QED
        BY <1>1, <4>1
    <3>2. all[x] = parts(x) \o all[goes(x)]
      BY <1>5, <2>3
    <3>3. FlattenSeq(all[goes(x)]) = part(goes(x), n)
      BY <1>11, <3>1
    <3>4. FlattenSeq(parts(x) \o all[goes(x)]) = FlattenSeq(parts(x)) \o FlattenSeq(all[goes(x)])
      BY <1>2, <1>4, <1>6, <3>1
    <3>5. part(x, goes(x)) \o part(goes(x), n) = part(x, n)
      BY <1>9, <2>1, <3>1
    <3> QED
      BY <1>10, <2>3, <3>2, <3>3, <3>4, <3>5
  <2> QED
    BY <2>2, <2>3
<1>12. 0 \in G
  <2> HIDE DEF G
  <2>1. D \subseteq G
    BY <1>1, <1>11, FromTheEnd
  <2> QED
    BY <1>1, <2>1
<1>13. part(0, n) = chars
  <2>1. SubSeq(chars, 1, Len(chars)) = chars
    BY SubSeqFull
  <2> QED
    BY <2>1 DEF part, n
<1> QED
  BY <1>5, <1>12, <1>13 DEF none

----------------------------------------------------------------------------
(* Pieces joined and cut again *)

\* Where the pieces lie in the part that they are joined to.
Laid(n, P, s, t, begin) ==
  /\ begin \in [1 .. n -> Nat] /\ begin[1] = 0
  /\ \A k \in 1 .. n : /\ begin[k] + Len(P[k]) <= Len(t)
                       /\ \A x \in 1 .. Len(P[k]) : t[begin[k] + x] = P[k][x]
  /\ \A k \in 1 .. (n - 1) : /\ begin[k + 1] = begin[k] + Len(P[k]) + Len(s)
                             /\ \A x \in 1 .. Len(s) : t[begin[k] + Len(P[k]) + x] = s[x]
  /\ begin[n] + Len(P[n]) = Len(t)

JoinedBy(n, s, P) == FlattenSeq([k \in 1 .. n |-> IF k = 1 THEN P[k] ELSE s \o P[k]])

LEMMA LaidOut ==
  ASSUME NEW S, NEW n \in Nat, n > 0, NEW P \in [1 .. n -> Seq(S)], NEW s \in Seq(S), NEW t, t = JoinedBy(n, s, P)
  PROVE  t \in Seq(S) /\ \E begin : Laid(n, P, s, t, begin)
<1> DEFINE F == Seq(S)
           seqs == [k \in 1 .. n |-> IF k = 1 THEN P[k] ELSE s \o P[k]]
<1>1. \A k \in 1 .. n : P[k] \in F /\ s \o P[k] \in F /\ seqs[k] = IF k = 1 THEN P[k] ELSE s \o P[k]
  BY ConcatProperties
<1>2. seqs \in [1 .. n -> F]
  BY <1>1
<1>3. t = FlattenSeq(seqs)
  BY DEF JoinedBy
<1> HIDE DEF seqs
<1>4. PICK flat \in [0 .. n -> F] : Flattens(seqs, n, flat) /\ FlattenSeq(seqs) = flat[n]
  BY <1>2, FlattenLoops
<1>5. flat[0] = <<>> /\ (\A k \in 1 .. n : flat[k] = flat[k - 1] \o seqs[k]) /\ t = flat[n]
  BY <1>3, <1>4 DEF Flattens
<1>6. t \in Seq(S)
  <2>1. n \in 0 .. n
    OBVIOUS
  <2> QED
    BY <1>4, <1>5, <2>1
<1>7. \A y, z \in F : Len(y) \in Nat /\ Len(y \o z) = Len(y) + Len(z)
                      /\ (\A x \in 1 .. Len(y) : (y \o z)[x] = y[x])
                      /\ \A x \in 1 .. Len(z) : (y \o z)[Len(y) + x] = z[x]
  <2> SUFFICES ASSUME NEW y \in F, NEW z \in F
               PROVE  Len(y) \in Nat /\ Len(y \o z) = Len(y) + Len(z)
                      /\ (\A x \in 1 .. Len(y) : (y \o z)[x] = y[x])
                      /\ \A x \in 1 .. Len(z) : (y \o z)[Len(y) + x] = z[x]
    OBVIOUS
  <2> DEFINE a == Len(y)
             b == Len(z)
             c == y \o z
  <2>1. a \in Nat /\ b \in Nat /\ y \in [1 .. a -> S] /\ z \in [1 .. b -> S]
    BY LenProperties
  <2>2. Len(c) = a + b
    BY ConcatProperties
  <2> HIDE DEF a, b
  <2>3. Joins(S, a, b, y, z, c)
    BY <2>1, JoinedType
  <2> HIDE DEF c
  <2> QED
    BY <2>1, <2>2, <2>3 DEF Joins, a, b, c
<1> HIDE DEF F
<1> DEFINE e(k) == Len(flat[k])
           G == {k \in 0 .. n : e(k) <= Len(t) /\ \A m \in 1 .. e(k) : t[m] = flat[k][m]}
<1>8. \A k \in 0 .. n : flat[k] \in F /\ e(k) \in Nat
  BY <1>4, <1>7
<1>9. \A k \in 1 .. n : Len(seqs[k]) \in Nat /\ Len(P[k]) \in Nat /\ Len(s) \in Nat /\ e(k) = e(k - 1) + Len(seqs[k])
                        /\ (\A x \in 1 .. e(k - 1) : flat[k][x] = flat[k - 1][x])
                        /\ \A x \in 1 .. Len(seqs[k]) : flat[k][e(k - 1) + x] = seqs[k][x]
  <2> SUFFICES ASSUME NEW k \in 1 .. n
               PROVE  Len(seqs[k]) \in Nat /\ Len(P[k]) \in Nat /\ Len(s) \in Nat /\ e(k) = e(k - 1) + Len(seqs[k])
                      /\ (\A x \in 1 .. e(k - 1) : flat[k][x] = flat[k - 1][x])
                      /\ \A x \in 1 .. Len(seqs[k]) : flat[k][e(k - 1) + x] = seqs[k][x]
    OBVIOUS
  <2>1. k - 1 \in 0 .. n /\ flat[k] = flat[k - 1] \o seqs[k] /\ seqs[k] \in F /\ P[k] \in F /\ s \in F
    <3>1. k - 1 \in 0 .. n
      OBVIOUS
    <3>2. flat[k] = flat[k - 1] \o seqs[k]
      BY <1>5
    <3>3. seqs[k] \in F /\ P[k] \in F
      BY <1>1, <1>2
    <3>4. s \in F
      BY DEF F
    <3> QED
      BY <3>1, <3>2, <3>3, <3>4
  <2>2. flat[k - 1] \in F
    BY <1>8, <2>1
  <2> QED
    BY <1>7, <2>1, <2>2
<1>10. ASSUME NEW k \in 0 .. n, \A y \in 0 .. n : y > k => y \in G PROVE k \in G
  <2>1. CASE k = n
    BY <1>5, <1>8, <2>1
  <2>2. CASE k # n
    <3> DEFINE x == k + 1
    <3>1. x \in 0 .. n /\ x \in 1 .. n /\ x > k /\ x - 1 = k
      BY <2>2
    <3> HIDE DEF x
    <3>2. e(x) <= Len(t) /\ \A m \in 1 .. e(x) : t[m] = flat[x][m]
      BY <1>10, <3>1
    <3>3. e(x) = e(k) + Len(seqs[x]) /\ Len(seqs[x]) \in Nat /\ \A m \in 1 .. e(k) : flat[x][m] = flat[k][m]
      BY <1>9, <3>1
    <3>4. e(k) \in Nat /\ Len(t) \in Nat
      BY <1>6, <1>7, <1>8 DEF F
    <3> HIDE DEF e
    <3>5. e(k) <= Len(t) /\ \A m \in 1 .. e(k) : m \in 1 .. e(x)
      BY <3>2, <3>3, <3>4
    <3> QED
      BY <3>2, <3>3, <3>5
  <2> QED
    BY <2>1, <2>2
<1>11. \A k \in 0 .. n : e(k) <= Len(t) /\ \A m \in 1 .. e(k) : t[m] = flat[k][m]
  <2>1. 0 .. n \subseteq G
    <3> HIDE DEF G
    <3> QED
      BY <1>10, FromTheEnd
  <2> QED
    BY <2>1
<1> HIDE DEF G
<1>12. ASSUME NEW k \in 1 .. n, NEW x \in 1 .. Len(seqs[k])
       PROVE  e(k - 1) + x <= Len(t) /\ t[e(k - 1) + x] = seqs[k][x]
  <2>1. k - 1 \in 0 .. n /\ k \in 0 .. n
    OBVIOUS
  <2>2. e(k) = e(k - 1) + Len(seqs[k]) /\ e(k) \in Nat /\ e(k - 1) \in Nat /\ Len(seqs[k]) \in Nat
    BY <1>8, <1>9, <2>1
  <2>3. e(k) <= Len(t) /\ \A m \in 1 .. e(k) : t[m] = flat[k][m]
    BY <1>11, <2>1
  <2>4. flat[k][e(k - 1) + x] = seqs[k][x]
    BY <1>9
  <2>5. Len(t) \in Nat
    BY <1>6, <1>7 DEF F
  <2> HIDE DEF e
  <2>6. e(k - 1) + x \in 1 .. e(k)
    BY <2>2
  <2> QED
    BY SMTT(30), <2>2, <2>3, <2>4, <2>5, <2>6
<1> DEFINE begin == [k \in 1 .. n |-> IF k = 1 THEN 0 ELSE e(k - 1) + Len(s)]
<1>13. \A k \in 1 .. n : begin[k] = IF k = 1 THEN 0 ELSE e(k - 1) + Len(s)
  OBVIOUS
<1>14. begin \in [1 .. n -> Nat]
  <2>1. ASSUME NEW k \in 1 .. n PROVE (IF k = 1 THEN 0 ELSE e(k - 1) + Len(s)) \in Nat
    <3>1. k - 1 \in 0 .. n
      OBVIOUS
    <3>2. e(k - 1) \in Nat /\ Len(s) \in Nat
      BY <1>8, <1>9, <3>1
    <3> HIDE DEF e
    <3> QED
      BY <3>2
  <2> QED
    BY <2>1
<1> HIDE DEF begin
\* What is at the beginning of a piece, and at its end.
<1>15. ASSUME NEW k \in 1 .. n
       PROVE  /\ begin[k] + Len(P[k]) = e(k)
              /\ \A x \in 1 .. Len(P[k]) : t[begin[k] + x] = P[k][x]
  <2>1. CASE k = 1
    <3>1. seqs[k] = P[k] /\ begin[k] = 0 /\ k - 1 = 0
      BY <1>1, <1>13, <2>1
    <3>2. e(0) = 0
      BY <1>5, EmptySeq
    <3>3. e(k) = e(0) + Len(P[k]) /\ Len(P[k]) \in Nat
      BY <1>9, <3>1
    <3>4. \A x \in 1 .. Len(P[k]) : t[e(0) + x] = P[k][x]
      BY <1>12, <3>1
    <3> HIDE DEF e
    <3> QED
      BY <3>1, <3>2, <3>3, <3>4
  <2>2. CASE k # 1
    <3>1. seqs[k] = s \o P[k] /\ begin[k] = e(k - 1) + Len(s) /\ k - 1 \in 0 .. n
      <4>1. k - 1 \in 0 .. n
        OBVIOUS
      <4>2. begin[k] = e(k - 1) + Len(s)
        BY <1>13, <2>2
      <4>3. seqs[k] = s \o P[k]
        BY <1>1, <2>2
      <4> QED
        BY <4>1, <4>2, <4>3
    <3>2. s \in F /\ P[k] \in F
      BY <1>1 DEF F
    <3>3. Len(seqs[k]) = Len(s) + Len(P[k]) /\ \A x \in 1 .. Len(P[k]) : seqs[k][Len(s) + x] = P[k][x]
      BY <1>7, <3>1, <3>2
    <3>4. e(k) = e(k - 1) + Len(seqs[k]) /\ e(k - 1) \in Nat /\ Len(P[k]) \in Nat /\ Len(s) \in Nat
      BY <1>8, <1>9, <3>1
    <3>5. \A x \in 1 .. Len(seqs[k]) : t[e(k - 1) + x] = seqs[k][x]
      BY <1>12
    <3> HIDE DEF e
    <3>6. begin[k] + Len(P[k]) = e(k)
      BY <3>1, <3>3, <3>4
    <3>7. ASSUME NEW x \in 1 .. Len(P[k]) PROVE t[begin[k] + x] = P[k][x]
      <4>1. Len(s) + x \in 1 .. Len(seqs[k]) /\ e(k - 1) + (Len(s) + x) = begin[k] + x
        BY <3>1, <3>3, <3>4
      <4>2. t[e(k - 1) + (Len(s) + x)] = seqs[k][Len(s) + x]
        BY <3>5, <4>1
      <4> QED
        BY <3>3, <4>1, <4>2
    <3> QED
      BY <3>6, <3>7
  <2> QED
    BY <2>1, <2>2
<1>16. ASSUME NEW k \in 1 .. (n - 1)
       PROVE  /\ begin[k + 1] = begin[k] + Len(P[k]) + Len(s)
              /\ \A x \in 1 .. Len(s) : t[begin[k] + Len(P[k]) + x] = s[x]
  <2> DEFINE y == k + 1
  <2>1. y \in 1 .. n /\ y # 1 /\ y - 1 = k /\ k \in 1 .. n
    OBVIOUS
  <2> HIDE DEF y
  <2>2. seqs[y] = s \o P[y] /\ begin[y] = e(k) + Len(s) /\ s \in F /\ P[y] \in F
    BY <1>1, <1>13, <2>1 DEF F
  <2>3. begin[k] + Len(P[k]) = e(k)
    BY <1>15, <2>1
  <2>4. Len(seqs[y]) = Len(s) + Len(P[y]) /\ Len(s) \in Nat /\ Len(P[y]) \in Nat
        /\ \A x \in 1 .. Len(s) : seqs[y][x] = s[x]
    BY <1>7, <2>2
  <2>5. \A x \in 1 .. Len(seqs[y]) : t[e(k) + x] = seqs[y][x]
    BY <1>12, <2>1
  <2>6. \A x \in 1 .. Len(s) : x \in 1 .. Len(seqs[y])
    BY <2>4
  <2> HIDE DEF e
  <2>7. begin[y] = begin[k] + Len(P[k]) + Len(s)
    BY <2>2, <2>3
  <2>8. \A x \in 1 .. Len(s) : t[begin[k] + Len(P[k]) + x] = s[x]
    BY <2>3, <2>4, <2>5, <2>6
  <2> QED
    BY <2>7, <2>8 DEF y
<1>17. \A k \in 1 .. n : begin[k] + Len(P[k]) <= Len(t)
  <2>1. \A k \in 1 .. n : k \in 0 .. n
    OBVIOUS
  <2> QED
    BY <1>11, <1>15, <2>1
<1>18. begin[1] = 0 /\ begin[n] + Len(P[n]) = Len(t)
  <2>1. 1 \in 1 .. n /\ n \in 1 .. n
    OBVIOUS
  <2> QED
    BY <1>5, <1>13, <1>15, <2>1
<1>19. Laid(n, P, s, t, begin)
  BY <1>14, <1>15, <1>16, <1>17, <1>18 DEF Laid
<1> QED
  BY <1>6, <1>19

----------------------------------------------------------------------------
\* A part stands in another one at a position.
HasAt(t, s, pos) == pos + Len(s) <= Len(t) /\ \A x \in 1 .. Len(s) : t[pos + x] = s[x]

LEMMA MatchOne ==
  ASSUME NEW S, NEW t \in Seq(S), NEW pos \in 0 .. Len(t), NEW s \in Seq(S), s # <<>>
  PROVE  Match(t, pos, <<s>>) = IF HasAt(t, s, pos) THEN s ELSE <<>>
<1> DEFINE strings == <<s>>
           There(y) == y # <<>> /\ pos + Len(y) <= Len(t) /\ SubSeq(t, pos + 1, pos + Len(y)) = y
           hits == {k \in DOMAIN strings : There(strings[k])}
           a == Len(s)
           P == SubSeq(t, pos + 1, pos + a)
<1>1. Match(t, pos, strings) = IF hits = {} THEN <<>> ELSE strings[Min(hits)]
  BY DEF Match
<1>2. DOMAIN strings = {1} /\ strings[1] = s
  OBVIOUS
<1>3. a \in Nat /\ pos \in Nat /\ Len(t) \in Nat /\ pos <= Len(t)
  BY LenProperties
<1>4. There(s) <=> HasAt(t, s, pos)
  <2>1. CASE pos + a <= Len(t)
    <3>1. pos + a \in Nat /\ pos <= pos + a /\ (pos + a) - pos = a
      BY <1>3
    <3>2. PieceOfText(S, t, pos, pos + a, P)
      BY <1>3, <2>1, <3>1, PieceOfTextIs
    <3>3. P \in Seq(S) /\ Len(P) = a /\ \A x \in 1 .. a : P[x] = t[pos + x]
      BY <3>1, <3>2 DEF PieceOfText
    <3> HIDE DEF P
    <3>4. P = s <=> \A x \in 1 .. a : t[pos + x] = s[x]
      <4>1. ASSUME \A x \in 1 .. a : t[pos + x] = s[x] PROVE P = s
        BY <3>3, <4>1, SeqEqual
      <4> QED
        BY <3>3, <4>1
    <3> QED
      BY <2>1, <3>4 DEF HasAt, P
  <2>2. CASE ~(pos + a <= Len(t))
    BY <2>2 DEF HasAt
  <2> QED
    BY <2>1, <2>2
<1>5. hits = IF There(s) THEN {1} ELSE {}
  BY <1>2
<1>6. Min({1}) = 1
  <2>1. {1} \in SUBSET Nat /\ {1} # {}
    OBVIOUS
  <2>2. Min({1}) \in {1}
    BY <2>1, MinIsLeast
  <2> QED
    BY <2>2
<1> HIDE DEF hits, There, strings
<1>7. CASE There(s)
  BY <1>1, <1>2, <1>4, <1>5, <1>6, <1>7 DEF strings
<1>8. CASE ~There(s)
  BY <1>1, <1>4, <1>5, <1>8 DEF strings
<1> QED
  BY <1>7, <1>8

\* Where a cut at one separator goes on.
LEMMA GoesOn ==
  ASSUME NEW S, NEW t \in Seq(S), NEW pos \in 0 .. Len(t), NEW s \in Seq(S), s # <<>>
  PROVE  /\ After(t, <<s>>, <<>>, pos) = IF HasAt(t, s, pos) THEN pos + Len(s) ELSE pos
         /\ Spacer(t, <<s>>, <<>>, pos) = <<>>
         /\ Len(s) \in Nat /\ Len(s) > 0
<1>1. <<>> \in Seq(Seq(S))
  BY EmptySeq
<1>2. Match(t, pos, <<>>) = <<>>
  <2> DEFINE There(y) == y # <<>> /\ pos + Len(y) <= Len(t) /\ SubSeq(t, pos + 1, pos + Len(y)) = y
             none == <<>>
             hits == {k \in DOMAIN none : There(none[k])}
  <2>1. Match(t, pos, none) = IF hits = {} THEN <<>> ELSE none[Min(hits)]
    BY DEF Match
  <2>2. DOMAIN none = {}
    OBVIOUS
  <2> HIDE DEF There
  <2>3. hits = {}
    BY <2>2
  <2> QED
    BY <2>1, <2>3
<1>3. Spacer(t, <<s>>, <<>>, pos) = <<>>
  BY <1>2 DEF Spacer
<1>4. Len(<<>>) = 0 /\ Len(s) \in Nat /\ Len(s) # 0
  BY EmptySeq, LenProperties
<1>5. Match(t, pos, <<s>>) = IF HasAt(t, s, pos) THEN s ELSE <<>>
  BY MatchOne
<1>6. After(t, <<s>>, <<>>, pos) = pos + Len(Match(t, pos, <<s>>)) + 0
  BY <1>3, <1>4 DEF After, Separator
<1> QED
  BY <1>3, <1>4, <1>5, <1>6

LEMMA NotInside ==
  ASSUME NEW S, NEW n \in Nat, n > 0, NEW P \in [1 .. n -> Seq(S)], NEW s \in Seq(S), s # <<>>, NEW t \in Seq(S),
         NEW begin, Laid(n, P, s, t, begin), NEW k \in 1 .. n, Uncut(P[k], IF k < n THEN s ELSE <<>>, s),
         NEW pos \in Nat, pos < Len(P[k])
  PROVE  ~HasAt(t, s, begin[k] + pos)
<1> DEFINE after == IF k < n THEN s ELSE <<>>
           c == P[k] \o after
           a == Len(P[k])
           b == begin[k]
<1>1. P[k] \in Seq(S) /\ a \in Nat /\ b \in Nat /\ Len(s) \in Nat /\ Len(t) \in Nat
  BY LenProperties DEF Laid
<1>2. after \in Seq(S) /\ Len(after) = IF k < n THEN Len(s) ELSE 0
  BY EmptySeq
<1>3. b + a <= Len(t) /\ \A x \in 1 .. a : t[b + x] = P[k][x]
  BY DEF Laid
<1>4. k < n => \A x \in 1 .. Len(s) : t[b + a + x] = s[x]
  <2> SUFFICES ASSUME k < n PROVE \A x \in 1 .. Len(s) : t[b + a + x] = s[x]
    OBVIOUS
  <2>1. k \in 1 .. (n - 1)
    OBVIOUS
  <2> QED
    BY <2>1 DEF Laid
<1>5. k = n => b + a = Len(t)
  BY DEF Laid
<1> HIDE DEF after, a, b
<1>6. c \in Seq(S) /\ Len(c) = a + Len(after)
      /\ \A x \in 1 .. (a + Len(after)) : c[x] = IF x <= a THEN P[k][x] ELSE after[x - a]
  BY <1>1, <1>2, ConcatProperties DEF a
<1>7. Match(c, pos, <<s>>) = <<>>
  <2>1. pos \in 0 .. (Len(P[k]) - 1)
    BY <1>1 DEF a
  <2> QED
    BY <2>1 DEF Uncut, after
<1> HIDE DEF c
<1>8. ~HasAt(c, s, pos)
  <2>1. pos \in 0 .. Len(c)
    BY <1>1, <1>2, <1>6 DEF a
  <2>2. Match(c, pos, <<s>>) = IF HasAt(c, s, pos) THEN s ELSE <<>>
    BY <1>6, <2>1, MatchOne
  <2> QED
    BY <1>7, <2>2
<1>9. ASSUME HasAt(t, s, b + pos) PROVE HasAt(c, s, pos)
  <2>1. b + pos + Len(s) <= Len(t) /\ \A x \in 1 .. Len(s) : t[b + pos + x] = s[x]
    BY <1>9 DEF HasAt
  <2>2. pos < a
    BY DEF a
  <2>3. pos + Len(s) <= Len(c)
    <3>1. CASE k < n
      BY <1>1, <1>2, <1>6, <2>2, <3>1
    <3>2. CASE k = n
      BY <1>1, <1>2, <1>5, <1>6, <2>1, <3>2
    <3> QED
      BY <3>1, <3>2
  <2>4. ASSUME NEW x \in 1 .. Len(s) PROVE c[pos + x] = s[x]
    <3> DEFINE y == pos + x
    <3>1. y \in 1 .. (a + Len(after)) /\ t[b + y] = s[x]
      <4>1. b + pos + x = b + y
        BY <1>1
      <4>2. t[b + pos + x] = s[x]
        BY <2>1
      <4>3. y \in 1 .. (a + Len(after))
        <5> DEFINE m == Len(after)
        <5>1. m \in Nat /\ Len(c) = a + m
          BY <1>1, <1>2, <1>6
        <5>2. pos + Len(s) <= a + m
          BY <2>3, <5>1
        <5>3. a \in Nat /\ Len(s) \in Nat /\ x >= 1 /\ x <= Len(s)
          BY <1>1
        <5> HIDE DEF m
        <5>4. pos + x \in 1 .. (a + m)
          BY <5>1, <5>2, <5>3
        <5> QED
          BY <5>4 DEF m
      <4> QED
        BY <4>1, <4>2, <4>3
    <3> HIDE DEF y
    <3>2. c[y] = IF y <= a THEN P[k][y] ELSE after[y - a]
      BY <1>6, <3>1
    <3>3. CASE y <= a
      <4>1. y \in 1 .. a
        BY <1>1, <1>2, <3>1, <3>3
      <4> QED
        BY <1>3, <3>1, <3>2, <3>3, <4>1 DEF y
    <3>4. CASE ~(y <= a)
      <4>1. k < n
        BY <1>1, <1>2, <3>1, <3>4
      <4>2. y - a \in 1 .. Len(s) /\ b + a + (y - a) = b + y
        BY <1>1, <1>2, <3>1, <3>4, <4>1
      <4>3. t[b + a + (y - a)] = s[y - a]
        BY <1>4, <4>1, <4>2
      <4>4. after = s
        BY <4>1 DEF after
      <4> QED
        BY <3>1, <3>2, <3>4, <4>2, <4>3, <4>4 DEF y
    <3> QED
      BY <3>3, <3>4
  <2> QED
    BY <2>3, <2>4 DEF HasAt
<1> QED
  BY <1>8, <1>9 DEF b

----------------------------------------------------------------------------
\* Cut at the first piece, then at what follows it.
OneByOne(n, P, Q) == Q[n] = <<P[n]>> /\ \A k \in 1 .. (n - 1) : Q[k] = <<P[k]>> \o Q[k + 1]

LEMMA ByPieces ==
  ASSUME NEW F, NEW n \in Nat, n > 0, NEW P \in [1 .. n -> F], NEW Q \in [1 .. n -> Seq(F)], OneByOne(n, P, Q)
  PROVE  Q[1] = P
<1> DEFINE m == n - 1
           G == {x \in 0 .. m : Len(Q[x + 1]) = n - x /\ \A j \in 1 .. (n - x) : Q[x + 1][j] = P[x + j]}
<1>1. m \in Nat
  OBVIOUS
<1>2. ASSUME NEW x \in 0 .. m, \A y \in 0 .. m : y > x => y \in G PROVE x \in G
  <2>1. CASE x = m
    <3>1. x + 1 = n /\ n - x = 1
      BY <2>1
    <3>2. Q[x + 1] = <<P[n]>>
      BY <3>1 DEF OneByOne
    <3>3. Len(<<P[n]>>) = 1 /\ <<P[n]>>[1] = P[n]
      OBVIOUS
    <3>4. Len(Q[x + 1]) = n - x
      BY <3>1, <3>2, <3>3
    <3>5. \A j \in 1 .. (n - x) : Q[x + 1][j] = P[x + j]
      BY <3>1, <3>2, <3>3
    <3> QED
      BY <3>4, <3>5
  <2>2. CASE x # m
    <3> DEFINE y == x + 1
               A == <<P[y]>>
               B == Q[y + 1]
    <3>1. y \in 0 .. m /\ y > x /\ y \in 1 .. (n - 1) /\ y \in 1 .. n /\ y + 1 \in 1 .. n /\ n - y = n - x - 1
      BY <2>2
    <3>2. y \in G
      BY <1>2, <3>1
    <3>3. Len(B) = n - y /\ \A j \in 1 .. (n - y) : B[j] = P[y + j]
      BY <3>2
    <3>4. Q[y] = A \o B
      BY <3>1 DEF OneByOne
    <3>5. A \in Seq(F) /\ B \in Seq(F) /\ Len(A) = 1 /\ A[1] = P[y]
      <4>1. P[y] \in F
        BY <3>1
      <4>2. A \in Seq(F) /\ Len(A) = 1 /\ A[1] = P[y]
        BY <4>1
      <4> QED
        BY <3>1, <4>2
    <3> HIDE DEF A, B, G
    <3>6. Len(A \o B) = Len(A) + Len(B)
          /\ \A j \in 1 .. (Len(A) + Len(B)) : (A \o B)[j] = IF j <= Len(A) THEN A[j] ELSE B[j - Len(A)]
      BY <3>5, ConcatProperties
    <3>7. Len(Q[y]) = n - x
      BY <3>1, <3>3, <3>4, <3>5, <3>6
    <3>8. ASSUME NEW j \in 1 .. (n - x) PROVE Q[y][j] = P[x + j]
      <4>1. Q[y][j] = IF j <= 1 THEN A[j] ELSE B[j - 1]
        <5>1. j \in 1 .. (Len(A) + Len(B))
          BY <3>1, <3>3, <3>5
        <5>2. (A \o B)[j] = IF j <= Len(A) THEN A[j] ELSE B[j - Len(A)]
          BY <3>6, <5>1
        <5> QED
          BY <3>4, <3>5, <5>2
      <4>2. CASE j = 1
        BY <3>5, <4>1, <4>2
      <4>3. CASE j # 1
        <5> DEFINE i == j - 1
        <5>1. i \in 1 .. (n - y) /\ x + j = y + i /\ ~(j <= 1)
          BY <3>1, <4>3
        <5>2. B[i] = P[y + i]
          BY <3>3, <5>1
        <5> QED
          BY <4>1, <5>1, <5>2
      <4> QED
        BY <4>2, <4>3
    <3> QED
      BY <3>7, <3>8 DEF G
  <2> QED
    BY <2>1, <2>2
<1>3. 0 \in G
  <2> HIDE DEF G
  <2>1. 0 .. m \subseteq G
    BY <1>1, <1>2, FromTheEnd
  <2> QED
    BY <1>1, <2>1
<1>4. Len(Q[1]) = n /\ \A j \in 1 .. n : Q[1][j] = P[j]
  <2>1. Len(Q[0 + 1]) = n - 0 /\ \A j \in 1 .. (n - 0) : Q[0 + 1][j] = P[0 + j]
    BY <1>3
  <2> QED
    BY <2>1
<1>5. Q[1] \in Seq(F) /\ P \in Seq(F) /\ Len(P) = n
  BY SeqDef
<1> QED
  BY <1>4, <1>5, SeqEqual

StopsAt(chars, separators, spacers, start, pos) ==
  /\ pos \in start .. Len(chars)
  /\ pos # Len(chars) => After(chars, separators, spacers, pos) \in (pos + 1) .. Len(chars)
  /\ \A p \in start .. (pos - 1) : After(chars, separators, spacers, p) = p

LEMMA StopIsThere ==
  ASSUME NEW S, NEW chars \in Seq(S), NEW separators \in Seq(Seq(S)), NEW spacers \in Seq(Seq(S)),
         NEW start \in 0 .. Len(chars)
  PROVE  StopsAt(chars, separators, spacers, start, StopAt(chars, separators, spacers, start))
BY StopIs DEF StopsAt

\* Pieces joined with a separator that begins in none of them are cut again.
LEMMA CutsJoined ==
  ASSUME NEW S, NEW n \in Nat, n > 0, NEW P \in [1 .. n -> Seq(S)], NEW s \in Seq(S), s # <<>>,
         NEW t, t = JoinedBy(n, s, P), \A k \in 1 .. n : Uncut(P[k], IF k < n THEN s ELSE <<>>, s)
  PROVE  Cut(t, <<s>>, <<>>, TRUE) = P
<1> DEFINE seps == <<s>>
           none == <<>>
           N == Len(t)
<1>1. t \in Seq(S)
  BY LaidOut
<1>2. PICK begin : Laid(n, P, s, t, begin)
  BY LaidOut
<1>3. seps \in Seq(Seq(S)) /\ none \in Seq(Seq(S))
  BY EmptySeq
<1>4. N \in Nat
  BY <1>1, LenProperties
<1> HIDE DEF seps, none
<1>5. PICK cut \in [0 .. N -> Seq(Seq(S))] : Cuts(t, seps, none, TRUE, cut)
  BY <1>1, <1>3, CutLoops
<1>6. /\ \A x \in 0 .. N : cut[x] = CutFrom(t, seps, none, TRUE, cut, x, StopAt(t, seps, none, x))
      /\ Cut(t, seps, none, TRUE) = cut[0]
  BY <1>5 DEF Cuts, CutStep
<1>7. ASSUME NEW k \in 1 .. n
      PROVE  /\ begin[k] \in Nat /\ Len(P[k]) \in Nat /\ begin[k] <= begin[k] + Len(P[k])
             /\ begin[k] + Len(P[k]) <= N /\ begin[k] \in 0 .. N /\ begin[k] + Len(P[k]) \in 0 .. N
             /\ begin[k] + Len(P[k]) \in Nat
  <2>1. begin[k] \in Nat /\ begin[k] + Len(P[k]) <= N
    BY <1>2 DEF Laid
  <2>2. Len(P[k]) \in Nat
    BY LenProperties
  <2> QED
    BY <1>4, <2>1, <2>2
<1>8. \A pos \in 0 .. N : /\ After(t, seps, none, pos) = IF HasAt(t, s, pos) THEN pos + Len(s) ELSE pos
                          /\ Spacer(t, seps, none, pos) = <<>>
                          /\ Len(s) \in Nat /\ Len(s) > 0
  BY ZenonT(60), <1>1, GoesOn DEF seps, none
<1>9. ASSUME NEW k \in 1 .. n, NEW pos \in Nat, begin[k] <= pos, pos < begin[k] + Len(P[k])
      PROVE  ~HasAt(t, s, pos)
  <2> DEFINE x == pos - begin[k]
  <2>1. x \in Nat /\ x < Len(P[k]) /\ begin[k] + x = pos
    <3>1. begin[k] \in Nat /\ Len(P[k]) \in Nat
      BY <1>7
    <3> QED
      BY <1>9, <3>1
  <2>2. Uncut(P[k], IF k < n THEN s ELSE <<>>, s)
    OBVIOUS
  <2> HIDE DEF x
  <2>3. ~HasAt(t, s, begin[k] + x)
    BY <1>1, <1>2, <2>1, <2>2, NotInside
  <2> QED
    BY <2>1, <2>3
<1>10. ASSUME NEW k \in 1 .. (n - 1)
       PROVE  /\ HasAt(t, s, begin[k] + Len(P[k])) /\ begin[k + 1] = begin[k] + Len(P[k]) + Len(s)
              /\ begin[k] + Len(P[k]) < N
  <2>1. k \in 1 .. n /\ k + 1 \in 1 .. n
    OBVIOUS
  <2>2. /\ begin[k + 1] = begin[k] + Len(P[k]) + Len(s)
        /\ \A x \in 1 .. Len(s) : t[begin[k] + Len(P[k]) + x] = s[x]
    BY <1>2 DEF Laid
  <2>3. begin[k + 1] <= N
    BY <1>4, <1>7, <2>1
  <2>4. Len(s) \in Nat /\ Len(s) > 0
    BY <1>4, <1>8
  <2>5. begin[k] + Len(P[k]) + Len(s) <= N
    BY <2>2, <2>3
  <2>6. HasAt(t, s, begin[k] + Len(P[k]))
    BY <2>2, <2>5 DEF HasAt
  <2>7. begin[k] + Len(P[k]) \in Nat
    BY <1>7, <2>1
  <2>8. begin[k] + Len(P[k]) < N
    BY <1>4, <2>4, <2>5, <2>7
  <2> QED
    BY <2>2, <2>6, <2>8
<1>11. begin[n] + Len(P[n]) = N /\ begin[1] = 0
  BY <1>2 DEF Laid
\* It stops at the end of the piece.
<1>12. ASSUME NEW k \in 1 .. n PROVE StopAt(t, seps, none, begin[k]) = begin[k] + Len(P[k])
  <2> DEFINE stop == StopAt(t, seps, none, begin[k])
             goes(p) == After(t, seps, none, p)
             e == begin[k] + Len(P[k])
             b == begin[k]
  <2>1. b \in Nat /\ e \in Nat /\ b <= e /\ e <= N /\ b \in 0 .. N /\ e \in 0 .. N
    BY <1>7
  <2>2. /\ stop \in b .. N /\ (stop # N => goes(stop) \in (stop + 1) .. N)
        /\ \A p \in b .. (stop - 1) : goes(p) = p
    <3> DEFINE from == begin[k]
    <3>1. from \in 0 .. Len(t)
      BY <1>7
    <3> HIDE DEF from
    <3>2. StopsAt(t, seps, none, from, StopAt(t, seps, none, from))
      BY <1>1, <1>3, <3>1, StopIsThere
    <3> QED
      BY <3>2 DEF StopsAt, from
  <2>3. \A p \in Nat : b <= p /\ p < e => ~HasAt(t, s, p)
    BY <1>9
  <2>4. \A p \in 0 .. N : goes(p) = IF HasAt(t, s, p) THEN p + Len(s) ELSE p
    BY <1>8
  <2>5. Len(s) \in Nat /\ Len(s) > 0
    BY <1>8, <2>1
  <2>6. e # N => HasAt(t, s, e)
    <3>1. k = n => e = N
      BY <1>11
    <3>2. k # n => k \in 1 .. (n - 1)
      OBVIOUS
    <3> QED
      BY <1>10, <3>1, <3>2
  <2> HIDE DEF stop, goes, e, b
  <2>7. stop \in Nat /\ stop \in 0 .. N /\ b <= stop /\ stop <= N
    BY <1>4, <2>1, <2>2
  <2>8. ~(stop < e)
    <3> SUFFICES ASSUME stop < e PROVE FALSE
      OBVIOUS
    <3>1. stop # N /\ ~HasAt(t, s, stop)
      BY <1>4, <2>1, <2>3, <2>7
    <3>2. goes(stop) = stop
      BY <2>4, <2>7, <3>1
    <3> QED
      BY <2>2, <2>7, <3>1, <3>2
  <2>9. ~(stop > e)
    <3> SUFFICES ASSUME stop > e PROVE FALSE
      OBVIOUS
    <3>1. e # N /\ e \in b .. (stop - 1)
      BY <1>4, <2>1, <2>7
    <3>2. goes(e) = e /\ goes(e) = e + Len(s)
      BY <2>1, <2>2, <2>4, <2>6, <3>1
    <3> QED
      BY <2>1, <2>5, <3>2
  <2>10. stop = e
    BY <2>1, <2>7, <2>8, <2>9
  <2> QED
    BY <2>10 DEF stop, e
\* What lies there is the piece.
<1>13. ASSUME NEW k \in 1 .. n PROVE SubSeq(t, begin[k] + 1, begin[k] + Len(P[k])) = P[k]
  <2> DEFINE e == begin[k] + Len(P[k])
             b == begin[k]
             R == SubSeq(t, b + 1, e)
  <2>1. b \in Nat /\ e \in Nat /\ b <= e /\ e <= Len(t) /\ e - b = Len(P[k])
    <3>1. b \in Nat /\ e \in Nat /\ b <= e /\ e <= N
      BY <1>7
    <3>2. e - b = Len(P[k])
      <4>1. b \in Nat /\ Len(P[k]) \in Nat
        BY <1>7
      <4> QED
        BY <4>1
    <3> QED
      BY <3>1, <3>2
  <2>2. \A x \in 1 .. Len(P[k]) : t[b + x] = P[k][x]
    BY <1>2 DEF Laid
  <2> HIDE DEF e, b
  <2>3. PieceOfText(S, t, b, e, R)
    BY <1>1, <2>1, PieceOfTextIs
  <2> HIDE DEF R
  <2>4. R \in Seq(S) /\ Len(R) = Len(P[k]) /\ \A x \in 1 .. Len(P[k]) : R[x] = P[k][x]
    BY <2>1, <2>2, <2>3 DEF PieceOfText
  <2>5. R = P[k]
    BY <2>4, SeqEqual
  <2> QED
    BY <2>5 DEF R, b, e
<1> DEFINE Q == [k \in 1 .. n |-> cut[begin[k]]]
<1>14. Q \in [1 .. n -> Seq(Seq(S))]
  <2>1. \A k \in 1 .. n : cut[begin[k]] \in Seq(Seq(S))
    BY <1>5, <1>7
  <2> QED
    BY <2>1
<1>15. \A k \in 1 .. n : Q[k] = CutFrom(t, seps, none, TRUE, cut, begin[k], begin[k] + Len(P[k]))
  BY <1>6, <1>7, <1>12
<1>16. \A k \in 1 .. n : Q[k] = cut[begin[k]]
  OBVIOUS
<1> HIDE DEF Q
<1>17. Q[n] = <<P[n]>>
  <2>1. n \in 1 .. n
    OBVIOUS
  <2>2. SubSeq(t, begin[n] + 1, Len(t)) = P[n]
    BY <1>11, <1>13, <2>1
  <2>3. Q[n] = Remaining(t, begin[n], TRUE)
    BY <1>11, <1>15, <2>1 DEF CutFrom
  <2> QED
    BY <2>2, <2>3 DEF Remaining
<1>18. ASSUME NEW k \in 1 .. (n - 1) PROVE Q[k] = <<P[k]>> \o Q[k + 1]
  <2> DEFINE e == begin[k] + Len(P[k])
  <2>1. k \in 1 .. n /\ k + 1 \in 1 .. n
    OBVIOUS
  <2>2. e \in 0 .. N /\ e \in Nat /\ e < N /\ HasAt(t, s, e) /\ begin[k + 1] = e + Len(s)
    BY <1>7, <1>10, <2>1
  <2>3. SubSeq(t, begin[k] + 1, e) = P[k]
    BY <1>13, <2>1
  <2>4. Q[k] = CutFrom(t, seps, none, TRUE, cut, begin[k], e)
    BY <1>15, <2>1
  <2> HIDE DEF e
  <2>5. After(t, seps, none, e) = begin[k + 1] /\ Spacer(t, seps, none, e) = <<>>
    BY <1>8, <2>2
  <2>6. e # Len(t)
    BY <1>4, <2>2
  <2>7. Q[k] = Pieces(t, seps, none, TRUE, begin[k], e) \o cut[begin[k + 1]]
    BY <2>4, <2>5, <2>6 DEF CutFrom
  <2>8. Pieces(t, seps, none, TRUE, begin[k], e) = <<P[k]>> \o <<>>
    BY <2>3, <2>5 DEF Pieces
  <2>9. <<P[k]>> \o <<>> = <<P[k]>>
    <3> DEFINE A == <<P[k]>>
    <3>1. A \in Seq(Seq(S))
      BY <2>1
    <3> HIDE DEF A
    <3>2. A \o <<>> = A
      BY <3>1, ConcatEmptySeq
    <3> QED
      BY <3>2 DEF A
  <2> QED
    BY <1>16, <2>1, <2>7, <2>8, <2>9
<1>19. OneByOne(n, P, Q)
  BY <1>17, <1>18 DEF OneByOne
<1>20. Q[1] = P
  BY <1>14, <1>19, ByPieces
<1>21. Q[1] = cut[0]
  <2>1. 1 \in 1 .. n
    OBVIOUS
  <2> QED
    BY <1>11, <1>16, <2>1
<1> QED
  BY <1>6, <1>20, <1>21 DEF seps, none

----------------------------------------------------------------------------
(* llDumpList2String *)

LEMMA DumpIsJoined ==
  ASSUME NEW L \in Seq(Elements), NEW s \in Seq(Nat)
  PROVE  /\ Strings(L) \in [1 .. Len(L) -> Seq(Nat)]
         /\ DumpList2String(L, s) = JoinedBy(Len(L), s, Strings(L))
<1> DEFINE D == 1 .. Len(L)
           C == Strings(L)
<1>1. DOMAIN L = D
  BY LenProperties
<1>2. ASSUME NEW k \in D PROVE Chars(L[k]) \in Seq(Nat) /\ C[k] = Chars(L[k])
  <2>1. L[k] \in Elements
    BY ElementOfSeq
  <2>2. Chars(L[k]) \in Seq(Nat)
    BY <2>1, CharsType
  <2> QED
    BY <1>1, <2>2 DEF Strings
<1>3. C \in [D -> Seq(Nat)]
  BY <1>1, <1>2 DEF Strings
<1>4. DumpList2String(L, s) = FlattenSeq([k \in D |-> IF k = 1 THEN Chars(L[k]) ELSE s \o Chars(L[k])])
  BY <1>1 DEF DumpList2String
<1> HIDE DEF C
<1>5. JoinedBy(Len(L), s, C) = FlattenSeq([k \in D |-> IF k = 1 THEN C[k] ELSE s \o C[k]])
  BY DEF JoinedBy
<1> HIDE DEF D
<1>6. [k \in D |-> IF k = 1 THEN Chars(L[k]) ELSE s \o Chars(L[k])] = [k \in D |-> IF k = 1 THEN C[k] ELSE s \o C[k]]
  BY <1>2
<1> QED
  BY <1>3, <1>4, <1>5, <1>6 DEF C, D

UndoneWith(L, s) ==
  (\A k \in DOMAIN L : Uncut(Chars(L[k]), IF k < Len(L) THEN s ELSE <<>>, s)) =>
    ParseString(DumpList2String(L, s), <<s>>, <<>>, TRUE) = Texts(Strings(L))

LEMMA DumpUndone ==
  ASSUME NEW L \in Seq(Elements), L # <<>>, NEW s \in Seq(Nat), s # <<>>
  PROVE  UndoneWith(L, s)
<1> SUFFICES ASSUME \A k \in DOMAIN L : Uncut(Chars(L[k]), IF k < Len(L) THEN s ELSE <<>>, s)
             PROVE  ParseString(DumpList2String(L, s), <<s>>, <<>>, TRUE) = Texts(Strings(L))
  BY DEF UndoneWith
<1> DEFINE n == Len(L)
           C == Strings(L)
           t == DumpList2String(L, s)
<1>1. n \in Nat /\ n > 0 /\ DOMAIN L = 1 .. n
  BY LenProperties, EmptySeq
<1>2. C \in [1 .. n -> Seq(Nat)] /\ t = JoinedBy(n, s, C)
  BY DumpIsJoined
<1>3. \A k \in 1 .. n : Uncut(C[k], IF k < n THEN s ELSE <<>>, s)
  BY <1>1 DEF Strings
<1> HIDE DEF n, C, t
<1>4. Cut(t, <<s>>, <<>>, TRUE) = C
  BY ZenonT(60), <1>1, <1>2, <1>3, CutsJoined
<1> QED
  BY <1>4 DEF ParseString, C, t

----------------------------------------------------------------------------
(* llCSV2List *)

NoComma(c) == \A x \in 1 .. Len(c) : c[x] # Comma

LEMMA CommasCut ==
  ASSUME NEW c \in Seq(Nat), NEW after \in Seq(Nat)
  PROVE  /\ Uncut(c, <<>>, <<Comma>>) => NoComma(c)
         /\ NoComma(c) => Uncut(c, after, <<Comma>>)
<1> DEFINE s == <<Comma>>
           a == Len(c)
<1>1. s \in Seq(Nat) /\ s # <<>> /\ Len(s) = 1 /\ s[1] = Comma
  BY DEF Comma
<1>2. a \in Nat /\ Len(after) \in Nat
  BY LenProperties
<1>3. c \o <<>> = c
  BY ConcatEmptySeq
<1>4. c \o after \in Seq(Nat) /\ Len(c \o after) = a + Len(after)
      /\ \A x \in 1 .. (a + Len(after)) : (c \o after)[x] = IF x <= a THEN c[x] ELSE after[x - a]
  BY ConcatProperties
<1> HIDE DEF s
<1>5. ASSUME NEW t \in Seq(Nat), NEW pos \in 0 .. (Len(t) - 1)
      PROVE  Match(t, pos, <<s>>) = <<>> <=> t[pos + 1] # Comma
  <2>1. Len(t) \in Nat
    BY LenProperties
  <2>2. Match(t, pos, <<s>>) = IF HasAt(t, s, pos) THEN s ELSE <<>>
    <3>1. pos \in 0 .. Len(t)
      BY <2>1
    <3> QED
      BY <1>1, <3>1, MatchOne
  <2>3. HasAt(t, s, pos) <=> t[pos + 1] = Comma
    <3>1. pos + Len(s) <= Len(t) /\ 1 .. Len(s) = {1}
      BY <1>1, <2>1
    <3> QED
      BY <1>1, <3>1 DEF HasAt
  <2> QED
    BY <1>1, <2>2, <2>3
<1>6. ASSUME Uncut(c, <<>>, s) PROVE NoComma(c)
  <2> SUFFICES ASSUME NEW x \in 1 .. Len(c) PROVE c[x] # Comma
    BY DEF NoComma
  <2> DEFINE pos == x - 1
  <2>1. pos \in 0 .. (Len(c) - 1) /\ pos + 1 = x
    BY <1>2
  <2> HIDE DEF pos
  <2>2. Match(c, pos, <<s>>) = <<>>
    BY <1>3, <1>6, <2>1 DEF Uncut
  <2> QED
    BY <1>5, <2>1, <2>2
<1>7. ASSUME NoComma(c) PROVE Uncut(c, after, s)
  <2> SUFFICES ASSUME NEW pos \in 0 .. (Len(c) - 1) PROVE Match(c \o after, pos, <<s>>) = <<>>
    BY DEF Uncut
  <2> DEFINE t == c \o after
  <2>1. pos + 1 \in 1 .. Len(c) /\ pos + 1 \in 1 .. (a + Len(after)) /\ pos + 1 <= a
    BY <1>2
  <2>2. t[pos + 1] = c[pos + 1]
    BY <1>4, <2>1
  <2>3. t \in Seq(Nat) /\ pos \in 0 .. (Len(t) - 1)
    BY <1>2, <1>4
  <2> HIDE DEF t
  <2>4. t[pos + 1] # Comma
    BY <1>7, <2>1, <2>2 DEF NoComma
  <2>5. Match(t, pos, <<s>>) = <<>>
    BY <1>5, <2>3, <2>4
  <2> QED
    BY <2>5 DEF t
<1> QED
  BY <1>6, <1>7 DEF s

\* A space before a text that begins with none is trimmed.
LEMMA SpaceTrimmed ==
  ASSUME NEW c \in Seq(Nat), Trimmed(c) = c
  PROVE  Trimmed(<<Space>> \o c) = c
<1> DEFINE q == <<Space>> \o c
           a == Len(c)
           gap(y) == {k \in 0 .. Len(y) : \A m \in 1 .. k : y[m] = Space}
<1>1. a \in Nat
  BY LenProperties
<1>2. q \in Seq(Nat) /\ Len(q) = a + 1 /\ q[1] = Space /\ \A x \in 1 .. a : q[x + 1] = c[x]
  <2> DEFINE B == <<Space>>
  <2>1. B \in Seq(Nat) /\ Len(B) = 1 /\ B[1] = Space
    BY DEF Space
  <2> HIDE DEF B
  <2>2. B \o c \in Seq(Nat) /\ Len(B \o c) = Len(B) + a
        /\ \A x \in 1 .. (Len(B) + a) : (B \o c)[x] = IF x <= Len(B) THEN B[x] ELSE c[x - Len(B)]
    BY <2>1, ConcatProperties
  <2> DEFINE R == B \o c
  <2>3. R \in Seq(Nat) /\ Len(R) = a + 1 /\ \A x \in 1 .. (a + 1) : R[x] = IF x <= 1 THEN B[x] ELSE c[x - 1]
    BY <1>1, <2>1, <2>2
  <2>4. q = R
    BY DEF B
  <2> HIDE DEF R, q
  <2>5. q[1] = Space
    BY <1>1, <2>1, <2>3, <2>4
  <2>6. \A x \in 1 .. a : x + 1 \in 1 .. (a + 1) /\ ~(x + 1 <= 1) /\ x + 1 - 1 = x
    BY <1>1
  <2> QED
    BY <1>1, <2>3, <2>4, <2>5, <2>6
<1>3. /\ Trimmed(c) = SubSeq(c, Max(gap(c)) + 1, Len(c))
      /\ Trimmed(q) = SubSeq(q, Max(gap(q)) + 1, Len(q))
  BY DEF Trimmed
<1> HIDE DEF q
<1>4. /\ gap(c) \in SUBSET (0 .. a) /\ 0 \in gap(c)
      /\ gap(q) \in SUBSET (0 .. (a + 1)) /\ 0 \in gap(q)
  BY <1>1, <1>2
<1>5. /\ \A k \in 0 .. a : k \in gap(c) <=> \A m \in 1 .. k : c[m] = Space
      /\ \A k \in 0 .. (a + 1) : k \in gap(q) <=> \A m \in 1 .. k : q[m] = Space
  BY <1>2
<1> HIDE DEF gap
<1>6. Max(gap(c)) \in gap(c) /\ \A k \in gap(c) : k <= Max(gap(c))
  BY <1>1, <1>4, MaxIsGreatest
<1>7. Max(gap(q)) \in gap(q) /\ \A k \in gap(q) : k <= Max(gap(q))
  <2>1. a + 1 \in Nat
    BY <1>1
  <2> QED
    BY <1>4, <2>1, MaxIsGreatest
<1>8. Max(gap(c)) = 0
  <2> DEFINE m == Max(gap(c))
             R == SubSeq(c, m + 1, a)
  <2>1. m \in 0 .. a /\ m \in Nat /\ m <= a /\ a <= Len(c)
    BY <1>1, <1>4, <1>6
  <2> HIDE DEF m
  <2>2. PieceOfText(Nat, c, m, a, R)
    BY <1>1, <2>1, PieceOfTextIs
  <2>3. Len(R) = a - m
    BY <2>2 DEF PieceOfText
  <2>4. R = c
    BY <1>3 DEF m
  <2> HIDE DEF R
  <2>5. a = a - m
    BY <2>3, <2>4
  <2> QED
    BY <1>1, <2>1, <2>5 DEF m
<1>9. Max(gap(q)) = 1
  <2> DEFINE m == Max(gap(q))
  <2>1. 1 \in gap(q)
    <3>1. 1 \in 0 .. (a + 1)
      BY <1>1
    <3> QED
      BY <1>2, <1>5, <3>1
  <2>2. m \in 0 .. (a + 1) /\ m >= 1 /\ m \in gap(q)
    BY <1>1, <1>4, <1>7, <2>1
  <2> HIDE DEF m
  <2>3. ~(m >= 2)
    <3> SUFFICES ASSUME m >= 2 PROVE FALSE
      OBVIOUS
    <3>1. 2 \in 1 .. m /\ 1 \in 1 .. a /\ 1 \in 0 .. a
      BY <1>1, <2>2
    <3>2. q[2] = Space
      BY <1>5, <2>2, <3>1
    <3>3. q[1 + 1] = c[1]
      BY <1>2, <3>1
    <3>4. 1 \in gap(c)
      BY <1>5, <3>1, <3>2, <3>3
    <3> QED
      BY <1>6, <1>8, <3>4
  <2>4. m = 1
    BY <1>1, <2>2, <2>3
  <2> QED
    BY <2>4 DEF m
<1>10. SubSeq(q, 1 + 1, a + 1) = c
  <2> DEFINE R == SubSeq(q, 1 + 1, a + 1)
             b == a + 1
  <2>1. 1 \in Nat /\ b \in Nat /\ 1 <= b /\ b <= Len(q) /\ b - 1 = a
    BY <1>1, <1>2
  <2>2. PieceOfText(Nat, q, 1, b, SubSeq(q, 1 + 1, b))
    <3> HIDE DEF b
    <3> QED
      BY <1>2, <2>1, PieceOfTextIs
  <2>3. R \in Seq(Nat) /\ Len(R) = a /\ \A x \in 1 .. a : R[x] = q[1 + x]
    BY <2>1, <2>2 DEF PieceOfText
  <2> HIDE DEF R
  <2>4. \A x \in 1 .. a : R[x] = c[x]
    <3>1. \A x \in 1 .. a : 1 + x = x + 1
      OBVIOUS
    <3> QED
      BY <1>2, <2>3, <3>1
  <2>5. R = c
    BY <2>3, <2>4, SeqEqual
  <2> QED
    BY <2>5 DEF R
<1> QED
  BY <1>2, <1>3, <1>9, <1>10 DEF q

----------------------------------------------------------------------------
\* A comma and a space between are a comma between and a space before all but the first.
Spaced(n, C) == [k \in 1 .. n |-> IF k = 1 THEN C[k] ELSE <<Space>> \o C[k]]

LEMMA SpacedJoin ==
  ASSUME NEW n \in Nat, NEW C \in [1 .. n -> Seq(Nat)]
  PROVE  /\ Spaced(n, C) \in [1 .. n -> Seq(Nat)]
         /\ JoinedBy(n, <<Comma, Space>>, C) = JoinedBy(n, <<Comma>>, Spaced(n, C))
<1> DEFINE D == 1 .. n
           P == Spaced(n, C)
           one == <<Comma>>
           gap == <<Space>>
           both == <<Comma, Space>>
<1>1. one \in Seq(Nat) /\ gap \in Seq(Nat) /\ one \o gap = both
  <2>1. one \in Seq(Nat) /\ Len(one) = 1 /\ one[1] = Comma /\ gap \in Seq(Nat) /\ Len(gap) = 1 /\ gap[1] = Space
    BY DEF Comma, Space
  <2>2. both \in Seq(Nat) /\ Len(both) = 2 /\ both[1] = Comma /\ both[2] = Space
    BY DEF Comma, Space
  <2> HIDE DEF one, gap, both
  <2> DEFINE R == one \o gap
  <2>3. R \in Seq(Nat) /\ Len(R) = 2 /\ \A k \in 1 .. (1 + 1) : R[k] = IF k <= 1 THEN one[k] ELSE gap[k - 1]
    <3>1. one \in Seq(Nat) /\ gap \in Seq(Nat)
      BY <2>1
    <3>2. R \in Seq(Nat) /\ Len(R) = Len(one) + Len(gap)
          /\ \A k \in 1 .. (Len(one) + Len(gap)) : R[k] = IF k <= Len(one) THEN one[k] ELSE gap[k - Len(one)]
      BY <3>1, ConcatProperties
    <3> HIDE DEF R
    <3> QED
      BY <2>1, <3>2
  <2> HIDE DEF R
  <2>4. R[1] = Comma /\ R[2] = Space
    <3>1. 1 \in 1 .. (1 + 1) /\ 2 \in 1 .. (1 + 1) /\ 2 - 1 = 1
      OBVIOUS
    <3> QED
      BY <2>1, <2>3, <3>1
  <2>5. \A k \in 1 .. Len(R) : R[k] = both[k]
    <3>1. \A k \in 1 .. 2 : k = 1 \/ k = 2
      OBVIOUS
    <3> QED
      BY <2>2, <2>3, <2>4, <3>1
  <2>6. R = both
    BY <2>2, <2>3, <2>5, SeqEqual
  <2> QED
    BY <2>1, <2>6 DEF R
<1>2. \A k \in D : C[k] \in Seq(Nat)
  OBVIOUS
<1>3. \A k \in D : P[k] = IF k = 1 THEN C[k] ELSE gap \o C[k]
  BY DEF Spaced
<1>4. JoinedBy(n, both, C) = FlattenSeq([k \in D |-> IF k = 1 THEN C[k] ELSE both \o C[k]])
      /\ JoinedBy(n, one, P) = FlattenSeq([k \in D |-> IF k = 1 THEN P[k] ELSE one \o P[k]])
  BY DEF JoinedBy
<1>5. P = [k \in D |-> IF k = 1 THEN C[k] ELSE gap \o C[k]]
  BY DEF Spaced
<1> HIDE DEF D, P, one, gap, both
<1>6. \A y \in Seq(Nat) : gap \o y \in Seq(Nat) /\ both \o y = one \o (gap \o y)
  <2> SUFFICES ASSUME NEW y \in Seq(Nat) PROVE gap \o y \in Seq(Nat) /\ both \o y = one \o (gap \o y)
    OBVIOUS
  <2>1. gap \o y \in Seq(Nat)
    BY <1>1, ConcatProperties
  <2>2. one \in Seq(Nat) /\ gap \in Seq(Nat)
    BY <1>1
  <2>3. (one \o gap) \o y = one \o (gap \o y)
    BY SMTT(30), <2>2, ConcatAssociative
  <2> QED
    BY <1>1, <2>1, <2>3
<1>7. P \in [D -> Seq(Nat)]
  <2>1. \A k \in D : (IF k = 1 THEN C[k] ELSE gap \o C[k]) \in Seq(Nat)
    BY <1>2, <1>6
  <2> QED
    BY <1>5, <2>1
<1>8. \A k \in D : (IF k = 1 THEN C[k] ELSE both \o C[k]) = (IF k = 1 THEN P[k] ELSE one \o P[k])
  <2> SUFFICES ASSUME NEW k \in D
               PROVE  (IF k = 1 THEN C[k] ELSE both \o C[k]) = (IF k = 1 THEN P[k] ELSE one \o P[k])
    OBVIOUS
  <2>1. CASE k = 1
    BY <1>3, <2>1
  <2>2. CASE k # 1
    <3>1. P[k] = gap \o C[k] /\ both \o C[k] = one \o (gap \o C[k])
      BY <1>2, <1>3, <1>6, <2>2
    <3> QED
      BY <2>2, <3>1
  <2> QED
    BY <2>1, <2>2
<1>9. [k \in D |-> IF k = 1 THEN C[k] ELSE both \o C[k]] = [k \in D |-> IF k = 1 THEN P[k] ELSE one \o P[k]]
  BY <1>8
<1> QED
  BY <1>4, <1>7, <1>9 DEF D, P, one, both

CSVUndone(L) ==
  (\A k \in DOMAIN L : Uncut(Chars(L[k]), <<>>, <<Comma>>) /\ Trimmed(Chars(L[k])) = Chars(L[k])) =>
    LET before == IF Len(L) > 1 THEN <<Space>> ELSE <<>>
    IN  CSV2List(List2CSV(L)) = Texts([Strings(L) EXCEPT ![Len(L)] = before \o @])

LEMMA CSVUndoes ==
  ASSUME NEW L \in Seq(Elements), L # <<>>
  PROVE  CSVUndone(L)
<1> SUFFICES ASSUME \A k \in DOMAIN L : Uncut(Chars(L[k]), <<>>, <<Comma>>) /\ Trimmed(Chars(L[k])) = Chars(L[k])
             PROVE  CSV2List(List2CSV(L)) =
                      Texts([Strings(L) EXCEPT ![Len(L)] = (IF Len(L) > 1 THEN <<Space>> ELSE <<>>) \o @])
  BY DEF CSVUndone
<1> DEFINE n == Len(L)
           D == 1 .. n
           C == Strings(L)
           P == Spaced(n, C)
           t == List2CSV(L)
           comma == <<Comma>>
           none == <<>>
           before == IF n > 1 THEN <<Space>> ELSE <<>>
           W == [C EXCEPT ![n] = before \o @]
           R == [k \in DOMAIN P |-> Text(IF k < Len(P) THEN Trimmed(P[k]) ELSE P[k])]
<1>1. n \in Nat /\ n > 0 /\ DOMAIN L = D
  BY LenProperties, EmptySeq
<1>2. comma \in Seq(Nat) /\ comma # <<>> /\ <<Comma, Space>> \in Seq(Nat)
  BY DEF Comma, Space
<1>3. C \in [D -> Seq(Nat)] /\ t = JoinedBy(n, <<Comma, Space>>, C)
  BY <1>2, DumpIsJoined DEF List2CSV
<1>4. \A k \in D : C[k] = Chars(L[k])
  BY <1>1 DEF Strings
<1> HIDE DEF n, C, t, D
<1>5. \A k \in D : Uncut(C[k], <<>>, <<Comma>>) /\ Trimmed(C[k]) = C[k] /\ C[k] \in Seq(Nat)
  BY <1>1, <1>3, <1>4
<1>6. P \in [D -> Seq(Nat)] /\ t = JoinedBy(n, comma, P)
  BY <1>1, <1>3, SpacedJoin DEF D
<1>7. \A k \in D : P[k] = IF k = 1 THEN C[k] ELSE <<Space>> \o C[k]
  BY DEF Spaced, D
<1> HIDE DEF P
<1>8. ASSUME NEW k \in D PROVE Uncut(P[k], IF k < n THEN comma ELSE <<>>, comma)
  <2> DEFINE after == IF k < n THEN comma ELSE <<>>
  <2>1. after \in Seq(Nat)
    BY <1>2
  <2> HIDE DEF after
  <2>2. NoComma(C[k])
    BY <1>5, <2>1, CommasCut
  <2>3. NoComma(P[k])
    <3>1. CASE k = 1
      BY <1>7, <2>2, <3>1
    <3>2. CASE k # 1
      <4> DEFINE gap == <<Space>>
                 Q == gap \o C[k]
                 a == Len(C[k])
      <4>1. gap \in Seq(Nat) /\ Len(gap) = 1 /\ gap[1] # Comma
        BY DEF Space, Comma
      <4>2. a \in Nat
        BY <1>5, LenProperties
      <4> HIDE DEF gap
      <4>3. Len(Q) = Len(gap) + a /\ \A x \in 1 .. (Len(gap) + a) : Q[x] = IF x <= Len(gap) THEN gap[x] ELSE C[k][x - Len(gap)]
        BY ZenonT(60), <1>5, <4>1, ConcatProperties
      <4> HIDE DEF Q
      <4>4. ASSUME NEW x \in 1 .. Len(Q) PROVE Q[x] # Comma
        <5>1. x \in 1 .. (1 + a) /\ Q[x] = IF x <= 1 THEN gap[x] ELSE C[k][x - 1]
          BY <4>1, <4>3
        <5>2. CASE x <= 1
          <6>1. x = 1
            BY <4>2, <5>1, <5>2
          <6> QED
            BY <4>1, <5>1, <6>1
        <5>3. CASE ~(x <= 1)
          <6>1. x - 1 \in 1 .. Len(C[k])
            BY <4>2, <5>1, <5>3
          <6> QED
            BY <2>2, <5>1, <5>3, <6>1 DEF NoComma
        <5> QED
          BY <5>2, <5>3
      <4>5. P[k] = Q
        BY <1>7, <3>2 DEF Q, gap
      <4> QED
        BY <4>4, <4>5 DEF NoComma
    <3> QED
      BY <3>1, <3>2
  <2>4. P[k] \in Seq(Nat)
    BY <1>6
  <2>5. Uncut(P[k], after, comma)
    BY <2>1, <2>3, <2>4, CommasCut
  <2> QED
    BY <2>5 DEF after
<1>9. Cut(t, <<comma>>, <<>>, TRUE) = P
  <2> HIDE DEF comma
  <2> QED
    BY ZenonT(60), <1>1, <1>2, <1>6, <1>8, CutsJoined DEF D
<1>10. CSV2List(t) = R
  BY <1>9 DEF CSV2List
<1>11. DOMAIN P = D /\ Len(P) = n
  <2>1. P \in Seq(Nat) \/ Len(P) = n
    BY <1>1, <1>6, SeqsAre DEF D
  <2>2. P \in Seq(Seq(Nat)) /\ Len(P) = n
    BY <1>1, <1>6, SeqsAre DEF D
  <2> QED
    BY <1>6, <2>2
<1>12. ASSUME NEW k \in D PROVE (IF k < n THEN Trimmed(P[k]) ELSE P[k]) = W[k]
  <2>1. CASE k < n
    <3>1. W[k] = C[k]
      <4>1. k # n
        BY <1>1, <2>1 DEF D
      <4> HIDE DEF D
      <4> QED
        BY <1>3, <4>1
    <3>2. Trimmed(P[k]) = C[k]
      <4>1. CASE k = 1
        BY <1>5, <1>7, <4>1
      <4>2. CASE k # 1
        <5>1. Trimmed(<<Space>> \o C[k]) = C[k]
          BY <1>5, SpaceTrimmed
        <5> QED
          BY <1>7, <4>2, <5>1
      <4> QED
        BY <4>1, <4>2
    <3> QED
      BY <2>1, <3>1, <3>2
  <2>2. CASE ~(k < n)
    <3>1. k = n
      BY <1>1, <2>2 DEF D
    <3>2. W[k] = before \o C[k]
      BY <1>3, <3>1
    <3>3. P[k] = before \o C[k]
      <4>1. CASE n = 1
        <5>1. <<>> \o C[k] = C[k]
          BY <1>5, ConcatEmptySeq
        <5> QED
          BY <1>7, <3>1, <4>1, <5>1
      <4>2. CASE n # 1
        <5>1. n > 1
          BY <1>1, <4>2
        <5> QED
          BY <1>7, <3>1, <4>2, <5>1
      <4> QED
        BY <4>1, <4>2
    <3> QED
      BY <2>2, <3>2, <3>3
  <2> QED
    BY <2>1, <2>2
<1>13. DOMAIN W = D
  BY <1>3
<1> HIDE DEF W
<1>14. R = [k \in D |-> Text(W[k])]
  BY <1>11, <1>12
<1>15. Texts(W) = [k \in D |-> Text(W[k])]
  BY <1>13 DEF Texts
<1> QED
  BY <1>10, <1>14, <1>15 DEF t, W, n, C

----------------------------------------------------------------------------
(* Pieces of a text *)

LEMMA TextsOfPlaces ==
  ASSUME NEW C \in Seq(Seq(Nat)), NEW kept
  PROVE  Texts(Places(C, kept)) = Places(Texts(C), kept)
<1> DEFINE n == Len(C)
           T == Texts(C)
           F == Seq(Nat)
<1>1. n \in Nat /\ DOMAIN C = 1 .. n
  BY LenProperties
<1>2. T \in Seq(Elements) /\ Len(T) = n /\ \A k \in 1 .. n : T[k] = Text(C[k])
  <2>1. \A k \in 1 .. n : Text(C[k]) \in Elements
    BY ElementOfSeq DEF Text, Elements
  <2>2. T \in [1 .. n -> Elements]
    BY <1>1, <2>1 DEF Texts
  <2>3. \A k \in 1 .. n : T[k] = Text(C[k])
    BY <1>1 DEF Texts
  <2> HIDE DEF T, n
  <2> QED
    BY <1>1, <2>2, <2>3, SeqsAre
<1>3. PICK some \in [0 .. n -> Seq(F)] :
        (\A k \in 0 .. n : some[k] = PlacesStep(C, kept, some, k)) /\ Places(C, kept) = some[n]
  <2>1. Placing(F, C, kept)
    BY PlacesLoops
  <2> QED
    BY <2>1 DEF Placing
<1>4. \A k \in 1 .. n : C[k] \in F
  BY ElementOfSeq
<1> HIDE DEF T
<1>5. PICK texts \in [0 .. n -> Seq(Elements)] :
        (\A k \in 0 .. n : texts[k] = PlacesStep(T, kept, texts, k)) /\ Places(T, kept) = texts[n]
  <2>1. T \in Seq(Elements)
    BY <1>2
  <2>2. \E texts \in [0 .. Len(T) -> Seq(Elements)] :
          (\A k \in 0 .. Len(T) : texts[k] = PlacesStep(T, kept, texts, k)) /\ Places(T, kept) = texts[Len(T)]
    <3>1. Placing(Elements, T, kept)
      BY <2>1, PlacesLoops
    <3> QED
      BY <3>1 DEF Placing
  <2>3. Len(T) = n
    BY <1>2
  <2> QED
    BY <2>2, <2>3
<1> HIDE DEF n
<1>6. ASSUME NEW A \in Seq(F), NEW x \in F PROVE Texts(Append(A, x)) = Append(Texts(A), Text(x))
  <2> DEFINE m == Len(A)
             B == Append(A, x)
             U == Texts(A)
             V == Append(U, Text(x))
  <2>1. m \in Nat /\ DOMAIN A = 1 .. m
    BY LenProperties
  <2>2. B \in Seq(F) /\ Len(B) = m + 1 /\ DOMAIN B = 1 .. (m + 1)
        /\ (\A k \in 1 .. m : B[k] = A[k]) /\ B[m + 1] = x
    BY AppendProperties, LenProperties
  <2>3. U \in Seq(Elements) /\ Len(U) = m /\ \A k \in 1 .. m : U[k] = Text(A[k])
    <3>1. \A k \in 1 .. m : Text(A[k]) \in Elements
      BY ElementOfSeq DEF Text, Elements, F
    <3>2. U \in [1 .. m -> Elements]
      BY <2>1, <3>1 DEF Texts
    <3>3. \A k \in 1 .. m : U[k] = Text(A[k])
      BY <2>1 DEF Texts
    <3> HIDE DEF U, m
    <3> QED
      BY <2>1, <3>2, <3>3, SeqsAre
  <2>4. Text(x) \in Elements
    BY DEF Text, Elements
  <2> HIDE DEF U, B, m
  <2>5. V \in Seq(Elements) /\ Len(V) = m + 1 /\ (\A k \in 1 .. m : V[k] = U[k]) /\ V[m + 1] = Text(x)
    BY <2>3, <2>4, AppendProperties
  <2>6. Texts(B) \in Seq(Elements) /\ Len(Texts(B)) = m + 1 /\ \A k \in 1 .. (m + 1) : Texts(B)[k] = Text(B[k])
    <3>1. \A k \in 1 .. (m + 1) : Text(B[k]) \in Elements
      BY <2>2, ElementOfSeq DEF Text, Elements, F
    <3>2. Texts(B) \in [1 .. (m + 1) -> Elements]
      BY <2>2, <3>1 DEF Texts
    <3>3. \A k \in 1 .. (m + 1) : Texts(B)[k] = Text(B[k])
      BY <2>2 DEF Texts
    <3>4. m + 1 \in Nat
      BY <2>1
    <3> QED
      BY <3>2, <3>3, <3>4, SeqsAre
  <2> HIDE DEF V
  <2>7. ASSUME NEW k \in 1 .. (m + 1) PROVE Texts(B)[k] = V[k]
    <3>1. CASE k \in 1 .. m
      BY <2>2, <2>3, <2>5, <2>6, <3>1
    <3>2. CASE k = m + 1
      BY <2>2, <2>5, <2>6, <3>2
    <3> QED
      BY <2>1, <3>1, <3>2
  <2>8. Texts(B) = V
    BY <2>5, <2>6, <2>7, SeqEqual
  <2> QED
    BY <2>8 DEF B, V, U
<1> DEFINE G == {k \in 0 .. n : Texts(some[k]) = texts[k]}
<1>7. 0 \in G
  <2>1. 0 \in 0 .. n
    BY <1>1
  <2>2. some[0] = <<>> /\ texts[0] = <<>>
    BY <1>3, <1>5, <2>1 DEF PlacesStep
  <2>3. Texts(<<>>) = <<>>
    BY DEF Texts
  <2> QED
    BY <2>1, <2>2, <2>3
<1>8. ASSUME NEW k \in 0 .. (n - 1), k \in G PROVE k + 1 \in G
  <2> DEFINE x == k + 1
  <2>1. x \in 1 .. n /\ x \in 0 .. n /\ x # 0 /\ x - 1 = k /\ k \in 0 .. n
    BY <1>1
  <2> HIDE DEF x
  <2>2. some[x] = (IF x \in kept THEN Append(some[k], C[x]) ELSE some[k])
        /\ texts[x] = (IF x \in kept THEN Append(texts[k], T[x]) ELSE texts[k])
    BY <1>3, <1>5, <2>1 DEF PlacesStep
  <2>3. Texts(some[k]) = texts[k]
    BY <1>8
  <2>4. Texts(Append(some[k], C[x])) = Append(texts[k], T[x])
    <3>1. some[k] \in Seq(F) /\ C[x] \in F /\ T[x] = Text(C[x])
      BY <1>2, <1>3, <1>4, <2>1
    <3> QED
      BY <1>6, <2>3, <3>1
  <2>5. Texts(some[x]) = texts[x]
    BY <2>2, <2>3, <2>4
  <2> QED
    BY <2>1, <2>5 DEF x
<1>9. n \in G
  <2>1. 0 \in Int /\ n \in Int /\ n \in 0 .. n
    BY <1>1
  <2> HIDE DEF G
  <2> QED
    BY <1>7, <1>8, <2>1, IntervalInduction
<1> QED
  BY <1>3, <1>5, <1>9 DEF T

PiecesUndone(chars, separators, spacers) ==
  LET all == ParseString(chars, separators, spacers, TRUE)
      some == ParseString(chars, separators, spacers, FALSE)
  IN  /\ some = Places(all, {k \in DOMAIN all : all[k].chars # <<>>})
      /\ separators = <<>> => DumpList2String(all, <<>>) = chars

LEMMA PiecesAreAll ==
  ASSUME NEW chars \in Seq(Nat), NEW separators \in Seq(Seq(Nat)), NEW spacers \in Seq(Seq(Nat))
  PROVE  PiecesUndone(chars, separators, spacers)
<1> DEFINE C == Cut(chars, separators, spacers, TRUE)
           B == Cut(chars, separators, spacers, FALSE)
           all == Texts(C)
           none == <<>>
<1>1. C \in Seq(Seq(Nat)) /\ B = Nonempty(C)
  BY CutType, CutsAgree
<1>2. separators = <<>> => FlattenSeq(C) = chars
  BY NothingLost
<1>3. ParseString(chars, separators, spacers, TRUE) = all /\ ParseString(chars, separators, spacers, FALSE) = Texts(B)
  BY DEF ParseString
<1> HIDE DEF C, B
<1>4. DOMAIN all = DOMAIN C /\ \A k \in DOMAIN C : all[k] = Text(C[k]) /\ all[k].kind = "text" /\ all[k].chars = C[k]
  BY DEF Texts, Text
<1>5. {k \in DOMAIN all : all[k].chars # <<>>} = {k \in DOMAIN C : C[k] # <<>>}
  BY <1>4
<1>6. Texts(B) = Places(all, {k \in DOMAIN all : all[k].chars # <<>>})
  <2> DEFINE K == {k \in DOMAIN C : C[k] # <<>>}
  <2>1. B = Places(C, K)
    BY <1>1 DEF Nonempty
  <2> HIDE DEF K
  <2>2. Texts(Places(C, K)) = Places(all, K)
    BY <1>1, TextsOfPlaces
  <2> QED
    BY <1>5, <2>1, <2>2 DEF K
<1>7. DumpList2String(all, <<>>) = FlattenSeq(C)
  <2> DEFINE D == 1 .. Len(C)
             seqs == [k \in DOMAIN all |-> IF k = 1 THEN Chars(all[k]) ELSE <<>> \o Chars(all[k])]
  <2>1. DOMAIN C = D /\ \A k \in D : C[k] \in Seq(Nat)
    BY <1>1, LenProperties, ElementOfSeq
  <2>2. \A k \in D : Chars(all[k]) = C[k] /\ <<>> \o C[k] = C[k]
    <3>1. \A k \in D : Chars(all[k]) = C[k]
      BY <1>4, <2>1 DEF Chars
    <3>2. \A k \in D : <<>> \o C[k] = C[k]
      BY <2>1, ConcatEmptySeq
    <3> QED
      BY <3>1, <3>2
  <2> HIDE DEF D, all
  <2>3. DOMAIN seqs = D /\ \A k \in D : seqs[k] = C[k]
    BY <1>4, <2>1, <2>2
  <2>4. seqs = [k \in D |-> C[k]]
    BY <1>4, <2>1, <2>2
  <2>5. C = [k \in D |-> C[k]]
    BY <1>1, <2>1, LenProperties DEF D
  <2> QED
    BY <2>4, <2>5 DEF DumpList2String
<1> QED
  BY <1>2, <1>3, <1>6, <1>7 DEF PiecesUndone

LEMMA ParsingUndoes ==
  ASSUME ListsTypeOK
  PROVE  ParseUndoesDump
<1>1. ASSUME IsList, L0 # <<>> PROVE CSVUndone(L0) /\ \A s \in Separators \ {<<>>} : UndoneWith(L0, s)
  <2>1. L0 \in Seq(Elements)
    BY <1>1 DEF ListsTypeOK, L0
  <2>2. ASSUME NEW s \in Separators \ {<<>>} PROVE UndoneWith(L0, s)
    <3>1. s \in Seq(Nat) /\ s # <<>>
      BY ListsAssumption
    <3> QED
      BY <1>1, <2>1, <3>1, DumpUndone
  <2>3. CSVUndone(L0)
    BY <1>1, <2>1, CSVUndoes
  <2> QED
    BY <2>2, <2>3
<1>2. ASSUME IsText, NEW separators \in Few(Separators), NEW spacers \in Few(Separators)
      PROVE  PiecesUndone(value.chars, separators, spacers)
  <2>1. value.chars \in Seq(Nat) /\ separators \in Seq(Seq(Nat)) /\ spacers \in Seq(Seq(Nat))
    BY <1>2, FewSeparators DEF ListsTypeOK
  <2> QED
    BY <2>1, PiecesAreAll
<1> QED
  BY <1>1, <1>2 DEF ParseUndoesDump, CSVUndone, UndoneWith, PiecesUndone

\* llParseStringKeepNulls cuts again what llDumpList2String joined, unless the separator
\* begins in an item, and llCSV2List what llList2CSV joined but for a space; nothing of a
\* text gets lost between spacers, and llParseString2List leaves out the empty pieces only.
THEOREM WhatIsJoinedIsCutAgain == ListsSpec => []ParseUndoesDump
BY ListsTyped, ParsingUndoes, PTL

----------------------------------------------------------------------------
(***************************************************************************)
(* Strings                                                                 *)
(***************************************************************************)

(* Pieces of a text *)

LEMMA ElementsIn ==
  ASSUME NEW S, NEW T, NEW s \in Seq(S), \A k \in 1 .. Len(s) : s[k] \in T
  PROVE  s \in Seq(T)
<1> DEFINE n == Len(s)
<1>1. n \in Nat /\ n = Len(s)
  BY LenProperties
<1> HIDE DEF n
<1>2. s \in [1 .. n -> S]
  BY <1>1, SeqsAre
<1>3. s \in [1 .. n -> T]
  BY <1>1, <1>2
<1> QED
  BY <1>1, <1>3, SeqsAre

LEMMA PieceOf ==
  ASSUME NEW S, NEW t \in Seq(S), NEW a \in Nat, NEW b \in Nat, a > 0, a <= b + 1, b <= Len(t)
  PROVE  /\ SubSeq(t, a, b) \in Seq(S)
         /\ Len(SubSeq(t, a, b)) = b - a + 1
         /\ \A m \in 1 .. (b - a + 1) : SubSeq(t, a, b)[m] = t[a + m - 1]
<1>1. a \in Int /\ b \in Int /\ \A k \in a .. b : t[k] \in S
  <2>1. Len(t) \in Nat /\ \A k \in 1 .. Len(t) : t[k] \in S
    BY LenProperties, ElementOfSeq
  <2> QED
    BY <2>1
<1> DEFINE P == SubSeq(t, a, b)
<1>2. /\ P \in Seq(S) /\ Len(P) = (IF a <= b THEN b - a + 1 ELSE 0)
      /\ \A m \in 1 .. (b - a + 1) : P[m] = t[a + m - 1]
  BY <1>1, SubSeqProperties
<1> HIDE DEF P
<1>3. Len(P) = b - a + 1
  BY <1>2
<1> QED
  BY <1>2, <1>3 DEF P

LEMMA NormIs ==
  ASSUME NEW i \in Int, NEW n \in Nat
  PROVE  Norm(i, n) \in 0 .. n /\ (i \in 0 .. n => Norm(i, n) = i)
<1> DEFINE x == IF i < 0 THEN i + n ELSE i
<1>1. x \in Int /\ (i \in 0 .. n => x = i)
  OBVIOUS
<1> HIDE DEF x
<1>2. Min({n, x}) = IF n <= x THEN n ELSE x
  BY <1>1, AtMostIs DEF AtMost
<1>3. Min({n, x}) \in Int
  BY <1>1, <1>2
<1>4. Max({0, Min({n, x})}) = IF 0 >= Min({n, x}) THEN 0 ELSE Min({n, x})
  BY <1>3, AtLeastIs DEF AtLeast
<1>5. Norm(i, n) = Max({0, Min({n, x})})
  BY DEF Norm, x
<1> QED
  BY <1>1, <1>2, <1>4, <1>5

\* strstr finds what is there, and nothing before it.
Stands(t, s, p) == SubSeq(t, p + 1, p + Len(s)) = s

LEMMA FoundFirst ==
  ASSUME NEW S, NEW t \in Seq(S), NEW s \in Seq(S), NEW p \in Nat, p + Len(s) <= Len(t), Stands(t, s, p)
  PROVE  /\ SubStringIndex(t, s) \in 0 .. p
         /\ SubStringIndex(t, s) + Len(s) <= Len(t)
         /\ Stands(t, s, SubStringIndex(t, s))
<1> DEFINE places == {q \in 0 .. (Len(t) - Len(s)) : Stands(t, s, q)}
<1>1. Len(t) \in Nat /\ Len(s) \in Nat
  BY LenProperties
<1>2. p \in places
  BY <1>1
<1>3. places \in SUBSET Nat
  BY <1>1
<1>4. SubStringIndex(t, s) = Min(places)
  BY <1>2 DEF SubStringIndex, Stands
<1>5. \A q \in places : q \in Nat /\ q + Len(s) <= Len(t) /\ Stands(t, s, q)
  BY <1>1
<1> HIDE DEF places
<1>6. Min(places) \in places
  BY <1>2, <1>3, MinIsLeast
<1>7. Min(places) <= p
  BY <1>2, <1>3, MinIsLeast
<1> QED
  BY <1>4, <1>5, <1>6, <1>7

----------------------------------------------------------------------------
(* llGetSubString, llDeleteSubString and llInsertString *)

\* What the three do, if the indices are in order.
LEMMA GotPieceIs ==
  ASSUME NEW S, NEW t \in Seq(S), NEW i \in Int, NEW j \in Int,
         NEW first, first = Norm(i, Len(t)), NEW last, last = Norm(j, Len(t))
  PROVE  /\ first \in 0 .. Len(t) /\ last \in 0 .. Len(t)
         /\ first <= last =>
              GetSubString(t, i, j) = SubSeq(t, first + 1, IF last < Len(t) THEN last + 1 ELSE last)
         /\ DeleteSubString(t, i, j) =
              SubSeq(t, 1, IF first <= last THEN first ELSE last) \o SubSeq(t, last + 2, Len(t))
<1> DEFINE n == Len(t)
<1>1. n \in Nat
  BY LenProperties
<1>2. first \in 0 .. n /\ last \in 0 .. n
  BY <1>1, NormIs
<1>3. Min({last + 1, n}) = IF last < n THEN last + 1 ELSE last
  <2>1. last + 1 \in Int /\ n \in Int
    BY <1>1, <1>2
  <2>2. Min({last + 1, n}) = IF last + 1 <= n THEN last + 1 ELSE n
    BY <2>1, AtMostIs DEF AtMost
  <2> QED
    BY <1>1, <1>2, <2>2
<1>4. Min({first, last}) = IF first <= last THEN first ELSE last
  BY <1>2, AtMostIs DEF AtMost
<1>5. GetSubString(t, i, j) =
        IF last < first THEN SubSeq(t, first + 1, n) \o SubSeq(t, 1, Min({last + 1, n}))
        ELSE SubSeq(t, first + 1, Min({last + 1, n}))
  BY DEF GetSubString
<1>6. DeleteSubString(t, i, j) = SubSeq(t, 1, Min({first, last})) \o SubSeq(t, last + 2, n)
  BY DEF DeleteSubString
<1> HIDE DEF n
<1>8. first <= last => GetSubString(t, i, j) = SubSeq(t, first + 1, IF last < n THEN last + 1 ELSE last)
  <2>1. first <= last => ~(last < first)
    BY <1>2
  <2> QED
    BY <1>3, <1>5, <2>1, Zenon
<1>10. DeleteSubString(t, i, j) = SubSeq(t, 1, IF first <= last THEN first ELSE last) \o SubSeq(t, last + 2, n)
  BY <1>4, <1>6
<1> QED
  BY <1>2, <1>8, <1>10 DEF n

LEMMA DeletedIs ==
  ASSUME NEW S, NEW t \in Seq(S), NEW first \in 0 .. Len(t), NEW last \in 0 .. Len(t), first <= last, last < Len(t),
         NEW D, D = SubSeq(t, 1, first) \o SubSeq(t, last + 2, Len(t))
  PROVE  D \in Seq(S) /\ Without(t, first, last + 2, D)
<1> DEFINE n == Len(t)
           A == SubSeq(t, 1, first)
           B == SubSeq(t, last + 2, n)
<1>1. n \in Nat /\ first \in Nat /\ last \in Nat /\ first <= last /\ last < n /\ n = Len(t)
  BY LenProperties
<1>2. D = A \o B
  OBVIOUS
<1> HIDE DEF n
<1>3. A \in Seq(S) /\ Len(A) = first - 1 + 1 /\ \A m \in 1 .. (first - 1 + 1) : A[m] = t[1 + m - 1]
  BY <1>1, PieceOf
<1>4. last + 2 \in Nat
  BY <1>1
<1>5. B \in Seq(S) /\ Len(B) = n - (last + 2) + 1 /\ \A m \in 1 .. (n - (last + 2) + 1) : B[m] = t[(last + 2) + m - 1]
  <2> DEFINE a == last + 2
  <2>1. a \in Nat /\ a > 0 /\ a <= n + 1
    BY <1>1
  <2> HIDE DEF a
  <2>2. /\ SubSeq(t, a, n) \in Seq(S) /\ Len(SubSeq(t, a, n)) = n - a + 1
        /\ \A m \in 1 .. (n - a + 1) : SubSeq(t, a, n)[m] = t[a + m - 1]
    BY <1>1, <2>1, PieceOf
  <2> QED
    BY <2>2 DEF a
<1> HIDE DEF A, B
<1>6. /\ A \o B \in Seq(S) /\ Len(A \o B) = Len(A) + Len(B)
      /\ \A m \in 1 .. (Len(A) + Len(B)) : (A \o B)[m] = IF m <= Len(A) THEN A[m] ELSE B[m - Len(A)]
  BY <1>3, <1>5, ConcatProperties
<1>7. Len(A) = first /\ Len(B) = n - last - 1
  BY <1>1, <1>3, <1>5
<1>8. D \in Seq(S) /\ Len(D) = first + (n - last - 1)
  BY <1>2, <1>6, <1>7
<1>9. ASSUME NEW m \in 1 .. Len(D) PROVE D[m] = IF m <= first THEN t[m] ELSE t[m + (last + 2) - first - 1]
  <2>1. D[m] = IF m <= first THEN A[m] ELSE B[m - first]
    BY <1>2, <1>6, <1>7, <1>8
  <2>2. CASE m <= first
    <3>1. m \in 1 .. (first - 1 + 1) /\ 1 + m - 1 = m
      BY <1>1, <2>2
    <3> QED
      BY <1>3, <2>1, <2>2, <3>1
  <2>3. CASE ~(m <= first)
    <3>1. m - first \in 1 .. (n - (last + 2) + 1) /\ (last + 2) + (m - first) - 1 = m + (last + 2) - first - 1
      <4>1. m \in Int /\ m <= first + (n - last - 1) /\ first < m /\ first \in Int /\ last \in Int /\ n \in Int
        <5>1. m \in 1 .. (first + (n - last - 1))
          BY <1>8
        <5> QED
          BY <1>1, <2>3, <5>1
      <4> QED
        BY <4>1
    <3> QED
      BY <1>5, <2>1, <2>3, <3>1
  <2> QED
    BY <2>2, <2>3
<1>10. Len(D) = first + n - (last + 2) + 1
  <2>1. first + (n - last - 1) = first + n - (last + 2) + 1
    BY <1>1
  <2> QED
    BY <1>8, <2>1
<1> QED
  BY <1>8, <1>9, <1>10 DEF Without, n

LEMMA InsertStringIs ==
  ASSUME NEW S, NEW t \in Seq(S), NEW s \in Seq(S), NEW i \in Int
  PROVE  /\ InsertString(t, i, s) \in Seq(S)
         /\ i \in 0 .. Len(t) => Inserted(t, s, i, InsertString(t, i, s))
<1> DEFINE p == Norm(i, Len(t))
           R == InsertString(t, i, s)
<1>1. Len(t) \in Nat /\ Len(s) \in Nat
  BY LenProperties
<1>2. p \in 0 .. Len(t) /\ (i \in 0 .. Len(t) => p = i)
  BY <1>1, NormIs
<1>3. R = Spliced(t, s, p, p + 1)
  BY DEF InsertString, Spliced
<1> HIDE DEF p, R
<1> DEFINE q == p + 1
<1>4. q \in 1 .. (Len(t) + 1) /\ p \in 0 .. Len(t)
  BY <1>1, <1>2
<1> HIDE DEF q
<1>5. Spliced(t, s, p, q) \in Seq(S)
  BY <1>4, SplicedIs
<1>6. Len(Spliced(t, s, p, q)) = p + Len(s) + Len(t) - q + 1
  BY <1>4, SplicedIs
<1>7. \A m \in 1 .. Len(Spliced(t, s, p, q)) : Spliced(t, s, p, q)[m] =
        IF m <= p THEN t[m] ELSE IF m <= p + Len(s) THEN s[m - p] ELSE t[m - p - Len(s) + q - 1]
  BY <1>4, SplicedIs
<1>8. R = Spliced(t, s, p, q)
  BY <1>3 DEF q
<1>9. Len(R) = Len(t) + Len(s)
  BY <1>1, <1>2, <1>6, <1>8 DEF q
<1>10. ASSUME NEW m \in 1 .. Len(R)
       PROVE  R[m] = IF m <= p THEN t[m] ELSE IF m <= p + Len(s) THEN s[m - p] ELSE t[m - Len(s)]
  <2>1. m - p - Len(s) + q - 1 = m - Len(s)
    BY <1>1, <1>2, <1>9 DEF q
  <2> QED
    BY <1>7, <1>8, <2>1
<1>11. Inserted(t, s, p, R)
  BY <1>9, <1>10 DEF Inserted
<1> QED
  BY <1>2, <1>5, <1>8, <1>11 DEF R

LEMMA PartsAdd ==
  ASSUME NEW first \in Int, NEW last \in Int, NEW n \in Int
  PROVE  first + n - (last + 2) + 1 + (last - first + 1) = n
OBVIOUS

LEMMA InTheMiddle ==
  ASSUME NEW first \in Int, NEW last \in Int, NEW m \in Int, ~(m <= first), m <= first + (last - first + 1)
  PROVE  m - first \in 1 .. ((last + 1) - (first + 1) + 1) /\ (first + 1) + (m - first) - 1 = m
OBVIOUS

BackAt(m, k, first, last, n) ==
  /\ m - k \in 1 .. (first + n - (last + 2) + 1)
  /\ ~(m - k <= first)
  /\ (m - k) + (last + 2) - first - 1 = m

LEMMA InTheRest ==
  ASSUME NEW first \in Int, NEW last \in Int, NEW n \in Int, NEW m \in Int, 0 <= first, first <= last,
         ~(m <= first + (last - first + 1)), m <= n, NEW k \in Int, k = last - first + 1
  PROVE  BackAt(m, k, first, last, n)
BY DEF BackAt

\* Inserted again where it was cut out.
LEMMA PieceFitsBack ==
  ASSUME NEW S, NEW t \in Seq(S), NEW i \in Int, NEW j \in Int,
         NEW first, first = Norm(i, Len(t)), NEW last, last = Norm(j, Len(t)), first <= last, last < Len(t)
  PROVE  InsertString(DeleteSubString(t, i, j), first, GetSubString(t, i, j)) = t
<1> DEFINE n == Len(t)
           D == DeleteSubString(t, i, j)
           P == GetSubString(t, i, j)
           R == InsertString(D, first, P)
<1>0. n \in Nat
  BY LenProperties
<1>1. n \in Nat /\ first \in Nat /\ last \in Nat /\ first \in 0 .. n /\ last \in 0 .. n
  BY <1>0, NormIs
<1>2. P = SubSeq(t, first + 1, last + 1)
  BY GotPieceIs
<1>3. D = SubSeq(t, 1, first) \o SubSeq(t, last + 2, n)
  BY GotPieceIs
<1>4. D \in Seq(S)
  BY <1>1, <1>3, DeletedIs
<1>5. Without(t, first, last + 2, D)
  BY <1>1, <1>3, DeletedIs
<1>6. /\ P \in Seq(S) /\ Len(P) = (last + 1) - (first + 1) + 1
      /\ \A m \in 1 .. ((last + 1) - (first + 1) + 1) : P[m] = t[(first + 1) + m - 1]
  <2> DEFINE a == first + 1
             b == last + 1
  <2>1. a \in Nat /\ b \in Nat /\ a > 0 /\ a <= b + 1 /\ b <= Len(t)
    BY <1>1
  <2> HIDE DEF a, b
  <2>2. SubSeq(t, a, b) \in Seq(S) /\ Len(SubSeq(t, a, b)) = b - a + 1
    BY <2>1, PieceOf
  <2>3. \A m \in 1 .. (b - a + 1) : SubSeq(t, a, b)[m] = t[a + m - 1]
    BY <2>1, PieceOf
  <2> QED
    BY <1>2, <2>2, <2>3 DEF a, b
<1>7. n = Len(t) /\ first <= last /\ last < n
  OBVIOUS
<1> HIDE DEF n, D, P
<1>8. /\ Len(D) = first + n - (last + 2) + 1
      /\ \A m \in 1 .. Len(D) : D[m] = IF m <= first THEN t[m] ELSE t[m + (last + 2) - first - 1]
  BY <1>5, <1>7 DEF Without
<1>9. first \in 0 .. Len(D)
  BY <1>1, <1>7, <1>8
<1>10. R \in Seq(S)
  BY <1>1, <1>4, <1>6, InsertStringIs
<1>11. Inserted(D, P, first, R)
  BY <1>1, <1>4, <1>6, <1>9, InsertStringIs
<1> HIDE DEF R
<1>12. /\ Len(R) = Len(D) + Len(P)
       /\ \A m \in 1 .. Len(R) :
            R[m] = IF m <= first THEN D[m] ELSE IF m <= first + Len(P) THEN P[m - first] ELSE D[m - Len(P)]
  BY <1>11 DEF Inserted
<1>13. Len(P) = last - first + 1
  BY <1>1, <1>6
<1>14. Len(R) = n
  <2>1. Len(R) = first + n - (last + 2) + 1 + (last - first + 1)
    BY <1>8, <1>12, <1>13
  <2>2. first \in Int /\ last \in Int /\ n \in Int
    BY <1>1
  <2> QED
    BY ZenonT(60), <2>1, <2>2, PartsAdd
<1>15. ASSUME NEW m \in 1 .. n PROVE R[m] = t[m]
  <2>1. R[m] = IF m <= first THEN D[m] ELSE IF m <= first + Len(P) THEN P[m - first] ELSE D[m - Len(P)]
    BY <1>12, <1>14
  <2>2. CASE m <= first
    <3>1. m \in 1 .. Len(D)
      BY <1>1, <1>9, <2>2
    <3> QED
      BY <1>8, <2>1, <2>2, <3>1
  <2>3. CASE ~(m <= first) /\ m <= first + Len(P)
    <3>1. m - first \in 1 .. ((last + 1) - (first + 1) + 1) /\ (first + 1) + (m - first) - 1 = m
      <4>1. m \in Int /\ ~(m <= first) /\ m <= first + (last - first + 1)
        BY <1>1, <1>13, <2>3
      <4>2. first \in Int /\ last \in Int
        BY <1>1
      <4> QED
        BY <4>1, <4>2, InTheMiddle
    <3> QED
      BY <1>6, <2>1, <2>3, <3>1
  <2>4. CASE ~(m <= first) /\ ~(m <= first + Len(P))
    <3>1. /\ m - Len(P) \in 1 .. Len(D) /\ ~(m - Len(P) <= first)
          /\ (m - Len(P)) + (last + 2) - first - 1 = m
      <4>1. m \in Int /\ ~(m <= first) /\ ~(m <= first + (last - first + 1)) /\ m <= n
        BY <1>1, <1>13, <2>4
      <4>2. Len(D) = first + n - (last + 2) + 1
        BY <1>8
      <4>3. first \in Int /\ last \in Int /\ n \in Int /\ 0 <= first /\ first <= last
        BY <1>1, <1>7
      <4>4. /\ m - (last - first + 1) \in 1 .. (first + n - (last + 2) + 1)
            /\ ~(m - (last - first + 1) <= first)
            /\ (m - (last - first + 1)) + (last + 2) - first - 1 = m
        <5> DEFINE k == last - first + 1
        <5>1. k \in Int /\ k = last - first + 1
          BY <4>3
        <5> HIDE DEF k
        <5>2. BackAt(m, k, first, last, n)
          BY <4>1, <4>3, <5>1, InTheRest
        <5> QED
          BY <5>2 DEF k, BackAt
      <4> QED
        BY <1>13, <4>2, <4>4
    <3> QED
      BY <1>8, <2>1, <2>4, <3>1
  <2> QED
    BY <2>2, <2>3, <2>4
<1>16. R = t
  BY <1>7, <1>10, <1>14, <1>15, SeqEqual
<1> QED
  BY <1>16 DEF R, D, P

\* llSubStringIndex finds the piece where it is or earlier.
LEMMA PieceIsFound ==
  ASSUME NEW S, NEW t \in Seq(S), NEW i \in Int, NEW j \in Int,
         NEW first, first = Norm(i, Len(t)), NEW last, last = Norm(j, Len(t)), first <= last
  PROVE  LET piece == GetSubString(t, i, j)
             found == SubStringIndex(t, piece)
         IN  found \in 0 .. first /\ SubSeq(t, found + 1, found + Len(piece)) = piece
<1> DEFINE n == Len(t)
           b == IF last < n THEN last + 1 ELSE last
           P == GetSubString(t, i, j)
           a == first + 1
<1>0. n \in Nat
  BY LenProperties
<1>1. n \in Nat /\ first \in Nat /\ last \in Nat /\ first <= n /\ last <= n
  BY <1>0, NormIs
<1>2. P = SubSeq(t, a, b)
  BY GotPieceIs
<1>3. a \in Nat /\ b \in Nat /\ a > 0 /\ a <= b + 1 /\ b <= n /\ a = first + 1
  BY <1>1
<1> HIDE DEF a, b, P
<1>4. P \in Seq(S) /\ Len(P) = b - a + 1
  BY <1>2, <1>3, PieceOf
<1>5. first + Len(P) = b /\ first + Len(P) <= Len(t)
  <2>1. n \in Nat /\ n = Len(t) /\ first + Len(P) = first + (b - a + 1)
    BY <1>0, <1>4
  <2> HIDE DEF n
  <2>2. first + (b - a + 1) = b
    BY SMTT(30), <1>1, <1>3
  <2> QED
    BY <1>3, <2>1, <2>2
<1>6. Stands(t, P, first)
  BY <1>2, <1>3, <1>5 DEF Stands
<1>7. SubStringIndex(t, P) \in 0 .. first
  BY <1>1, <1>4, <1>5, <1>6, FoundFirst
<1>8. Stands(t, P, SubStringIndex(t, P))
  BY <1>1, <1>4, <1>5, <1>6, FoundFirst
<1> QED
  BY <1>7, <1>8 DEF P, Stands

\* Crossed indices: both ends, and one character less.
LEMMA GotCrossed ==
  ASSUME NEW S, NEW t \in Seq(S), NEW i \in Int, NEW j \in Int, ~(Norm(i, Len(t)) <= Norm(j, Len(t)))
  PROVE  /\ GetSubString(t, i, j) = SubSeq(t, Norm(i, Len(t)) + 1, Len(t)) \o SubSeq(t, 1, Norm(j, Len(t)) + 1)
         /\ DeleteSubString(t, i, j) = SubSeq(t, 1, Norm(j, Len(t))) \o SubSeq(t, Norm(j, Len(t)) + 2, Len(t))
<1> DEFINE first == Norm(i, Len(t))
           last == Norm(j, Len(t))
           n == Len(t)
<1>1. n \in Nat
  BY LenProperties
<1>2. first \in 0 .. n /\ last \in 0 .. n /\ last < first
  BY <1>1, NormIs
<1>3. GetSubString(t, i, j) =
        IF last < first THEN SubSeq(t, first + 1, n) \o SubSeq(t, 1, Min({last + 1, n}))
        ELSE SubSeq(t, first + 1, Min({last + 1, n}))
  BY DEF GetSubString
<1>4. DeleteSubString(t, i, j) = SubSeq(t, 1, Min({first, last})) \o SubSeq(t, last + 2, n)
  BY DEF DeleteSubString
<1> HIDE DEF first, last, n
<1>5. Min({last + 1, n}) = last + 1
  <2>1. last + 1 \in Int /\ n \in Int /\ last + 1 <= n
    BY <1>1, <1>2
  <2> QED
    BY <2>1, AtMostIs DEF AtMost
<1>6. Min({first, last}) = last
  <2>1. first \in Int /\ last \in Int /\ ~(first <= last)
    BY <1>2
  <2> QED
    BY <2>1, AtMostIs DEF AtMost
<1> QED
  BY <1>2, <1>3, <1>4, <1>5, <1>6 DEF first, last, n

LEMMA DeletedOne ==
  ASSUME NEW S, NEW t \in Seq(S), NEW j \in Int
  PROVE  DeleteSubString(t, j, j) = SubSeq(t, 1, Norm(j, Len(t))) \o SubSeq(t, Norm(j, Len(t)) + 2, Len(t))
<1> DEFINE last == Norm(j, Len(t))
<1>1. last \in Int
  BY LenProperties, NormIs
<1>2. Min({last, last}) = last
  BY <1>1, AtMostIs DEF AtMost
<1> QED
  BY <1>2 DEF DeleteSubString

----------------------------------------------------------------------------
(* llStringTrim *)

StartsAt(t, f) ==
  /\ f \in 1 .. (Len(t) + 1)
  /\ \A k \in 1 .. (f - 1) : t[k] \in Blanks
  /\ f <= Len(t) => t[f] \notin Blanks
EndsAt(t, f, l) ==
  /\ l \in (f - 1) .. Len(t)
  /\ \A k \in (l + 1) .. Len(t) : t[k] \in Blanks
  /\ f <= l => t[l] \notin Blanks
Kept(t) == {k \in DOMAIN t : t[k] \notin Blanks}

LEMMA KeptAre ==
  ASSUME NEW S, NEW t \in Seq(S)
  PROVE  /\ \A k \in Kept(t) : k \in 1 .. Len(t) /\ t[k] \notin Blanks
         /\ \A k \in 1 .. Len(t) : t[k] \notin Blanks => k \in Kept(t)
<1>1. DOMAIN t = 1 .. Len(t)
  BY LenProperties
<1> QED
  BY <1>1 DEF Kept

\* Where the first character stands that is no blank.
LEMMA StartExists ==
  ASSUME NEW S, NEW t \in Seq(S)
  PROVE  \E f \in 1 .. (Len(t) + 1) : StartsAt(t, f)
<1> DEFINE n == Len(t)
           K == Kept(t) \cup {n + 1}
           f == Min(K)
<1>1. n \in Nat /\ DOMAIN t = 1 .. n
  BY LenProperties
<1>2. K \in SUBSET Nat /\ n + 1 \in K /\ \A k \in K : k = n + 1 \/ (k \in 1 .. n /\ t[k] \notin Blanks)
  <2>0. \A k \in Kept(t) : k \in 1 .. n /\ t[k] \notin Blanks
    BY KeptAre
  <2>1. \A k \in K : k = n + 1 \/ (k \in 1 .. n /\ t[k] \notin Blanks)
    <3> HIDE DEF n
    <3> QED
      BY <2>0 DEF K
  <2>2. \A k \in 1 .. n : k \in Nat
    BY <1>1
  <2>3. n + 1 \in Nat
    BY <1>1
  <2> HIDE DEF n
  <2>4. \A k \in K : k \in Nat
    BY <2>1, <2>2, <2>3
  <2> QED
    BY <2>1, <2>4
<1>3. \A k \in 1 .. n : t[k] \notin Blanks => k \in K
  BY KeptAre
<1> HIDE DEF K
<1>4. f \in K
  BY <1>2, MinIsLeast
<1>5. \A k \in K : f <= k
  BY <1>2, MinIsLeast
<1> HIDE DEF f
<1>6. f \in 1 .. (n + 1) /\ (f <= n => t[f] \notin Blanks)
  BY <1>1, <1>2, <1>4
<1>7. ASSUME NEW k \in 1 .. (f - 1) PROVE t[k] \in Blanks
  <2>1. k \in 1 .. n /\ ~(f <= k)
    BY <1>1, <1>6
  <2> QED
    BY <1>3, <1>5, <2>1
<1> QED
  BY <1>6, <1>7 DEF StartsAt

LEMMA StartIs ==
  ASSUME NEW S, NEW t \in Seq(S), NEW f, StartsAt(t, f)
  PROVE  Min(Kept(t) \cup {Len(t) + 1}) = f
<1> DEFINE n == Len(t)
           K == Kept(t) \cup {n + 1}
<1>1. n \in Nat /\ DOMAIN t = 1 .. n
  BY LenProperties
<1>2. /\ f \in 1 .. (n + 1)
      /\ \A k \in 1 .. (f - 1) : t[k] \in Blanks
      /\ f <= n => t[f] \notin Blanks
  BY DEF StartsAt
<1>3. K \in SUBSET Nat /\ n + 1 \in K /\ \A k \in K : k = n + 1 \/ (k \in 1 .. n /\ t[k] \notin Blanks)
  <2>0. \A k \in Kept(t) : k \in 1 .. n /\ t[k] \notin Blanks
    BY KeptAre
  <2>1. \A k \in K : k = n + 1 \/ (k \in 1 .. n /\ t[k] \notin Blanks)
    <3> HIDE DEF n
    <3> QED
      BY <2>0 DEF K
  <2>2. \A k \in 1 .. n : k \in Nat
    BY <1>1
  <2>3. n + 1 \in Nat
    BY <1>1
  <2> HIDE DEF n
  <2>4. \A k \in K : k \in Nat
    BY <2>1, <2>2, <2>3
  <2> QED
    BY <2>1, <2>4
<1>4. f \in K
  <2>1. f = n + 1 \/ f \in 1 .. n
    BY <1>1, <1>2
  <2>2. f \in 1 .. n => f <= n
    BY <1>1
  <2> QED
    BY <1>2, <2>1, <2>2, KeptAre
<1> HIDE DEF K
<1> DEFINE m == Min(K)
<1>5. m \in K
  BY <1>3, MinIsLeast
<1>6. m <= f
  BY <1>3, <1>4, MinIsLeast
<1> HIDE DEF m
<1>7. m \in Nat
  BY <1>3, <1>5
<1>8. ASSUME m < f PROVE FALSE
  <2>1. m # n + 1
    BY <1>1, <1>2, <1>7, <1>8
  <2>2. m \in 1 .. n /\ t[m] \notin Blanks
    BY <1>3, <1>5, <2>1
  <2>3. m \in 1 .. (f - 1)
    BY <1>1, <1>2, <1>8, <2>2
  <2> QED
    BY <1>2, <2>2, <2>3
<1>9. m = f
  BY <1>2, <1>6, <1>7, <1>8
<1> QED
  BY <1>9 DEF m, K, n

LEMMA EndExists ==
  ASSUME NEW S, NEW t \in Seq(S), NEW f \in 1 .. (Len(t) + 1), \A k \in 1 .. (f - 1) : t[k] \in Blanks
  PROVE  EndsAt(t, f, Max(Kept(t) \cup {f - 1}))
<1> DEFINE n == Len(t)
           K == Kept(t) \cup {f - 1}
           l == Max(K)
<1>1. n \in Nat /\ DOMAIN t = 1 .. n /\ f \in 1 .. (n + 1)
  BY LenProperties
<1>2. f - 1 \in K /\ \A k \in K : k = f - 1 \/ (k \in 1 .. n /\ t[k] \notin Blanks)
  <2>1. \A k \in Kept(t) : k \in 1 .. n /\ t[k] \notin Blanks
    BY KeptAre
  <2> HIDE DEF n
  <2> QED
    BY <2>1
<1>3. \A k \in 1 .. n : t[k] \notin Blanks => k \in K
  BY KeptAre
<1> HIDE DEF K
<1>4. K \in SUBSET (0 .. n)
  BY <1>1, <1>2
<1>5. l \in K /\ \A k \in K : k <= l
  BY <1>1, <1>2, <1>4, MaxIsGreatest
<1> HIDE DEF l
<1>6. l \in Nat /\ f - 1 <= l /\ l <= n
  BY <1>2, <1>4, <1>5
<1>7. f <= l => t[l] \notin Blanks
  <2>1. f <= l => l # f - 1
    BY <1>1, <1>6
  <2> QED
    BY <1>2, <1>5, <2>1
<1>8. ASSUME NEW k \in (l + 1) .. n PROVE t[k] \in Blanks
  <2>1. k \in 1 .. n /\ ~(k <= l)
    BY <1>1, <1>6
  <2> QED
    BY <1>3, <1>5, <2>1
<1>9. l \in (f - 1) .. n
  BY <1>1, <1>6
<1>10. EndsAt(t, f, l)
  BY <1>7, <1>8, <1>9 DEF EndsAt
<1> QED
  BY <1>10 DEF l, K

\* There is one such end.
LEMMA EndIs ==
  ASSUME NEW S, NEW t \in Seq(S), NEW f \in 1 .. (Len(t) + 1), \A k \in 1 .. (f - 1) : t[k] \in Blanks,
         NEW l, EndsAt(t, f, l)
  PROVE  Max(Kept(t) \cup {f - 1}) = l
<1> DEFINE n == Len(t)
           x == Max(Kept(t) \cup {f - 1})
<1>1. n \in Nat /\ f \in 1 .. (n + 1)
  BY LenProperties
<1>2. EndsAt(t, f, x)
  BY EndExists
<1> HIDE DEF x
<1>3. x \in (f - 1) .. n /\ (\A k \in (x + 1) .. n : t[k] \in Blanks) /\ (f <= x => t[x] \notin Blanks)
  BY <1>2 DEF EndsAt
<1>4. l \in (f - 1) .. n /\ (\A k \in (l + 1) .. n : t[k] \in Blanks) /\ (f <= l => t[l] \notin Blanks)
  BY DEF EndsAt
<1>5. ASSUME x < l PROVE FALSE
  <2>1. l \in (x + 1) .. n /\ f <= l
    BY <1>1, <1>3, <1>4, <1>5
  <2> QED
    BY <1>3, <1>4, <2>1
<1>6. ASSUME l < x PROVE FALSE
  <2>1. x \in (l + 1) .. n /\ f <= x
    BY <1>1, <1>3, <1>4, <1>6
  <2> QED
    BY <1>3, <1>4, <2>1
<1>7. x \in Int /\ l \in Int
  BY <1>1, <1>3, <1>4
<1>8. x = l
  BY <1>5, <1>6, <1>7
<1> QED
  BY <1>8 DEF x

LEMMA TrimmedHead ==
  ASSUME NEW S, NEW t \in Seq(S), NEW f, StartsAt(t, f)
  PROVE  StringTrim(t, TRUE, FALSE) = SubSeq(t, f, Len(t))
<1>1. Min(Kept(t) \cup {Len(t) + 1}) = f
  BY StartIs
<1> QED
  BY <1>1 DEF StringTrim, Kept

LEMMA TrimmedTail ==
  ASSUME NEW S, NEW t \in Seq(S), NEW l, EndsAt(t, 1, l)
  PROVE  StringTrim(t, FALSE, TRUE) = SubSeq(t, 1, l)
<1>1. 1 \in 1 .. (Len(t) + 1) /\ \A k \in 1 .. (1 - 1) : t[k] \in Blanks
  BY LenProperties
<1>2. Max(Kept(t) \cup {1 - 1}) = l
  BY <1>1, EndIs
<1> QED
  BY <1>2 DEF StringTrim, Kept

LEMMA TrimmedBoth ==
  ASSUME NEW S, NEW t \in Seq(S), NEW f, NEW l, StartsAt(t, f), EndsAt(t, f, l)
  PROVE  StringTrim(t, TRUE, TRUE) = SubSeq(t, f, l)
<1>1. Min(Kept(t) \cup {Len(t) + 1}) = f
  BY StartIs
<1>2. f \in 1 .. (Len(t) + 1) /\ \A k \in 1 .. (f - 1) : t[k] \in Blanks
  BY DEF StartsAt
<1>3. Max(Kept(t) \cup {f - 1}) = l
  BY <1>2, EndIs
<1> QED
  BY <1>1, <1>3 DEF StringTrim, Kept

\* Both ends at once, or the tail of what is left when the head is off.
LEMMA HeadThenTail ==
  ASSUME NEW S, NEW t \in Seq(S), NEW f, NEW l, StartsAt(t, f), EndsAt(t, f, l)
  PROVE  StringTrim(StringTrim(t, TRUE, FALSE), FALSE, TRUE) = SubSeq(t, f, l)
<1> DEFINE n == Len(t)
           U == SubSeq(t, f, n)
           e == l - f + 1
<1>1. n \in Nat /\ f \in Nat /\ l \in Nat /\ f > 0 /\ f <= n + 1 /\ f <= l + 1 /\ l <= n /\ n = Len(t)
  BY LenProperties DEF StartsAt, EndsAt
<1>2. /\ \A k \in (l + 1) .. n : t[k] \in Blanks
      /\ f <= l => t[l] \notin Blanks
  BY DEF EndsAt
<1>3. StringTrim(t, TRUE, FALSE) = U
  BY TrimmedHead
<1> HIDE DEF n
<1>4. U \in Seq(S) /\ Len(U) = n - f + 1 /\ \A m \in 1 .. (n - f + 1) : U[m] = t[f + m - 1]
  BY <1>1, PieceOf
<1>5. e \in Nat /\ e <= n - f + 1
  BY <1>1
<1>6. EndsAt(U, 1, e)
  <2> HIDE DEF U
  <2>1. e \in (1 - 1) .. Len(U)
    BY <1>1, <1>4, <1>5
  <2>2. ASSUME NEW k \in (e + 1) .. Len(U) PROVE U[k] \in Blanks
    <3>1. k \in 1 .. (n - f + 1) /\ f + k - 1 \in (l + 1) .. n
      BY <1>1, <1>4, <1>5
    <3> QED
      BY <1>2, <1>4, <3>1
  <2>3. ASSUME 1 <= e PROVE U[e] \notin Blanks
    <3>1. e \in 1 .. (n - f + 1) /\ f + e - 1 = l /\ f <= l
      BY <1>1, <1>5, <2>3
    <3> QED
      BY <1>2, <1>4, <3>1
  <2> QED
    BY <2>1, <2>2, <2>3 DEF EndsAt
<1>7. StringTrim(U, FALSE, TRUE) = SubSeq(U, 1, e)
  BY <1>4, <1>6, TrimmedTail
<1> HIDE DEF U, e
<1>8. SubSeq(U, 1, e) \in Seq(S) /\ Len(SubSeq(U, 1, e)) = e - 1 + 1 /\ \A m \in 1 .. (e - 1 + 1) : SubSeq(U, 1, e)[m] = U[1 + m - 1]
  BY <1>1, <1>4, <1>5, PieceOf
<1>9. SubSeq(t, f, l) \in Seq(S) /\ Len(SubSeq(t, f, l)) = l - f + 1 /\ \A m \in 1 .. (l - f + 1) : SubSeq(t, f, l)[m] = t[f + m - 1]
  BY <1>1, PieceOf
<1>10. e = l - f + 1
  BY DEF e
<1>11. Len(SubSeq(U, 1, e)) = Len(SubSeq(t, f, l))
  BY <1>1, <1>8, <1>9, <1>10
<1>12. ASSUME NEW m \in 1 .. Len(SubSeq(t, f, l)) PROVE SubSeq(U, 1, e)[m] = SubSeq(t, f, l)[m]
  <2>1. m \in 1 .. (l - f + 1) /\ m \in 1 .. (e - 1 + 1) /\ m \in 1 .. (n - f + 1) /\ 1 + m - 1 = m
    BY <1>1, <1>5, <1>9, <1>10
  <2> QED
    BY <1>4, <1>8, <1>9, <2>1
<1>13. SubSeq(U, 1, e) = SubSeq(t, f, l)
  BY <1>8, <1>9, <1>11, <1>12, SeqEqual
<1> QED
  BY <1>3, <1>7, <1>13

LEMMA TailThenHead ==
  ASSUME NEW S, NEW t \in Seq(S), NEW f, NEW l, StartsAt(t, f), EndsAt(t, f, l)
  PROVE  StringTrim(StringTrim(t, FALSE, TRUE), TRUE, FALSE) = SubSeq(t, f, l)
<1> DEFINE n == Len(t)
<1>1. n \in Nat /\ f \in Nat /\ l \in Nat /\ f > 0 /\ f <= n + 1 /\ f <= l + 1 /\ l <= n /\ n = Len(t)
  BY LenProperties DEF StartsAt, EndsAt
<1>2. /\ \A k \in (l + 1) .. n : t[k] \in Blanks
      /\ f <= l => t[l] \notin Blanks
      /\ \A k \in 1 .. (f - 1) : t[k] \in Blanks
      /\ f <= n => t[f] \notin Blanks
  BY DEF EndsAt, StartsAt
<1> HIDE DEF n
<1>3. CASE f <= l
  <2> DEFINE V == SubSeq(t, 1, l)
  <2>1. EndsAt(t, 1, l)
    <3>1. l \in (1 - 1) .. n
      BY <1>1
    <3> QED
      BY <1>1, <1>2, <1>3, <3>1 DEF EndsAt
  <2>2. StringTrim(t, FALSE, TRUE) = V
    BY <2>1, TrimmedTail
  <2>3. V \in Seq(S) /\ Len(V) = l - 1 + 1 /\ \A m \in 1 .. (l - 1 + 1) : V[m] = t[1 + m - 1]
    BY <1>1, PieceOf
  <2> HIDE DEF V
  <2>4. Len(V) = l /\ \A m \in 1 .. l : V[m] = t[m]
    BY <1>1, <2>3
  <2>5. StartsAt(V, f)
    <3>1. f \in 1 .. (Len(V) + 1)
      BY <1>1, <1>3, <2>4
    <3>2. \A k \in 1 .. (f - 1) : V[k] \in Blanks
      BY <1>1, <1>2, <1>3, <2>4
    <3>3. V[f] \notin Blanks
      BY <1>1, <1>2, <1>3, <2>4
    <3> QED
      BY <3>1, <3>2, <3>3 DEF StartsAt
  <2>6. StringTrim(V, TRUE, FALSE) = SubSeq(V, f, l)
    BY <2>3, <2>4, <2>5, TrimmedHead
  <2>7. SubSeq(V, f, l) \in Seq(S) /\ Len(SubSeq(V, f, l)) = l - f + 1 /\ \A m \in 1 .. (l - f + 1) : SubSeq(V, f, l)[m] = V[f + m - 1]
    BY <1>1, <2>3, <2>4, PieceOf
  <2>8. SubSeq(t, f, l) \in Seq(S) /\ Len(SubSeq(t, f, l)) = l - f + 1 /\ \A m \in 1 .. (l - f + 1) : SubSeq(t, f, l)[m] = t[f + m - 1]
    BY <1>1, PieceOf
  <2>9. ASSUME NEW m \in 1 .. (l - f + 1) PROVE SubSeq(V, f, l)[m] = SubSeq(t, f, l)[m]
    <3>1. f + m - 1 \in 1 .. l
      BY <1>1
    <3> QED
      BY <2>4, <2>7, <2>8, <3>1
  <2>10. SubSeq(V, f, l) = SubSeq(t, f, l)
    BY <2>7, <2>8, <2>9, SeqEqual
  <2> QED
    BY <2>2, <2>6, <2>10
<1>4. CASE ~(f <= l)
  <2>1. f = n + 1 /\ l = n
    <3>1. ASSUME f <= n PROVE FALSE
      <4>1. f \in (l + 1) .. n
        BY <1>1, <1>4, <3>1
      <4> QED
        BY <1>2, <3>1, <4>1
    <3> QED
      BY <1>1, <1>4, <3>1
  <2>2. EndsAt(t, 1, 0)
    <3>1. 0 \in (1 - 1) .. n /\ ~(1 <= 0)
      BY <1>1
    <3>2. \A k \in (0 + 1) .. n : k \in 1 .. (f - 1)
      BY <1>1, <2>1
    <3> QED
      BY <1>1, <1>2, <3>1, <3>2 DEF EndsAt
  <2>3. StringTrim(t, FALSE, TRUE) = SubSeq(t, 1, 0)
    BY <2>2, TrimmedTail
  <2>4. \A a, b \in Int : a > b => SubSeq(t, a, b) = <<>>
    BY SubSeqEmpty
  <2>5. SubSeq(t, 1, 0) = <<>> /\ SubSeq(t, f, l) = <<>> /\ SubSeq(<<>>, 1, 0) = <<>>
    <3>1. \A a, b \in Int : a > b => SubSeq(<<>>, a, b) = <<>>
      BY SubSeqEmpty
    <3> QED
      BY <1>1, <2>1, <2>4, <3>1
  <2>6. StartsAt(<<>>, 1)
    BY DEF StartsAt
  <2>7. <<>> \in Seq(S) /\ Len(<<>>) = 0
    OBVIOUS
  <2>8. StringTrim(<<>>, TRUE, FALSE) = SubSeq(<<>>, 1, 0)
    <3>1. StringTrim(<<>>, TRUE, FALSE) = SubSeq(<<>>, 1, Len(<<>>))
      BY <2>6, <2>7, TrimmedHead
    <3> QED
      BY <2>7, <3>1
  <2> QED
    BY <2>3, <2>5, <2>8
<1> QED
  BY <1>3, <1>4

\* What is no blank is in the trimmed text, where llSubStringIndex finds it.
LEMMA TrimmedIsFound ==
  ASSUME NEW S, NEW t \in Seq(S), NEW f, NEW l, StartsAt(t, f), EndsAt(t, f, l),
         NEW k \in 1 .. Len(t), t[k] \notin Blanks
  PROVE  k \in (SubStringIndex(t, SubSeq(t, f, l)) + 1) ..
                 (SubStringIndex(t, SubSeq(t, f, l)) + Len(SubSeq(t, f, l)))
<1> DEFINE n == Len(t)
           W == SubSeq(t, f, l)
           p == SubStringIndex(t, W)
<1>1. n \in Nat /\ f \in Nat /\ l \in Nat /\ f > 0 /\ f <= n + 1 /\ f <= l + 1 /\ l <= n /\ n = Len(t)
  BY LenProperties DEF StartsAt, EndsAt
<1>2. /\ \A m \in (l + 1) .. n : t[m] \in Blanks
      /\ f <= l => t[l] \notin Blanks
      /\ \A m \in 1 .. (f - 1) : t[m] \in Blanks
      /\ f <= n => t[f] \notin Blanks
  BY DEF EndsAt, StartsAt
<1> HIDE DEF n
<1>3. k \in f .. l
  <2>1. k \notin (l + 1) .. n /\ k \notin 1 .. (f - 1) /\ k \in 1 .. n
    BY <1>1, <1>2
  <2> QED
    BY <1>1, <2>1
<1>4. W \in Seq(S) /\ Len(W) = l - f + 1 /\ \A m \in 1 .. (l - f + 1) : W[m] = t[f + m - 1]
  BY <1>1, PieceOf
<1> DEFINE h == f - 1
<1>5. h \in Nat /\ h + 1 = f /\ h + Len(W) = l /\ h + Len(W) <= Len(t)
  BY <1>1, <1>3, <1>4
<1>6. Stands(t, W, h)
  BY <1>5 DEF Stands
<1> HIDE DEF W, h
<1>7. p \in 0 .. h
  BY <1>4, <1>5, <1>6, FoundFirst
<1>8. p + Len(W) <= Len(t)
  BY <1>4, <1>5, <1>6, FoundFirst
<1>9. SubSeq(t, p + 1, p + Len(W)) = W
  BY ZenonT(60), <1>4, <1>5, <1>6, FoundFirst DEF Stands
<1> HIDE DEF p
<1>10. p \in Nat /\ p <= f - 1 /\ p + Len(W) <= n /\ Len(W) = l - f + 1 /\ Len(W) > 0
  BY <1>1, <1>3, <1>4, <1>5, <1>7, <1>8
<1>11. t[p + 1] = t[f]
  <2> DEFINE a == p + 1
             b == p + Len(W)
  <2>1. a \in Nat /\ b \in Nat /\ a > 0 /\ a <= b + 1 /\ b <= Len(t) /\ 1 \in 1 .. (b - a + 1) /\ a + 1 - 1 = a
    BY <1>1, <1>10
  <2>2. SubSeq(t, a, b) = W
    BY <1>9
  <2>3. a = p + 1
    OBVIOUS
  <2> HIDE DEF a, b
  <2>4. \A m \in 1 .. (b - a + 1) : SubSeq(t, a, b)[m] = t[a + m - 1]
    BY <2>1, PieceOf
  <2>5. W[1] = t[a]
    BY <2>1, <2>2, <2>4
  <2>6. 1 \in 1 .. (l - f + 1) /\ f + 1 - 1 = f
    BY <1>1, <1>3
  <2> QED
    BY <1>4, <2>3, <2>5, <2>6
<1>12. p + 1 \notin 1 .. (f - 1)
  <2>1. f <= n
    BY <1>1, <1>3
  <2> QED
    BY <1>2, <1>11, <2>1
<1>13. p + 1 = f
  BY <1>1, <1>10, <1>12
<1>14. k \in (p + 1) .. (p + Len(W))
  BY <1>1, <1>3, <1>10, <1>13
<1> QED
  BY <1>14 DEF p, W

----------------------------------------------------------------------------
(* The bytes that are in a set *)

OnlyStep(L, set, some, k) ==
  IF k = 0 THEN <<>> ELSE IF L[k] \in set THEN Append(some[k - 1], L[k]) ELSE some[k - 1]
OnlyLoop(L, set, some) == some = [k \in 0 .. Len(L) |-> OnlyStep(L, set, some, k)]
OnlySteps(L, set, some) ==
  /\ \A k \in 0 .. Len(L) : some[k] = OnlyStep(L, set, some, k)
  /\ Only(L, set) = some[Len(L)]

LEMMA OnlyIs ==
  ASSUME NEW L, NEW set
  PROVE  Only(L, set) = (CHOOSE some : OnlyLoop(L, set, some))[Len(L)]
BY DEF Only, OnlyLoop, OnlyStep

LEMMA OnlyLoops ==
  ASSUME NEW S, NEW L \in Seq(S), NEW set
  PROVE  \E some \in [0 .. Len(L) -> Seq(S)] : OnlySteps(L, set, some)
<1> DEFINE n == Len(L)
           step == [z \in (1 .. n) \X Seq(S) |-> IF L[z[1]] \in set THEN Append(z[2], L[z[1]]) ELSE z[2]]
<1>1. 0 \in Int /\ n \in Int /\ n \in Nat /\ <<>> \in Seq(S) /\ \A k \in 1 .. n : L[k] \in S
  BY LenProperties, ElementOfSeq, EmptySeq
<1>2. ASSUME NEW k \in 1 .. n, NEW y \in Seq(S)
      PROVE  step[<<k, y>>] = IF L[k] \in set THEN Append(y, L[k]) ELSE y
  BY <1>1
<1>3. ASSUME NEW k \in (0 + 1) .. n, NEW y \in Seq(S) PROVE step[<<k, y>>] \in Seq(S)
  <2>1. k \in 1 .. n
    BY <1>1
  <2> QED
    BY <1>1, <1>2, <2>1, AppendProperties
<1>4. \E f \in [0 .. n -> Seq(S)] : Repeats(0, n, <<>>, step, f)
  <2> HIDE DEF n, step
  <2> QED
    BY <1>1, <1>3, LoopExists
<1>5. PICK f \in [0 .. n -> Seq(S)] : f = [k \in 0 .. n |-> IF k = 0 THEN <<>> ELSE step[<<k, f[k - 1]>>]]
  BY <1>4 DEF Repeats
<1>6. ASSUME NEW k \in 0 .. n PROVE f[k] = OnlyStep(L, set, f, k)
  <2> HIDE DEF n, step
  <2>1. f[k] = IF k = 0 THEN <<>> ELSE step[<<k, f[k - 1]>>]
    BY <1>5, Zenon
  <2>2. k # 0 => k \in 1 .. n /\ k - 1 \in 0 .. n
    BY <1>1
  <2>3. k # 0 => f[k - 1] \in Seq(S)
    BY <2>2
  <2> QED
    BY <1>2, <2>1, <2>2, <2>3 DEF OnlyStep
<1> DEFINE some == CHOOSE g : OnlyLoop(L, set, g)
<1>7. OnlyLoop(L, set, some)
  <2>1. f = [k \in 0 .. n |-> OnlyStep(L, set, f, k)]
    BY <1>5, <1>6
  <2> QED
    BY <2>1 DEF OnlyLoop
<1> HIDE DEF some
<1>8. some = [k \in 0 .. n |-> OnlyStep(L, set, some, k)]
  BY <1>7 DEF OnlyLoop
<1>9. \A k \in 0 .. n : some[k] = OnlyStep(L, set, some, k)
  BY <1>8, Zenon
<1>10. \A k \in 0 .. n : some[k] \in Seq(S)
  <2>1. some[0] \in Seq(S)
    <3>1. OnlyStep(L, set, some, 0) = <<>>
      BY DEF OnlyStep
    <3>2. some[0] = OnlyStep(L, set, some, 0)
      BY <1>1, <1>9
    <3> QED
      BY <1>1, <3>1, <3>2
  <2>2. ASSUME NEW k \in (0 + 1) .. n, some[k - 1] \in Seq(S) PROVE some[k] \in Seq(S)
    <3> HIDE DEF n
    <3>1. k \in 0 .. n /\ k \in 1 .. n /\ k # 0
      BY <1>1
    <3>2. OnlyStep(L, set, some, k) \in Seq(S)
      BY <1>1, <2>2, <3>1, AppendProperties DEF OnlyStep
    <3> QED
      BY <1>9, <3>1, <3>2
  <2> HIDE DEF n
  <2> QED
    BY <1>1, <2>1, <2>2, LoopKeeps
<1>11. some \in [0 .. n -> Seq(S)]
  BY <1>8, <1>10
<1>12. Only(L, set) = some[n]
  BY OnlyIs DEF some
<1> QED
  BY <1>9, <1>11, <1>12 DEF OnlySteps

\* All up to a place.
LEMMA OnlyPrefix ==
  ASSUME NEW S, NEW x \in Seq(S), NEW set, NEW m \in 0 .. Len(x),
         \A k \in 1 .. m : x[k] \in set, \A k \in (m + 1) .. Len(x) : x[k] \notin set
  PROVE  Only(x, set) = SubSeq(x, 1, m)
<1> DEFINE n == Len(x)
           Is(k) == IF k <= m THEN k ELSE m
<1>1. n \in Nat /\ m \in Nat /\ m <= n /\ n = Len(x)
  BY LenProperties
<1>2. PICK some \in [0 .. n -> Seq(S)] : OnlySteps(x, set, some)
  BY OnlyLoops
<1> HIDE DEF n
<1>3. some[0] = <<>>
  BY <1>1, <1>2 DEF OnlySteps, OnlyStep
<1>4. ASSUME NEW k \in 1 .. n
      PROVE  some[k] = IF x[k] \in set THEN Append(some[k - 1], x[k]) ELSE some[k - 1]
  <2>1. k \in 0 .. Len(x) /\ k # 0
    BY <1>1
  <2>2. some[k] = OnlyStep(x, set, some, k)
    BY <1>2, <2>1 DEF OnlySteps
  <2> QED
    BY <2>1, <2>2 DEF OnlyStep
<1>5. \A k \in 0 .. n : some[k] \in Seq(S)
  OBVIOUS
<1>6. \A k \in 1 .. n : x[k] \in S
  BY <1>1, ElementOfSeq
<1> DEFINE G == {k \in 0 .. n : Len(some[k]) = Is(k) /\ \A j \in 1 .. Is(k) : some[k][j] = x[j]}
<1>7. 0 \in G
  BY <1>1, <1>3
<1>8. ASSUME NEW k \in 0 .. (n - 1), k \in G PROVE k + 1 \in G
  <2>1. k + 1 \in 1 .. n /\ k \in 0 .. n /\ (k + 1) - 1 = k
    BY <1>1
  <2>2. Len(some[k]) = Is(k) /\ \A j \in 1 .. Is(k) : some[k][j] = x[j]
    BY <1>8
  <2>3. CASE k + 1 <= m
    <3>1. Is(k) = k /\ Is(k + 1) = k + 1 /\ k + 1 \in 1 .. m
      BY <1>1, <2>1, <2>3
    <3>2. some[k + 1] = Append(some[k], x[k + 1])
      BY <1>4, <2>1, <3>1
    <3>3. some[k] \in Seq(S) /\ x[k + 1] \in S
      BY <1>5, <1>6, <2>1
    <3>4. /\ Len(Append(some[k], x[k + 1])) = Len(some[k]) + 1
          /\ \A i \in 1 .. Len(some[k]) : Append(some[k], x[k + 1])[i] = some[k][i]
          /\ Append(some[k], x[k + 1])[Len(some[k]) + 1] = x[k + 1]
      BY <3>3, AppendProperties
    <3>5. Len(some[k + 1]) = k + 1
      BY <2>2, <3>1, <3>2, <3>4
    <3>6. ASSUME NEW j \in 1 .. (k + 1) PROVE some[k + 1][j] = x[j]
      <4>1. j \in 1 .. k \/ j = k + 1
        BY <2>1
      <4> QED
        BY <2>2, <3>1, <3>2, <3>4, <4>1
    <3> QED
      BY <2>1, <3>1, <3>5, <3>6
  <2>4. CASE ~(k + 1 <= m)
    <3>1. Is(k) = m /\ Is(k + 1) = m /\ k + 1 \in (m + 1) .. n
      BY <1>1, <2>1, <2>4
    <3>2. x[k + 1] \notin set
      BY <1>1, <3>1
    <3>3. some[k + 1] = some[k]
      BY <1>4, <2>1, <3>2
    <3> QED
      BY <2>1, <2>2, <3>1, <3>3
  <2> QED
    BY <2>3, <2>4
<1> HIDE DEF G
<1>9. 0 .. n \subseteq G
  <2>1. 0 \in Int /\ n \in Int
    BY <1>1
  <2> QED
    BY <1>7, <1>8, <2>1, IntervalInduction
<1>10. Len(some[n]) = m /\ (\A j \in 1 .. m : some[n][j] = x[j]) /\ some[n] \in Seq(S)
  <2>1. n \in G /\ Is(n) = m
    BY <1>1, <1>9
  <2> QED
    BY <1>1, <1>5, <2>1 DEF G
<1>11. SubSeq(x, 1, m) \in Seq(S) /\ Len(SubSeq(x, 1, m)) = m - 1 + 1 /\ \A j \in 1 .. (m - 1 + 1) : SubSeq(x, 1, m)[j] = x[1 + j - 1]
  BY <1>1, PieceOf
<1>12. Len(SubSeq(x, 1, m)) = m /\ \A j \in 1 .. m : SubSeq(x, 1, m)[j] = x[j]
  BY <1>1, <1>11
<1>13. some[n] = SubSeq(x, 1, m)
  BY <1>10, <1>11, <1>12, SeqEqual
<1> QED
  BY <1>1, <1>2, <1>13 DEF OnlySteps

\* What is not in the set may as well stand between them.
LEMMA OnlySkips ==
  ASSUME NEW S, NEW x \in Seq(S), NEW y \in Seq(S), NEW set, NEW p \in 0 .. Len(x),
         Len(y) = Len(x) + 1, y[p + 1] \notin set,
         \A m \in 1 .. Len(x) : (m <= p => y[m] = x[m]) /\ (~(m <= p) => y[m + 1] = x[m])
  PROVE  Only(y, set) = Only(x, set)
<1> DEFINE n == Len(x)
           Back(k) == IF k <= p THEN k ELSE k - 1
<1>1. n \in Nat /\ p \in Nat /\ p <= n /\ n = Len(x) /\ n + 1 = Len(y)
  BY LenProperties
<1>2. PICK some \in [0 .. Len(x) -> Seq(S)] : OnlySteps(x, set, some)
  BY OnlyLoops
<1>3. PICK more \in [0 .. Len(y) -> Seq(S)] : OnlySteps(y, set, more)
  BY OnlyLoops
<1> HIDE DEF n
<1>4. some[0] = <<>> /\ more[0] = <<>>
  BY <1>1, <1>2, <1>3 DEF OnlySteps, OnlyStep
<1>5. ASSUME NEW k \in 1 .. n
      PROVE  some[k] = IF x[k] \in set THEN Append(some[k - 1], x[k]) ELSE some[k - 1]
  <2>1. k \in 0 .. Len(x) /\ k # 0
    BY <1>1
  <2>2. some[k] = OnlyStep(x, set, some, k)
    BY <1>2, <2>1 DEF OnlySteps
  <2> QED
    BY <2>1, <2>2 DEF OnlyStep
<1>6. ASSUME NEW k \in 1 .. (n + 1)
      PROVE  more[k] = IF y[k] \in set THEN Append(more[k - 1], y[k]) ELSE more[k - 1]
  <2>1. k \in 0 .. Len(y) /\ k # 0
    BY <1>1
  <2>2. more[k] = OnlyStep(y, set, more, k)
    BY <1>3, <2>1 DEF OnlySteps
  <2> QED
    BY <2>1, <2>2 DEF OnlyStep
<1> DEFINE G == {k \in 0 .. (n + 1) : more[k] = some[Back(k)]}
<1>7. 0 \in G
  BY <1>1, <1>4
<1>8. ASSUME NEW k \in 0 .. ((n + 1) - 1), k \in G PROVE k + 1 \in G
  <2>1. k + 1 \in 1 .. (n + 1) /\ k \in 0 .. n /\ (k + 1) - 1 = k /\ k \in Int
    BY <1>1
  <2>2. more[k] = some[Back(k)]
    BY <1>8
  <2>3. more[k + 1] = IF y[k + 1] \in set THEN Append(more[k], y[k + 1]) ELSE more[k]
    BY <1>6, <2>1
  <2>4. CASE k + 1 <= p
    <3>1. Back(k) = k /\ Back(k + 1) = k + 1 /\ k + 1 \in 1 .. n
      BY <1>1, <2>1, <2>4
    <3>2. y[k + 1] = x[k + 1]
      BY <1>1, <2>4, <3>1
    <3>3. some[k + 1] = IF x[k + 1] \in set THEN Append(some[k], x[k + 1]) ELSE some[k]
      BY <1>5, <2>1, <3>1
    <3> QED
      BY <2>1, <2>2, <2>3, <3>1, <3>2, <3>3
  <2>5. CASE k = p
    <3>1. Back(k) = k /\ Back(k + 1) = k
      BY <1>1, <2>1, <2>5
    <3> QED
      BY <2>1, <2>2, <2>3, <2>5, <3>1
  <2>6. CASE p < k
    <3>1. Back(k) = k - 1 /\ Back(k + 1) = k /\ k \in 1 .. n /\ ~(k <= p)
      BY <1>1, <2>1, <2>6
    <3>2. y[k + 1] = x[k]
      BY <1>1, <3>1
    <3>3. some[k] = IF x[k] \in set THEN Append(some[k - 1], x[k]) ELSE some[k - 1]
      BY <1>5, <3>1
    <3> QED
      BY <2>1, <2>2, <2>3, <3>1, <3>2, <3>3
  <2>7. k + 1 <= p \/ k = p \/ p < k
    BY <1>1, <2>1
  <2> QED
    BY <2>4, <2>5, <2>6, <2>7
<1> HIDE DEF G
<1>9. 0 .. (n + 1) \subseteq G
  <2> DEFINE b == n + 1
  <2>1. 0 \in Int /\ b \in Int
    BY <1>1
  <2>2. \A k \in 0 .. (b - 1) : k \in G => k + 1 \in G
    BY <1>8
  <2> HIDE DEF b
  <2>3. 0 .. b \subseteq G
    BY <1>7, <2>1, <2>2, IntervalInduction
  <2> QED
    BY <2>3 DEF b
<1>10. n + 1 \in G /\ Back(n + 1) = n
  BY <1>1, <1>9
<1>11. more[n + 1] = some[n]
  BY <1>10 DEF G
<1> QED
  BY <1>1, <1>2, <1>3, <1>11 DEF OnlySteps

LEMMA BreakIsSkipped ==
  ASSUME NEW S, 10 \in S, NEW x \in Seq(S), NEW set, 10 \notin set, NEW p \in 0 .. Len(x)
  PROVE  WithBreak(x, p) \in Seq(S) /\ Only(WithBreak(x, p), set) = Only(x, set)
<1> DEFINE y == WithBreak(x, p)
           q == p + 1
           B == <<10>>
<1>1. Len(x) \in Nat /\ p \in Nat /\ p <= Len(x) /\ q = p + 1 /\ q \in 1 .. (Len(x) + 1)
  BY LenProperties
<1>2. B \in Seq(S) /\ Len(B) = 1 /\ B[1] = 10
  OBVIOUS
<1>3. y = Spliced(x, B, p, q)
  BY DEF WithBreak, Spliced
<1> HIDE DEF y, q, B
<1>0. B \in Seq(S) /\ q \in 1 .. (Len(x) + 1)
  BY <1>1, <1>2
<1>4. y \in Seq(S)
  BY <1>0, <1>3, SplicedIs
<1>5. Len(Spliced(x, B, p, q)) = p + Len(B) + Len(x) - q + 1
  BY <1>0, SplicedIs
<1>6. \A m \in 1 .. Len(Spliced(x, B, p, q)) : Spliced(x, B, p, q)[m] =
        IF m <= p THEN x[m] ELSE IF m <= p + Len(B) THEN B[m - p] ELSE x[m - p - Len(B) + q - 1]
  BY <1>0, SplicedIs
<1>7. Len(y) = Len(x) + 1
  BY <1>1, <1>2, <1>3, <1>5
<1>8. \A m \in 1 .. Len(y) : y[m] = IF m <= p THEN x[m] ELSE IF m <= p + 1 THEN B[m - p] ELSE x[m - p - 1 + q - 1]
  BY <1>2, <1>3, <1>6
<1>9. y[p + 1] \notin set
  <2>1. p + 1 \in 1 .. Len(y) /\ ~(p + 1 <= p) /\ p + 1 <= p + 1 /\ (p + 1) - p = 1
    BY <1>1, <1>7
  <2> QED
    BY <1>2, <1>8, <2>1
<1>10. ASSUME NEW m \in 1 .. Len(x) PROVE (m <= p => y[m] = x[m]) /\ (~(m <= p) => y[m + 1] = x[m])
  <2>1. m \in 1 .. Len(y) /\ m + 1 \in 1 .. Len(y) /\ (m + 1) - p - 1 + q - 1 = m
    BY <1>1, <1>7
  <2>2. ~(m <= p) => ~(m + 1 <= p) /\ ~(m + 1 <= p + 1)
    BY <1>1
  <2> QED
    BY <1>8, <2>1, <2>2
<1>11. Only(y, set) = Only(x, set)
  BY <1>4, <1>7, <1>9, <1>10, OnlySkips
<1> QED
  BY <1>4, <1>11 DEF y

----------------------------------------------------------------------------
(* Base64 *)

Codes == 1 .. 255

LEMMA LettersAre ==
  /\ \A n \in 0 .. 63 : B64[n] \in Int
  /\ \A n \in 0 .. 63 : B64[n] \in (UpperLetters \cup LowerLetters \cup Numerals \cup {43, 47})
  /\ \A m, n \in 0 .. 63 : B64[m] = B64[n] => m = n
<1>1. ASSUME NEW n \in 0 .. 63
      PROVE  \/ n \in 0 .. 25 /\ B64[n] = n + 65
             \/ n \in 26 .. 51 /\ B64[n] = n + 71
             \/ n \in 52 .. 61 /\ B64[n] = n - 4
             \/ n = 62 /\ B64[n] = 43
             \/ n = 63 /\ B64[n] = 47
  BY DEF B64
<1>2. \A n \in 0 .. 63 : B64[n] \in Int
  BY <1>1
<1>3. \A n \in 0 .. 63 : B64[n] \in (UpperLetters \cup LowerLetters \cup Numerals \cup {43, 47})
  BY <1>1 DEF UpperLetters, LowerLetters, Numerals
<1>4. \A m, n \in 0 .. 63 : B64[m] = B64[n] => m = n
  BY SMTT(30), <1>1
<1> QED
  BY <1>2, <1>3, <1>4

Bits(a, b, c) ==
  /\ a \div 4 \in 0 .. 63
  /\ 16 * (a % 4) + b \div 16 \in 0 .. 63
  /\ 4 * (b % 16) + c \div 64 \in 0 .. 63
  /\ c % 64 \in 0 .. 63
BitsBack(a, b, c) ==
  /\ 4 * (a \div 4) + (16 * (a % 4) + b \div 16) \div 16 = a
  /\ 16 * ((16 * (a % 4) + b \div 16) % 16) + (4 * (b % 16) + c \div 64) \div 4 = b
  /\ 64 * ((4 * (b % 16) + c \div 64) % 4) + (c % 64) = c

LEMMA BitsFit == ASSUME NEW a \in 0 .. 255, NEW b \in 0 .. 255, NEW c \in 0 .. 255
  PROVE Bits(a, b, c)
BY DEF Bits
LEMMA BitsGoBack == ASSUME NEW a \in 0 .. 255, NEW b \in 0 .. 255, NEW c \in 0 .. 255
  PROVE BitsBack(a, b, c)
BY DEF BitsBack

LEMMA LetterValue ==
  ASSUME NEW n \in 0 .. 63
  PROVE  B64[n] \in B64Letters /\ B64Value(B64[n]) = n
<1>1. \A m \in 0 .. 63 : B64[m] = B64[n] => m = n
  BY LettersAre
<1> QED
  BY <1>1 DEF B64Value, B64Letters

LEMMA LettersType ==
  /\ B64Letters \subseteq Codes
  /\ 10 \notin B64Letters /\ Pad \notin B64Letters
  /\ \A c \in B64Letters : B64Value(c) \in 0 .. 63
<1>1. \A c \in B64Letters : c \in (UpperLetters \cup LowerLetters \cup Numerals \cup {43, 47})
  BY ZenonT(60), LettersAre DEF B64Letters
<1>2. \A c \in (UpperLetters \cup LowerLetters \cup Numerals \cup {43, 47}) : c \in Codes /\ c # 10 /\ c # Pad
  BY DEF UpperLetters, LowerLetters, Numerals, Codes, Pad
<1>3. \A c \in B64Letters : \E n \in 0 .. 63 : B64[n] = c
  BY DEF B64Letters
<1>4. \A c \in B64Letters : B64Value(c) \in 0 .. 63
  BY <1>3 DEF B64Value
<1> QED
  BY <1>1, <1>2, <1>4

LEMMA ByteAtIs ==
  ASSUME NEW t \in Seq(Codes), NEW k \in Nat, k > 0
  PROVE  /\ ByteAt(t, k) \in 0 .. 255
         /\ k \in DOMAIN t <=> k <= Len(t)
         /\ k <= Len(t) => ByteAt(t, k) = t[k]
<1>1. Len(t) \in Nat /\ DOMAIN t = 1 .. Len(t)
  BY LenProperties
<1>2. k \in DOMAIN t <=> k <= Len(t)
  BY <1>1
<1>3. k \in 1 .. Len(t) => t[k] \in Codes
  BY ElementOfSeq
<1>4. k <= Len(t) => t[k] \in 0 .. 255
  BY <1>1, <1>2, <1>3 DEF Codes
<1> QED
  BY <1>2, <1>4 DEF ByteAt

\* The four letters for the bytes from s on.
FourOf(t, s, Q) ==
  LET a == ByteAt(t, s)  b == ByteAt(t, s + 1)  c == ByteAt(t, s + 2)
  IN  /\ Q[1] = B64[a \div 4]
      /\ Q[2] = B64[16 * (a % 4) + b \div 16]
      /\ Q[3] = IF s + 1 <= Len(t) THEN B64[4 * (b % 16) + c \div 64] ELSE Pad
      /\ Q[4] = IF s + 2 <= Len(t) THEN B64[c % 64] ELSE Pad

LEMMA QuartetIs ==
  ASSUME NEW t \in Seq(Codes), NEW s \in Nat, s > 0
  PROVE  Quartet(t, s) \in Seq(Codes) /\ Len(Quartet(t, s)) = 4 /\ FourOf(t, s, Quartet(t, s))
<1> DEFINE a == ByteAt(t, s)
           b == ByteAt(t, s + 1)
           c == ByteAt(t, s + 2)
           x1 == B64[a \div 4]
           x2 == B64[16 * (a % 4) + b \div 16]
           x3 == IF s + 1 <= Len(t) THEN B64[4 * (b % 16) + c \div 64] ELSE Pad
           x4 == IF s + 2 <= Len(t) THEN B64[c % 64] ELSE Pad
<1>1. s + 1 \in Nat /\ s + 1 > 0 /\ s + 2 \in Nat /\ s + 2 > 0
  OBVIOUS
<1>2. a \in 0 .. 255 /\ b \in 0 .. 255 /\ c \in 0 .. 255
  BY <1>1, ByteAtIs
<1>3. (s + 1 \in DOMAIN t <=> s + 1 <= Len(t)) /\ (s + 2 \in DOMAIN t <=> s + 2 <= Len(t))
  BY <1>1, ByteAtIs
<1>4. Quartet(t, s) = <<x1, x2, x3, x4>>
  BY <1>3 DEF Quartet
<1> HIDE DEF a, b, c
<1>5. Bits(a, b, c)
  BY <1>2, BitsFit
<1>6. \A n \in 0 .. 63 : B64[n] \in Codes
  BY LetterValue, LettersType
<1>7. Pad \in Codes
  BY DEF Pad, Codes
<1>8. x1 \in Codes /\ x2 \in Codes /\ x3 \in Codes /\ x4 \in Codes
  BY <1>5, <1>6, <1>7 DEF Bits
<1>9. FourOf(t, s, <<x1, x2, x3, x4>>)
  BY DEF FourOf, a, b, c
<1> HIDE DEF x1, x2, x3, x4
<1>10. <<x1, x2, x3, x4>> \in Seq(Codes) /\ Len(<<x1, x2, x3, x4>>) = 4
  BY <1>8
<1> QED
  BY <1>4, <1>9, <1>10

\* The letters of a text, four for every three bytes.
CodedAs(t, C) ==
  /\ C \in Seq(Codes)
  /\ Len(C) = 4 * ((Len(t) + 2) \div 3)
  /\ \A q \in 1 .. ((Len(t) + 2) \div 3) : \A j \in 1 .. 4 : C[4 * (q - 1) + j] = Quartet(t, 3 * q - 2)[j]

LEMMA StringToBase64Is ==
  ASSUME NEW t \in Seq(Codes)
  PROVE  CodedAs(t, StringToBase64(t))
<1> DEFINE n == (Len(t) + 2) \div 3
           seqs == [q \in 1 .. n |-> Quartet(t, 3 * q - 2)]
           w == 4
<1>1. n \in Nat
  BY LenProperties
<1>2. StringToBase64(t) = FlattenSeq(seqs)
  BY DEF StringToBase64
<1> HIDE DEF n
<1>3. ASSUME NEW q \in 1 .. n
      PROVE  seqs[q] = Quartet(t, 3 * q - 2) /\ seqs[q] \in Seq(Codes) /\ Len(seqs[q]) = 4
  <2>1. 3 * q - 2 \in Nat /\ 3 * q - 2 > 0
    BY <1>1
  <2>2. Quartet(t, 3 * q - 2) \in Seq(Codes) /\ Len(Quartet(t, 3 * q - 2)) = 4
    BY <2>1, QuartetIs
  <2> QED
    BY <2>2
<1>4. seqs \in [1 .. n -> Seq(Codes)]
  BY <1>3
<1> HIDE DEF seqs
<1>5. w \in Nat /\ \A q \in 1 .. n : Len(seqs[q]) = w
  BY <1>3
<1> HIDE DEF w
<1>6. InBlocks(seqs, n, w, FlattenSeq(seqs))
  BY <1>1, <1>4, <1>5, FlattenBlocks
<1>7. FlattenSeq(seqs) \in Seq(Codes)
  BY <1>1, <1>4, FlattenType
<1>8. Len(FlattenSeq(seqs)) = 4 * n
  <2>1. Len(FlattenSeq(seqs)) = n * w
    BY <1>6 DEF InBlocks
  <2> QED
    BY <1>1, <2>1 DEF w
<1>9. ASSUME NEW q \in 1 .. n, NEW j \in 1 .. 4
      PROVE  FlattenSeq(seqs)[4 * (q - 1) + j] = Quartet(t, 3 * q - 2)[j]
  <2>1. FlattenSeq(seqs)[(q - 1) * w + j] = seqs[q][j]
    BY <1>6 DEF InBlocks, w
  <2>2. (q - 1) * w = 4 * (q - 1)
    BY <1>1 DEF w
  <2> QED
    BY <1>3, <2>1, <2>2
<1>10. CodedAs(t, FlattenSeq(seqs))
  BY <1>7, <1>8, <1>9 DEF CodedAs, n
<1> QED
  BY <1>2, <1>10

\* How many of them are letters, of a text of n bytes.
LettersOf(n) == (4 * n + 2) \div 3

\* The letter at each place, and then the padding.
LEMMA LettersComeFirst ==
  ASSUME NEW t \in Seq(Codes), NEW C, CodedAs(t, C)
  PROVE  /\ LettersOf(Len(t)) \in 0 .. Len(C)
         /\ \A i \in 1 .. LettersOf(Len(t)) : C[i] \in B64Letters
         /\ \A i \in (LettersOf(Len(t)) + 1) .. Len(C) : C[i] = Pad
<1> DEFINE n == Len(t)
           m == LettersOf(n)
           Q == (n + 2) \div 3
<1>1. n \in Nat /\ n = Len(t)
  BY LenProperties
<1>2. /\ C \in Seq(Codes)
      /\ Len(C) = 4 * Q
      /\ \A q \in 1 .. Q : \A j \in 1 .. 4 : C[4 * (q - 1) + j] = Quartet(t, 3 * q - 2)[j]
  BY DEF CodedAs
<1>3. m = (4 * n + 2) \div 3 /\ Q = (n + 2) \div 3
  BY DEF LettersOf
<1> HIDE DEF n, m, Q
<1>4. m \in Nat /\ Q \in Nat /\ m <= 4 * Q
  BY <1>1, <1>3
<1>5. ASSUME NEW i \in 1 .. (4 * Q)
      PROVE  (i <= m => C[i] \in B64Letters) /\ (~(i <= m) => C[i] = Pad)
  <2> DEFINE q == (i - 1) \div 4 + 1
             j == ((i - 1) % 4) + 1
             s == 3 * q - 2
             F == Quartet(t, s)
  <2>1. q \in 1 .. Q /\ j \in 1 .. 4 /\ i = 4 * (q - 1) + j
    BY <1>4
  <2> HIDE DEF q, j
  <2>2. s \in Nat /\ s > 0 /\ s <= n /\ s + 1 \in Nat /\ s + 1 > 0 /\ s + 2 \in Nat /\ s + 2 > 0 /\ s = 3 * q - 2
    BY <1>1, <1>3, <2>1
  <2>3. C[i] = F[j]
    BY <1>2, <2>1
  <2> HIDE DEF s
  <2> DEFINE a == ByteAt(t, s)
             b == ByteAt(t, s + 1)
             c == ByteAt(t, s + 2)
  <2>4. Bits(a, b, c)
    <3>1. a \in 0 .. 255 /\ b \in 0 .. 255 /\ c \in 0 .. 255
      BY <2>2, ByteAtIs
    <3> HIDE DEF a, b, c
    <3> QED
      BY <3>1, BitsFit
  <2>5. FourOf(t, s, F)
    BY <2>2, QuartetIs
  <2>6. /\ F[1] = B64[a \div 4]
        /\ F[2] = B64[16 * (a % 4) + b \div 16]
        /\ F[3] = IF s + 1 <= n THEN B64[4 * (b % 16) + c \div 64] ELSE Pad
        /\ F[4] = IF s + 2 <= n THEN B64[c % 64] ELSE Pad
    BY <1>1, <2>5 DEF FourOf
  <2> HIDE DEF a, b, c, F
  <2>7. /\ F[1] \in B64Letters /\ F[2] \in B64Letters
        /\ (s + 1 <= n => F[3] \in B64Letters) /\ (~(s + 1 <= n) => F[3] = Pad)
        /\ (s + 2 <= n => F[4] \in B64Letters) /\ (~(s + 2 <= n) => F[4] = Pad)
    BY <2>4, <2>6, LetterValue DEF Bits
  <2>8. /\ j \in 1 .. 2 => i <= m
        /\ j = 3 => (i <= m <=> s + 1 <= n)
        /\ j = 4 => (i <= m <=> s + 2 <= n)
    BY <1>1, <1>3, <2>1, <2>2
  <2>9. j = 1 \/ j = 2 \/ j = 3 \/ j = 4
    BY <2>1
  <2> QED
    BY <2>3, <2>7, <2>8, <2>9
<1>6. m \in 0 .. Len(C)
  BY <1>2, <1>4
<1>7. \A i \in 1 .. m : C[i] \in B64Letters
  <2>1. \A i \in 1 .. m : i \in 1 .. (4 * Q) /\ i <= m
    BY <1>4
  <2> QED
    BY <1>5, <2>1
<1>8. \A i \in (m + 1) .. Len(C) : C[i] = Pad
  <2>1. \A i \in (m + 1) .. (4 * Q) : i \in 1 .. (4 * Q) /\ ~(i <= m)
    BY <1>4
  <2> QED
    BY <1>2, <1>5, <2>1
<1> QED
  BY <1>6, <1>7, <1>8 DEF m, n

\* What is behind the letters.
SextetsOf(t, m, v) ==
  \A q \in 1 .. ((Len(t) + 2) \div 3) :
    LET s == 3 * q - 2
        a == ByteAt(t, s)  b == ByteAt(t, s + 1)  c == ByteAt(t, s + 2)
    IN  /\ v[4 * (q - 1) + 1] = a \div 4
        /\ v[4 * (q - 1) + 2] = 16 * (a % 4) + b \div 16
        /\ s + 1 <= Len(t) => v[4 * (q - 1) + 3] = 4 * (b % 16) + c \div 64
        /\ s + 2 <= Len(t) => v[4 * (q - 1) + 4] = c % 64

LEMMA SextetsAre ==
  ASSUME NEW t \in Seq(Codes), NEW C, CodedAs(t, C), NEW v,
         \A i \in 1 .. LettersOf(Len(t)) : v[i] = B64Value(C[i])
  PROVE  SextetsOf(t, LettersOf(Len(t)), v)
<1> DEFINE n == Len(t)
           m == LettersOf(n)
           Q == (n + 2) \div 3
<1>1. n \in Nat /\ n = Len(t)
  BY LenProperties
<1>2. \A q \in 1 .. Q : \A j \in 1 .. 4 : C[4 * (q - 1) + j] = Quartet(t, 3 * q - 2)[j]
  BY DEF CodedAs
<1>3. m = (4 * n + 2) \div 3 /\ Q = (n + 2) \div 3
  BY DEF LettersOf
<1>4. \A i \in 1 .. m : v[i] = B64Value(C[i])
  OBVIOUS
<1> HIDE DEF n, m, Q
<1>5. ASSUME NEW q \in 1 .. Q
      PROVE  LET s == 3 * q - 2
                 a == ByteAt(t, s)  b == ByteAt(t, s + 1)  c == ByteAt(t, s + 2)
             IN  /\ v[4 * (q - 1) + 1] = a \div 4
                 /\ v[4 * (q - 1) + 2] = 16 * (a % 4) + b \div 16
                 /\ s + 1 <= n => v[4 * (q - 1) + 3] = 4 * (b % 16) + c \div 64
                 /\ s + 2 <= n => v[4 * (q - 1) + 4] = c % 64
  <2> DEFINE s == 3 * q - 2
             F == Quartet(t, s)
  <2>1. /\ s \in Nat /\ s > 0 /\ s <= n /\ s + 1 \in Nat /\ s + 1 > 0 /\ s + 2 \in Nat /\ s + 2 > 0
        /\ 4 * (q - 1) + 1 \in 1 .. m /\ 4 * (q - 1) + 2 \in 1 .. m
        /\ s + 1 <= n => 4 * (q - 1) + 3 \in 1 .. m
        /\ s + 2 <= n => 4 * (q - 1) + 4 \in 1 .. m
    BY <1>1, <1>3
  <2>2. \A j \in 1 .. 4 : C[4 * (q - 1) + j] = F[j]
    BY <1>2
  <2> HIDE DEF s
  <2> DEFINE a == ByteAt(t, s)
             b == ByteAt(t, s + 1)
             c == ByteAt(t, s + 2)
  <2>3. Bits(a, b, c)
    <3>1. a \in 0 .. 255 /\ b \in 0 .. 255 /\ c \in 0 .. 255
      BY <2>1, ByteAtIs
    <3> HIDE DEF a, b, c
    <3> QED
      BY <3>1, BitsFit
  <2>4. FourOf(t, s, F)
    BY <2>1, QuartetIs
  <2>5. /\ F[1] = B64[a \div 4]
        /\ F[2] = B64[16 * (a % 4) + b \div 16]
        /\ s + 1 <= n => F[3] = B64[4 * (b % 16) + c \div 64]
        /\ s + 2 <= n => F[4] = B64[c % 64]
    BY <1>1, <2>4 DEF FourOf
  <2> HIDE DEF a, b, c, F
  <2>6. \A x \in 0 .. 63 : B64Value(B64[x]) = x
    BY LetterValue
  <2>7. v[4 * (q - 1) + 1] = a \div 4
    <3>1. C[4 * (q - 1) + 1] = B64[a \div 4]
      BY <2>2, <2>5
    <3>2. v[4 * (q - 1) + 1] = B64Value(C[4 * (q - 1) + 1])
      BY <1>4, <2>1
    <3>3. B64Value(B64[a \div 4]) = a \div 4
      BY <2>3, <2>6 DEF Bits
    <3> QED
      BY <3>1, <3>2, <3>3
  <2>8. v[4 * (q - 1) + 2] = 16 * (a % 4) + b \div 16
    <3>1. C[4 * (q - 1) + 2] = B64[16 * (a % 4) + b \div 16]
      BY <2>2, <2>5
    <3>2. v[4 * (q - 1) + 2] = B64Value(C[4 * (q - 1) + 2])
      BY <1>4, <2>1
    <3>3. B64Value(B64[16 * (a % 4) + b \div 16]) = 16 * (a % 4) + b \div 16
      BY <2>3, <2>6 DEF Bits
    <3> QED
      BY <3>1, <3>2, <3>3
  <2>9. s + 1 <= n => v[4 * (q - 1) + 3] = 4 * (b % 16) + c \div 64
    <3> SUFFICES ASSUME s + 1 <= n PROVE v[4 * (q - 1) + 3] = 4 * (b % 16) + c \div 64
      OBVIOUS
    <3>1. C[4 * (q - 1) + 3] = B64[4 * (b % 16) + c \div 64]
      BY <2>2, <2>5
    <3>2. v[4 * (q - 1) + 3] = B64Value(C[4 * (q - 1) + 3])
      BY <1>4, <2>1
    <3>3. B64Value(B64[4 * (b % 16) + c \div 64]) = 4 * (b % 16) + c \div 64
      BY <2>3, <2>6 DEF Bits
    <3> QED
      BY <3>1, <3>2, <3>3
  <2>10. s + 2 <= n => v[4 * (q - 1) + 4] = c % 64
    <3> SUFFICES ASSUME s + 2 <= n PROVE v[4 * (q - 1) + 4] = c % 64
      OBVIOUS
    <3>1. C[4 * (q - 1) + 4] = B64[c % 64]
      BY <2>2, <2>5
    <3>2. v[4 * (q - 1) + 4] = B64Value(C[4 * (q - 1) + 4])
      BY <1>4, <2>1
    <3>3. B64Value(B64[c % 64]) = c % 64
      BY <2>3, <2>6 DEF Bits
    <3> QED
      BY <3>1, <3>2, <3>3
  <2> QED
    BY <2>7, <2>8, <2>9, <2>10 DEF s, a, b, c
<1> QED
  BY <1>5 DEF SextetsOf, n, Q

LEMMA OnlyType ==
  ASSUME NEW S, NEW x \in Seq(S), NEW set
  PROVE  Only(x, set) \in Seq(set)
<1> DEFINE n == Len(x)
<1>1. n \in Nat /\ n = Len(x)
  BY LenProperties
<1>2. PICK some \in [0 .. Len(x) -> Seq(S)] : OnlySteps(x, set, some)
  BY OnlyLoops
<1> HIDE DEF n
<1>3. some[0] \in Seq(set)
  <2>1. some[0] = <<>>
    BY <1>1, <1>2 DEF OnlySteps, OnlyStep
  <2> QED
    BY <2>1, EmptySeq
<1>4. ASSUME NEW k \in (0 + 1) .. n, some[k - 1] \in Seq(set) PROVE some[k] \in Seq(set)
  <2>1. k \in 0 .. Len(x) /\ k # 0
    BY <1>1
  <2>2. some[k] = OnlyStep(x, set, some, k)
    BY <1>2, <2>1 DEF OnlySteps
  <2>3. some[k] = IF x[k] \in set THEN Append(some[k - 1], x[k]) ELSE some[k - 1]
    BY <2>1, <2>2 DEF OnlyStep
  <2> QED
    BY <1>4, <2>3, AppendProperties
<1>5. \A k \in 0 .. n : some[k] \in Seq(set)
  <2>1. 0 \in Int /\ n \in Int
    BY <1>1
  <2> QED
    BY <1>3, <1>4, <2>1, LoopKeeps
<1>6. n \in 0 .. n
  BY <1>1
<1> QED
  BY <1>1, <1>2, <1>5, <1>6 DEF OnlySteps

LEMMA UpToNulIs ==
  ASSUME NEW r \in Seq(0 .. 255)
  PROVE  /\ UpToNul(r) \in Seq(Codes)
         /\ r \in Seq(Codes) => UpToNul(r) = r
<1> DEFINE n == Len(r)
           nuls == {k \in DOMAIN r : r[k] = 0}
           h == Min(nuls) - 1
<1>1. n \in Nat /\ DOMAIN r = 1 .. n
  BY LenProperties
<1>2. \A k \in 1 .. n : r[k] \in 0 .. 255
  BY <1>1, ElementOfSeq
<1>3. UpToNul(r) = IF nuls = {} THEN r ELSE SubSeq(r, 1, h)
  BY DEF UpToNul
<1>4. \A k \in 1 .. n : k \notin nuls => r[k] \in Codes
  BY <1>1, <1>2 DEF Codes
<1>5. \A k \in nuls : k \in 1 .. n
  BY <1>1
<1>6. r \in Seq(Codes) => nuls = {}
  <2>1. r \in Seq(Codes) => \A k \in 1 .. n : r[k] \in Codes
    BY <1>1, ElementOfSeq
  <2>2. 0 \notin Codes
    BY DEF Codes
  <2> QED
    BY <1>1, <2>1, <2>2
<1> HIDE DEF nuls
<1>7. CASE nuls = {}
  <2>1. \A k \in 1 .. n : r[k] \in Codes
    BY <1>4, <1>7
  <2>2. r \in Seq(Codes)
    BY <2>1, ElementsIn
  <2> QED
    BY <1>3, <1>7, <2>2
<1>8. CASE nuls # {}
  <2>1. nuls \in SUBSET Nat
    BY <1>1, <1>5
  <2>2. Min(nuls) \in nuls
    BY <1>8, <2>1, MinIsLeast
  <2>3. \A k \in nuls : Min(nuls) <= k
    BY <1>8, <2>1, MinIsLeast
  <2>4. h \in Nat /\ h <= n /\ \A k \in 1 .. h : k \in 1 .. n /\ ~(Min(nuls) <= k)
    BY <1>1, <1>5, <2>2
  <2> HIDE DEF h
  <2>5. \A k \in 1 .. h : r[k] \in Codes
    BY <1>4, <2>3, <2>4
  <2>6. SubSeq(r, 1, h) \in Seq(0 .. 255) /\ Len(SubSeq(r, 1, h)) = h - 1 + 1 /\ \A m \in 1 .. (h - 1 + 1) : SubSeq(r, 1, h)[m] = r[1 + m - 1]
    BY <1>1, <2>4, PieceOf
  <2>7. Len(SubSeq(r, 1, h)) = h /\ \A m \in 1 .. h : SubSeq(r, 1, h)[m] = r[m]
    BY <2>4, <2>6
  <2>8. \A m \in 1 .. h : SubSeq(r, 1, h)[m] \in Codes
    BY <2>5, <2>7
  <2>9. SubSeq(r, 1, h) \in Seq(Codes)
    BY <2>6, <2>7, <2>8, ElementsIn
  <2> QED
    BY <1>3, <1>6, <1>8, <2>9
<1> QED
  BY <1>7, <1>8

DecodedByte(v, k) ==
  LET q == 4 * ((k - 1) \div 3)
  IN  CASE k % 3 = 1 -> 4 * v[q + 1] + v[q + 2] \div 16
        [] k % 3 = 2 -> 16 * (v[q + 2] % 16) + v[q + 3] \div 4
        [] k % 3 = 0 -> 64 * (v[q + 3] % 4) + v[q + 4]
Values(letters) == [k \in DOMAIN letters |-> B64Value(letters[k])]
DecodedBytes(v) == [k \in 1 .. ((6 * Len(v)) \div 8) |-> DecodedByte(v, k)]

LEMMA Base64ToStringIs ==
  ASSUME NEW x
  PROVE  Base64ToString(x) = UpToNul(DecodedBytes(Values(Only(x, B64Letters))))
BY DEF Base64ToString, DecodedBytes, DecodedByte, Values

LEMMA ValuesAre ==
  ASSUME NEW letters \in Seq(B64Letters)
  PROVE  /\ Len(Values(letters)) = Len(letters)
         /\ \A k \in 1 .. Len(letters) : Values(letters)[k] = B64Value(letters[k]) /\ Values(letters)[k] \in 0 .. 63
<1> DEFINE n == Len(letters)
           v == Values(letters)
<1>1. n \in Nat /\ DOMAIN letters = 1 .. n
  BY LenProperties
<1>2. \A k \in 1 .. n : letters[k] \in B64Letters
  BY <1>1, ElementOfSeq
<1>3. v = [k \in 1 .. n |-> B64Value(letters[k])]
  BY <1>1 DEF Values
<1> HIDE DEF n, v
<1>4. \A k \in 1 .. n : v[k] = B64Value(letters[k]) /\ v[k] \in 0 .. 63
  BY <1>2, <1>3, LettersType
<1>5. v \in [1 .. n -> 0 .. 63]
  BY <1>3, <1>4
<1>6. Len(v) = n
  BY <1>1, <1>5, SeqsAre
<1> QED
  BY <1>4, <1>6 DEF n, v

LEMMA Base64ToStringType ==
  ASSUME NEW S, NEW x \in Seq(S)
  PROVE  Base64ToString(x) \in Seq(Codes)
<1> DEFINE letters == Only(x, B64Letters)
           v == Values(letters)
           m == Len(letters)
           N == (6 * m) \div 8
<1>1. letters \in Seq(B64Letters)
  BY OnlyType
<1> HIDE DEF letters
<1>2. m \in Nat
  BY <1>1, LenProperties
<1>3. Len(v) = m /\ \A k \in 1 .. m : v[k] \in 0 .. 63
  BY <1>1, ValuesAre
<1> HIDE DEF v, m
<1>4. ASSUME NEW k \in 1 .. N PROVE DecodedByte(v, k) \in 0 .. 255
  <2> DEFINE q == 4 * ((k - 1) \div 3)
  <2>1. /\ q + 1 \in 1 .. m /\ q + 2 \in 1 .. m
        /\ k % 3 # 1 => q + 3 \in 1 .. m
        /\ k % 3 = 0 => q + 4 \in 1 .. m
    BY <1>2
  <2>2. k % 3 = 0 \/ k % 3 = 1 \/ k % 3 = 2
    BY <1>2
  <2>3. DecodedByte(v, k) =
          CASE k % 3 = 1 -> 4 * v[q + 1] + v[q + 2] \div 16
            [] k % 3 = 2 -> 16 * (v[q + 2] % 16) + v[q + 3] \div 4
            [] k % 3 = 0 -> 64 * (v[q + 3] % 4) + v[q + 4]
    BY DEF DecodedByte
  <2>4. v[q + 1] \in 0 .. 63 /\ v[q + 2] \in 0 .. 63
    BY <1>3, <2>1
  <2>5. (k % 3 # 1 => v[q + 3] \in 0 .. 63) /\ (k % 3 = 0 => v[q + 4] \in 0 .. 63)
    BY <1>3, <2>1
  <2> DEFINE x1 == v[q + 1]
             x2 == v[q + 2]
             x3 == v[q + 3]
             x4 == v[q + 4]
  <2>6. DecodedByte(v, k) =
          CASE k % 3 = 1 -> 4 * x1 + x2 \div 16
            [] k % 3 = 2 -> 16 * (x2 % 16) + x3 \div 4
            [] k % 3 = 0 -> 64 * (x3 % 4) + x4
    BY <2>3
  <2>7. x1 \in 0 .. 63 /\ x2 \in 0 .. 63 /\ (k % 3 # 1 => x3 \in 0 .. 63) /\ (k % 3 = 0 => x4 \in 0 .. 63)
    BY <2>4, <2>5
  <2> HIDE DEF q, x1, x2, x3, x4
  <2>8. CASE k % 3 = 1
    <3>1. DecodedByte(v, k) = 4 * x1 + x2 \div 16
      BY <2>6, <2>8
    <3> QED
      BY <2>7, <3>1
  <2>9. CASE k % 3 = 2
    <3>1. DecodedByte(v, k) = 16 * (x2 % 16) + x3 \div 4 /\ x3 \in 0 .. 63
      BY <2>6, <2>7, <2>9
    <3> QED
      BY <2>7, <3>1
  <2>10. CASE k % 3 = 0
    <3>1. DecodedByte(v, k) = 64 * (x3 % 4) + x4 /\ x3 \in 0 .. 63 /\ x4 \in 0 .. 63
      BY <2>6, <2>7, <2>10
    <3> QED
      BY <3>1
  <2> QED
    BY <2>2, <2>8, <2>9, <2>10
<1>5. N \in Nat
  BY <1>2
<1>6. DecodedBytes(v) \in [1 .. N -> 0 .. 255]
  BY ZenonT(60), <1>3, <1>4 DEF DecodedBytes
<1>7. DecodedBytes(v) \in Seq(0 .. 255)
  <2> HIDE DEF N
  <2> QED
    BY <1>5, <1>6, SeqsAre
<1>8. Base64ToString(x) = UpToNul(DecodedBytes(v))
  BY Base64ToStringIs DEF v, letters
<1> QED
  BY <1>7, <1>8, UpToNulIs

\* Decoding what has the letters of a coded text gives back the text.
LEMMA DecodingIs ==
  ASSUME NEW t \in Seq(Codes), NEW C, CodedAs(t, C),
         NEW x, Only(x, B64Letters) = SubSeq(C, 1, LettersOf(Len(t)))
  PROVE  Base64ToString(x) = t
<1> DEFINE n == Len(t)
           m == LettersOf(n)
           L == SubSeq(C, 1, m)
           v == Values(L)
<1>1. n \in Nat /\ n = Len(t)
  BY LenProperties
<1>2. m \in 0 .. Len(C) /\ \A i \in 1 .. m : C[i] \in B64Letters
  BY LettersComeFirst
<1>3. C \in Seq(Codes) /\ Len(C) \in Nat
  BY LenProperties DEF CodedAs
<1>4. m = (4 * n + 2) \div 3 /\ m \in Nat /\ m <= Len(C)
  BY <1>2, <1>3 DEF LettersOf
<1> HIDE DEF n, m
<1>5. L \in Seq(Codes) /\ Len(L) = m - 1 + 1 /\ \A i \in 1 .. (m - 1 + 1) : L[i] = C[1 + i - 1]
  BY <1>3, <1>4, PieceOf
<1> HIDE DEF L
<1>6. Len(L) = m /\ \A i \in 1 .. m : L[i] = C[i]
  BY <1>4, <1>5
<1>7. L \in Seq(B64Letters)
  <2>1. \A i \in 1 .. m : L[i] \in B64Letters
    BY <1>2, <1>6
  <2> QED
    BY <1>5, <1>6, <2>1, ElementsIn
<1>8. Len(v) = m /\ \A i \in 1 .. m : v[i] = B64Value(C[i])
  BY <1>6, <1>7, ValuesAre
<1> HIDE DEF v
<1>9. SextetsOf(t, m, v)
  BY <1>8, SextetsAre DEF m, n
<1>10. (6 * m) \div 8 = n
  BY <1>1, <1>4
<1>11. ASSUME NEW k \in 1 .. n PROVE DecodedByte(v, k) = t[k]
  <2> DEFINE b3 == (k - 1) \div 3
             q == b3 + 1
             s == 3 * q - 2
             a == ByteAt(t, s)
             b == ByteAt(t, s + 1)
             c == ByteAt(t, s + 2)
  <2>1. /\ q \in 1 .. ((n + 2) \div 3) /\ 4 * (q - 1) = 4 * b3
        /\ s \in Nat /\ s > 0 /\ s + 1 \in Nat /\ s + 1 > 0 /\ s + 2 \in Nat /\ s + 2 > 0
    BY <1>1
  <2>2. /\ k % 3 = 1 => k = s
        /\ k % 3 = 2 => k = s + 1 /\ s + 1 <= n
        /\ k % 3 = 0 => k = s + 2 /\ s + 1 <= n /\ s + 2 <= n
        /\ k % 3 = 0 \/ k % 3 = 1 \/ k % 3 = 2
        /\ k <= n
    BY <1>1
  <2>3. /\ v[4 * (q - 1) + 1] = a \div 4
        /\ v[4 * (q - 1) + 2] = 16 * (a % 4) + b \div 16
        /\ s + 1 <= n => v[4 * (q - 1) + 3] = 4 * (b % 16) + c \div 64
        /\ s + 2 <= n => v[4 * (q - 1) + 4] = c % 64
    <3> HIDE DEF q
    <3> QED
      BY <1>1, <1>9, <2>1 DEF SextetsOf
  <2>4. DecodedByte(v, k) =
          CASE k % 3 = 1 -> 4 * v[4 * b3 + 1] + v[4 * b3 + 2] \div 16
            [] k % 3 = 2 -> 16 * (v[4 * b3 + 2] % 16) + v[4 * b3 + 3] \div 4
            [] k % 3 = 0 -> 64 * (v[4 * b3 + 3] % 4) + v[4 * b3 + 4]
    BY DEF DecodedByte
  <2> HIDE DEF b3, q, s
  <2>5. a \in 0 .. 255 /\ b \in 0 .. 255 /\ c \in 0 .. 255
    BY <2>1, ByteAtIs
  <2>6. /\ s <= n => a = t[s]
        /\ s + 1 <= n => b = t[s + 1]
        /\ s + 2 <= n => c = t[s + 2]
    BY <1>1, <2>1, ByteAtIs
  <2> HIDE DEF a, b, c
  <2>7. BitsBack(a, b, c)
    BY <2>5, BitsGoBack
  <2>8. CASE k % 3 = 1
    <3>1. DecodedByte(v, k) = 4 * v[4 * b3 + 1] + v[4 * b3 + 2] \div 16
      BY <2>4, <2>8
    <3>2. DecodedByte(v, k) = 4 * (a \div 4) + (16 * (a % 4) + b \div 16) \div 16
      BY <2>1, <2>3, <3>1
    <3>3. DecodedByte(v, k) = a
      BY <2>7, <3>2 DEF BitsBack
    <3> QED
      BY <2>2, <2>6, <2>8, <3>3
  <2>9. CASE k % 3 = 2
    <3>1. DecodedByte(v, k) = 16 * (v[4 * b3 + 2] % 16) + v[4 * b3 + 3] \div 4
      BY <2>4, <2>9
    <3>2. DecodedByte(v, k) = 16 * ((16 * (a % 4) + b \div 16) % 16) + (4 * (b % 16) + c \div 64) \div 4
      BY <2>1, <2>2, <2>3, <2>9, <3>1
    <3>3. DecodedByte(v, k) = b
      BY <2>7, <3>2 DEF BitsBack
    <3> QED
      BY <2>2, <2>6, <2>9, <3>3
  <2>10. CASE k % 3 = 0
    <3>1. DecodedByte(v, k) = 64 * (v[4 * b3 + 3] % 4) + v[4 * b3 + 4]
      BY <2>4, <2>10
    <3>2. DecodedByte(v, k) = 64 * ((4 * (b % 16) + c \div 64) % 4) + (c % 64)
      BY <2>1, <2>2, <2>3, <2>10, <3>1
    <3>3. DecodedByte(v, k) = c
      BY <2>7, <3>2 DEF BitsBack
    <3> QED
      BY <2>2, <2>6, <2>10, <3>3
  <2> QED
    BY <2>2, <2>8, <2>9, <2>10
<1>12. t \in [1 .. n -> Codes]
  BY <1>1, SeqsAre
<1>13. DecodedBytes(v) = t
  BY <1>8, <1>10, <1>11, <1>12 DEF DecodedBytes
<1>14. UpToNul(t) = t
  <2>1. t \in Seq(0 .. 255)
    <3>1. \A c \in Codes : c \in 0 .. 255
      BY DEF Codes
    <3>2. \A k \in 1 .. Len(t) : t[k] \in 0 .. 255
      BY <3>1, ElementOfSeq
    <3> QED
      BY ZenonT(60), <3>2, ElementsIn
  <2> QED
    BY <2>1, UpToNulIs
<1>15. Base64ToString(x) = UpToNul(DecodedBytes(v))
  BY Base64ToStringIs DEF v, L, m, n
<1> QED
  BY <1>13, <1>14, <1>15

----------------------------------------------------------------------------
(* URLs *)

\* From the end to the beginning.
LEMMA InductionDown ==
  ASSUME NEW b \in Int, NEW G, b \in G,
         \A k \in 1 .. (b - 1) : (\A j \in (k + 1) .. b : j \in G) => k \in G
  PROVE  1 .. b \subseteq G
<1> DEFINE H == {m \in 0 .. (b - 1) : \A j \in (b - m) .. b : j \in G}
           e == b - 1
<1>1. CASE 1 <= b
  <2>1. 0 \in H
    BY <1>1
  <2>2. ASSUME NEW m \in 0 .. (e - 1), m \in H PROVE m + 1 \in H
    <3> DEFINE k == b - (m + 1)
    <3>1. k \in 1 .. (b - 1) /\ k + 1 = b - m /\ m + 1 \in 0 .. (b - 1) /\ k \in Int
      BY <1>1
    <3>2. \A j \in (k + 1) .. b : j \in G
      BY <2>2, <3>1
    <3>3. k \in G
      BY <3>1, <3>2
    <3>4. \A j \in k .. b : j = k \/ j \in (k + 1) .. b
      BY <3>1
    <3> QED
      BY <3>1, <3>2, <3>3, <3>4
  <2> HIDE DEF H
  <2>3. 0 \in Int /\ e \in Int
    OBVIOUS
  <2> HIDE DEF e
  <2>4. 0 .. e \subseteq H
    BY <2>1, <2>2, <2>3, IntervalInduction
  <2>5. b - 1 \in H
    BY <1>1, <2>4 DEF e
  <2>6. \A j \in (b - (b - 1)) .. b : j \in G
    BY <2>5 DEF H
  <2> QED
    BY <1>1, <2>6
<1>2. CASE ~(1 <= b)
  BY <1>2
<1> QED
  BY <1>1, <1>2

LEMMA HexIs ==
  /\ \A c \in Int : HexValue(c) \in -1 .. 15
  /\ \A n \in 0 .. 15 : UpperHex(n) \in Unescaped /\ HexValue(UpperHex(n)) = n
<1>1. ASSUME NEW c \in Int PROVE HexValue(c) \in -1 .. 15
  BY DEF HexValue, Numerals
<1>2. ASSUME NEW n \in 0 .. 15 PROVE UpperHex(n) \in 48 .. 57 \cup 65 .. 70 /\ HexValue(UpperHex(n)) = n
  BY DEF HexValue, UpperHex, Numerals
<1>3. \A c \in 48 .. 57 \cup 65 .. 70 : c \in Unescaped
  BY DEF Unescaped, Alphanumeric, Numerals, UpperLetters
<1> QED
  BY <1>1, <1>2, <1>3

\* What is decoded at a place, and where it goes on.
FirstByte(t, k) == IF Coded(t, k) THEN <<16 * HexValue(t[k + 1]) + HexValue(t[k + 2])>> ELSE <<t[k]>>
Goes(t, k) == IF Coded(t, k) THEN k + 3 ELSE k + 1
DecodeStep(t, decode, k) ==
  IF k > Len(t) THEN <<>>
  ELSE IF Coded(t, k) THEN <<16 * HexValue(t[k + 1]) + HexValue(t[k + 2])>> \o decode[k + 3]
  ELSE <<t[k]>> \o decode[k + 1]
DecodeLoop(t, decode) == decode = [k \in 1 .. Len(t) + 1 |-> DecodeStep(t, decode, k)]
DecodeSteps(t, decode) ==
  /\ decode[Len(t) + 1] = <<>>
  /\ \A k \in 1 .. Len(t) : decode[k] = FirstByte(t, k) \o decode[Goes(t, k)]
  /\ Decode(t) = decode[1]

LEMMA DecodeIs ==
  ASSUME NEW t
  PROVE  Decode(t) = (CHOOSE decode : DecodeLoop(t, decode))[1]
BY DEF Decode, DecodeLoop, DecodeStep

LEMMA FirstType ==
  ASSUME NEW t \in Seq(Codes), NEW k \in 1 .. Len(t)
  PROVE  FirstByte(t, k) \in Seq(0 .. 255) /\ Len(FirstByte(t, k)) = 1 /\ Goes(t, k) \in (k + 1) .. (Len(t) + 1)
<1>1. Len(t) \in Nat /\ t[k] \in Codes /\ \A m \in 1 .. Len(t) : t[m] \in Codes
  BY LenProperties, ElementOfSeq
<1>2. CASE Coded(t, k)
  <2>1. k + 2 <= Len(t) /\ HexValue(t[k + 1]) >= 0 /\ HexValue(t[k + 2]) >= 0
    BY <1>2 DEF Coded
  <2>2. k + 1 \in 1 .. Len(t) /\ k + 2 \in 1 .. Len(t)
    BY <1>1, <2>1
  <2>3. t[k + 1] \in Int /\ t[k + 2] \in Int
    <3>1. t[k + 1] \in Codes /\ t[k + 2] \in Codes
      BY <1>1, <2>2
    <3>2. \A c \in Codes : c \in Int
      BY DEF Codes
    <3> QED
      BY <3>1, <3>2
  <2> DEFINE x == HexValue(t[k + 1])
             y == HexValue(t[k + 2])
  <2>4. x \in -1 .. 15 /\ y \in -1 .. 15
    BY <2>3, HexIs
  <2>5. FirstByte(t, k) = <<16 * x + y>>
    BY <1>2 DEF FirstByte
  <2>6. x >= 0 /\ y >= 0
    BY <2>1
  <2> HIDE DEF x, y
  <2>7. 16 * x + y \in 0 .. 255
    BY <2>4, <2>6
  <2>8. FirstByte(t, k) \in Seq(0 .. 255) /\ Len(FirstByte(t, k)) = 1
    BY <2>5, <2>7
  <2>9. Goes(t, k) = k + 3
    BY <1>2 DEF Goes
  <2> QED
    BY <1>1, <2>1, <2>8, <2>9
<1>3. CASE ~Coded(t, k)
  <2>1. FirstByte(t, k) = <<t[k]>> /\ Goes(t, k) = k + 1
    BY <1>3 DEF FirstByte, Goes
  <2>2. t[k] \in 0 .. 255
    BY <1>1 DEF Codes
  <2> QED
    BY <1>1, <2>1, <2>2
<1> QED
  BY <1>2, <1>3

LEMMA DecodeLoops ==
  ASSUME NEW t \in Seq(Codes)
  PROVE  \E decode : DecodeSteps(t, decode)
<1> DEFINE n == Len(t)
           F == Seq(0 .. 255)
           D == 1 .. n + 1
           T == {n + 1}
           on == [x \in D |-> Goes(t, x)]
           val == [x \in D |-> <<>>]
           step == [z \in D \X F |-> FirstByte(t, z[1]) \o z[2]]
           measure == [x \in D |-> n + 1 - x]
           decode == CHOOSE g : DecodeLoop(t, g)
<1>1. n \in Nat
  BY LenProperties
<1>2. Decode(t) = decode[1]
  BY DecodeIs
<1>3. \A x \in 1 .. n : FirstByte(t, x) \in F /\ Goes(t, x) \in (x + 1) .. (n + 1)
  BY FirstType
<1>4. <<>> \in F /\ \A x, y \in F : x \o y \in F
  BY EmptySeq, ConcatProperties
<1>5. \A g, x : DecodeStep(t, g, x) = IF x > n THEN <<>> ELSE FirstByte(t, x) \o g[Goes(t, x)]
  BY DEF DecodeStep, FirstByte, Goes
<1>6. \A x \in D : (x \in T <=> x > n) /\ (x \notin T => x \in 1 .. n)
  BY <1>1
<1>7. D = 1 .. n + 1 /\ 1 \in D /\ n + 1 \in D
  BY <1>1
<1>8. measure \in [D -> Nat] /\ \A x \in D : measure[x] <= n
  BY <1>1
<1>9. \A x \in D \ T : on[x] \in D /\ measure[on[x]] < measure[x]
  <2>1. ASSUME NEW x \in D, x \in 1 .. n PROVE Goes(t, x) \in D /\ n + 1 - Goes(t, x) < n + 1 - x
    <3>1. Goes(t, x) \in (x + 1) .. (n + 1)
      BY <1>3, <2>1
    <3> QED
      BY <1>1, <2>1, <3>1
  <2> QED
    BY <1>6, <2>1
<1>10. \A x \in D : on[x] = Goes(t, x) /\ val[x] = <<>>
  OBVIOUS
<1>11. \A x \in D : \A y \in F : step[<<x, y>>] = FirstByte(t, x) \o y
  OBVIOUS
<1> HIDE DEF n, F, D, T, on, val, step, measure
<1>12. \A x \in D \cap T : val[x] \in F
  BY <1>4, <1>10
<1>13. \A x \in D \ T : \A y \in F : step[<<x, y>>] \in F
  BY <1>3, <1>4, <1>6, <1>11
<1>14. PICK f \in [D -> F] : Recurses(D, T, on, val, step, f)
  BY <1>1, <1>4, <1>8, <1>9, <1>12, <1>13, RecursionExists
<1>15. f = [x \in D |-> IF x \in T THEN val[x] ELSE step[<<x, f[on[x]]>>]]
  BY <1>14 DEF Recurses
<1>16. ASSUME NEW x \in D PROVE f[x] = DecodeStep(t, f, x)
  <2>1. f[x] = IF x \in T THEN val[x] ELSE step[<<x, f[on[x]]>>]
    BY <1>15, Zenon
  <2>2. CASE x \in T
    BY <1>5, <1>6, <1>10, <2>1, <2>2
  <2>3. CASE x \notin T
    <3>1. on[x] \in D /\ on[x] = Goes(t, x) /\ f[on[x]] \in F /\ ~(x > n)
      BY <1>6, <1>9, <1>10, <2>3
    <3>2. step[<<x, f[on[x]]>>] = FirstByte(t, x) \o f[on[x]]
      BY <1>11, <3>1
    <3> QED
      BY <1>5, <2>1, <2>3, <3>1, <3>2
  <2> QED
    BY <2>2, <2>3
<1>17. DecodeLoop(t, decode)
  <2>1. f = [x \in D |-> DecodeStep(t, f, x)]
    BY <1>15, <1>16
  <2> QED
    BY <1>7, <2>1 DEF DecodeLoop, n
<1> HIDE DEF decode
<1>18. decode = [x \in D |-> DecodeStep(t, decode, x)]
  BY <1>7, <1>17 DEF DecodeLoop, n
<1>19. \A x \in D : decode[x] = DecodeStep(t, decode, x)
  BY <1>18, Zenon
<1>20. decode[n + 1] = <<>>
  <2>1. n + 1 > n
    BY <1>1
  <2> QED
    BY <1>5, <1>7, <1>19, <2>1
<1>21. ASSUME NEW k \in 1 .. n PROVE decode[k] = FirstByte(t, k) \o decode[Goes(t, k)]
  <2>1. k \in D /\ ~(k > n)
    BY <1>1, <1>7
  <2> QED
    BY <1>5, <1>19, <2>1
<1>22. DecodeSteps(t, decode)
  BY <1>2, <1>20, <1>21 DEF DecodeSteps, n
<1> QED
  BY <1>22

LEMMA UnescapeType ==
  ASSUME NEW t \in Seq(Codes)
  PROVE  Decode(t) \in Seq(0 .. 255) /\ UnescapeURL(t) \in Seq(Codes)
<1>1. PICK decode : DecodeSteps(t, decode)
  BY DecodeLoops
<1> DEFINE n == Len(t)
           b == n + 1
           G == {k \in 1 .. b : decode[k] \in Seq(0 .. 255)}
<1>2. n \in Nat /\ n = Len(t) /\ b = n + 1 /\ b \in Int
  BY LenProperties
<1>3. decode[n + 1] = <<>> /\ \A k \in 1 .. n : decode[k] = FirstByte(t, k) \o decode[Goes(t, k)]
  BY <1>1 DEF DecodeSteps
<1> HIDE DEF n, b
<1>4. b \in G
  <2>1. b \in 1 .. b
    BY <1>2
  <2>2. decode[b] = <<>>
    BY <1>2, <1>3
  <2>3. decode[b] \in Seq(0 .. 255)
    BY <2>2
  <2> QED
    BY <2>1, <2>3
<1>5. ASSUME NEW k \in 1 .. (b - 1), \A j \in (k + 1) .. b : j \in G PROVE k \in G
  <2>1. k \in 1 .. n /\ k \in 1 .. b
    BY <1>2
  <2>2. FirstByte(t, k) \in Seq(0 .. 255) /\ Goes(t, k) \in (k + 1) .. b
    BY <1>2, <2>1, FirstType
  <2>3. decode[Goes(t, k)] \in Seq(0 .. 255)
    BY <1>5, <2>2
  <2>4. decode[k] \in Seq(0 .. 255)
    BY ZenonT(60), <1>3, <2>1, <2>2, <2>3, ConcatProperties
  <2> QED
    BY <2>1, <2>4
<1> HIDE DEF G
<1>6. 1 .. b \subseteq G
  BY <1>2, <1>4, <1>5, InductionDown
<1>7. decode[1] \in Seq(0 .. 255)
  BY <1>2, <1>6 DEF G
<1>8. Decode(t) \in Seq(0 .. 255)
  BY <1>1, <1>7 DEF DecodeSteps
<1> QED
  BY <1>8, UpToNulIs DEF UnescapeURL

\* A byte and those after it.
LEMMA OneMore ==
  ASSUME NEW S, NEW t \in Seq(S), NEW k \in 1 .. Len(t)
  PROVE  <<t[k]>> \o SubSeq(t, k + 1, Len(t)) = SubSeq(t, k, Len(t))
<1> DEFINE n == Len(t)
           m == k + 1
           A == <<t[k]>>
           B == SubSeq(t, m, n)
           C == SubSeq(t, k, n)
<1>1. n \in Nat /\ n = Len(t) /\ k \in Nat /\ k > 0 /\ k <= n + 1 /\ k <= n /\ k \in 1 .. n
  BY LenProperties
<1>2. m \in Nat /\ m > 0 /\ m <= n + 1 /\ m = k + 1
  BY <1>1
<1>3. t[k] \in S
  BY ElementOfSeq
<1>4. A \in Seq(S) /\ Len(A) = 1 /\ A[1] = t[k]
  BY <1>3
<1> HIDE DEF m, A, n
<1>5. B \in Seq(S) /\ Len(B) = n - m + 1 /\ \A i \in 1 .. (n - m + 1) : B[i] = t[m + i - 1]
  BY <1>1, <1>2, PieceOf
<1>6. C \in Seq(S) /\ Len(C) = n - k + 1 /\ \A i \in 1 .. (n - k + 1) : C[i] = t[k + i - 1]
  BY <1>1, PieceOf
<1> HIDE DEF B, C
<1>7. /\ A \o B \in Seq(S) /\ Len(A \o B) = Len(A) + Len(B)
      /\ \A i \in 1 .. (Len(A) + Len(B)) : (A \o B)[i] = IF i <= Len(A) THEN A[i] ELSE B[i - Len(A)]
  BY <1>4, <1>5, ConcatProperties
<1>8. Len(A \o B) = n - k + 1
  BY <1>1, <1>2, <1>4, <1>5, <1>7
<1>9. ASSUME NEW i \in 1 .. (n - k + 1) PROVE (A \o B)[i] = C[i]
  <2>1. (A \o B)[i] = IF i <= 1 THEN A[i] ELSE B[i - 1]
    BY <1>4, <1>7, <1>8
  <2>2. CASE i = 1
    <3>1. k + i - 1 = k
      BY <1>1, <2>2
    <3> QED
      BY <1>4, <1>6, <2>1, <2>2, <3>1
  <2>3. CASE i # 1
    <3>1. i - 1 \in 1 .. (n - m + 1) /\ m + (i - 1) - 1 = k + i - 1 /\ ~(i <= 1)
      BY <1>1, <1>2, <2>3
    <3> QED
      BY <1>5, <1>6, <2>1, <3>1
  <2> QED
    BY <2>2, <2>3
<1>10. A \o B = C
  BY <1>6, <1>7, <1>8, <1>9, SeqEqual
<1> QED
  BY <1>10 DEF A, B, C, m, n

\* A text without escapes stays as it is.
LEMMA NothingToDecode ==
  ASSUME NEW t \in Seq(Codes), \A k \in 1 .. Len(t) : t[k] # Percent
  PROVE  UnescapeURL(t) = t
<1>1. PICK decode : DecodeSteps(t, decode)
  BY DecodeLoops
<1> DEFINE n == Len(t)
           b == n + 1
           G == {k \in 1 .. b : decode[k] = SubSeq(t, k, n)}
<1>2. n \in Nat /\ n = Len(t) /\ b = n + 1 /\ b \in Int
  BY LenProperties
<1>3. decode[n + 1] = <<>> /\ \A k \in 1 .. n : decode[k] = FirstByte(t, k) \o decode[Goes(t, k)]
  BY <1>1 DEF DecodeSteps
<1> HIDE DEF n, b
<1>4. b \in G
  <2>1. b \in 1 .. b /\ n < b
    BY <1>2
  <2>2. SubSeq(t, b, n) = <<>>
    BY <1>2, <2>1, SubSeqEmpty
  <2>3. decode[b] = <<>>
    BY <1>2, <1>3
  <2> QED
    BY <2>1, <2>2, <2>3
<1>5. ASSUME NEW k \in 1 .. (b - 1), \A j \in (k + 1) .. b : j \in G PROVE k \in G
  <2>1. k \in 1 .. n /\ k \in 1 .. b /\ k + 1 \in (k + 1) .. b /\ k \in Nat /\ k > 0 /\ k <= n + 1 /\ k <= n
    BY <1>2
  <2>2. FirstByte(t, k) = <<t[k]>> /\ Goes(t, k) = k + 1
    BY <1>2, <2>1 DEF Coded, FirstByte, Goes
  <2>3. decode[k + 1] = SubSeq(t, k + 1, n)
    BY <1>5, <2>1
  <2>4. decode[k] = <<t[k]>> \o SubSeq(t, k + 1, n)
    BY <1>3, <2>1, <2>2, <2>3
  <2>5. <<t[k]>> \o SubSeq(t, k + 1, n) = SubSeq(t, k, n)
    BY <1>2, <2>1, OneMore
  <2> QED
    BY <2>1, <2>4, <2>5
<1> HIDE DEF G
<1>6. 1 .. b \subseteq G
  BY <1>2, <1>4, <1>5, InductionDown
<1>7. decode[1] = SubSeq(t, 1, n)
  <2>1. 1 \in 1 .. b
    BY <1>2
  <2>2. 1 \in G
    BY <1>6, <2>1
  <2> QED
    BY <2>2 DEF G
<1>8. SubSeq(t, 1, n) = t
  <2>1. SubSeq(t, 1, n) \in Seq(Codes) /\ Len(SubSeq(t, 1, n)) = n - 1 + 1 /\ \A i \in 1 .. (n - 1 + 1) : SubSeq(t, 1, n)[i] = t[1 + i - 1]
    BY <1>2, PieceOf
  <2>2. Len(SubSeq(t, 1, n)) = n /\ \A i \in 1 .. n : SubSeq(t, 1, n)[i] = t[i]
    BY <1>2, <2>1
  <2> QED
    BY <1>2, <2>1, <2>2, SeqEqual
<1>9. Decode(t) = t
  BY <1>1, <1>7, <1>8 DEF DecodeSteps
<1> QED
  BY <1>9, UnescapeType, UpToNulIs DEF UnescapeURL

\* What stands for a byte in an escaped text.
Escape(c) ==
  IF c \in Unescaped THEN <<c>> ELSE <<Percent, UpperHex(c \div 16), UpperHex(c % 16)>>
Escapes == Unescaped \cup {Percent}

LEMMA EscapeIs ==
  ASSUME NEW c \in Codes
  PROVE  /\ Escape(c) \in Seq(Escapes)
         /\ c \in Unescaped => Len(Escape(c)) = 1 /\ Escape(c)[1] = c /\ c # Percent
         /\ c \notin Unescaped =>
              /\ Len(Escape(c)) = 3 /\ Escape(c)[1] = Percent
              /\ HexValue(Escape(c)[2]) = c \div 16 /\ HexValue(Escape(c)[3]) = c % 16
              /\ c \div 16 >= 0 /\ c % 16 >= 0 /\ 16 * (c \div 16) + (c % 16) = c
<1>0. c \in 1 .. 255
  BY DEF Codes
<1>1. c \div 16 \in 0 .. 15 /\ c % 16 \in 0 .. 15 /\ 16 * (c \div 16) + (c % 16) = c
  BY <1>0
<1> DEFINE x == UpperHex(c \div 16)
           y == UpperHex(c % 16)
<1>2. x \in Unescaped /\ y \in Unescaped /\ HexValue(x) = c \div 16 /\ HexValue(y) = c % 16
  BY <1>1, HexIs
<1>3. Percent \notin Unescaped
  BY DEF Percent, Unescaped, Alphanumeric, UpperLetters, LowerLetters, Numerals
<1>4. c \div 16 >= 0 /\ c % 16 >= 0
  BY <1>1
<1>5. CASE c \in Unescaped
  BY <1>3, <1>5 DEF Escape, Escapes
<1>6. CASE c \notin Unescaped
  <2>1. Escape(c) = <<Percent, x, y>>
    BY <1>6 DEF Escape
  <2> HIDE DEF x, y
  <2>2. Percent \in Escapes /\ x \in Escapes /\ y \in Escapes
    BY <1>2 DEF Escapes
  <2>3. <<Percent, x, y>> \in Seq(Escapes) /\ Len(<<Percent, x, y>>) = 3
    BY <2>2
  <2> QED
    BY <1>1, <1>2, <1>4, <1>6, <2>1, <2>3
<1> QED
  BY <1>5, <1>6

LEMMA EscapesAreCodes ==
  Escapes \subseteq Codes
BY DEF Escapes, Codes, Percent, Unescaped, Alphanumeric, UpperLetters, LowerLetters, Numerals

\* Where the escapes of each byte begin and end in the escaped text.
EscapedAs(t, ends) ==
  /\ ends[0] = 0
  /\ ends[Len(t)] = Len(EscapeURL(t))
  /\ \A k \in 1 .. Len(t) :
       /\ ends[k - 1] \in Nat
       /\ ends[k] = ends[k - 1] + Len(Escape(t[k]))
       /\ ends[k] <= Len(EscapeURL(t))
       /\ \A j \in 1 .. Len(Escape(t[k])) : EscapeURL(t)[ends[k - 1] + j] = Escape(t[k])[j]

LEMMA EscapeURLIs ==
  ASSUME NEW t \in Seq(Codes)
  PROVE  EscapeURL(t) \in Seq(Escapes) /\ \E ends : EscapedAs(t, ends)
<1> DEFINE n == Len(t)
           seqs == [k \in 1 .. n |-> Escape(t[k])]
           E == EscapeURL(t)
<1>1. n \in Nat /\ n = Len(t) /\ DOMAIN t = 1 .. n
  BY LenProperties
<1>2. E = FlattenSeq(seqs)
  BY <1>1 DEF EscapeURL, Escape
<1>3. \A k \in 1 .. n : t[k] \in Codes
  BY <1>1, ElementOfSeq
<1> HIDE DEF n, E
<1>4. \A k \in 1 .. n : seqs[k] = Escape(t[k]) /\ seqs[k] \in Seq(Escapes)
  BY <1>3, EscapeIs
<1>5. seqs \in [1 .. n -> Seq(Escapes)]
  BY <1>4
<1> HIDE DEF seqs
<1>6. PICK flat \in [0 .. n -> Seq(Escapes)] : Flattens(seqs, n, flat) /\ FlattenSeq(seqs) = flat[n]
  BY <1>1, <1>5, FlattenLoops
<1>7. flat[0] = <<>> /\ \A k \in 1 .. n : flat[k] = flat[k - 1] \o seqs[k]
  BY <1>6 DEF Flattens
<1>8. E \in Seq(Escapes) /\ E = flat[n]
  BY <1>1, <1>2, <1>6
<1>9. ASSUME NEW k \in 1 .. n
      PROVE  /\ Len(flat[k - 1]) \in Nat
             /\ Len(flat[k]) = Len(flat[k - 1]) + Len(seqs[k])
             /\ Len(seqs[k]) \in Nat
             /\ \A m \in 1 .. Len(flat[k]) :
                  flat[k][m] = IF m <= Len(flat[k - 1]) THEN flat[k - 1][m] ELSE seqs[k][m - Len(flat[k - 1])]
  <2> DEFINE A == flat[k - 1]
             B == seqs[k]
  <2>1. k - 1 \in 0 .. n
    BY <1>1
  <2>2. A \in Seq(Escapes) /\ B \in Seq(Escapes) /\ flat[k] = A \o B
    BY <1>4, <1>7, <2>1
  <2> HIDE DEF A, B
  <2>3. /\ Len(A) \in Nat /\ Len(B) \in Nat /\ Len(A \o B) = Len(A) + Len(B)
        /\ \A m \in 1 .. (Len(A) + Len(B)) : (A \o B)[m] = IF m <= Len(A) THEN A[m] ELSE B[m - Len(A)]
    BY <2>2, ConcatProperties, LenProperties
  <2> QED
    BY <2>2, <2>3 DEF A, B
<1> DEFINE b == n + 1
           G == {x \in 1 .. b : Len(flat[x - 1]) <= Len(E) /\ \A m \in 1 .. Len(flat[x - 1]) : E[m] = flat[x - 1][m]}
<1>10. b \in Int /\ b = n + 1 /\ Len(E) \in Nat
  BY <1>1, <1>8, LenProperties
<1>11. b \in G
  <2>1. b \in 1 .. b /\ b - 1 = n
    BY <1>1, <1>10
  <2>2. Len(E) <= Len(E)
    BY <1>10
  <2> QED
    BY <1>8, <2>1, <2>2
<1>12. ASSUME NEW x \in 1 .. (b - 1), \A j \in (x + 1) .. b : j \in G PROVE x \in G
  <2>1. x \in 1 .. n /\ x \in 1 .. b /\ x + 1 \in (x + 1) .. b /\ (x + 1) - 1 = x
    BY <1>1, <1>10
  <2>2. Len(flat[x]) <= Len(E) /\ \A m \in 1 .. Len(flat[x]) : E[m] = flat[x][m]
    BY <1>12, <2>1
  <2> DEFINE A == flat[x - 1]
             B == flat[x]
  <2>5. Len(A) \in Nat /\ Len(B) = Len(A) + Len(seqs[x]) /\ Len(seqs[x]) \in Nat
    BY <1>9, <2>1
  <2>6. \A m \in 1 .. Len(B) : B[m] = IF m <= Len(A) THEN A[m] ELSE seqs[x][m - Len(A)]
    BY <1>9, <2>1
  <2>7. Len(B) <= Len(E) /\ \A m \in 1 .. Len(B) : E[m] = B[m]
    BY <2>2
  <2>3. Len(A) <= Len(E)
    <3> HIDE DEF A, B
    <3> QED
      BY <1>10, <2>5, <2>7
  <2>4. ASSUME NEW m \in 1 .. Len(A) PROVE E[m] = A[m]
    <3> HIDE DEF A, B
    <3>1. m \in 1 .. Len(B) /\ m <= Len(A)
      BY <2>5
    <3> QED
      BY <2>6, <2>7, <3>1
  <2> QED
    BY <2>1, <2>3, <2>4
<1> HIDE DEF G, b
<1>13. 1 .. b \subseteq G
  BY SMTT(30), <1>10, <1>11, <1>12, InductionDown
<1>14. ASSUME NEW k \in 1 .. n PROVE Len(flat[k]) <= Len(E) /\ \A m \in 1 .. Len(flat[k]) : E[m] = flat[k][m]
  <2>1. k + 1 \in 1 .. b /\ (k + 1) - 1 = k
    BY <1>1, <1>10
  <2>2. k + 1 \in G
    BY <1>13, <2>1
  <2> QED
    BY <2>1, <2>2 DEF G
<1> DEFINE ends == [k \in 0 .. n |-> Len(flat[k])]
<1>15. \A k \in 0 .. n : ends[k] = Len(flat[k])
  OBVIOUS
<1>16. 0 \in 0 .. n /\ n \in 0 .. n /\ \A k \in 1 .. n : k \in 0 .. n /\ k - 1 \in 0 .. n
  BY <1>1
<1> HIDE DEF ends
<1>17. ends[0] = 0 /\ ends[n] = Len(E)
  BY <1>7, <1>8, <1>15, <1>16
<1>18. ASSUME NEW k \in 1 .. n
       PROVE  /\ ends[k - 1] \in Nat
              /\ ends[k] = ends[k - 1] + Len(Escape(t[k]))
              /\ ends[k] <= Len(E)
              /\ \A j \in 1 .. Len(Escape(t[k])) : E[ends[k - 1] + j] = Escape(t[k])[j]
  <2>1. ends[k] = Len(flat[k]) /\ ends[k - 1] = Len(flat[k - 1]) /\ Escape(t[k]) = seqs[k]
    BY <1>4, <1>15, <1>16
  <2>2. ends[k - 1] \in Nat /\ ends[k] = ends[k - 1] + Len(seqs[k]) /\ Len(seqs[k]) \in Nat
    BY <1>9, <2>1
  <2>3. ends[k] <= Len(E)
    BY <1>14, <2>1
  <2>4. ASSUME NEW j \in 1 .. Len(seqs[k]) PROVE E[ends[k - 1] + j] = seqs[k][j]
    <3> DEFINE m == ends[k - 1] + j
    <3>1. m \in 1 .. ends[k] /\ ~(m <= ends[k - 1]) /\ m - ends[k - 1] = j
      BY <2>2
    <3> HIDE DEF m
    <3>2. m \in 1 .. Len(flat[k]) /\ ~(m <= Len(flat[k - 1])) /\ m - Len(flat[k - 1]) = j
      BY <2>1, <3>1
    <3>3. flat[k][m] = seqs[k][j]
      BY <1>9, <3>2
    <3>4. E[m] = flat[k][m]
      BY <1>14, <3>2
    <3> QED
      BY <3>3, <3>4 DEF m
  <2> QED
    BY <2>1, <2>2, <2>3, <2>4
<1>19. EscapedAs(t, ends)
  BY <1>17, <1>18 DEF EscapedAs, E, n
<1> QED
  BY <1>8, <1>19 DEF E

LEMMA EscapingGoesBack ==
  ASSUME NEW t \in Seq(Codes)
  PROVE  UnescapeURL(EscapeURL(t)) = t
<1> DEFINE n == Len(t)
           b == n + 1
           E == EscapeURL(t)
<1>1. n \in Nat /\ n = Len(t) /\ b = n + 1 /\ b \in Int
  BY LenProperties
<1>2. E \in Seq(Codes)
  <2>1. E \in Seq(Escapes)
    BY EscapeURLIs
  <2>2. \A k \in 1 .. Len(E) : E[k] \in Codes
    BY <2>1, ElementOfSeq, EscapesAreCodes
  <2> QED
    BY <2>1, <2>2, ElementsIn
<1>3. PICK ends : EscapedAs(t, ends)
  BY EscapeURLIs
<1>4. /\ ends[0] = 0
      /\ ends[n] = Len(E)
      /\ \A k \in 1 .. n :
           /\ ends[k - 1] \in Nat
           /\ ends[k] = ends[k - 1] + Len(Escape(t[k]))
           /\ ends[k] <= Len(E)
           /\ \A j \in 1 .. Len(Escape(t[k])) : E[ends[k - 1] + j] = Escape(t[k])[j]
  BY <1>3 DEF EscapedAs
<1>5. PICK decode : DecodeSteps(E, decode)
  BY <1>2, DecodeLoops
<1>6. /\ decode[Len(E) + 1] = <<>>
      /\ \A k \in 1 .. Len(E) : decode[k] = FirstByte(E, k) \o decode[Goes(E, k)]
      /\ Decode(E) = decode[1]
  BY <1>5 DEF DecodeSteps
<1>7. Len(E) \in Nat
  BY <1>2, LenProperties
<1> DEFINE G == {x \in 1 .. b : decode[ends[x - 1] + 1] = SubSeq(t, x, n)}
<1>8. b \in G
  <2>1. b \in 1 .. b /\ n < b /\ b - 1 = n
    BY <1>1
  <2>2. SubSeq(t, b, n) = <<>>
    BY <1>1, <2>1, SubSeqEmpty
  <2> QED
    BY <1>4, <1>6, <2>1, <2>2
<1> HIDE DEF E, n, b
<1>9. ASSUME NEW x \in 1 .. (b - 1), \A j \in (x + 1) .. b : j \in G PROVE x \in G
  <2> DEFINE p == ends[x - 1] + 1
             c == t[x]
             P == Escape(c)
  <2>1. x \in 1 .. n /\ x \in 1 .. b /\ x + 1 \in (x + 1) .. b /\ (x + 1) - 1 = x
    BY <1>1
  <2>2. decode[ends[x] + 1] = SubSeq(t, x + 1, n)
    BY <1>9, <2>1
  <2>3. c \in Codes
    BY <1>1, <2>1, ElementOfSeq
  <2>4. /\ ends[x - 1] \in Nat
        /\ ends[x] = ends[x - 1] + Len(P)
        /\ ends[x] <= Len(E)
        /\ \A j \in 1 .. Len(P) : E[ends[x - 1] + j] = P[j]
    BY <1>4, <2>1
  <2>5. /\ c \in Unescaped => Len(P) = 1 /\ P[1] = c /\ c # Percent
        /\ c \notin Unescaped =>
             /\ Len(P) = 3 /\ P[1] = Percent
             /\ HexValue(P[2]) = c \div 16 /\ HexValue(P[3]) = c % 16
             /\ c \div 16 >= 0 /\ c % 16 >= 0 /\ 16 * (c \div 16) + (c % 16) = c
    BY <2>3, EscapeIs
  <2> HIDE DEF c, P
  <2>6. FirstByte(E, p) = <<c>> /\ Goes(E, p) = ends[x] + 1 /\ p \in 1 .. Len(E)
    <3>1. CASE c \in Unescaped
      <4>1. Len(P) = 1 /\ P[1] = c /\ c # Percent
        BY <2>5, <3>1
      <4>2. ends[x] = p /\ p \in 1 .. Len(E)
        BY <1>7, <2>4, <4>1
      <4>3. E[p] = c
        BY <2>4, <4>1
      <4> HIDE DEF p
      <4>4. ~Coded(E, p)
        BY <4>1, <4>3 DEF Coded
      <4> QED
        BY <4>2, <4>3, <4>4 DEF FirstByte, Goes
    <3>2. CASE c \notin Unescaped
      <4>1. /\ Len(P) = 3 /\ P[1] = Percent
            /\ HexValue(P[2]) = c \div 16 /\ HexValue(P[3]) = c % 16
            /\ c \div 16 >= 0 /\ c % 16 >= 0 /\ 16 * (c \div 16) + (c % 16) = c
        BY <2>5, <3>2
      <4>2. /\ ends[x - 1] + 2 = p + 1 /\ ends[x - 1] + 3 = p + 2 /\ ends[x] + 1 = p + 3
            /\ p \in 1 .. Len(E) /\ p + 2 <= Len(E)
        BY SMTT(30), <1>7, <2>4, <4>1
      <4>3. E[p] = P[1] /\ E[ends[x - 1] + 2] = P[2] /\ E[ends[x - 1] + 3] = P[3]
        BY <2>4, <4>1
      <4>4. E[p] = Percent /\ E[p + 1] = P[2] /\ E[p + 2] = P[3]
        BY <4>1, <4>2, <4>3
      <4> HIDE DEF p
      <4>5. Coded(E, p)
        BY <4>1, <4>2, <4>4 DEF Coded
      <4>6. FirstByte(E, p) = <<16 * HexValue(E[p + 1]) + HexValue(E[p + 2])>> /\ Goes(E, p) = p + 3
        BY <4>5 DEF FirstByte, Goes
      <4>7. FirstByte(E, p) = <<16 * (c \div 16) + (c % 16)>>
        BY <4>1, <4>4, <4>6
      <4> QED
        BY <4>1, <4>2, <4>6, <4>7
    <3> QED
      BY <3>1, <3>2
  <2>7. decode[p] = <<c>> \o SubSeq(t, x + 1, n)
    BY <1>6, <2>2, <2>6
  <2>8. <<c>> \o SubSeq(t, x + 1, n) = SubSeq(t, x, n)
    BY <1>1, <2>1, OneMore DEF c
  <2> QED
    BY <2>1, <2>7, <2>8
<1> HIDE DEF G
<1>10. 1 .. b \subseteq G
  BY <1>1, <1>8, <1>9, InductionDown
<1>11. decode[1] = SubSeq(t, 1, n)
  <2>1. 1 \in 1 .. b /\ 1 - 1 = 0 /\ 0 + 1 = 1
    BY <1>1
  <2>2. 1 \in G
    BY <1>10, <2>1
  <2> QED
    BY <1>4, <2>1, <2>2 DEF G
<1>12. SubSeq(t, 1, n) = t
  <2>1. SubSeq(t, 1, n) \in Seq(Codes) /\ Len(SubSeq(t, 1, n)) = n - 1 + 1 /\ \A i \in 1 .. (n - 1 + 1) : SubSeq(t, 1, n)[i] = t[1 + i - 1]
    BY <1>1, PieceOf
  <2>2. Len(SubSeq(t, 1, n)) = n /\ \A i \in 1 .. n : SubSeq(t, 1, n)[i] = t[i]
    BY <1>1, <2>1
  <2> QED
    BY <1>1, <2>1, <2>2, SeqEqual
<1>13. Decode(E) = t
  BY <1>6, <1>11, <1>12
<1> QED
  BY <1>2, <1>13, UnescapeType, UpToNulIs DEF UnescapeURL, E

----------------------------------------------------------------------------
(* The builtins go by texts *)

StringsTypeOK == text \in Seq(Codes)

LEMMA Whole1 ==
  ASSUME NEW S, NEW t \in Seq(S)
  PROVE  SubSeq(t, 1, Len(t)) = t
<1> DEFINE n == Len(t)
<1>1. n \in Nat /\ n = Len(t)
  BY LenProperties
<1> HIDE DEF n
<1>2. SubSeq(t, 1, n) \in Seq(S) /\ Len(SubSeq(t, 1, n)) = n - 1 + 1 /\ \A i \in 1 .. (n - 1 + 1) : SubSeq(t, 1, n)[i] = t[1 + i - 1]
  BY <1>1, PieceOf
<1>3. Len(SubSeq(t, 1, n)) = n /\ \A i \in 1 .. n : SubSeq(t, 1, n)[i] = t[i]
  BY <1>1, <1>2
<1>4. SubSeq(t, 1, n) = t
  BY <1>1, <1>2, <1>3, SeqEqual
<1> QED
  BY <1>4 DEF n

LEMMA GetSubStringType ==
  ASSUME NEW S, NEW t \in Seq(S), NEW i \in Int, NEW j \in Int
  PROVE  GetSubString(t, i, j) \in Seq(S)
<1> DEFINE n == Len(t)
           first == Norm(i, n)
           last == Min({Norm(j, n) + 1, n})
<1>1. n \in Nat
  BY LenProperties
<1>2. first \in Nat /\ first <= n /\ Norm(j, n) \in Nat
  <2> HIDE DEF n
  <2>1. Norm(i, n) \in 0 .. n
    BY <1>1, NormIs
  <2>2. Norm(j, n) \in 0 .. n
    BY <1>1, NormIs
  <2> QED
    BY <2>1, <2>2
<1>3. last \in Nat /\ last <= n
  <2> DEFINE x == Norm(j, n) + 1
  <2>1. x \in Int /\ n \in Int /\ x \in Nat
    BY <1>1, <1>2
  <2> HIDE DEF x, n
  <2>2. Min({x, n}) = IF x <= n THEN x ELSE n
    BY <2>1, AtMostIs DEF AtMost
  <2>3. Min({x, n}) \in Nat /\ Min({x, n}) <= n
    BY <1>1, <2>1, <2>2
  <2> QED
    BY <2>3 DEF x
<1>4. GetSubString(t, i, j) =
        IF Norm(j, n) < first THEN SubSeq(t, first + 1, n) \o SubSeq(t, 1, last) ELSE SubSeq(t, first + 1, last)
  BY DEF GetSubString
<1>5. n = Len(t)
  OBVIOUS
<1> HIDE DEF n, first, last
<1>6. SubSeq(t, first + 1, n) \in Seq(S) /\ SubSeq(t, first + 1, last) \in Seq(S)
  BY <1>1, <1>2, <1>3, <1>5, PartType
<1>7. SubSeq(t, 1, last) \in Seq(S)
  <2>1. 0 \in Nat /\ 0 + 1 = 1
    OBVIOUS
  <2>2. SubSeq(t, 0 + 1, last) \in Seq(S)
    BY <1>3, <1>5, <2>1, PartType
  <2> QED
    BY <2>1, <2>2
<1> QED
  BY <1>4, <1>6, <1>7, ConcatProperties

LEMMA DeleteSubStringType ==
  ASSUME NEW S, NEW t \in Seq(S), NEW i \in Int, NEW j \in Int
  PROVE  DeleteSubString(t, i, j) \in Seq(S)
<1> DEFINE n == Len(t)
           last == Norm(j, n)
           first == Min({Norm(i, n), last})
           next == last + 1
<1>1. n \in Nat
  BY LenProperties
<1>2. Norm(i, n) \in 0 .. n /\ last \in 0 .. n
  BY <1>1, NormIs
<1>3. first \in Nat /\ first <= n
  <2> DEFINE x == Norm(i, n)
  <2>1. x \in Int /\ last \in Int /\ x \in 0 .. n /\ last \in 0 .. n
    BY <1>1, <1>2
  <2> HIDE DEF x, last, n
  <2>2. Min({x, last}) = IF x <= last THEN x ELSE last
    BY <2>1, AtMostIs DEF AtMost
  <2>3. Min({x, last}) \in Nat /\ Min({x, last}) <= n
    BY <1>1, <2>1, <2>2
  <2> QED
    BY <2>3 DEF x
<1>4. DeleteSubString(t, i, j) = SubSeq(t, 1, first) \o SubSeq(t, last + 2, n)
  BY DEF DeleteSubString
<1>5. n = Len(t) /\ n <= Len(t)
  BY <1>1
<1>6. next \in Nat /\ next + 1 = last + 2
  BY <1>2
<1> HIDE DEF n, first, last, next
<1>7. SubSeq(t, next + 1, n) \in Seq(S)
  BY <1>1, <1>5, <1>6, PartType
<1>8. SubSeq(t, 1, first) \in Seq(S)
  <2>1. 0 \in Nat /\ 0 + 1 = 1
    OBVIOUS
  <2>2. SubSeq(t, 0 + 1, first) \in Seq(S)
    BY <1>3, <1>5, <2>1, PartType
  <2> QED
    BY <2>1, <2>2
<1> QED
  BY <1>4, <1>6, <1>7, <1>8, ConcatProperties

LEMMA StringTrimType ==
  ASSUME NEW S, NEW t \in Seq(S), NEW head \in BOOLEAN, NEW tail \in BOOLEAN
  PROVE  StringTrim(t, head, tail) \in Seq(S)
<1>1. Len(t) \in Nat
  BY LenProperties
<1>2. PICK f \in 1 .. (Len(t) + 1) : StartsAt(t, f)
  BY StartExists
<1>3. \A k \in 1 .. (f - 1) : t[k] \in Blanks
  BY <1>2 DEF StartsAt
<1> DEFINE l == Max(Kept(t) \cup {f - 1})
           e == Max(Kept(t) \cup {1 - 1})
<1>4. EndsAt(t, f, l)
  BY <1>3, EndExists
<1>5. EndsAt(t, 1, e)
  <2>1. 1 \in 1 .. (Len(t) + 1) /\ \A k \in 1 .. (1 - 1) : t[k] \in Blanks
    BY <1>1
  <2> QED
    BY <2>1, EndExists
<1> HIDE DEF l, e
<1>6. l \in Nat /\ l <= Len(t) /\ e \in Nat /\ e <= Len(t)
  <2>1. l \in (f - 1) .. Len(t)
    BY <1>4 DEF EndsAt
  <2>2. e \in (1 - 1) .. Len(t)
    BY <1>5 DEF EndsAt
  <2> QED
    BY <1>1, <2>1, <2>2
<1> DEFINE g == f - 1
<1>7. g \in Nat /\ g + 1 = f /\ Len(t) <= Len(t)
  BY <1>1
<1> HIDE DEF g
<1>8. SubSeq(t, g + 1, l) \in Seq(S) /\ SubSeq(t, g + 1, Len(t)) \in Seq(S)
  BY <1>1, <1>6, <1>7, PartType
<1>9. SubSeq(t, 1, e) \in Seq(S)
  <2>1. 0 \in Nat /\ 0 + 1 = 1
    OBVIOUS
  <2>2. SubSeq(t, 0 + 1, e) \in Seq(S)
    BY <1>6, <2>1, PartType
  <2> QED
    BY <2>1, <2>2
<1>10. StringTrim(t, TRUE, TRUE) \in Seq(S)
  BY <1>2, <1>4, <1>7, <1>8, TrimmedBoth
<1>11. StringTrim(t, TRUE, FALSE) \in Seq(S)
  BY <1>2, <1>7, <1>8, TrimmedHead
<1>12. StringTrim(t, FALSE, TRUE) \in Seq(S)
  BY <1>5, <1>9, TrimmedTail
<1>13. StringTrim(t, FALSE, FALSE) \in Seq(S)
  <2>1. StringTrim(t, FALSE, FALSE) = SubSeq(t, 1, Len(t))
    BY DEF StringTrim
  <2> QED
    BY <2>1, Whole1
<1> QED
  BY <1>10, <1>11, <1>12, <1>13

LEMMA CaseType ==
  ASSUME NEW t \in Seq(Codes)
  PROVE  ToUpper(t) \in Seq(Codes) /\ ToLower(t) \in Seq(Codes)
<1> DEFINE n == Len(t)
<1>1. n \in Nat /\ DOMAIN t = 1 .. n
  BY LenProperties
<1>2. \A k \in 1 .. n : t[k] \in Codes
  BY <1>1, ElementOfSeq
<1>3. \A c \in Codes : (c \in LowerLetters => c - 32 \in Codes) /\ (c \in UpperLetters => c + 32 \in Codes)
  BY DEF Codes, LowerLetters, UpperLetters
<1> HIDE DEF n
<1>4. ToUpper(t) \in [1 .. n -> Codes]
  BY <1>1, <1>2, <1>3 DEF ToUpper
<1>5. ToLower(t) \in [1 .. n -> Codes]
  BY <1>1, <1>2, <1>3 DEF ToLower
<1> QED
  BY <1>1, <1>4, <1>5, SeqsAre

LEMMA StringsStepType ==
  ASSUME StringsTypeOK, [StringsNext]_text
  PROVE  StringsTypeOK'
<1>1. text \in Seq(Codes)
  BY DEF StringsTypeOK
<1>2. \A i \in Offsets : i \in Int
  BY StringsAssumption DEF Offsets
<1>3. ASSUME Extend PROVE text' \in Seq(Codes)
  <2>1. CASE text' = <<>>
    BY <2>1, EmptySeq
  <2>2. ASSUME NEW i \in Offsets, NEW c \in Bytes, text' = InsertString(text, i, <<c>>) PROVE text' \in Seq(Codes)
    <3>1. c \in Codes
      BY StringsAssumption DEF Codes
    <3>2. <<c>> \in Seq(Codes)
      BY <3>1
    <3> QED
      BY <1>1, <1>2, <2>2, <3>2, InsertStringIs
  <2> QED
    BY <1>3, <2>1, <2>2 DEF Extend, Yields
<1>4. ASSUME CutOut PROVE text' \in Seq(Codes)
  <2>1. PICK i \in Offsets, j \in Offsets : text' = GetSubString(text, i, j) \/ text' = DeleteSubString(text, i, j)
    BY <1>4 DEF CutOut, Yields
  <2> QED
    BY <1>1, <1>2, <2>1, GetSubStringType, DeleteSubStringType
<1>5. ASSUME Trim PROVE text' \in Seq(Codes)
  <2>1. PICK head \in BOOLEAN, tail \in BOOLEAN : text' = StringTrim(text, head, tail)
    BY <1>5 DEF Trim, Yields
  <2> QED
    BY <1>1, <2>1, StringTrimType
<1>6. ASSUME ChangeCase PROVE text' \in Seq(Codes)
  BY <1>1, <1>6, CaseType DEF ChangeCase, Yields
<1>7. ASSUME Encode PROVE text' \in Seq(Codes)
  <2>1. StringToBase64(text) \in Seq(Codes)
    BY <1>1, StringToBase64Is DEF CodedAs
  <2>2. EscapeURL(text) \in Seq(Codes)
    <3>1. EscapeURL(text) \in Seq(Escapes)
      BY <1>1, EscapeURLIs
    <3>2. \A k \in 1 .. Len(EscapeURL(text)) : EscapeURL(text)[k] \in Codes
      BY <3>1, ElementOfSeq, EscapesAreCodes
    <3> QED
      BY <3>1, <3>2, ElementsIn
  <2> QED
    BY <1>7, <2>1, <2>2 DEF Encode, Yields
<1>8. ASSUME Unencode PROVE text' \in Seq(Codes)
  BY <1>1, <1>8, Base64ToStringType, UnescapeType DEF Unencode, Yields
<1>9. ASSUME UNCHANGED text PROVE text' \in Seq(Codes)
  BY <1>1, <1>9
<1>10. text' \in Seq(Codes)
  BY <1>3, <1>4, <1>5, <1>6, <1>7, <1>8, <1>9 DEF StringsNext
<1> QED
  BY <1>10 DEF StringsTypeOK

\* The text is a sequence of bytes that are not 0, whatever builtins made it: none of
\* the buffers they fill has a terminator inside the length they return.
THEOREM StringsTyped == StringsSpec => []StringsTypeOK
<1>1. StringsInit => StringsTypeOK
  BY EmptySeq DEF StringsInit, StringsTypeOK
<1>2. StringsTypeOK /\ [StringsNext]_text => StringsTypeOK'
  BY StringsStepType
<1> QED
  BY <1>1, <1>2, PTL DEF StringsSpec

LEMMA StringPiecesFit ==
  ASSUME StringsTypeOK
  PROVE  PiecesFit
<1>1. text \in Seq(Codes)
  BY DEF StringsTypeOK
<1>2. \A i \in Offsets : i \in Int
  BY StringsAssumption DEF Offsets
<1>3. ASSUME NEW i \in Offsets, NEW j \in Offsets
      PROVE  LET first == Norm(i, Len(text))
                 last == Norm(j, Len(text))
                 piece == GetSubString(text, i, j)
                 found == SubStringIndex(text, piece)
             IN  /\ first <= last /\ last < Len(text) =>
                      InsertString(DeleteSubString(text, i, j), first, piece) = text
                 /\ first <= last =>
                      found \in 0 .. first /\ SubSeq(text, found + 1, found + Len(piece)) = piece
                 /\ first > last =>
                      /\ piece = SubSeq(text, first + 1, Len(text)) \o SubSeq(text, 1, last + 1)
                      /\ DeleteSubString(text, i, j) = DeleteSubString(text, j, j)
  <2> DEFINE first == Norm(i, Len(text))
             last == Norm(j, Len(text))
             piece == GetSubString(text, i, j)
             found == SubStringIndex(text, piece)
  <2>1. i \in Int /\ j \in Int
    BY <1>2
  <2>2. ASSUME first <= last, last < Len(text)
        PROVE  InsertString(DeleteSubString(text, i, j), first, piece) = text
    BY <1>1, <2>1, <2>2, PieceFitsBack
  <2>3. ASSUME first <= last
        PROVE  found \in 0 .. first /\ SubSeq(text, found + 1, found + Len(piece)) = piece
    BY <1>1, <2>1, <2>3, PieceIsFound
  <2>4. first \in Int /\ last \in Int
    BY <1>1, <2>1, LenProperties, NormIs
  <2>5. ASSUME ~(first <= last)
        PROVE  /\ piece = SubSeq(text, first + 1, Len(text)) \o SubSeq(text, 1, last + 1)
               /\ DeleteSubString(text, i, j) = DeleteSubString(text, j, j)
    <3>1. piece = SubSeq(text, first + 1, Len(text)) \o SubSeq(text, 1, last + 1)
      BY <1>1, <2>1, <2>5, GotCrossed
    <3>2. DeleteSubString(text, i, j) = SubSeq(text, 1, last) \o SubSeq(text, last + 2, Len(text))
      BY <1>1, <2>1, <2>5, GotCrossed
    <3>3. DeleteSubString(text, j, j) = SubSeq(text, 1, last) \o SubSeq(text, last + 2, Len(text))
      BY <1>1, <2>1, DeletedOne
    <3> QED
      BY <3>1, <3>2, <3>3
  <2>6. first > last => ~(first <= last)
    BY <2>4
  <2> HIDE DEF first, last, piece, found
  <2>7. /\ first <= last /\ last < Len(text) =>
             InsertString(DeleteSubString(text, i, j), first, piece) = text
        /\ first <= last =>
             found \in 0 .. first /\ SubSeq(text, found + 1, found + Len(piece)) = piece
        /\ first > last =>
             /\ piece = SubSeq(text, first + 1, Len(text)) \o SubSeq(text, 1, last + 1)
             /\ DeleteSubString(text, i, j) = DeleteSubString(text, j, j)
    BY <2>2, <2>3, <2>5, <2>6, Zenon
  <2> QED
    BY <2>7 DEF first, last, piece, found
<1> DEFINE n == Len(text)
<1>4. n \in Nat /\ DOMAIN text = 1 .. n
  BY <1>1, LenProperties
<1>5. PICK f \in 1 .. (n + 1) : StartsAt(text, f)
  BY <1>1, StartExists
<1> DEFINE l == Max(Kept(text) \cup {f - 1})
<1>6. EndsAt(text, f, l)
  <2>1. \A k \in 1 .. (f - 1) : text[k] \in Blanks
    BY <1>5 DEF StartsAt
  <2> QED
    BY <1>1, <2>1, EndExists
<1> HIDE DEF l
<1>7. StringTrim(text, TRUE, TRUE) = SubSeq(text, f, l)
  BY <1>1, <1>5, <1>6, TrimmedBoth
<1>8. StringTrim(StringTrim(text, TRUE, FALSE), FALSE, TRUE) = SubSeq(text, f, l)
  BY <1>1, <1>5, <1>6, HeadThenTail
<1>9. StringTrim(StringTrim(text, FALSE, TRUE), TRUE, FALSE) = SubSeq(text, f, l)
  BY <1>1, <1>5, <1>6, TailThenHead
<1>10. ASSUME NEW k \in DOMAIN text, text[k] \notin Blanks
       PROVE  LET trimmed == StringTrim(text, TRUE, TRUE)
                  start == SubStringIndex(text, trimmed)
              IN  k \in (start + 1) .. (start + Len(trimmed))
  <2> DEFINE trimmed == SubSeq(text, f, l)
  <2>1. k \in 1 .. Len(text)
    BY <1>4
  <2>2. k \in (SubStringIndex(text, trimmed) + 1) .. (SubStringIndex(text, trimmed) + Len(trimmed))
    BY <1>1, <1>5, <1>6, <1>10, <2>1, TrimmedIsFound
  <2> HIDE DEF trimmed
  <2>3. StringTrim(text, TRUE, TRUE) = trimmed
    BY <1>7 DEF trimmed
  <2> QED
    BY <2>2, <2>3
<1>11. LET trimmed == StringTrim(text, TRUE, TRUE)
           start == SubStringIndex(text, trimmed)
       IN  /\ trimmed = StringTrim(StringTrim(text, TRUE, FALSE), FALSE, TRUE)
           /\ trimmed = StringTrim(StringTrim(text, FALSE, TRUE), TRUE, FALSE)
           /\ \A k \in DOMAIN text : text[k] \notin Blanks => k \in (start + 1) .. (start + Len(trimmed))
  BY <1>7, <1>8, <1>9, <1>10, Zenon
<1> QED
  BY <1>3, <1>11, Zenon DEF PiecesFit

\* llGetSubString, llDeleteSubString, llInsertString and llSubStringIndex agree on where a
\* piece is, for every text and all indices, and llStringTrim takes off just the blanks.
THEOREM StringPiecesKeepTheirPlaces == StringsSpec => []PiecesFit
BY StringsTyped, StringPiecesFit, PTL

----------------------------------------------------------------------------
(* Decoding inverts *)

LEMMA Base64GoesBack ==
  ASSUME NEW t \in Seq(Codes)
  PROVE  /\ Base64ToString(StringToBase64(t)) = t
         /\ \A k \in 0 .. Len(StringToBase64(t)) : Base64ToString(WithBreak(StringToBase64(t), k)) = t
         /\ Base64ToString(Only(StringToBase64(t), (1 .. 255) \ {Pad})) = t
<1> DEFINE C == StringToBase64(t)
           m == LettersOf(Len(t))
           L == SubSeq(C, 1, m)
           rest == (1 .. 255) \ {Pad}
<1>1. CodedAs(t, C)
  BY StringToBase64Is
<1> HIDE DEF C
<1>2. m \in 0 .. Len(C) /\ \A i \in 1 .. m : C[i] \in B64Letters
  BY <1>1, LettersComeFirst
<1>3. \A i \in (m + 1) .. Len(C) : C[i] = Pad
  BY <1>1, LettersComeFirst
<1>4. C \in Seq(Codes)
  BY <1>1 DEF CodedAs
<1>5. Pad \notin B64Letters /\ 10 \notin B64Letters /\ \A c \in B64Letters : c \in rest
  BY LettersType DEF Codes
<1>6. Pad \notin rest
  OBVIOUS
<1>7. L = SubSeq(C, 1, LettersOf(Len(t)))
  OBVIOUS
<1> HIDE DEF rest
<1>8. Only(C, B64Letters) = L
  <2> HIDE DEF m
  <2>1. \A i \in (m + 1) .. Len(C) : C[i] \notin B64Letters
    BY <1>3, <1>5
  <2> QED
    BY <1>2, <1>4, <2>1, OnlyPrefix
<1>9. Only(C, rest) = L
  <2> HIDE DEF m
  <2>1. \A i \in (m + 1) .. Len(C) : C[i] \notin rest
    BY <1>3, <1>6
  <2>2. \A i \in 1 .. m : C[i] \in rest
    BY <1>2, <1>5
  <2> QED
    BY <1>2, <1>4, <2>1, <2>2, OnlyPrefix
<1>10. Base64ToString(C) = t
  BY <1>1, <1>7, <1>8, DecodingIs
<1>11. ASSUME NEW k \in 0 .. Len(C) PROVE Base64ToString(WithBreak(C, k)) = t
  <2>1. 10 \in Codes
    BY DEF Codes
  <2>2. Only(WithBreak(C, k), B64Letters) = L
    BY <1>4, <1>5, <1>8, <2>1, BreakIsSkipped
  <2> QED
    BY <1>1, <1>7, <2>2, DecodingIs
<1>12. Base64ToString(Only(C, rest)) = t
  <2> HIDE DEF m
  <2>1. Len(C) \in Nat /\ m \in Nat /\ m <= Len(C)
    BY <1>2, <1>4, LenProperties
  <2>2. L \in Seq(Codes) /\ Len(L) = m - 1 + 1 /\ \A i \in 1 .. (m - 1 + 1) : L[i] = C[1 + i - 1]
    BY <1>4, <2>1, PieceOf
  <2>3. Len(L) = m /\ \A i \in 1 .. m : L[i] = C[i]
    BY <2>1, <2>2
  <2> HIDE DEF L
  <2>4. Len(L) \in 0 .. Len(L) /\ (\A i \in 1 .. Len(L) : L[i] \in B64Letters)
        /\ \A i \in (Len(L) + 1) .. Len(L) : L[i] \notin B64Letters
    BY <1>2, <2>1, <2>3
  <2>5. Only(L, B64Letters) = SubSeq(L, 1, Len(L))
    BY <2>2, <2>4, OnlyPrefix
  <2>6. SubSeq(L, 1, Len(L)) = L
    BY <2>2, Whole1
  <2>7. Only(L, B64Letters) = SubSeq(C, 1, LettersOf(Len(t)))
    BY <1>7, <2>5, <2>6
  <2> QED
    BY <1>1, <1>9, <2>7, DecodingIs
<1> QED
  BY <1>10, <1>11, <1>12 DEF C, rest

LEMMA CutAtNul ==
  ASSUME NEW r \in Seq(0 .. 255), NEW k \in 1 .. Len(r), r[k] = 0
  PROVE  Len(UpToNul(r)) < k
<1> DEFINE n == Len(r)
           nuls == {i \in DOMAIN r : r[i] = 0}
           m == Min(nuls)
           h == m - 1
<1>1. n \in Nat /\ DOMAIN r = 1 .. n /\ k \in 1 .. n /\ n = Len(r)
  BY LenProperties
<1>2. k \in nuls /\ \A i \in nuls : i \in 1 .. n
  BY <1>1
<1>3. UpToNul(r) = SubSeq(r, 1, h)
  BY <1>2 DEF UpToNul
<1> HIDE DEF nuls, n
<1>4. nuls \in SUBSET Nat
  BY <1>1, <1>2
<1>5. m \in nuls
  BY <1>2, <1>4, MinIsLeast
<1>6. m <= k
  BY <1>2, <1>4, MinIsLeast
<1> HIDE DEF m
<1>7. h \in Nat /\ h <= n /\ h < k
  <2>1. m \in 1 .. n /\ k \in 1 .. n /\ n \in Nat
    BY <1>1, <1>2, <1>5
  <2> QED
    BY <2>1, <1>6
<1> HIDE DEF h
<1>8. Len(SubSeq(r, 1, h)) = h - 1 + 1
  BY <1>1, <1>7, PieceOf
<1> QED
  BY <1>3, <1>7, <1>8

LEMMA CodesAreBytes ==
  ASSUME NEW t \in Seq(Codes)
  PROVE  t \in Seq(0 .. 255)
<1>1. \A c \in Codes : c \in 0 .. 255
  BY DEF Codes
<1>2. \A k \in 1 .. Len(t) : t[k] \in 0 .. 255
  BY <1>1, ElementOfSeq
<1> DEFINE B == 0 .. 255
<1>3. \A k \in 1 .. Len(t) : t[k] \in B
  BY <1>2
<1> HIDE DEF B
<1>4. t \in Seq(B)
  BY <1>3, ElementsIn
<1> QED
  BY <1>4 DEF B

LEMMA IntegerGoesBack ==
  ASSUME NEW t \in Seq(Codes), Len(t) = 4
  PROVE  /\ Base64ToInteger(IntegerToBase64(t)) = t
         /\ \A k \in 1 .. 4 : Base64ToInteger(IntegerToBase64([t EXCEPT ![k] = 0])) = <<0, 0, 0, 0>>
<1>1. Base64ToInteger(IntegerToBase64(t)) = t
  <2>1. UpToNul(t) = t
    BY CodesAreBytes, UpToNulIs
  <2>2. Base64ToString(IntegerToBase64(t)) = t
    BY <2>1, Base64GoesBack DEF IntegerToBase64
  <2>3. Base64ToInteger(IntegerToBase64(t)) = t
    <3> DEFINE code == IntegerToBase64(t)
    <3>1. SubSeq(t, 1, 4) = t
      BY Whole1
    <3> HIDE DEF code
    <3>2. ~(Len(t) < 4)
      OBVIOUS
    <3>3. Base64ToString(code) = t
      BY <2>2 DEF code
    <3>4. Base64ToInteger(code) = t
      BY <3>1, <3>2, <3>3 DEF Base64ToInteger
    <3> QED
      BY <3>4 DEF code
  <2> QED
    BY <2>3
<1>2. ASSUME NEW k \in 1 .. 4 PROVE Base64ToInteger(IntegerToBase64([t EXCEPT ![k] = 0])) = <<0, 0, 0, 0>>
  <2> DEFINE z == [t EXCEPT ![k] = 0]
             u == UpToNul(z)
             four == 4
             bytes == 0 .. 255
  <2>1. four \in Nat /\ t \in Seq(bytes) /\ Len(t) = four /\ k \in 1 .. four /\ 0 \in bytes
    BY CodesAreBytes
  <2> HIDE DEF four, bytes
  <2>2. t \in [1 .. four -> bytes]
    BY <2>1, SeqsAre
  <2>3. z \in [1 .. four -> bytes] /\ z[k] = 0
    BY <2>1, <2>2
  <2> HIDE DEF z
  <2>4. z \in Seq(bytes) /\ Len(z) = four
    BY <2>1, <2>3, SeqsAre
  <2> USE DEF bytes
  <2>5. u \in Seq(Codes)
    BY <2>4, UpToNulIs
  <2>6. Len(u) < k
    BY <2>1, <2>3, <2>4, CutAtNul
  <2>7. Base64ToString(IntegerToBase64(z)) = u
    BY <2>5, Base64GoesBack DEF IntegerToBase64
  <2>8. Len(u) < 4
    BY <2>5, <2>6, LenProperties
  <2>9. Base64ToInteger(IntegerToBase64(z)) = <<0, 0, 0, 0>>
    BY <2>7, <2>8 DEF Base64ToInteger
  <2> QED
    BY <2>9 DEF z
<1> QED
  BY <1>1, <1>2

LEMMA DecodingGoesBack ==
  ASSUME StringsTypeOK
  PROVE  DecodingInverts
<1>1. text \in Seq(Codes)
  BY DEF StringsTypeOK
<1> DEFINE coded == StringToBase64(text)
           escaped == EscapeURL(text)
<1>2. DOMAIN text = 1 .. Len(text)
  BY <1>1, LenProperties
<1>3. Base64ToString(coded) = text
  BY <1>1, Base64GoesBack
<1>4. \A k \in 0 .. Len(coded) : Base64ToString(WithBreak(coded, k)) = text
  BY <1>1, Base64GoesBack
<1>5. Base64ToString(Only(coded, (1 .. 255) \ {Pad})) = text
  BY <1>1, Base64GoesBack
<1>6. UnescapeURL(escaped) = text
  BY <1>1, EscapingGoesBack
<1>7. \A k \in DOMAIN escaped : escaped[k] \in Unescaped \cup {Percent}
  <2>1. escaped \in Seq(Escapes)
    BY <1>1, EscapeURLIs
  <2> HIDE DEF escaped
  <2>2. \A k \in DOMAIN escaped : escaped[k] \in Escapes
    BY <2>1, LenProperties, ElementOfSeq
  <2> QED
    BY <2>2 DEF Escapes
<1>8. (\A k \in DOMAIN text : text[k] # Percent) => UnescapeURL(text) = text
  BY <1>1, <1>2, NothingToDecode
<1>9. Len(text) = 4 =>
           /\ Base64ToInteger(IntegerToBase64(text)) = text
           /\ \A k \in 1 .. 4 : Base64ToInteger(IntegerToBase64([text EXCEPT ![k] = 0])) = <<0, 0, 0, 0>>
  BY <1>1, IntegerGoesBack
<1> QED
  BY <1>3, <1>4, <1>5, <1>6, <1>7, <1>8, <1>9 DEF DecodingInverts

\* What llStringToBase64 and llEscapeURL make of a text, of every length and of all bytes
\* that a text may have, llBase64ToString and llUnescapeURL turn into the text again.
THEOREM EverythingComesBack == StringsSpec => []DecodingInverts
BY StringsTyped, DecodingGoesBack, PTL

=============================================================================
