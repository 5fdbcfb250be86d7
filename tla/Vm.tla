--------------------------------- MODULE Vm ---------------------------------
(***************************************************************************)
(* The statement walker of vm.c.                                           *)
(*                                                                         *)
(* vm_exec is a recursive C function that leaves its constructs by flags:  *)
(* returning and jumping in the frame of the LSL function that runs, and   *)
(* pending_state in the script.  A frame here also has ctl, the stack of   *)
(* vm_exec calls open in it: the statement, how far it has come, the index *)
(* of the sub-statement (of a block) or of the iteration (of a loop).      *)
(*                                                                         *)
(* An expression may call up to MaxCalls functions, one after the other,   *)
(* and its value is any value.  Locals are known by the scope they were    *)
(* declared in.                                                            *)
(***************************************************************************)
EXTENDS Syntax

CONSTANTS
  MaxLoop,   \* the cap on iterations, 1000000 in the code
  MaxCalls,  \* bound: functions called by one expression
  MaxFrames  \* bound: frames on the stack

ASSUME VmAssumption ==
  /\ MaxLoop \in Nat \ {0}
  /\ MaxCalls \in Nat
  /\ MaxFrames \in Nat

VARIABLES
  frames,   \* the list of frames from g_frame, the running one last
  pending   \* pending_state >= 0

vars == <<prog, frames, pending>>

Phases == {"start", "eval", "init", "post", "body"}

\* depth, point, worn and the scope of a local are history: the scope_depth a
\* statement was begun at, the last place in the program that was reached,
\* whether a loop has been cut off since, the block or for of a declaration.
Contexts == [node : Statements, phase : Phases, i : Nat, calls : Nat, depth : Nat]
Locals == [depth : Nat, scope : Statements]
Frames == [returning : BOOLEAN, jumping : prog.names \cup {NoName}, scopeDepth : Nat,
           locs : SUBSET Locals, ctl : Seq(Contexts),
           point : Statements \X (Phases \cup {"enter"}), worn : BOOLEAN]

----------------------------------------------------------------------------
(* Frames.  A definition whose name ends in _ and a word is a mistake that  *)
(* the run is shown to notice; no specification uses it.                   *)

Running == frames # <<>>
Top == frames[Len(frames)]
Unwinding(f) == f.returning \/ f.jumping # NoName
\* The vm_exec call that is open innermost.
Inmost(f) == f.ctl[Len(f.ctl)]
Ctx == Inmost(Top)

\* The innermost vm_exec call is for a statement of these kinds, at phase ph.
At(kinds, ph) ==
  Running /\ Top.ctl # <<>> /\ Kind(Ctx.node) \in kinds /\ Ctx.phase = ph

SetTop(f) == frames' = [frames EXCEPT ![Len(frames)] = f]

NewFrame(body) ==
  [returning |-> FALSE, jumping |-> NoName, scopeDepth |-> 0, locs |-> {},
   ctl |-> <<[node |-> body, phase |-> "start", i |-> 0, calls |-> 0, depth |-> 0]>>,
   point |-> <<body, "enter">>, worn |-> FALSE]

\* It returns; or it comes to phase ph, counts to i, has a function called.
Finish(f) == [f EXCEPT !.ctl = SubSeq(@, 1, Len(@) - 1)]
SetCtx(f, c) == [f EXCEPT !.ctl[Len(f.ctl)] = c]
Goto(f, ph) == SetCtx(f, [Inmost(f) EXCEPT !.phase = ph, !.calls = 0])
Count(f, i) == SetCtx(f, [Inmost(f) EXCEPT !.i = i])
Calling(f) == SetCtx(f, [Inmost(f) EXCEPT !.calls = @ + 1])
\* vm_exec(n)
Exec(f, n) ==
  [f EXCEPT !.ctl = Append(@, [node |-> n, phase |-> "start", i |-> 0, calls |-> 0,
                               depth |-> f.scopeDepth])]
Reach(f, n, ph) == [f EXCEPT !.point = <<n, ph>>, !.worn = FALSE]
\* Phase ph evaluates an expression of the statement.
Eval(f, ph) == Reach(Goto(f, ph), Inmost(f).node, ph)

EnterScope(f) == [f EXCEPT !.scopeDepth = @ + 1]
LeaveScope_keeping_locals(f) == [f EXCEPT !.scopeDepth = @ - 1]
\* frame_leave: the locals of the scope go with it.
LeaveScope(f) ==
  [f EXCEPT !.scopeDepth = @ - 1,
            !.locs = {b \in @ : b.depth <= f.scopeDepth - 1}]

\* The innermost block or for that is open.
Opens(c) == Kind(c.node) \in {"block", "for"} /\ c.phase # "start"
Innermost(f) ==
  LET open == {j \in DOMAIN f.ctl : Opens(f.ctl[j])}
  IN f.ctl[CHOOSE j \in open : \A k \in open : k <= j].node
Define(f) == [f EXCEPT !.locs = @ \cup {[depth |-> f.scopeDepth, scope |-> Innermost(f)]}]

----------------------------------------------------------------------------
Init ==
  /\ prog \in Programs
  /\ frames = <<>>
  /\ pending = FALSE

\* vm_dispatch.  A pending state has been entered since the last handler, or,
\* if state_exit asked for one, not yet.
Dispatch ==
  /\ ~Running
  /\ \E h \in prog.handlers : frames' = <<NewFrame(h)>>
  /\ pending' \in {FALSE, pending}
  /\ UNCHANGED prog

HandlerEnds ==
  /\ Len(frames) = 1
  /\ Top.ctl = <<>>
  /\ frames' = <<>>
  /\ UNCHANGED <<prog, pending>>

\* run_user_func, from inside an expression, and back into it.
Call(f) ==
  /\ \E ph \in {"eval", "init", "post"} : At(Kinds, ph)
  /\ Ctx.calls < MaxCalls
  /\ Len(frames) < MaxFrames
  /\ frames' = Append([frames EXCEPT ![Len(frames)] = Calling(Top)], NewFrame(f))
  /\ UNCHANGED <<prog, pending>>

FunctionReturns ==
  /\ Len(frames) > 1
  /\ Top.ctl = <<>>
  /\ frames' = SubSeq(frames, 1, Len(frames) - 1)
  /\ UNCHANGED <<prog, pending>>

----------------------------------------------------------------------------
(* Simple statements *)

Ready(kinds) == At(kinds, "start") /\ ~Unwinding(Top)

\* vm_exec does nothing while a return or a jump is on its way.
Skip ==
  /\ At(Kinds, "start")
  /\ Unwinding(Top) \/ Kind(Ctx.node) \in {"empty", "label"}
  /\ SetTop(Finish(IF Unwinding(Top) THEN Top ELSE Reach(Top, Ctx.node, "eval")))
  /\ UNCHANGED <<prog, pending>>

Evaluate ==
  /\ Ready({"expr", "decl", "return", "if", "while"})
  /\ SetTop(Eval(Top, "eval"))
  /\ UNCHANGED <<prog, pending>>

Evaluated ==
  /\ At({"expr"}, "eval")
  /\ SetTop(Finish(Top))
  /\ UNCHANGED <<prog, pending>>

Declare ==
  /\ At({"decl"}, "eval")
  /\ SetTop(Finish(Define(Top)))
  /\ UNCHANGED <<prog, pending>>

Return ==
  /\ At({"return"}, "eval")
  /\ SetTop(Finish([Top EXCEPT !.returning = TRUE]))
  /\ UNCHANGED <<prog, pending>>

Jump ==
  /\ Ready({"jump"})
  /\ SetTop(Finish(Reach([Top EXCEPT !.jumping = Name(Ctx.node)], Ctx.node, "eval")))
  /\ UNCHANGED <<prog, pending>>

\* `state X;` marks the script and goes on; a name the script has no state of
\* changes nothing.
ChangeState ==
  /\ Ready({"state"})
  /\ pending' = (pending \/ Name(Ctx.node) \in prog.states)
  /\ SetTop(Finish(Reach(Top, Ctx.node, "eval")))
  /\ UNCHANGED prog

\* The branch is the last thing vm_exec does for an if.
Branch ==
  /\ At({"if"}, "eval")
  /\ \/ \E n \in {Kids(Ctx.node)[k] : k \in DOMAIN Kids(Ctx.node)} :
          SetTop(Exec(Finish(Top), n))
     \/ Len(Kids(Ctx.node)) = 1 /\ SetTop(Finish(Top))
  /\ UNCHANGED <<prog, pending>>

----------------------------------------------------------------------------
(* Blocks *)

OpenBlock ==
  /\ Ready({"block"})
  /\ SetTop(EnterScope(Goto(Top, "body")))
  /\ UNCHANGED <<prog, pending>>

\* find_label_in: the first statement of block n that is label l.
IsLabel(n, k, l) == Kind(Kids(n)[k]) = "label" /\ Name(Kids(n)[k]) = l
HasLabel(n, l) == \E k \in DOMAIN Kids(n) : IsLabel(n, k, l)
FindLabel(n, l) ==
  CHOOSE k \in DOMAIN Kids(n) : IsLabel(n, k, l) /\ \A m \in 1 .. (k - 1) : ~IsLabel(n, m, l)

\* What a block looks at after each of its statements, in this order: a
\* return, a pending state, a jump.
Broken == Ctx.i > 0 /\ (Unwinding(Top) \/ pending)
Caught ==
  /\ Ctx.i > 0
  /\ ~Top.returning
  /\ ~pending
  /\ Top.jumping # NoName
  /\ HasLabel(Ctx.node, Top.jumping)

TakeJump_to_the_top ==
  /\ At({"block"}, "body")
  /\ Caught
  /\ SetTop(Count([Top EXCEPT !.jumping = NoName], 0))
  /\ UNCHANGED <<prog, pending>>
TakeJump ==
  /\ At({"block"}, "body")
  /\ Caught
  /\ SetTop(Count([Top EXCEPT !.jumping = NoName], FindLabel(Ctx.node, Top.jumping)))
  /\ UNCHANGED <<prog, pending>>

NextStatement ==
  /\ At({"block"}, "body")
  /\ ~Broken
  /\ Ctx.i < Len(Kids(Ctx.node))
  /\ SetTop(Exec(Count(Top, Ctx.i + 1), Kids(Ctx.node)[Ctx.i + 1]))
  /\ UNCHANGED <<prog, pending>>

CloseBlock ==
  /\ At({"block"}, "body")
  /\ ~Caught
  /\ Broken \/ Ctx.i = Len(Kids(Ctx.node))
  /\ SetTop(Finish(LeaveScope(Top)))
  /\ UNCHANGED <<prog, pending>>

----------------------------------------------------------------------------
(* Loops *)

Body == Kids(Ctx.node)[1]
LastTurn == Ctx.i + 1 = MaxLoop

LeaveLoop(f) == Finish(IF Kind(Ctx.node) = "for" THEN LeaveScope(f) ELSE f)

\* A do starts with its body, a for with its initialisers; a while with its
\* condition, see Evaluate.
StartDo ==
  /\ Ready({"do"})
  /\ SetTop(Exec(Goto(Top, "body"), Body))
  /\ UNCHANGED <<prog, pending>>

StartFor ==
  /\ Ready({"for"})
  /\ SetTop(EnterScope(Eval(Top, "init")))
  /\ UNCHANGED <<prog, pending>>

Initialised ==
  /\ At({"for"}, "init")
  /\ SetTop(Eval(Top, "eval"))
  /\ UNCHANGED <<prog, pending>>

\* The condition holds.
Iterate ==
  /\ \/ At({"while", "for"}, "eval") /\ SetTop(Exec(Goto(Top, "body"), Body))
     \/ At({"do"}, "eval") /\ ~LastTurn /\ SetTop(Exec(Goto(Count(Top, Ctx.i + 1), "body"), Body))
  /\ UNCHANGED <<prog, pending>>

\* The condition does not hold.
EndLoop ==
  /\ At(Loops, "eval")
  /\ SetTop(LeaveLoop(Top))
  /\ UNCHANGED <<prog, pending>>

LoopBroken_by_return == Top.returning \/ pending
LoopBroken == Unwinding(Top) \/ pending

BreakLoop ==
  /\ At(Loops, "body")
  /\ LoopBroken
  /\ SetTop(LeaveLoop(Top))
  /\ UNCHANGED <<prog, pending>>

BodyEnds_uncounted ==
  /\ At(Loops, "body")
  /\ ~LoopBroken
  /\ SetTop(Eval(Top, IF At({"for"}, "body") THEN "post" ELSE "eval"))
  /\ UNCHANGED <<prog, pending>>
\* The body has run.
BodyEnds ==
  /\ At(Loops, "body")
  /\ ~LoopBroken
  /\ \/ At({"while"}, "body") /\ ~LastTurn /\ SetTop(Eval(Count(Top, Ctx.i + 1), "eval"))
     \/ At({"do"}, "body") /\ SetTop(Eval(Top, "eval"))
     \/ At({"for"}, "body") /\ SetTop(Eval(Top, "post"))
  /\ UNCHANGED <<prog, pending>>

Stepped ==
  /\ At({"for"}, "post")
  /\ ~LastTurn
  /\ SetTop(Eval(Count(Top, Ctx.i + 1), "eval"))
  /\ UNCHANGED <<prog, pending>>

\* The cap on iterations is reached: the loop is left, without a word.
CutOff ==
  /\ \/ At({"while"}, "body") /\ ~LoopBroken
     \/ At({"do"}, "eval")
     \/ At({"for"}, "post")
  /\ LastTurn
  /\ SetTop([LeaveLoop(Top) EXCEPT !.worn = TRUE])
  /\ UNCHANGED <<prog, pending>>

----------------------------------------------------------------------------
Step ==
  \/ HandlerEnds \/ FunctionReturns
  \/ Skip \/ Evaluate \/ Evaluated \/ Declare \/ Return \/ Jump \/ ChangeState \/ Branch
  \/ OpenBlock \/ TakeJump \/ NextStatement \/ CloseBlock
  \/ StartDo \/ StartFor \/ Initialised \/ Iterate \/ EndLoop \/ BreakLoop
  \/ BodyEnds \/ Stepped \/ CutOff
  \/ \E f \in prog.funcs : Call(f)

Next == Step \/ Dispatch

Spec == Init /\ [][Next]_vars
FairSpec == Spec /\ WF_vars(Step)

----------------------------------------------------------------------------
(* What the walker promises *)

\* Every variable has its type.
TypeOK ==
  /\ frames \in Seq(Frames)
  /\ pending \in BOOLEAN

\* Only the running frame returns or jumps, and while it does no statement of it
\* is begun and no expression of it evaluated: the guard at the head of vm_exec
\* never has anything to skip.
UnwindingRunsNothing ==
  \A k \in DOMAIN frames :
    LET f == frames[k]
    IN Unwinding(f) => /\ k = Len(frames)
                       /\ ~(f.returning /\ f.jumping # NoName)
                       /\ \A j \in DOMAIN f.ctl : f.ctl[j].phase = "body"

\* The scope depth is what the blocks and fors open make it, however the ones
\* before were left, and a local is there only while the scope it was declared
\* in is open: a jump or return out of a block does not leave locals behind that
\* shadow others.
Inner(c) == IF Opens(c) THEN c.depth + 1 ELSE c.depth
ScopesMatch ==
  \A k \in DOMAIN frames :
    LET f == frames[k]
    IN /\ \A j \in DOMAIN f.ctl :
            f.ctl[j].depth = IF j = 1 THEN 0 ELSE Inner(f.ctl[j - 1])
       /\ f.scopeDepth = IF f.ctl = <<>> THEN 0 ELSE Inner(f.ctl[Len(f.ctl)])
       /\ \A b \in f.locs :
            \E j \in DOMAIN f.ctl :
              Opens(f.ctl[j]) /\ f.ctl[j].node = b.scope /\ Inner(f.ctl[j]) = b.depth

\* The flags of vm_exec take control where the text of the program says.
Text == INSTANCE ControlFlow WITH
          stack <- [k \in DOMAIN frames |-> frames[k].point],
          worn <- Running /\ Top.worn
FlowSpec == Text!Spec

\* A program without jumps ends each of its handlers, whatever its conditions
\* are: that is what the cap on iterations is for.
WithoutJumps == \A n \in Statements : Kind(n) # "jump"
HandlersEnd == (Running /\ WithoutJumps) ~> ~Running

=============================================================================
