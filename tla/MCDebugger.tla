----------------------------- MODULE MCDebugger -----------------------------
(***************************************************************************)
(* Two scripts whose functions call each other.                            *)
(***************************************************************************)
EXTENDS Debugger, TLC

CONSTANTS f1, f2, f3, chat, money

MCFrames == {f1, f2, f3}
MCLines == {1, 2}
MCKinds == {chat, money}

AnyFrame == Permutations(MCFrames)

=============================================================================
