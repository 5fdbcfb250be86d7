------------------------------ MODULE VmProofs ------------------------------
(***************************************************************************)
(* Proofs about Vm, for every program: its types, what runs while a return *)
(* or a jump is under way, the scopes, and that control goes where the     *)
(* text of the program says.                                               *)
(*                                                                         *)
(* The invariant is a statement about one frame at a time.  Below the      *)
(* vm_exec call that is open innermost all the others wait for a           *)
(* sub-statement; their depths grow by one at each open scope; and if the  *)
(* frame is unwinding, the innermost waits too.  A second invariant,       *)
(* FlowInv, puts the open calls into the text: from the point reached last *)
(* it goes on to where the innermost call stands.                          *)
(***************************************************************************)
EXTENDS Vm, Induction, SequenceTheorems, TLAPS

Waits(c) == c.phase = "body" /\ (Kind(c.node) = "block" => c.i > 0)
AllWait(f) == \A j \in 1 .. Len(f.ctl) : Waits(f.ctl[j])
OthersWait(f) == \A j \in 1 .. (Len(f.ctl) - 1) : Waits(f.ctl[j])

RootIsBlock(f) == f.ctl # <<>> => Kind(f.ctl[1].node) = "block"
DepthsMatch(f) ==
  /\ \A j \in 1 .. Len(f.ctl) : f.ctl[j].depth = IF j = 1 THEN 0 ELSE Inner(f.ctl[j - 1])
  /\ f.scopeDepth = IF f.ctl = <<>> THEN 0 ELSE Inner(f.ctl[Len(f.ctl)])
LocalsLive(f) ==
  \A b \in f.locs :
    \E j \in 1 .. Len(f.ctl) :
      Opens(f.ctl[j]) /\ f.ctl[j].node = b.scope /\ Inner(f.ctl[j]) = b.depth

\* What holds of every frame, whatever its flags are.
Sound(f) == f \in Frames /\ RootIsBlock(f) /\ OthersWait(f) /\ DepthsMatch(f) /\ LocalsLive(f)

OneFlag(f) == ~(f.returning /\ f.jumping # NoName)
Clean(f) == Unwinding(f) => OneFlag(f) /\ AllWait(f)

FramesSound == \A k \in 1 .. Len(frames) : Sound(frames[k])
FlagsClean == \A k \in 1 .. Len(frames) : Clean(frames[k]) /\ (Unwinding(frames[k]) => k = Len(frames))

IInv == prog \in Programs /\ pending \in BOOLEAN /\ frames \in Seq(Frames) /\ FramesSound /\ FlagsClean

----------------------------------------------------------------------------
(* Programs *)

LEMMA SeqElement ==
  ASSUME NEW S, NEW s \in Seq(S)
  PROVE  \A n \in DOMAIN s : s[n] \in S
  OBVIOUS

\* The parts of a well-formed tree have the types their names promise.
LEMMA Trees ==
  ASSUME prog \in Programs
  PROVE  /\ \A n \in Statements : /\ Kind(n) \in Kinds
                                  /\ Kids(n) \in Seq(Statements)
                                  /\ Name(n) \in prog.names \cup {NoName}
         /\ \A n \in prog.handlers \cup prog.funcs : n \in Statements /\ Kind(n) = "block"
         /\ \A n \in Statements : /\ Kind(n) \in Loops => Len(Kids(n)) = 1
                                  /\ Kind(n) = "jump" => Name(n) # NoName
<1>1. WellFormed(prog)  BY SyntaxAssumption
<1>2. prog.tree \in Seq([kind : Kinds, kids : Seq(Statements), name : prog.names \cup {NoName}])
  BY <1>1 DEF WellFormed, Statements
<1>3. \A n \in Statements : prog.tree[n] \in [kind : Kinds, kids : Seq(Statements),
                                              name : prog.names \cup {NoName}]
  BY <1>2, SeqElement DEF Statements
<1>4. \A n \in Statements : /\ Kind(n) \in Kinds
                            /\ Kids(n) \in Seq(Statements)
                            /\ Name(n) \in prog.names \cup {NoName}
  BY <1>3 DEF Kind, Kids, Name
<1>5. \A n \in prog.handlers \cup prog.funcs : n \in Statements /\ Kind(n) = "block"
  BY <1>1 DEF WellFormed, Statements, Kind
<1>6. \A n \in Statements : /\ Kind(n) \in Loops => Len(Kids(n)) = 1
                            /\ Kind(n) = "jump" => Name(n) # NoName
  BY <1>1 DEF WellFormed, Statements, Kind, Kids, Name
<1> QED  BY <1>4, <1>5, <1>6

----------------------------------------------------------------------------
(* Frames *)

\* What frame updates leave of the stack of vm_exec calls.
LEMMA FrontOfSeq ==
  ASSUME NEW S, NEW s \in Seq(S), s # <<>>
  PROVE  /\ SubSeq(s, 1, Len(s) - 1) \in Seq(S)
         /\ Len(SubSeq(s, 1, Len(s) - 1)) = Len(s) - 1
         /\ Len(s) \in Nat /\ Len(s) >= 1
         /\ \A j \in 1 .. (Len(s) - 1) : SubSeq(s, 1, Len(s) - 1)[j] = s[j]
         /\ (Len(s) = 1) = (SubSeq(s, 1, Len(s) - 1) = <<>>)
<1>1. Len(s) \in Nat /\ Len(s) >= 1  BY EmptySeq, LenProperties
<1>2. 1 \in 1 .. (Len(s) + 1) /\ (Len(s) - 1) \in (1 - 1) .. Len(s)  BY <1>1
<1> DEFINE t == SubSeq(s, 1, Len(s) - 1)
<1>3. /\ t \in Seq(S)
      /\ Len(t) = IF 1 <= Len(s) - 1 THEN (Len(s) - 1) - 1 + 1 ELSE 0
      /\ \A j \in 1 .. ((Len(s) - 1) - 1 + 1) : t[j] = s[1 + j - 1]
  BY <1>1, <1>2, SubSeqProperties
<1> HIDE DEF t
<1>4. Len(t) = Len(s) - 1
  <2>1. \A m, n \in Nat : m >= 1 /\ n = (IF 1 <= m - 1 THEN (m - 1) - 1 + 1 ELSE 0) => n = m - 1
    OBVIOUS
  <2> QED  BY <1>1, <1>3, <2>1, LenProperties
<1>5. \A j \in 1 .. (Len(s) - 1) : t[j] = s[j]  BY <1>1, <1>3
<1>6. (Len(t) = 0) = (t = <<>>)  BY <1>3, EmptySeq
<1>7. (Len(s) = 1) = (Len(t) = 0)  BY <1>1, <1>4
<1> QED  BY <1>1, <1>3, <1>4, <1>5, <1>6, <1>7 DEF t

LEMMA FinishCtl ==
  ASSUME NEW f \in Frames, f.ctl # <<>>
  PROVE  /\ Finish(f) \in Frames
         /\ Len(Finish(f).ctl) = Len(f.ctl) - 1
         /\ Len(f.ctl) \in Nat /\ Len(f.ctl) >= 1
         /\ \A j \in 1 .. (Len(f.ctl) - 1) : Finish(f).ctl[j] = f.ctl[j]
         /\ (Len(f.ctl) = 1) = (Finish(f).ctl = <<>>)
<1>1. f.ctl \in Seq(Contexts)  BY DEF Frames
<1> DEFINE s == SubSeq(f.ctl, 1, Len(f.ctl) - 1)
<1>2. /\ s \in Seq(Contexts)
      /\ Len(s) = Len(f.ctl) - 1
      /\ Len(f.ctl) \in Nat /\ Len(f.ctl) >= 1
      /\ \A j \in 1 .. (Len(f.ctl) - 1) : s[j] = f.ctl[j]
      /\ (Len(f.ctl) = 1) = (s = <<>>)
  BY <1>1, FrontOfSeq
<1> HIDE DEF s
<1>3. [f EXCEPT !.ctl = s] \in Frames  BY <1>2 DEF Frames
<1>4. [f EXCEPT !.ctl = s].ctl = s  BY DEF Frames
<1>5. Finish(f) = [f EXCEPT !.ctl = s]  BY DEF Finish, s
<1> QED  BY <1>2, <1>3, <1>4, <1>5

LEMMA SetCtxCtl ==
  ASSUME NEW f \in Frames, f.ctl # <<>>, NEW c \in Contexts
  PROVE  /\ SetCtx(f, c) \in Frames
         /\ Len(SetCtx(f, c).ctl) = Len(f.ctl)
         /\ Len(f.ctl) \in Nat /\ Len(f.ctl) >= 1
         /\ \A j \in 1 .. (Len(f.ctl) - 1) : SetCtx(f, c).ctl[j] = f.ctl[j]
         /\ SetCtx(f, c).ctl[Len(f.ctl)] = c
         /\ SetCtx(f, c).ctl # <<>>
<1>1. f.ctl \in Seq(Contexts)  BY DEF Frames
<1> DEFINE s == [f.ctl EXCEPT ![Len(f.ctl)] = c]
<1>2. /\ s \in Seq(Contexts)
      /\ Len(s) = Len(f.ctl)
      /\ Len(f.ctl) \in Nat /\ Len(f.ctl) >= 1
      /\ \A j \in 1 .. (Len(f.ctl) - 1) : s[j] = f.ctl[j]
      /\ s[Len(f.ctl)] = c
      /\ s # <<>>
  BY <1>1
<1> HIDE DEF s
<1>3. [f EXCEPT !.ctl = s] \in Frames  BY <1>2 DEF Frames
<1>4. [f EXCEPT !.ctl = s].ctl = s  BY DEF Frames
<1>5. SetCtx(f, c) = [f EXCEPT !.ctl = s]  BY DEF SetCtx, s
<1> QED  BY <1>2, <1>3, <1>4, <1>5

LEMMA InmostTyped ==
  ASSUME NEW f \in Frames, f.ctl # <<>>
  PROVE  Inmost(f) \in Contexts /\ Inmost(f) = f.ctl[Len(f.ctl)] /\ Len(f.ctl) \in Nat \ {0}
  BY DEF Frames, Inmost

\* A statement that has no scope of its own, or none yet, returns.
LEMMA FinishSound ==
  ASSUME NEW f, Sound(f), f.ctl # <<>>, ~Opens(Inmost(f))
  PROVE  Sound(Finish(f)) /\ AllWait(Finish(f))
<1>1. f \in Frames  BY DEF Sound
<1> DEFINE g == Finish(f)
<1>2. /\ g \in Frames
      /\ Len(g.ctl) = Len(f.ctl) - 1
      /\ Len(f.ctl) \in Nat /\ Len(f.ctl) >= 1
      /\ \A j \in 1 .. (Len(f.ctl) - 1) : g.ctl[j] = f.ctl[j]
      /\ (Len(f.ctl) = 1) = (g.ctl = <<>>)
  BY <1>1, FinishCtl
<1>3. g.scopeDepth = f.scopeDepth /\ g.locs = f.locs
  BY <1>1 DEF Finish, Frames
<1> HIDE DEF g
<1>4. AllWait(g)  BY <1>2 DEF Sound, OthersWait, AllWait
<1>5. RootIsBlock(g)  BY <1>2 DEF Sound, RootIsBlock
<1>6. OthersWait(g)  BY <1>2 DEF Sound, OthersWait
<1>7. DepthsMatch(g)
  <2>1. f.scopeDepth = f.ctl[Len(f.ctl)].depth
    BY <1>2 DEF Sound, DepthsMatch, Inner, Inmost
  <2>2. \A j \in 1 .. Len(g.ctl) : g.ctl[j].depth = IF j = 1 THEN 0 ELSE Inner(g.ctl[j - 1])
    <3> TAKE j \in 1 .. Len(g.ctl)
    <3>1. j \in 1 .. (Len(f.ctl) - 1) /\ j \in 1 .. Len(f.ctl)  BY <1>2
    <3>2. f.ctl[j].depth = IF j = 1 THEN 0 ELSE Inner(f.ctl[j - 1])
      BY <3>1 DEF Sound, DepthsMatch
    <3>3. g.ctl[j] = f.ctl[j]  BY <1>2, <3>1
    <3>4. j # 1 => g.ctl[j - 1] = f.ctl[j - 1]  BY <1>2, <3>1
    <3> QED  BY <3>2, <3>3, <3>4
  <2>3. CASE Len(f.ctl) = 1
    BY <1>2, <1>3, <2>1, <2>2, <2>3 DEF Sound, DepthsMatch
  <2>4. CASE Len(f.ctl) # 1
    <3>1. g.ctl # <<>> /\ g.ctl[Len(g.ctl)] = f.ctl[Len(f.ctl) - 1]  BY <1>2, <2>4
    <3>2. f.ctl[Len(f.ctl)].depth = Inner(f.ctl[Len(f.ctl) - 1])
      <4>1. Len(f.ctl) \in 1 .. Len(f.ctl)  BY <1>2
      <4> QED  BY <2>4, <4>1 DEF Sound, DepthsMatch
    <3> QED  BY <1>3, <2>1, <2>2, <3>1, <3>2 DEF DepthsMatch
  <2> QED  BY <2>3, <2>4
<1>8. LocalsLive(g)
  BY <1>2, <1>3 DEF Sound, LocalsLive, Inmost
<1> QED  BY <1>2, <1>4, <1>5, <1>6, <1>7, <1>8 DEF Sound, g

\* A block or for returns, and its scope is closed first.
LEMMA LeaveSound ==
  ASSUME NEW f, Sound(f), f.ctl # <<>>, Opens(Inmost(f))
  PROVE  Sound(Finish(LeaveScope(f))) /\ AllWait(Finish(LeaveScope(f)))
<1>1. f \in Frames  BY DEF Sound
<1>2. Inmost(f) \in Contexts /\ Inmost(f) = f.ctl[Len(f.ctl)] /\ Len(f.ctl) \in Nat \ {0}
  BY <1>1, InmostTyped
<1>3. f.scopeDepth = Inmost(f).depth + 1  BY <1>2 DEF Sound, DepthsMatch, Inner
<1> DEFINE h == LeaveScope(f)
<1>4. /\ h \in Frames
      /\ h.scopeDepth = Inmost(f).depth
      /\ h.locs = {b \in f.locs : b.depth <= Inmost(f).depth}
      /\ h.ctl = f.ctl
  <2>1. Inmost(f).depth \in Nat  BY <1>2 DEF Contexts
  <2>2. f.scopeDepth - 1 = Inmost(f).depth  BY <1>3, <2>1
  <2>3. {b \in f.locs : b.depth <= Inmost(f).depth} \in SUBSET Locals  BY <1>1 DEF Frames
  <2> QED  BY <1>1, <2>1, <2>2, <2>3 DEF LeaveScope, Frames
<1> HIDE DEF h
<1> DEFINE g == Finish(h)
<1>5. /\ g \in Frames
      /\ Len(g.ctl) = Len(f.ctl) - 1
      /\ \A j \in 1 .. (Len(f.ctl) - 1) : g.ctl[j] = f.ctl[j]
      /\ (Len(f.ctl) = 1) = (g.ctl = <<>>)
  BY <1>4, FinishCtl
<1>6. g.scopeDepth = Inmost(f).depth /\ g.locs = h.locs
  BY <1>4 DEF Finish, Frames
<1> HIDE DEF g
<1>7. AllWait(g)  BY <1>2, <1>5 DEF Sound, OthersWait, AllWait
<1>8. RootIsBlock(g)  BY <1>2, <1>5 DEF Sound, RootIsBlock
<1>9. OthersWait(g)  BY <1>2, <1>5 DEF Sound, OthersWait
<1>10. DepthsMatch(g)
  <2>2. \A j \in 1 .. Len(g.ctl) : g.ctl[j].depth = IF j = 1 THEN 0 ELSE Inner(g.ctl[j - 1])
    <3> TAKE j \in 1 .. Len(g.ctl)
    <3>1. j \in 1 .. (Len(f.ctl) - 1) /\ j \in 1 .. Len(f.ctl)  BY <1>2, <1>5
    <3>2. f.ctl[j].depth = IF j = 1 THEN 0 ELSE Inner(f.ctl[j - 1])
      BY <3>1 DEF Sound, DepthsMatch
    <3>3. g.ctl[j] = f.ctl[j]  BY <1>5, <3>1
    <3>4. j # 1 => g.ctl[j - 1] = f.ctl[j - 1]  BY <1>2, <1>5, <3>1
    <3> QED  BY <3>2, <3>3, <3>4
  <2>3. CASE Len(f.ctl) = 1
    BY <1>2, <1>5, <1>6, <2>2, <2>3 DEF Sound, DepthsMatch
  <2>4. CASE Len(f.ctl) # 1
    <3>1. g.ctl # <<>> /\ g.ctl[Len(g.ctl)] = f.ctl[Len(f.ctl) - 1]  BY <1>2, <1>5, <2>4
    <3>2. f.ctl[Len(f.ctl)].depth = Inner(f.ctl[Len(f.ctl) - 1])
      <4>1. Len(f.ctl) \in 1 .. Len(f.ctl)  BY <1>2
      <4> QED  BY <2>4, <4>1 DEF Sound, DepthsMatch
    <3> QED  BY <1>2, <1>6, <2>2, <3>1, <3>2 DEF DepthsMatch
  <2> QED  BY <2>3, <2>4
<1>11. LocalsLive(g)
  <2> SUFFICES ASSUME NEW b \in g.locs
               PROVE  \E j \in 1 .. Len(g.ctl) :
                        Opens(g.ctl[j]) /\ g.ctl[j].node = b.scope /\ Inner(g.ctl[j]) = b.depth
    BY DEF LocalsLive
  <2>1. b \in f.locs /\ b.depth <= Inmost(f).depth  BY <1>4, <1>6
  <2>2. PICK j \in 1 .. Len(f.ctl) :
          Opens(f.ctl[j]) /\ f.ctl[j].node = b.scope /\ Inner(f.ctl[j]) = b.depth
    BY <2>1 DEF Sound, LocalsLive
  <2>3. Inner(Inmost(f)) = Inmost(f).depth + 1 /\ Inmost(f).depth \in Nat
    BY <1>2 DEF Inner, Contexts
  <2>4. j # Len(f.ctl)  BY <1>2, <2>1, <2>2, <2>3
  <2>5. j \in 1 .. Len(g.ctl) /\ g.ctl[j] = f.ctl[j]  BY <1>2, <1>5, <2>4
  <2> QED  BY <2>2, <2>5
<1> QED  BY <1>5, <1>7, <1>8, <1>9, <1>10, <1>11 DEF Sound, g, h

\* vm_exec is called for statement n while all that is open waits.
LEMMA ExecSound ==
  ASSUME NEW f, Sound(f), AllWait(f), f.ctl # <<>>, NEW n \in Statements
  PROVE  Sound(Exec(f, n))
<1>1. f \in Frames /\ f.ctl \in Seq(Contexts) /\ f.scopeDepth \in Nat  BY DEF Sound, Frames
<1> DEFINE c == [node |-> n, phase |-> "start", i |-> 0, calls |-> 0, depth |-> f.scopeDepth]
           s == Append(f.ctl, c)
<1>2. c \in Contexts /\ c.node = n /\ c.phase = "start" /\ c.depth = f.scopeDepth
  BY <1>1 DEF Contexts, Phases
<1> HIDE DEF c
<1>3. /\ s \in Seq(Contexts)
      /\ Len(s) = Len(f.ctl) + 1
      /\ Len(f.ctl) \in Nat \ {0}
      /\ \A j \in 1 .. Len(f.ctl) : s[j] = f.ctl[j]
      /\ s[Len(f.ctl) + 1] = c
  BY <1>1, <1>2
<1>4. s # <<>>  BY <1>3, EmptySeq
<1> HIDE DEF s
<1> DEFINE g == [f EXCEPT !.ctl = s]
<1>5. /\ g \in Frames /\ g.ctl = s /\ g.scopeDepth = f.scopeDepth /\ g.locs = f.locs
  BY <1>1, <1>3 DEF Frames
<1>6. Exec(f, n) = g  BY DEF Exec, c, s
<1> HIDE DEF g
<1>7. RootIsBlock(g)  BY <1>3, <1>5 DEF Sound, RootIsBlock
<1>8. OthersWait(g)  BY <1>3, <1>5 DEF AllWait, OthersWait
<1>9. DepthsMatch(g)
  <2>1. \A j \in 1 .. Len(s) : s[j].depth = IF j = 1 THEN 0 ELSE Inner(s[j - 1])
    <3> TAKE j \in 1 .. Len(s)
    <3>1. CASE j = Len(f.ctl) + 1
      <4>1. s[j] = c /\ j # 1 /\ s[j - 1] = f.ctl[Len(f.ctl)]  BY <1>3, <3>1
      <4> QED  BY <1>2, <4>1 DEF Sound, DepthsMatch
    <3>2. CASE j # Len(f.ctl) + 1
      <4>1. j \in 1 .. Len(f.ctl)  BY <1>3, <3>2
      <4>2. f.ctl[j].depth = IF j = 1 THEN 0 ELSE Inner(f.ctl[j - 1])
        BY <4>1 DEF Sound, DepthsMatch
      <4>3. s[j] = f.ctl[j]  BY <1>3, <4>1
      <4>4. j # 1 => s[j - 1] = f.ctl[j - 1]  BY <1>3, <4>1
      <4> QED  BY <4>2, <4>3, <4>4
    <3> QED  BY <3>1, <3>2
  <2>2. Inner(c) = f.scopeDepth  BY <1>2 DEF Inner, Opens
  <2>3. s[Len(s)] = c  BY <1>3
  <2> QED  BY <1>4, <1>5, <2>1, <2>2, <2>3 DEF DepthsMatch
<1>10. LocalsLive(g)
  BY <1>3, <1>5 DEF Sound, LocalsLive
<1> QED  BY <1>5, <1>6, <1>7, <1>8, <1>9, <1>10 DEF Sound

\* The innermost statement moves on; it has a scope open if it had one before.
LEMMA SetCtxSound ==
  ASSUME NEW f, Sound(f), f.ctl # <<>>,
         NEW c \in Contexts,
         c.node = Inmost(f).node, c.depth = Inmost(f).depth, Opens(c) = Opens(Inmost(f))
  PROVE  Sound(SetCtx(f, c)) /\ SetCtx(f, c).ctl # <<>> /\ Inmost(SetCtx(f, c)) = c
<1>1. f \in Frames  BY DEF Sound
<1> DEFINE g == SetCtx(f, c)
<1>2. /\ g \in Frames
      /\ Len(g.ctl) = Len(f.ctl)
      /\ Len(f.ctl) \in Nat /\ Len(f.ctl) >= 1
      /\ \A j \in 1 .. (Len(f.ctl) - 1) : g.ctl[j] = f.ctl[j]
      /\ g.ctl[Len(f.ctl)] = c
      /\ g.ctl # <<>>
  BY <1>1, SetCtxCtl
<1>3. g.scopeDepth = f.scopeDepth /\ g.locs = f.locs
  BY <1>1 DEF SetCtx, Frames
<1>4. Inmost(f) = f.ctl[Len(f.ctl)]  BY DEF Inmost
<1> HIDE DEF g
<1>5. Inner(c) = Inner(Inmost(f))  BY DEF Inner
<1>6. \A j \in 1 .. Len(f.ctl) : /\ g.ctl[j].node = f.ctl[j].node
                                 /\ g.ctl[j].depth = f.ctl[j].depth
                                 /\ Opens(g.ctl[j]) = Opens(f.ctl[j])
                                 /\ Inner(g.ctl[j]) = Inner(f.ctl[j])
  <2> TAKE j \in 1 .. Len(f.ctl)
  <2>1. CASE j = Len(f.ctl)  BY <1>2, <1>4, <1>5, <2>1
  <2>2. CASE j # Len(f.ctl)
    <3>1. j \in 1 .. (Len(f.ctl) - 1)  BY <1>2, <2>2
    <3> QED  BY <1>2, <3>1
  <2> QED  BY <2>1, <2>2
<1>7. RootIsBlock(g)  BY <1>2, <1>6 DEF Sound, RootIsBlock
<1>8. OthersWait(g)  BY <1>2 DEF Sound, OthersWait
<1>9. DepthsMatch(g)
  <2>1. \A j \in 1 .. Len(g.ctl) : g.ctl[j].depth = IF j = 1 THEN 0 ELSE Inner(g.ctl[j - 1])
    <3> TAKE j \in 1 .. Len(g.ctl)
    <3>1. f.ctl[j].depth = IF j = 1 THEN 0 ELSE Inner(f.ctl[j - 1])
      BY <1>2 DEF Sound, DepthsMatch
    <3>2. j # 1 => (j - 1) \in 1 .. Len(f.ctl)  BY <1>2
    <3>3. j \in 1 .. Len(f.ctl)  BY <1>2
    <3> QED  BY <1>6, <3>1, <3>2, <3>3
  <2>2. f.scopeDepth = Inner(f.ctl[Len(f.ctl)])  BY DEF Sound, DepthsMatch
  <2> QED  BY <1>2, <1>3, <1>4, <1>5, <2>1, <2>2 DEF DepthsMatch
<1>10. LocalsLive(g)
  BY <1>2, <1>3, <1>6 DEF Sound, LocalsLive
<1>11. Inmost(g) = c  BY <1>2 DEF Inmost
<1> QED  BY <1>2, <1>7, <1>8, <1>9, <1>10, <1>11 DEF Sound, g

\* A block or for begins, and its scope is opened.
LEMMA OpenSound ==
  ASSUME NEW f, Sound(f), f.ctl # <<>>, ~Opens(Inmost(f)),
         NEW c \in Contexts,
         c.node = Inmost(f).node, c.depth = Inmost(f).depth, Opens(c)
  PROVE  Sound(EnterScope(SetCtx(f, c)))
<1>1. f \in Frames  BY DEF Sound
<1> DEFINE h == SetCtx(f, c)
<1>2. /\ h \in Frames
      /\ Len(h.ctl) = Len(f.ctl)
      /\ Len(f.ctl) \in Nat /\ Len(f.ctl) >= 1
      /\ \A j \in 1 .. (Len(f.ctl) - 1) : h.ctl[j] = f.ctl[j]
      /\ h.ctl[Len(f.ctl)] = c
      /\ h.ctl # <<>>
  BY <1>1, SetCtxCtl
<1>3. h.scopeDepth = f.scopeDepth /\ h.locs = f.locs
  BY <1>1 DEF SetCtx, Frames
<1> HIDE DEF h
<1> DEFINE g == EnterScope(h)
<1>4. /\ g \in Frames
      /\ g.ctl = h.ctl
      /\ g.scopeDepth = f.scopeDepth + 1
      /\ g.locs = f.locs
  <2>1. h.scopeDepth \in Nat  BY <1>2 DEF Frames
  <2>2. h.scopeDepth + 1 \in Nat  BY <2>1
  <2> DEFINE d == h.scopeDepth + 1
  <2>3. g = [h EXCEPT !.scopeDepth = d]  BY DEF EnterScope
  <2>4. d \in Nat  BY <2>2
  <2>5. d = f.scopeDepth + 1  BY <1>3
  <2> HIDE DEF d, g
  <2> QED  BY <1>2, <1>3, <2>3, <2>4, <2>5 DEF Frames
<1>5. Inmost(f) = f.ctl[Len(f.ctl)]  BY DEF Inmost
<1> HIDE DEF g
<1>6. RootIsBlock(g)
  <2>1. CASE Len(f.ctl) = 1  BY <1>2, <1>4, <1>5, <2>1 DEF Sound, RootIsBlock
  <2>2. CASE Len(f.ctl) # 1
    <3>1. 1 \in 1 .. (Len(f.ctl) - 1)
      <4>1. \A m \in Nat : m >= 1 /\ m # 1 => 1 \in 1 .. (m - 1)  OBVIOUS
      <4> QED  BY <1>2, <2>2, <4>1
    <3>2. f.ctl # <<>>  OBVIOUS
    <3> QED  BY <1>2, <1>4, <3>1 DEF Sound, RootIsBlock
  <2> QED  BY <2>1, <2>2
<1>7. OthersWait(g)  BY <1>2, <1>4 DEF Sound, OthersWait
<1>8. f.scopeDepth = Inmost(f).depth /\ Inner(c) = f.scopeDepth + 1
  <2>1. f.scopeDepth = Inner(Inmost(f))  BY <1>5 DEF Sound, DepthsMatch
  <2> QED  BY <2>1 DEF Inner
<1>9. DepthsMatch(g)
  <2>1. \A j \in 1 .. Len(g.ctl) : g.ctl[j].depth = IF j = 1 THEN 0 ELSE Inner(g.ctl[j - 1])
    <3> TAKE j \in 1 .. Len(g.ctl)
    <3>1. f.ctl[j].depth = IF j = 1 THEN 0 ELSE Inner(f.ctl[j - 1])
      BY <1>2, <1>4 DEF Sound, DepthsMatch
    <3>2. j # 1 => g.ctl[j - 1] = f.ctl[j - 1]  BY <1>2, <1>4
    <3>3. g.ctl[j].depth = f.ctl[j].depth
      <4>1. CASE j = Len(f.ctl)  BY <1>2, <1>4, <1>5, <4>1
      <4>2. CASE j # Len(f.ctl)  BY <1>2, <1>4, <4>2
      <4> QED  BY <4>1, <4>2
    <3> QED  BY <3>1, <3>2, <3>3
  <2> QED  BY <1>2, <1>4, <1>8, <2>1 DEF DepthsMatch
<1>10. LocalsLive(g)
  <2> SUFFICES ASSUME NEW b \in g.locs
               PROVE  \E j \in 1 .. Len(g.ctl) :
                        Opens(g.ctl[j]) /\ g.ctl[j].node = b.scope /\ Inner(g.ctl[j]) = b.depth
    BY DEF LocalsLive
  <2>1. PICK j \in 1 .. Len(f.ctl) :
          Opens(f.ctl[j]) /\ f.ctl[j].node = b.scope /\ Inner(f.ctl[j]) = b.depth
    BY <1>4 DEF Sound, LocalsLive
  <2>2. j # Len(f.ctl)  BY <1>5, <2>1
  <2>3. j \in 1 .. Len(g.ctl) /\ g.ctl[j] = f.ctl[j]  BY <1>2, <1>4, <2>2
  <2> QED  BY <2>1, <2>3
<1> QED  BY <1>4, <1>6, <1>7, <1>9, <1>10 DEF Sound, g, h

\* Fields the frame's soundness does not rest on.
LEMMA FieldsSound ==
  ASSUME NEW f, Sound(f), NEW g \in Frames,
         g.ctl = f.ctl, g.scopeDepth = f.scopeDepth, g.locs = f.locs
  PROVE  Sound(g)
  BY DEF Sound, RootIsBlock, OthersWait, DepthsMatch, LocalsLive

LEMMA ReachSound ==
  ASSUME NEW f, Sound(f), NEW n \in Statements, NEW ph \in Phases
  PROVE  /\ Sound(Reach(f, n, ph))
         /\ Reach(f, n, ph).ctl = f.ctl
         /\ Reach(f, n, ph).returning = f.returning
         /\ Reach(f, n, ph).jumping = f.jumping
<1>1. f \in Frames  BY DEF Sound
<1>2. <<n, ph>> \in Statements \X (Phases \cup {"enter"})  OBVIOUS
<1>3. /\ Reach(f, n, ph) \in Frames
      /\ Reach(f, n, ph).ctl = f.ctl
      /\ Reach(f, n, ph).scopeDepth = f.scopeDepth
      /\ Reach(f, n, ph).locs = f.locs
      /\ Reach(f, n, ph).returning = f.returning
      /\ Reach(f, n, ph).jumping = f.jumping
  BY <1>1, <1>2 DEF Reach, Frames
<1> QED  BY <1>3, FieldsSound

\* The frame of a handler or function that starts.
LEMMA NewFrameSound ==
  ASSUME NEW n \in Statements, Kind(n) = "block"
  PROVE  Sound(NewFrame(n)) /\ ~Unwinding(NewFrame(n))
<1> DEFINE c == [node |-> n, phase |-> "start", i |-> 0, calls |-> 0, depth |-> 0]
           g == NewFrame(n)
<1>1. c \in Contexts /\ c.node = n /\ c.phase = "start" /\ c.depth = 0
  BY DEF Contexts, Phases
<1> HIDE DEF c
<1>2. <<c>> \in Seq(Contexts) /\ Len(<<c>>) = 1 /\ <<c>>[1] = c /\ <<c>> # <<>>  BY <1>1
<1>3. <<n, "enter">> \in Statements \X (Phases \cup {"enter"})  OBVIOUS
<1>4. /\ g \in Frames /\ g.ctl = <<c>> /\ g.scopeDepth = 0 /\ g.locs = {}
      /\ g.returning = FALSE /\ g.jumping = NoName
  BY <1>2, <1>3 DEF NewFrame, Frames, c
<1> HIDE DEF g
<1>5. RootIsBlock(g)  BY <1>1, <1>2, <1>4 DEF RootIsBlock
<1>6. OthersWait(g)  BY <1>2, <1>4 DEF OthersWait
<1>7. DepthsMatch(g)  BY <1>1, <1>2, <1>4 DEF DepthsMatch, Inner, Opens
<1>8. LocalsLive(g)  BY <1>4 DEF LocalsLive
<1> QED  BY <1>4, <1>5, <1>6, <1>7, <1>8 DEF Sound, Unwinding, g

\* A declaration belongs to the innermost open scope, and there is one: above
\* it on the stack nothing is open, so the depth there is still the scope's.
LEMMA InnermostScope ==
  ASSUME NEW f, Sound(f), f.ctl # <<>>,
         ~Opens(Inmost(f)), Kind(Inmost(f).node) # "block"
  PROVE  \E j \in 1 .. Len(f.ctl) :
           Opens(f.ctl[j]) /\ f.ctl[j].node = Innermost(f) /\ Inner(f.ctl[j]) = f.scopeDepth
<1>1. f \in Frames  BY DEF Sound
<1>2. Inmost(f) = f.ctl[Len(f.ctl)] /\ Len(f.ctl) \in Nat \ {0}
  BY <1>1, InmostTyped
<1> DEFINE n == Len(f.ctl)
           open == {j \in 1 .. n : Opens(f.ctl[j])}
<1>3. DOMAIN f.ctl = 1 .. n  BY <1>1 DEF Frames
<1>4. 1 \in open
  <2>1. n # 1  BY <1>2 DEF Sound, RootIsBlock
  <2>2. 1 \in 1 .. (n - 1) /\ 1 \in 1 .. n
    <3>1. \A m \in Nat \ {0} : m # 1 => 1 \in 1 .. (m - 1) /\ 1 \in 1 .. m  OBVIOUS
    <3> QED  BY <1>2, <2>1, <3>1
  <2>3. Kind(f.ctl[1].node) = "block"  BY DEF Sound, RootIsBlock
  <2>4. f.ctl[1].phase = "body"  BY <2>2 DEF Sound, OthersWait, Waits
  <2> QED  BY <2>2, <2>3, <2>4 DEF Opens
<1>5. PICK m \in open : \A k \in open : k <= m
  <2> DEFINE T == {n - j : j \in open}
  <2>1. T \subseteq Nat  BY <1>2
  <2>2. T # {}  BY <1>4
  <2>3. PICK x \in T : \A y \in T : x <= y  BY <2>1, <2>2, LeastNumber
  <2>4. PICK m \in open : x = n - m  BY <2>3
  <2>5. \A k \in open : n - m <= n - k  BY <2>3, <2>4
  <2>6. \A k \in open : k <= m  BY <1>2, <2>5
  <2> QED  BY <2>6
<1>6. Innermost(f) = f.ctl[m].node
  <2>1. {j \in DOMAIN f.ctl : Opens(f.ctl[j])} = open  BY <1>3
  <2> HIDE DEF open
  <2>2. \A l \in open : (\A k \in open : k <= l) => l = m
    <3>1. open \subseteq Nat  BY <1>2 DEF open
    <3> QED  BY <1>5, <3>1
  <2>3. (CHOOSE j \in open : \A k \in open : k <= j) = m  BY <1>5, <2>2
  <2> QED  BY <2>1, <2>3 DEF Innermost
<1>7. \A k \in m .. n : Inner(f.ctl[k]) = Inner(f.ctl[m])
  <2> DEFINE T == {k \in m .. n : Inner(f.ctl[k]) # Inner(f.ctl[m])}
  <2> SUFFICES ASSUME T # {} PROVE FALSE  OBVIOUS
  <2>1. T \subseteq Nat  BY <1>2
  <2>2. PICK x \in T : \A y \in T : x <= y  BY <2>1, LeastNumber
  <2>3. /\ x \in Nat /\ m \in Nat /\ x # m /\ x >= m /\ x <= n /\ m >= 1
        /\ Inner(f.ctl[x]) # Inner(f.ctl[m])
    BY <1>2
  <2>4. (x - 1) \in m .. n /\ (x - 1) \notin T
    <3>1. x - 1 >= m /\ x - 1 <= n /\ ~(x <= x - 1)  BY <1>2, <2>3
    <3> QED  BY <1>2, <2>2, <2>3, <3>1
  <2>5. Inner(f.ctl[x - 1]) = Inner(f.ctl[m])  BY <2>4
  <2>6. x \in 1 .. n /\ x # 1 /\ ~(x <= m)  BY <1>2, <2>3
  <2>7. f.ctl[x].depth = Inner(f.ctl[x - 1])  BY <2>6 DEF Sound, DepthsMatch
  <2>8. ~Opens(f.ctl[x])  BY <1>5, <2>6
  <2> QED  BY <2>3, <2>5, <2>7, <2>8 DEF Inner
<1>8. n \in m .. n  BY <1>2
<1>9. f.scopeDepth = Inner(f.ctl[n])  BY DEF Sound, DepthsMatch
<1> QED  BY <1>5, <1>6, <1>7, <1>8, <1>9

LEMMA DefineSound ==
  ASSUME NEW f, Sound(f), f.ctl # <<>>,
         ~Opens(Inmost(f)), Kind(Inmost(f).node) # "block"
  PROVE  /\ Sound(Define(f)) /\ Define(f).ctl = f.ctl
         /\ Define(f).returning = f.returning /\ Define(f).jumping = f.jumping
<1>1. f \in Frames  BY DEF Sound
<1>2. PICK j \in 1 .. Len(f.ctl) :
        Opens(f.ctl[j]) /\ f.ctl[j].node = Innermost(f) /\ Inner(f.ctl[j]) = f.scopeDepth
  BY InnermostScope
<1> DEFINE b == [depth |-> f.scopeDepth, scope |-> Innermost(f)]
           locs == f.locs \cup {b}
           g == [f EXCEPT !.locs = locs]
<1>3. b \in Locals /\ b.depth = f.scopeDepth /\ b.scope = Innermost(f)
  <2>1. f.ctl[j] \in Contexts  BY <1>1 DEF Frames
  <2>2. f.ctl[j].node \in Statements  BY <2>1 DEF Contexts
  <2>3. f.scopeDepth \in Nat  BY <1>1 DEF Frames
  <2> QED  BY <1>2, <2>2, <2>3 DEF Locals
<1> HIDE DEF b
<1>4. locs \in SUBSET Locals  BY <1>1, <1>3 DEF Frames
<1>5. Define(f) = g  BY DEF Define, b
<1> HIDE DEF locs
<1>6. /\ g \in Frames /\ g.ctl = f.ctl /\ g.scopeDepth = f.scopeDepth /\ g.locs = locs
      /\ g.returning = f.returning /\ g.jumping = f.jumping
  BY <1>1, <1>4 DEF Frames
<1> HIDE DEF g
<1>7. LocalsLive(g)
  BY <1>2, <1>3, <1>6 DEF Sound, LocalsLive, locs
<1> QED  BY <1>5, <1>6, <1>7 DEF Sound, RootIsBlock, OthersWait, DepthsMatch

\* Moving about in a frame leaves its flags alone.
SameFlags(g, f) == g.returning = f.returning /\ g.jumping = f.jumping

LEMMA FlagsKept ==
  ASSUME NEW f \in Frames, NEW c, NEW n
  PROVE  /\ SameFlags(Finish(f), f)
         /\ SameFlags(SetCtx(f, c), f)
         /\ SameFlags(Exec(f, n), f)
         /\ SameFlags(EnterScope(f), f)
         /\ SameFlags(LeaveScope(f), f)
  BY DEF Frames, SameFlags, Finish, SetCtx, Exec, EnterScope, LeaveScope

LEMMA FlagsCarry ==
  ASSUME NEW f, NEW g, SameFlags(g, f)
  PROVE  Unwinding(g) = Unwinding(f) /\ OneFlag(g) = OneFlag(f)
  BY DEF SameFlags, Unwinding, OneFlag

\* The innermost statement comes to another phase.
LEMMA GotoSound ==
  ASSUME NEW f, Sound(f), f.ctl # <<>>, NEW ph \in Phases, ph # "start",
         Kind(Inmost(f).node) # "block",
         Kind(Inmost(f).node) = "for" => Inmost(f).phase # "start"
  PROVE  /\ Sound(Goto(f, ph)) /\ Goto(f, ph).ctl # <<>> /\ SameFlags(Goto(f, ph), f)
         /\ Inmost(Goto(f, ph)).node = Inmost(f).node
         /\ Inmost(Goto(f, ph)).phase = ph
         /\ Inmost(Goto(f, ph)).i = Inmost(f).i
<1> DEFINE c == [Inmost(f) EXCEPT !.phase = ph, !.calls = 0]
<1>1. f \in Frames  BY DEF Sound
<1>2. Inmost(f) \in Contexts  BY <1>1, InmostTyped
<1>3. /\ c \in Contexts /\ c.node = Inmost(f).node /\ c.depth = Inmost(f).depth
      /\ c.phase = ph /\ c.i = Inmost(f).i
  BY <1>2 DEF Contexts
<1>4. Goto(f, ph) = SetCtx(f, c)  BY DEF Goto
<1> HIDE DEF c
<1>5. Opens(c) = Opens(Inmost(f))  BY <1>3 DEF Opens
<1>6. SameFlags(SetCtx(f, c), f)  BY <1>1, FlagsKept
<1>7. Sound(SetCtx(f, c)) /\ SetCtx(f, c).ctl # <<>> /\ Inmost(SetCtx(f, c)) = c
  BY <1>3, <1>5, SetCtxSound
<1> QED  BY <1>3, <1>4, <1>6, <1>7

LEMMA EvalSound ==
  ASSUME NEW f, Sound(f), f.ctl # <<>>, NEW ph \in Phases, ph # "start",
         Kind(Inmost(f).node) # "block",
         Kind(Inmost(f).node) = "for" => Inmost(f).phase # "start"
  PROVE  Sound(Eval(f, ph)) /\ SameFlags(Eval(f, ph), f)
<1>1. Sound(Goto(f, ph)) /\ SameFlags(Goto(f, ph), f)  BY GotoSound
<1>2. f \in Frames  BY DEF Sound
<1>3. Inmost(f).node \in Statements  BY <1>2, InmostTyped DEF Contexts
<1> DEFINE h == Goto(f, ph)
           n == Inmost(f).node
<1>4. Eval(f, ph) = Reach(h, n, ph)  BY DEF Eval
<1> HIDE DEF h, n
<1>5. Sound(h) /\ n \in Statements /\ SameFlags(h, f)  BY <1>1, <1>3 DEF h, n
<1>6. Sound(Reach(h, n, ph)) /\ SameFlags(Reach(h, n, ph), h)
  BY <1>5, ReachSound DEF SameFlags
<1> QED  BY <1>4, <1>5, <1>6 DEF SameFlags

LEMMA CountSound ==
  ASSUME NEW f, Sound(f), f.ctl # <<>>, NEW i \in Nat
  PROVE  /\ Sound(Count(f, i)) /\ Count(f, i).ctl # <<>> /\ SameFlags(Count(f, i), f)
         /\ Inmost(Count(f, i)).node = Inmost(f).node
         /\ Inmost(Count(f, i)).phase = Inmost(f).phase
         /\ Inmost(Count(f, i)).i = i
<1> DEFINE c == [Inmost(f) EXCEPT !.i = i]
<1>1. f \in Frames  BY DEF Sound
<1>2. Inmost(f) \in Contexts  BY <1>1, InmostTyped
<1>3. /\ c \in Contexts /\ c.node = Inmost(f).node /\ c.depth = Inmost(f).depth
      /\ c.phase = Inmost(f).phase /\ c.i = i
  BY <1>2 DEF Contexts
<1>4. Count(f, i) = SetCtx(f, c)  BY DEF Count
<1> HIDE DEF c
<1>5. Opens(c) = Opens(Inmost(f))  BY <1>3 DEF Opens
<1>6. SameFlags(SetCtx(f, c), f)  BY <1>1, FlagsKept
<1>7. Sound(SetCtx(f, c)) /\ SetCtx(f, c).ctl # <<>> /\ Inmost(SetCtx(f, c)) = c
  BY <1>3, <1>5, SetCtxSound
<1> QED  BY <1>3, <1>4, <1>6, <1>7

LEMMA CallingSound ==
  ASSUME NEW f, Sound(f), f.ctl # <<>>
  PROVE  Sound(Calling(f)) /\ SameFlags(Calling(f), f)
<1> DEFINE c == [Inmost(f) EXCEPT !.calls = @ + 1]
<1>1. f \in Frames  BY DEF Sound
<1>2. Inmost(f) \in Contexts  BY <1>1, InmostTyped
<1>3. /\ c \in Contexts /\ c.node = Inmost(f).node /\ c.depth = Inmost(f).depth
      /\ c.phase = Inmost(f).phase
  <2>1. Inmost(f).calls + 1 \in Nat  BY <1>2 DEF Contexts
  <2> QED  BY <1>2, <2>1 DEF Contexts
<1>4. Calling(f) = SetCtx(f, c)  BY DEF Calling
<1> HIDE DEF c
<1>5. Opens(c) = Opens(Inmost(f))  BY <1>3 DEF Opens
<1>6. SameFlags(SetCtx(f, c), f)  BY <1>1, FlagsKept
<1>7. Sound(SetCtx(f, c))  BY <1>3, <1>5, SetCtxSound
<1> QED  BY <1>4, <1>6, <1>7

\* All wait when the innermost does.
LEMMA InmostWaits ==
  ASSUME NEW f, Sound(f), f.ctl # <<>>, Waits(Inmost(f))
  PROVE  AllWait(f)
<1>1. f \in Frames  BY DEF Sound
<1>2. Inmost(f) = f.ctl[Len(f.ctl)] /\ Len(f.ctl) \in Nat \ {0}  BY <1>1, InmostTyped
<1> SUFFICES ASSUME NEW j \in 1 .. Len(f.ctl) PROVE Waits(f.ctl[j])
  BY DEF AllWait
<1>3. CASE j = Len(f.ctl)  BY <1>2, <1>3
<1>4. CASE j # Len(f.ctl)
  <2>1. j \in 1 .. (Len(f.ctl) - 1)  BY <1>2, <1>4
  <2> QED  BY <2>1 DEF Sound, OthersWait
<1> QED  BY <1>3, <1>4

\* A frame whose innermost statement does not wait is not unwinding.
LEMMA NotUnwinding ==
  ASSUME NEW f, Sound(f), Clean(f), f.ctl # <<>>, ~Waits(Inmost(f))
  PROVE  ~Unwinding(f)
<1>1. f \in Frames  BY DEF Sound
<1>2. Inmost(f) = f.ctl[Len(f.ctl)] /\ Len(f.ctl) \in 1 .. Len(f.ctl)  BY <1>1, InmostTyped
<1> QED  BY <1>2 DEF Clean, AllWait

----------------------------------------------------------------------------
(* Steps *)

LEMMA TopFacts ==
  ASSUME IInv, Running
  PROVE  /\ Sound(Top) /\ Clean(Top) /\ Top \in Frames
         /\ Len(frames) \in Nat \ {0} /\ DOMAIN frames = 1 .. Len(frames)
<1>1. frames \in Seq(Frames) /\ frames # <<>>  BY DEF IInv, Running
<1>2. Len(frames) \in Nat \ {0} /\ DOMAIN frames = 1 .. Len(frames)  BY <1>1
<1>3. Len(frames) \in 1 .. Len(frames)  BY <1>2
<1>4. Sound(Top) /\ Clean(Top)  BY <1>3 DEF IInv, FramesSound, FlagsClean, Top
<1> QED  BY <1>2, <1>4 DEF Sound

\* What is said of a frame does not change while the program does not.
LEMMA SameProgram ==
  ASSUME NEW g, prog' = prog
  PROVE  (Sound(g) => Sound(g)') /\ (Clean(g) => Clean(g)') /\ (Unwinding(g)' = Unwinding(g))
<1>1. Statements' = Statements  BY DEF Statements
<1>2. Frames' = Frames
  BY <1>1 DEF Frames, Contexts, Locals
<1>3. \A n : Kind(n)' = Kind(n)  BY DEF Kind
<1>4. \A c : Opens(c)' = Opens(c)  BY <1>3 DEF Opens
<1>5. \A c : Inner(c)' = Inner(c)  BY <1>4 DEF Inner
<1>6. \A c : Waits(c)' = Waits(c)  BY <1>3 DEF Waits
<1>7. RootIsBlock(g) => RootIsBlock(g)'  BY <1>3 DEF RootIsBlock
<1>8. OthersWait(g) => OthersWait(g)'  BY <1>6 DEF OthersWait
<1>9. DepthsMatch(g) => DepthsMatch(g)'  BY <1>5 DEF DepthsMatch
<1>10. LocalsLive(g) => LocalsLive(g)'  BY <1>4, <1>5 DEF LocalsLive
<1>11. AllWait(g) => AllWait(g)'  BY <1>6 DEF AllWait
<1>12. Unwinding(g)' = Unwinding(g)  BY DEF Unwinding
<1>13. OneFlag(g) => OneFlag(g)'  BY DEF OneFlag
<1> QED  BY <1>2, <1>7, <1>8, <1>9, <1>10, <1>11, <1>12, <1>13 DEF Sound, Clean

\* A step of the running frame alone, to one that is sound and clean.
StepsTo(g) == Sound(g) /\ Clean(g) /\ SetTop(g)

LEMMA TopStep ==
  ASSUME IInv, Running, UNCHANGED prog, pending' \in BOOLEAN, \E g : StepsTo(g)
  PROVE  IInv'
<1>1. PICK g : StepsTo(g)  OBVIOUS
<1> DEFINE n == Len(frames)
<1>2. /\ n \in Nat \ {0} /\ DOMAIN frames = 1 .. n /\ frames \in Seq(Frames)
  BY TopFacts DEF IInv
<1>3. g \in Frames /\ Sound(g) /\ Clean(g) /\ frames' = [frames EXCEPT ![n] = g]
  BY <1>1 DEF StepsTo, SetTop, Sound
<1>4. frames' \in Seq(Frames) /\ Len(frames') = n  BY <1>2, <1>3
<1>5. \A k \in 1 .. n : frames'[k] = IF k = n THEN g ELSE frames[k]  BY <1>2, <1>3
<1>6. frames' \in Seq(Frames)'
  <2>1. Frames' = Frames
    <3>1. Statements' = Statements  BY DEF Statements
    <3> QED  BY <3>1 DEF Frames, Contexts, Locals
  <2> QED  BY <1>4, <2>1
<1>7. \A k \in 1 .. n : Sound(frames'[k]) /\ Clean(frames'[k])
  BY <1>3, <1>5 DEF IInv, FramesSound, FlagsClean
<1>8. \A k \in 1 .. n : Unwinding(frames'[k]) => k = n
  BY <1>5 DEF IInv, FlagsClean
<1>9. \A h : /\ Sound(h) => Sound(h)'
             /\ Clean(h) => Clean(h)'
             /\ Unwinding(h)' = Unwinding(h)
  BY SameProgram
<1>10. FramesSound' /\ FlagsClean'
  BY <1>4, <1>7, <1>8, <1>9 DEF FramesSound, FlagsClean
<1> QED  BY <1>6, <1>10 DEF IInv

\* The running frame as an action finds it that is at phase ph.
LEMMA AtFacts ==
  ASSUME IInv, NEW kinds, NEW ph, At(kinds, ph)
  PROVE  \E f : /\ f = Top /\ Running
                /\ Sound(f) /\ Clean(f) /\ f \in Frames /\ f.ctl # <<>>
                /\ Inmost(f) = Ctx /\ Ctx \in Contexts /\ Ctx.node \in Statements
                /\ Kind(Ctx.node) \in kinds /\ Ctx.phase = ph
                /\ ph # "body" => ~Unwinding(f)
<1>1. Running /\ Top.ctl # <<>> /\ Kind(Ctx.node) \in kinds /\ Ctx.phase = ph  BY DEF At
<1>2. PICK f : f = Top  OBVIOUS
<1>3. Sound(f) /\ Clean(f) /\ f \in Frames /\ f.ctl # <<>>  BY <1>1, <1>2, TopFacts
<1>4. Inmost(f) = Ctx  BY <1>2 DEF Ctx
<1>5. Ctx \in Contexts  BY <1>3, <1>4, InmostTyped
<1>6. Ctx.node \in Statements  BY <1>5 DEF Contexts
<1>7. ph # "body" => ~Unwinding(f)  BY <1>1, <1>3, <1>4, NotUnwinding DEF Waits
<1> QED  BY <1>1, <1>2, <1>3, <1>4, <1>5, <1>6, <1>7

\* The innermost statement returns, and had no scope of its own.
LEMMA FinishStep ==
  ASSUME NEW f, Sound(f), f.ctl # <<>>, ~Opens(Inmost(f)), OneFlag(f)
  PROVE  Sound(Finish(f)) /\ Clean(Finish(f))
<1>1. f \in Frames  BY DEF Sound
<1>2. Sound(Finish(f)) /\ AllWait(Finish(f))  BY FinishSound
<1>3. SameFlags(Finish(f), f)  BY <1>1, FlagsKept
<1>4. OneFlag(Finish(f))  BY <1>3, FlagsCarry
<1> QED  BY <1>2, <1>4 DEF Clean

\* vm_exec is called for a sub-statement.
LEMMA ExecStep ==
  ASSUME NEW f, Sound(f), AllWait(f), f.ctl # <<>>, ~Unwinding(f), NEW n \in Statements
  PROVE  Sound(Exec(f, n)) /\ Clean(Exec(f, n))
<1>1. f \in Frames  BY DEF Sound
<1>2. Sound(Exec(f, n))  BY ExecSound
<1>3. SameFlags(Exec(f, n), f)  BY <1>1, FlagsKept
<1>4. ~Unwinding(Exec(f, n))  BY <1>3, FlagsCarry
<1> QED  BY <1>2, <1>4 DEF Clean

LEMMA SkipStep ==
  ASSUME IInv, Skip
  PROVE  \E g : StepsTo(g)
<1>1. At(Kinds, "start")  BY DEF Skip
<1>2. PICK f : /\ f = Top /\ Running
               /\ Sound(f) /\ Clean(f) /\ f \in Frames /\ f.ctl # <<>>
               /\ Inmost(f) = Ctx /\ Ctx \in Contexts /\ Ctx.node \in Statements
               /\ Kind(Ctx.node) \in Kinds /\ Ctx.phase = "start"
               /\ "start" # "body" => ~Unwinding(f)
  BY <1>1, AtFacts
<1>3. ~Unwinding(f)  BY <1>2
<1> DEFINE h == Reach(f, Ctx.node, "eval")
<1>4. /\ Sound(h) /\ h.ctl = f.ctl /\ SameFlags(h, f)
  BY <1>2, ReachSound DEF Phases, SameFlags
<1>5. SetTop(Finish(h))  BY <1>2, <1>3 DEF Skip
<1> HIDE DEF h
<1>6. Inmost(h) = Ctx  BY <1>2, <1>4 DEF Inmost
<1>7. ~Opens(Inmost(h))  BY <1>2, <1>6 DEF Opens
<1>8. OneFlag(h)  BY <1>3, <1>4, FlagsCarry DEF Unwinding, OneFlag
<1>9. Sound(Finish(h)) /\ Clean(Finish(h))  BY <1>2, <1>4, <1>7, <1>8, FinishStep
<1> QED  BY <1>5, <1>9 DEF StepsTo

LEMMA EvalStep ==
  ASSUME IInv, NEW kinds, NEW ph, NEW to \in Phases, At(kinds, ph), to # "start",
         ~Unwinding(Top), "block" \notin kinds, "for" \in kinds => ph # "start",
         SetTop(Eval(Top, to))
  PROVE  \E g : StepsTo(g)
<1>1. PICK f : /\ f = Top /\ Running
               /\ Sound(f) /\ Clean(f) /\ f \in Frames /\ f.ctl # <<>>
               /\ Inmost(f) = Ctx /\ Ctx \in Contexts /\ Ctx.node \in Statements
               /\ Kind(Ctx.node) \in kinds /\ Ctx.phase = ph
               /\ ph # "body" => ~Unwinding(f)
  BY AtFacts
<1>2. Sound(Eval(f, to)) /\ SameFlags(Eval(f, to), f)  BY <1>1, EvalSound
<1>3. ~Unwinding(Eval(f, to))  BY <1>1, <1>2, FlagsCarry
<1> QED  BY <1>1, <1>2, <1>3 DEF StepsTo, Clean

\* Statements that are done once their expression is evaluated.
LEMMA EvaluatedStep ==
  ASSUME IInv, Evaluated
  PROVE  \E g : StepsTo(g)
<1>1. At({"expr"}, "eval")  BY DEF Evaluated
<1>2. PICK f : /\ f = Top /\ Running
               /\ Sound(f) /\ Clean(f) /\ f \in Frames /\ f.ctl # <<>>
               /\ Inmost(f) = Ctx /\ Ctx \in Contexts /\ Ctx.node \in Statements
               /\ Kind(Ctx.node) \in {"expr"} /\ Ctx.phase = "eval"
               /\ "eval" # "body" => ~Unwinding(f)
  BY <1>1, AtFacts
<1>3. ~Opens(Inmost(f)) /\ OneFlag(f)  BY <1>2 DEF Opens, Unwinding, OneFlag
<1>4. Sound(Finish(f)) /\ Clean(Finish(f))  BY <1>2, <1>3, FinishStep
<1> QED  BY <1>2, <1>4 DEF StepsTo, Evaluated

LEMMA DeclareStep ==
  ASSUME IInv, Declare
  PROVE  \E g : StepsTo(g)
<1>1. At({"decl"}, "eval")  BY DEF Declare
<1>2. PICK f : /\ f = Top /\ Running
               /\ Sound(f) /\ Clean(f) /\ f \in Frames /\ f.ctl # <<>>
               /\ Inmost(f) = Ctx /\ Ctx \in Contexts /\ Ctx.node \in Statements
               /\ Kind(Ctx.node) \in {"decl"} /\ Ctx.phase = "eval"
               /\ "eval" # "body" => ~Unwinding(f)
  BY <1>1, AtFacts
<1>3. ~Opens(Inmost(f)) /\ OneFlag(f) /\ Kind(Inmost(f).node) # "block"
  BY <1>2 DEF Opens, Unwinding, OneFlag
<1> DEFINE h == Define(f)
<1>4. Sound(h) /\ h.ctl = f.ctl /\ SameFlags(h, f)  BY <1>2, <1>3, DefineSound DEF SameFlags
<1> HIDE DEF h
<1>5. Inmost(h) = Inmost(f) /\ h.ctl # <<>>  BY <1>2, <1>4 DEF Inmost
<1>6. OneFlag(h)  BY <1>3, <1>4, FlagsCarry
<1>7. Sound(Finish(h)) /\ Clean(Finish(h))  BY <1>3, <1>4, <1>5, <1>6, FinishStep
<1> QED  BY <1>2, <1>7 DEF StepsTo, Declare, h

\* A return and a jump set one flag of a frame that had none.
LEMMA ReturnStep ==
  ASSUME IInv, Return
  PROVE  \E g : StepsTo(g)
<1>1. At({"return"}, "eval")  BY DEF Return
<1>2. PICK f : /\ f = Top /\ Running
               /\ Sound(f) /\ Clean(f) /\ f \in Frames /\ f.ctl # <<>>
               /\ Inmost(f) = Ctx /\ Ctx \in Contexts /\ Ctx.node \in Statements
               /\ Kind(Ctx.node) \in {"return"} /\ Ctx.phase = "eval"
               /\ "eval" # "body" => ~Unwinding(f)
  BY <1>1, AtFacts
<1> DEFINE h == [f EXCEPT !.returning = TRUE]
<1>3. /\ h \in Frames /\ h.ctl = f.ctl /\ h.scopeDepth = f.scopeDepth /\ h.locs = f.locs
      /\ h.jumping = f.jumping
  BY <1>2 DEF Frames
<1> HIDE DEF h
<1>4. Sound(h)  BY <1>2, <1>3, FieldsSound
<1>5. Inmost(h) = Inmost(f) /\ h.ctl # <<>>  BY <1>2, <1>3 DEF Inmost
<1>6. ~Opens(Inmost(h))  BY <1>2, <1>5 DEF Opens
<1>7. OneFlag(h)  BY <1>2, <1>3 DEF OneFlag, Unwinding
<1>8. Sound(Finish(h)) /\ Clean(Finish(h))  BY <1>4, <1>5, <1>6, <1>7, FinishStep
<1> QED  BY <1>2, <1>8 DEF StepsTo, Return, h

LEMMA JumpStep ==
  ASSUME IInv, Jump
  PROVE  \E g : StepsTo(g)
<1>1. At({"jump"}, "start")  BY DEF Jump, Ready
<1>2. PICK f : /\ f = Top /\ Running
               /\ Sound(f) /\ Clean(f) /\ f \in Frames /\ f.ctl # <<>>
               /\ Inmost(f) = Ctx /\ Ctx \in Contexts /\ Ctx.node \in Statements
               /\ Kind(Ctx.node) \in {"jump"} /\ Ctx.phase = "start"
               /\ "start" # "body" => ~Unwinding(f)
  BY <1>1, AtFacts
<1> DEFINE e == [f EXCEPT !.jumping = Name(Ctx.node)]
           h == Reach(e, Ctx.node, "eval")
<1>3. Name(Ctx.node) \in prog.names \cup {NoName}  BY <1>2, Trees DEF IInv
<1>4. /\ e \in Frames /\ e.ctl = f.ctl /\ e.scopeDepth = f.scopeDepth /\ e.locs = f.locs
      /\ e.returning = f.returning
  BY <1>2, <1>3 DEF Frames
<1> HIDE DEF e
<1>5. Sound(e)  BY <1>2, <1>4, FieldsSound
<1>6. Sound(h) /\ h.ctl = f.ctl /\ h.returning = f.returning
  BY <1>2, <1>4, <1>5, ReachSound DEF Phases
<1> HIDE DEF h
<1>7. Inmost(h) = Inmost(f) /\ h.ctl # <<>>  BY <1>2, <1>6 DEF Inmost
<1>8. ~Opens(Inmost(h))  BY <1>2, <1>7 DEF Opens
<1>9. OneFlag(h)  BY <1>2, <1>6 DEF OneFlag, Unwinding
<1>10. Sound(Finish(h)) /\ Clean(Finish(h))  BY <1>6, <1>7, <1>8, <1>9, FinishStep
<1> QED  BY <1>2, <1>10 DEF StepsTo, Jump, e, h

LEMMA ChangeStateStep ==
  ASSUME IInv, ChangeState
  PROVE  \E g : StepsTo(g)
<1>1. At({"state"}, "start")  BY DEF ChangeState, Ready
<1>2. PICK f : /\ f = Top /\ Running
               /\ Sound(f) /\ Clean(f) /\ f \in Frames /\ f.ctl # <<>>
               /\ Inmost(f) = Ctx /\ Ctx \in Contexts /\ Ctx.node \in Statements
               /\ Kind(Ctx.node) \in {"state"} /\ Ctx.phase = "start"
               /\ "start" # "body" => ~Unwinding(f)
  BY <1>1, AtFacts
<1> DEFINE h == Reach(f, Ctx.node, "eval")
<1>3. Sound(h) /\ h.ctl = f.ctl /\ SameFlags(h, f)
  BY <1>2, ReachSound DEF Phases, SameFlags
<1> HIDE DEF h
<1>4. Inmost(h) = Inmost(f) /\ h.ctl # <<>>  BY <1>2, <1>3 DEF Inmost
<1>5. ~Opens(Inmost(h))  BY <1>2, <1>4 DEF Opens
<1>6. OneFlag(h)  BY <1>2, <1>3, FlagsCarry DEF OneFlag, Unwinding
<1>7. Sound(Finish(h)) /\ Clean(Finish(h))  BY <1>3, <1>4, <1>5, <1>6, FinishStep
<1> QED  BY <1>2, <1>7 DEF StepsTo, ChangeState, h

\* An if is never the whole of a function, so something waits below it.
LEMMA BranchStep ==
  ASSUME IInv, Branch
  PROVE  \E g : StepsTo(g)
<1>1. At({"if"}, "eval")  BY DEF Branch
<1>2. PICK f : /\ f = Top /\ Running
               /\ Sound(f) /\ Clean(f) /\ f \in Frames /\ f.ctl # <<>>
               /\ Inmost(f) = Ctx /\ Ctx \in Contexts /\ Ctx.node \in Statements
               /\ Kind(Ctx.node) \in {"if"} /\ Ctx.phase = "eval"
               /\ "eval" # "body" => ~Unwinding(f)
  BY <1>1, AtFacts
<1>3. ~Opens(Inmost(f)) /\ OneFlag(f)  BY <1>2 DEF Opens, Unwinding, OneFlag
<1> DEFINE h == Finish(f)
<1>4. Sound(h) /\ AllWait(h)  BY <1>2, <1>3, FinishSound
<1>5. Sound(h) /\ Clean(h)  BY <1>2, <1>3, FinishStep
<1>6. ~Unwinding(h)
  <2>1. SameFlags(h, f)  BY <1>2, FlagsKept
  <2> QED  BY <1>2, <2>1, FlagsCarry
<1>7. h.ctl # <<>>
  <2>1. (Len(f.ctl) = 1) = (h.ctl = <<>>)  BY <1>2, FinishCtl
  <2>2. Kind(f.ctl[1].node) = "block"  BY <1>2 DEF Sound, RootIsBlock
  <2>3. Len(f.ctl) # 1  BY <1>2, <2>2 DEF Inmost
  <2> QED  BY <2>1, <2>3
<1>8. CASE SetTop(Finish(Top))  BY <1>2, <1>5, <1>8 DEF StepsTo
<1>9. ASSUME NEW k \in DOMAIN Kids(Ctx.node), SetTop(Exec(Finish(Top), Kids(Ctx.node)[k]))
      PROVE  \E g : StepsTo(g)
  <2>1. Kids(Ctx.node) \in Seq(Statements)  BY <1>2, Trees DEF IInv
  <2>2. PICK n \in Statements : n = Kids(Ctx.node)[k]  BY <1>9, <2>1, SeqElement
  <2> HIDE DEF h
  <2>3. Sound(Exec(h, n)) /\ Clean(Exec(h, n))  BY <1>4, <1>6, <1>7, ExecStep
  <2> QED  BY <1>2, <1>9, <2>2, <2>3 DEF StepsTo, h
<1> QED  BY <1>8, <1>9 DEF Branch

\* A statement has the types and the place its context gives it.
LEMMA OpenBlockStep ==
  ASSUME IInv, OpenBlock
  PROVE  \E g : StepsTo(g)
<1>1. At({"block"}, "start")  BY DEF OpenBlock, Ready
<1>2. PICK f : /\ f = Top /\ Running
               /\ Sound(f) /\ Clean(f) /\ f \in Frames /\ f.ctl # <<>>
               /\ Inmost(f) = Ctx /\ Ctx \in Contexts /\ Ctx.node \in Statements
               /\ Kind(Ctx.node) \in {"block"} /\ Ctx.phase = "start"
               /\ "start" # "body" => ~Unwinding(f)
  BY <1>1, AtFacts
<1> DEFINE c == [Inmost(f) EXCEPT !.phase = "body", !.calls = 0]
<1>3. /\ c \in Contexts /\ c.node = Inmost(f).node /\ c.depth = Inmost(f).depth
      /\ c.phase = "body"
  BY <1>2 DEF Contexts, Phases
<1>4. Goto(f, "body") = SetCtx(f, c)  BY DEF Goto
<1> HIDE DEF c
<1>5. ~Opens(Inmost(f)) /\ Opens(c)  BY <1>2, <1>3 DEF Opens
<1> DEFINE h == SetCtx(f, c)
           g == EnterScope(h)
<1>6. Sound(g)  BY <1>2, <1>3, <1>5, OpenSound
<1>7. ~Unwinding(g)
  <2>1. SameFlags(h, f)  BY <1>2, FlagsKept
  <2>2. h \in Frames  BY <1>2, <1>3, SetCtxCtl
  <2>3. SameFlags(g, h)  BY <2>2, FlagsKept
  <2> QED  BY <1>2, <2>1, <2>3, FlagsCarry
<1>8. SetTop(g)  BY <1>2, <1>4 DEF OpenBlock
<1> QED  BY <1>6, <1>7, <1>8 DEF StepsTo, Clean

\* find_label_in finds the first of the labels, if there is one.
LEMMA LabelFound ==
  ASSUME prog \in Programs, NEW n \in Statements, NEW l, HasLabel(n, l)
  PROVE  FindLabel(n, l) \in Nat
<1>1. Kids(n) \in Seq(Statements)  BY Trees
<1> DEFINE T == {k \in DOMAIN Kids(n) : IsLabel(n, k, l)}
<1>2. DOMAIN Kids(n) \subseteq Nat  BY <1>1
<1>3. T \subseteq Nat /\ T # {}  BY <1>2 DEF HasLabel
<1>4. PICK k \in T : \A m \in T : k <= m  BY <1>3, LeastNumber
<1>5. \A m \in 1 .. (k - 1) : ~IsLabel(n, m, l)
  <2> TAKE m \in 1 .. (k - 1)
  <2>1. m \in DOMAIN Kids(n)  BY <1>1
  <2>2. ~(k <= m)  BY <1>3
  <2> QED  BY <1>4, <2>1, <2>2
<1>6. \E j \in DOMAIN Kids(n) : IsLabel(n, j, l) /\ \A m \in 1 .. (j - 1) : ~IsLabel(n, m, l)
  BY <1>4, <1>5
<1>7. FindLabel(n, l) \in DOMAIN Kids(n)  BY <1>6 DEF FindLabel
<1> QED  BY <1>2, <1>7

LEMMA TakeJumpStep ==
  ASSUME IInv, TakeJump
  PROVE  \E g : StepsTo(g)
<1>1. At({"block"}, "body") /\ Caught  BY DEF TakeJump
<1>2. PICK f : /\ f = Top /\ Running
               /\ Sound(f) /\ Clean(f) /\ f \in Frames /\ f.ctl # <<>>
               /\ Inmost(f) = Ctx /\ Ctx \in Contexts /\ Ctx.node \in Statements
               /\ Kind(Ctx.node) \in {"block"} /\ Ctx.phase = "body"
               /\ "body" # "body" => ~Unwinding(f)
  BY <1>1, AtFacts
<1> DEFINE h == [f EXCEPT !.jumping = NoName]
           i == FindLabel(Ctx.node, Top.jumping)
<1>3. i \in Nat  BY <1>1, <1>2, LabelFound DEF Caught, IInv
<1>4. /\ h \in Frames /\ h.ctl = f.ctl /\ h.scopeDepth = f.scopeDepth /\ h.locs = f.locs
      /\ h.returning = f.returning /\ h.jumping = NoName
  BY <1>2 DEF Frames
<1>5. SetTop(Count(h, i))  BY <1>2 DEF TakeJump
<1> HIDE DEF h, i
<1>6. Sound(h)  BY <1>2, <1>4, FieldsSound
<1>7. ~Unwinding(h)  BY <1>1, <1>2, <1>4 DEF Caught, Unwinding
<1>8. h.ctl # <<>>  BY <1>2, <1>4
<1>9. Sound(Count(h, i)) /\ SameFlags(Count(h, i), h)  BY <1>3, <1>6, <1>8, CountSound
<1>10. ~Unwinding(Count(h, i))  BY <1>7, <1>9, FlagsCarry
<1> QED  BY <1>5, <1>9, <1>10 DEF StepsTo, Clean

LEMMA NextStatementStep ==
  ASSUME IInv, NextStatement
  PROVE  \E g : StepsTo(g)
<1>1. At({"block"}, "body") /\ ~Broken  BY DEF NextStatement
<1>2. PICK f : /\ f = Top /\ Running
               /\ Sound(f) /\ Clean(f) /\ f \in Frames /\ f.ctl # <<>>
               /\ Inmost(f) = Ctx /\ Ctx \in Contexts /\ Ctx.node \in Statements
               /\ Kind(Ctx.node) \in {"block"} /\ Ctx.phase = "body"
               /\ "body" # "body" => ~Unwinding(f)
  BY <1>1, AtFacts
<1>3. Ctx.i \in Nat  BY <1>2 DEF Contexts
<1>4. ~Unwinding(f)
  <2>1. CASE Ctx.i > 0  BY <1>1, <1>2, <2>1 DEF Broken
  <2>2. CASE ~(Ctx.i > 0)
    <3>1. ~Waits(Inmost(f))  BY <1>2, <2>2 DEF Waits
    <3> QED  BY <1>2, <3>1, NotUnwinding
  <2> QED  BY <2>1, <2>2
<1> DEFINE j == Ctx.i + 1
           h == Count(f, j)
<1>5. j \in Nat /\ j > 0 /\ j \in 1 .. Len(Kids(Ctx.node))
  <2>1. Kids(Ctx.node) \in Seq(Statements)  BY <1>2, Trees DEF IInv
  <2>2. Len(Kids(Ctx.node)) \in Nat /\ Ctx.i < Len(Kids(Ctx.node))
    BY <2>1 DEF NextStatement
  <2> QED  BY <1>3, <2>2
<1>6. PICK n \in Statements : n = Kids(Ctx.node)[j]
  <2>1. Kids(Ctx.node) \in Seq(Statements)  BY <1>2, Trees DEF IInv
  <2> QED  BY <1>5, <2>1
<1>7. SetTop(Exec(h, n))  BY <1>2, <1>6 DEF NextStatement
<1> HIDE DEF j
<1>8. /\ Sound(h) /\ h.ctl # <<>> /\ SameFlags(h, f)
      /\ Inmost(h).node = Ctx.node /\ Inmost(h).phase = "body" /\ Inmost(h).i = j
  BY <1>2, <1>5, CountSound
<1> HIDE DEF h
<1>9. AllWait(h)
  <2>1. Waits(Inmost(h))  BY <1>5, <1>8 DEF Waits
  <2> QED  BY <1>8, <2>1, InmostWaits
<1>10. ~Unwinding(h)  BY <1>4, <1>8, FlagsCarry
<1>11. Sound(Exec(h, n)) /\ Clean(Exec(h, n))  BY <1>8, <1>9, <1>10, ExecStep
<1> QED  BY <1>7, <1>11 DEF StepsTo

\* A block or for returns.
LEMMA LeaveStep ==
  ASSUME NEW f, Sound(f), f.ctl # <<>>, Opens(Inmost(f)), OneFlag(f)
  PROVE  Sound(Finish(LeaveScope(f))) /\ Clean(Finish(LeaveScope(f)))
<1>1. f \in Frames  BY DEF Sound
<1> DEFINE h == LeaveScope(f)
<1>2. Sound(Finish(h)) /\ AllWait(Finish(h))  BY LeaveSound
<1>3. OneFlag(Finish(h))
  BY <1>1 DEF OneFlag, Finish, LeaveScope, Frames
<1> QED  BY <1>2, <1>3 DEF Clean

LEMMA CloseBlockStep ==
  ASSUME IInv, CloseBlock
  PROVE  \E g : StepsTo(g)
<1>1. At({"block"}, "body")  BY DEF CloseBlock
<1>2. PICK f : /\ f = Top /\ Running
               /\ Sound(f) /\ Clean(f) /\ f \in Frames /\ f.ctl # <<>>
               /\ Inmost(f) = Ctx /\ Ctx \in Contexts /\ Ctx.node \in Statements
               /\ Kind(Ctx.node) \in {"block"} /\ Ctx.phase = "body"
               /\ "body" # "body" => ~Unwinding(f)
  BY <1>1, AtFacts
<1>3. Opens(Inmost(f))  BY <1>2 DEF Opens
<1>4. OneFlag(f)  BY <1>2 DEF Clean, Unwinding, OneFlag
<1>5. Sound(Finish(LeaveScope(f))) /\ Clean(Finish(LeaveScope(f)))  BY <1>2, <1>3, <1>4, LeaveStep
<1> QED  BY <1>2, <1>5 DEF StepsTo, CloseBlock

\* A loop calls vm_exec for its body: h is the frame counted on or not.
LEMMA BodyStep ==
  ASSUME IInv, NEW h, Sound(h), h.ctl # <<>>, ~Unwinding(h), h \in Frames,
         Inmost(h).node = Ctx.node, Ctx.node \in Statements, Kind(Ctx.node) \in Loops,
         Kind(Ctx.node) = "for" => Inmost(h).phase # "start"
  PROVE  Sound(Exec(Goto(h, "body"), Body)) /\ Clean(Exec(Goto(h, "body"), Body))
<1>1. Kind(Ctx.node) # "block"  BY DEF Loops
<1> DEFINE e == Goto(h, "body")
<1>2. /\ Sound(e) /\ e.ctl # <<>> /\ SameFlags(e, h)
      /\ Inmost(e).node = Ctx.node /\ Inmost(e).phase = "body"
  BY <1>1, GotoSound DEF Phases
<1> HIDE DEF e
<1>3. AllWait(e)  BY <1>1, <1>2, InmostWaits DEF Waits
<1>4. ~Unwinding(e)  BY <1>2, FlagsCarry
<1>5. PICK n \in Statements : n = Body
  <2>1. Kids(Ctx.node) \in Seq(Statements) /\ Len(Kids(Ctx.node)) = 1  BY Trees DEF IInv
  <2> QED  BY <2>1 DEF Body
<1>6. Sound(Exec(e, n)) /\ Clean(Exec(e, n))  BY <1>2, <1>3, <1>4, ExecStep
<1> QED  BY <1>5, <1>6 DEF e

LEMMA StartDoStep ==
  ASSUME IInv, StartDo
  PROVE  \E g : StepsTo(g)
<1>1. At({"do"}, "start")  BY DEF StartDo, Ready
<1>2. PICK f : /\ f = Top /\ Running
               /\ Sound(f) /\ Clean(f) /\ f \in Frames /\ f.ctl # <<>>
               /\ Inmost(f) = Ctx /\ Ctx \in Contexts /\ Ctx.node \in Statements
               /\ Kind(Ctx.node) \in {"do"} /\ Ctx.phase = "start"
               /\ "start" # "body" => ~Unwinding(f)
  BY <1>1, AtFacts
<1>3. Kind(Ctx.node) \in Loops /\ Kind(Ctx.node) # "for"  BY <1>2 DEF Loops
<1>4. Sound(Exec(Goto(f, "body"), Body)) /\ Clean(Exec(Goto(f, "body"), Body))
  BY <1>2, <1>3, BodyStep
<1> QED  BY <1>2, <1>4 DEF StepsTo, StartDo

LEMMA StartForStep ==
  ASSUME IInv, StartFor
  PROVE  \E g : StepsTo(g)
<1>1. At({"for"}, "start")  BY DEF StartFor, Ready
<1>2. PICK f : /\ f = Top /\ Running
               /\ Sound(f) /\ Clean(f) /\ f \in Frames /\ f.ctl # <<>>
               /\ Inmost(f) = Ctx /\ Ctx \in Contexts /\ Ctx.node \in Statements
               /\ Kind(Ctx.node) \in {"for"} /\ Ctx.phase = "start"
               /\ "start" # "body" => ~Unwinding(f)
  BY <1>1, AtFacts
<1> DEFINE c == [Inmost(f) EXCEPT !.phase = "init", !.calls = 0]
<1>3. /\ c \in Contexts /\ c.node = Inmost(f).node /\ c.depth = Inmost(f).depth
      /\ c.phase = "init"
  BY <1>2 DEF Contexts, Phases
<1>4. Goto(f, "init") = SetCtx(f, c)  BY DEF Goto
<1> HIDE DEF c
<1>5. ~Opens(Inmost(f)) /\ Opens(c)  BY <1>2, <1>3 DEF Opens
<1> DEFINE h == SetCtx(f, c)
           e == Reach(h, Ctx.node, "init")
<1>6. Sound(EnterScope(h))  BY <1>2, <1>3, <1>5, OpenSound
<1>7. h \in Frames /\ SameFlags(h, f)  BY <1>2, <1>3, SetCtxCtl, FlagsKept
<1>8. SetTop(EnterScope(e))  BY <1>2, <1>4 DEF StartFor, Eval
<1> HIDE DEF h
<1>9. /\ EnterScope(h).ctl = h.ctl
      /\ EnterScope(h).scopeDepth = h.scopeDepth + 1
      /\ EnterScope(h).locs = h.locs
      /\ h.scopeDepth \in Nat
  BY <1>7 DEF EnterScope, Frames
<1>10. /\ e \in Frames /\ e.ctl = h.ctl /\ e.scopeDepth = h.scopeDepth /\ e.locs = h.locs
       /\ SameFlags(e, h)
  <2>1. <<Ctx.node, "init">> \in Statements \X (Phases \cup {"enter"})  BY <1>2 DEF Phases
  <2> QED  BY <1>7, <2>1 DEF Reach, Frames, SameFlags
<1> HIDE DEF e
<1> DEFINE d == e.scopeDepth + 1
           g == [e EXCEPT !.scopeDepth = d]
<1>11. d \in Nat /\ d = h.scopeDepth + 1  BY <1>9, <1>10
<1>12. EnterScope(e) = g  BY DEF EnterScope
<1> HIDE DEF d
<1>13. /\ g \in Frames /\ g.ctl = h.ctl /\ g.scopeDepth = d /\ g.locs = h.locs
       /\ SameFlags(g, e)
  BY <1>10, <1>11 DEF Frames, SameFlags
<1> HIDE DEF g
<1>14. Sound(g)  BY <1>6, <1>9, <1>11, <1>13, FieldsSound
<1>15. ~Unwinding(g)  BY <1>2, <1>7, <1>10, <1>13, FlagsCarry
<1> QED  BY <1>8, <1>12, <1>14, <1>15 DEF StepsTo, Clean

LEMMA IterateStep ==
  ASSUME IInv, Iterate
  PROVE  \E g : StepsTo(g)
<1>1. At(Loops, "eval")  BY DEF Iterate, At, Loops
<1>2. PICK f : /\ f = Top /\ Running
               /\ Sound(f) /\ Clean(f) /\ f \in Frames /\ f.ctl # <<>>
               /\ Inmost(f) = Ctx /\ Ctx \in Contexts /\ Ctx.node \in Statements
               /\ Kind(Ctx.node) \in Loops /\ Ctx.phase = "eval"
               /\ "eval" # "body" => ~Unwinding(f)
  BY <1>1, AtFacts
<1>3. ~Unwinding(f) /\ Inmost(f).node = Ctx.node /\ Inmost(f).phase = "eval"  BY <1>2
<1>4. CASE SetTop(Exec(Goto(Top, "body"), Body))
  <2>1. Sound(Exec(Goto(f, "body"), Body)) /\ Clean(Exec(Goto(f, "body"), Body))
    BY <1>2, <1>3, BodyStep
  <2> QED  BY <1>2, <1>4, <2>1 DEF StepsTo
<1>5. CASE SetTop(Exec(Goto(Count(Top, Ctx.i + 1), "body"), Body))
  <2> DEFINE j == Ctx.i + 1
             h == Count(f, j)
  <2>1. j \in Nat  BY <1>2 DEF Contexts
  <2> HIDE DEF j
  <2>2. /\ Sound(h) /\ h.ctl # <<>> /\ SameFlags(h, f)
        /\ Inmost(h).node = Ctx.node /\ Inmost(h).phase = "eval"
    BY <1>2, <2>1, CountSound
  <2> HIDE DEF h
  <2>3. h \in Frames /\ ~Unwinding(h)  BY <1>3, <2>2, FlagsCarry DEF Sound
  <2>4. Sound(Exec(Goto(h, "body"), Body)) /\ Clean(Exec(Goto(h, "body"), Body))
    BY <1>2, <2>2, <2>3, BodyStep
  <2> QED  BY <1>2, <1>5, <2>4 DEF StepsTo, h, j
<1> QED  BY <1>4, <1>5 DEF Iterate

\* A loop that has begun returns, with the scope of a for.
LEMMA LeaveLoopSound ==
  ASSUME IInv, NEW f, f = Top, Sound(f), Clean(f), f.ctl # <<>>, Inmost(f) = Ctx,
         Kind(Ctx.node) \in Loops, Ctx.phase # "start"
  PROVE  Sound(LeaveLoop(f)) /\ Clean(LeaveLoop(f)) /\ LeaveLoop(f) \in Frames
<1>1. OneFlag(f)  BY DEF Clean, Unwinding, OneFlag
<1>2. CASE Kind(Ctx.node) = "for"
  <2>1. Opens(Inmost(f))  BY <1>2 DEF Opens
  <2>2. Sound(Finish(LeaveScope(f))) /\ Clean(Finish(LeaveScope(f)))  BY <1>1, <2>1, LeaveStep
  <2> QED  BY <1>2, <2>2 DEF LeaveLoop, Sound
<1>3. CASE Kind(Ctx.node) # "for"
  <2>1. ~Opens(Inmost(f))  BY <1>3 DEF Opens, Loops
  <2>2. Sound(Finish(f)) /\ Clean(Finish(f))  BY <1>1, <2>1, FinishStep
  <2> QED  BY <1>3, <2>2 DEF LeaveLoop, Sound
<1> QED  BY <1>2, <1>3

LEMMA LeaveLoopStep ==
  ASSUME IInv, EndLoop \/ BreakLoop
  PROVE  \E g : StepsTo(g)
<1>1. PICK ph \in {"eval", "body"} : At(Loops, ph)  BY DEF EndLoop, BreakLoop
<1>2. PICK f : /\ f = Top /\ Running
               /\ Sound(f) /\ Clean(f) /\ f \in Frames /\ f.ctl # <<>>
               /\ Inmost(f) = Ctx /\ Ctx \in Contexts /\ Ctx.node \in Statements
               /\ Kind(Ctx.node) \in Loops /\ Ctx.phase = ph
               /\ ph # "body" => ~Unwinding(f)
  BY <1>1, AtFacts
<1>3. Sound(LeaveLoop(f)) /\ Clean(LeaveLoop(f))  BY <1>1, <1>2, LeaveLoopSound
<1> QED  BY <1>2, <1>3 DEF StepsTo, EndLoop, BreakLoop

LEMMA CutOffStep ==
  ASSUME IInv, CutOff
  PROVE  \E g : StepsTo(g)
<1>1. PICK ph \in {"eval", "body", "post"} : At(Loops, ph)  BY DEF CutOff, At, Loops
<1>2. PICK f : /\ f = Top /\ Running
               /\ Sound(f) /\ Clean(f) /\ f \in Frames /\ f.ctl # <<>>
               /\ Inmost(f) = Ctx /\ Ctx \in Contexts /\ Ctx.node \in Statements
               /\ Kind(Ctx.node) \in Loops /\ Ctx.phase = ph
               /\ ph # "body" => ~Unwinding(f)
  BY <1>1, AtFacts
<1> DEFINE h == LeaveLoop(f)
           g == [h EXCEPT !.worn = TRUE]
<1>3. Sound(h) /\ Clean(h) /\ h \in Frames  BY <1>1, <1>2, LeaveLoopSound
<1>4. SetTop(g)  BY <1>2 DEF CutOff
<1> HIDE DEF h
<1>5. /\ g \in Frames /\ g.ctl = h.ctl /\ g.scopeDepth = h.scopeDepth /\ g.locs = h.locs
      /\ g.returning = h.returning /\ g.jumping = h.jumping
  BY <1>3 DEF Frames
<1> HIDE DEF g
<1>6. Sound(g)  BY <1>3, <1>5, FieldsSound
<1>7. Clean(g)  BY <1>3, <1>5 DEF Clean, Unwinding, OneFlag, AllWait
<1> QED  BY <1>4, <1>6, <1>7 DEF StepsTo

\* A loop goes to an expression of its own, counted on or not.
LEMMA LoopEvalStep ==
  ASSUME IInv, NEW ph, At(Loops, ph), ph # "start", ~Unwinding(Top),
         NEW to \in {"eval", "post"},
         SetTop(Eval(Top, to)) \/ SetTop(Eval(Count(Top, Ctx.i + 1), to))
  PROVE  \E g : StepsTo(g)
<1>1. PICK f : /\ f = Top /\ Running
               /\ Sound(f) /\ Clean(f) /\ f \in Frames /\ f.ctl # <<>>
               /\ Inmost(f) = Ctx /\ Ctx \in Contexts /\ Ctx.node \in Statements
               /\ Kind(Ctx.node) \in Loops /\ Ctx.phase = ph
               /\ ph # "body" => ~Unwinding(f)
  BY AtFacts
<1>2. Kind(Ctx.node) # "block" /\ to \in Phases /\ to # "start"
  BY <1>1 DEF Loops, Phases
<1>3. CASE SetTop(Eval(Top, to))
  <2>1. Sound(Eval(f, to)) /\ SameFlags(Eval(f, to), f)  BY <1>1, <1>2, EvalSound
  <2>2. ~Unwinding(Eval(f, to))  BY <1>1, <2>1, FlagsCarry
  <2> QED  BY <1>1, <1>3, <2>1, <2>2 DEF StepsTo, Clean
<1>4. CASE SetTop(Eval(Count(Top, Ctx.i + 1), to))
  <2> DEFINE j == Ctx.i + 1
             h == Count(f, j)
  <2>1. j \in Nat  BY <1>1 DEF Contexts
  <2> HIDE DEF j
  <2>2. /\ Sound(h) /\ h.ctl # <<>> /\ SameFlags(h, f)
        /\ Inmost(h).node = Ctx.node /\ Inmost(h).phase = ph
    BY <1>1, <2>1, CountSound
  <2> HIDE DEF h
  <2>3. Sound(Eval(h, to)) /\ SameFlags(Eval(h, to), h)  BY <1>2, <2>2, EvalSound
  <2>4. ~Unwinding(Eval(h, to))  BY <1>1, <2>2, <2>3, FlagsCarry
  <2> QED  BY <1>1, <1>4, <2>3, <2>4 DEF StepsTo, Clean, h, j
<1> QED  BY <1>3, <1>4

\* The steps that add or remove a frame.
LEMMA PopStep ==
  ASSUME IInv, Running, UNCHANGED <<prog, pending>>,
         frames' = SubSeq(frames, 1, Len(frames) - 1)
  PROVE  IInv'
<1> DEFINE n == Len(frames)
<1>1. frames \in Seq(Frames) /\ frames # <<>>  BY DEF IInv, Running
<1>2. /\ frames' \in Seq(Frames) /\ Len(frames') = n - 1 /\ n \in Nat /\ n >= 1
      /\ \A k \in 1 .. (n - 1) : frames'[k] = frames[k]
  BY <1>1, FrontOfSeq
<1>3. frames' \in Seq(Frames)'
  <2>1. Statements' = Statements  BY DEF Statements
  <2>2. Frames' = Frames  BY <2>1 DEF Frames, Contexts, Locals
  <2> QED  BY <1>2, <2>2
<1>4. \A k \in 1 .. (n - 1) : Sound(frames'[k]) /\ Clean(frames'[k]) /\ ~Unwinding(frames'[k])
  BY <1>2 DEF IInv, FramesSound, FlagsClean
<1>5. \A h : /\ Sound(h) => Sound(h)'
             /\ Clean(h) => Clean(h)'
             /\ Unwinding(h)' = Unwinding(h)
  BY SameProgram
<1>6. FramesSound' /\ FlagsClean'
  BY <1>2, <1>4, <1>5 DEF FramesSound, FlagsClean
<1> QED  BY <1>3, <1>6 DEF IInv

LEMMA DispatchStep ==
  ASSUME IInv, Dispatch
  PROVE  IInv'
<1>1. PICK h \in prog.handlers : frames' = <<NewFrame(h)>>  BY DEF Dispatch
<1>2. h \in Statements /\ Kind(h) = "block"  BY Trees DEF IInv
<1> DEFINE g == NewFrame(h)
<1>3. Sound(g) /\ ~Unwinding(g) /\ g \in Frames  BY <1>2, NewFrameSound DEF Sound
<1>4. UNCHANGED prog  BY DEF Dispatch
<1>5. Sound(g)' /\ Clean(g)'  BY <1>3, <1>4, SameProgram DEF Clean
<1>6. frames' = <<g>>  BY <1>1
<1>7. Unwinding(g)' = Unwinding(g)  BY <1>4, SameProgram
<1> HIDE DEF g
<1>8. frames' \in Seq(Frames)'
  <2>1. Statements' = Statements  BY <1>4 DEF Statements
  <2>2. Frames' = Frames  BY <1>4, <2>1 DEF Frames, Contexts, Locals
  <2> QED  BY <1>3, <1>6, <2>2
<1>9. Len(frames') = 1 /\ frames'[1] = g  BY <1>6
<1>10. FramesSound' /\ FlagsClean'
  BY <1>3, <1>5, <1>7, <1>9 DEF FramesSound, FlagsClean
<1>11. pending' \in BOOLEAN  BY DEF Dispatch, IInv
<1> QED  BY <1>4, <1>8, <1>10, <1>11 DEF IInv

LEMMA CallStep ==
  ASSUME IInv, NEW b \in prog.funcs, Call(b)
  PROVE  IInv'
<1>1. PICK ph \in {"eval", "init", "post"} : At(Kinds, ph)  BY DEF Call
<1>2. PICK f : /\ f = Top /\ Running
               /\ Sound(f) /\ Clean(f) /\ f \in Frames /\ f.ctl # <<>>
               /\ Inmost(f) = Ctx /\ Ctx \in Contexts /\ Ctx.node \in Statements
               /\ Kind(Ctx.node) \in Kinds /\ Ctx.phase = ph
               /\ ph # "body" => ~Unwinding(f)
  BY <1>1, AtFacts
<1> DEFINE n == Len(frames)
           h == Calling(f)
           g == NewFrame(b)
<1>3. Sound(h) /\ ~Unwinding(h) /\ h \in Frames
  <2>1. Sound(h) /\ SameFlags(h, f)  BY <1>2, CallingSound
  <2> QED  BY <1>2, <2>1, FlagsCarry DEF Sound
<1>4. Sound(g) /\ ~Unwinding(g) /\ g \in Frames
  <2>1. b \in Statements /\ Kind(b) = "block"  BY Trees DEF IInv
  <2> QED  BY <2>1, NewFrameSound DEF Sound
<1>5. UNCHANGED <<prog, pending>> /\ frames' = Append([frames EXCEPT ![n] = h], g)
  BY <1>2 DEF Call
<1>6. frames \in Seq(Frames) /\ n \in Nat \ {0}  BY <1>2, TopFacts DEF IInv
<1> HIDE DEF h, g
<1> DEFINE q == [frames EXCEPT ![n] = h]
<1>7. /\ q \in Seq(Frames) /\ Len(q) = n
      /\ \A k \in 1 .. n : q[k] = IF k = n THEN h ELSE frames[k]
  BY <1>3, <1>6
<1>7a. frames' = Append(q, g)  BY <1>5 DEF q
<1> HIDE DEF q, n
<1>8. /\ frames' \in Seq(Frames) /\ Len(frames') = n + 1
      /\ frames'[n + 1] = g /\ \A k \in 1 .. n : frames'[k] = q[k]
  <2>1. \A s \in Seq(Frames) : \A e \in Frames :
          /\ Append(s, e) \in Seq(Frames) /\ Len(Append(s, e)) = Len(s) + 1
          /\ Append(s, e)[Len(s) + 1] = e
          /\ \A k \in 1 .. Len(s) : Append(s, e)[k] = s[k]
    OBVIOUS
  <2> QED  BY <1>4, <1>7, <1>7a, <2>1
<1> USE DEF n
<1>9. \A k \in 1 .. (n + 1) : Sound(frames'[k]) /\ ~Unwinding(frames'[k])
  <2> TAKE k \in 1 .. (n + 1)
  <2>1. CASE k = n + 1  BY <1>4, <1>8, <2>1
  <2>2. CASE k = n  BY <1>3, <1>6, <1>7, <1>8, <2>2
  <2>3. CASE k # n /\ k # n + 1
    <3>1. k \in 1 .. n /\ k # n  BY <1>6, <2>3
    <3>2. frames'[k] = frames[k]  BY <1>7, <1>8, <3>1
    <3> QED  BY <3>1, <3>2 DEF IInv, FramesSound, FlagsClean
  <2> QED  BY <2>1, <2>2, <2>3
<1>10. \A e : /\ Sound(e) => Sound(e)'
              /\ Clean(e) => Clean(e)'
              /\ Unwinding(e)' = Unwinding(e)
  BY <1>5, SameProgram
<1>11. \A k \in 1 .. (n + 1) : Clean(frames'[k])  BY <1>9 DEF Clean
<1>12. FramesSound' /\ FlagsClean'
  BY <1>8, <1>9, <1>10, <1>11 DEF FramesSound, FlagsClean
<1>13. frames' \in Seq(Frames)'
  <2>1. Statements' = Statements  BY <1>5 DEF Statements
  <2>2. Frames' = Frames  BY <1>5, <2>1 DEF Frames, Contexts, Locals
  <2> QED  BY <1>8, <2>2
<1> QED  BY <1>5, <1>12, <1>13 DEF IInv

\* The invariant is inductive: one step for each action.
LEMMA InvariantKept == IInv /\ [Next]_vars => IInv'
<1> SUFFICES ASSUME IInv, [Next]_vars PROVE IInv'  OBVIOUS
<1>1. ASSUME Running, UNCHANGED <<prog, pending>>, \E g : StepsTo(g) PROVE IInv'
  <2>1. pending' \in BOOLEAN /\ UNCHANGED prog  BY <1>1 DEF IInv
  <2> QED  BY <1>1, <2>1, TopStep
<1>2. CASE HandlerEnds
  <2>1. Running  BY <1>2 DEF HandlerEnds, Running
  <2>2. frames' = SubSeq(frames, 1, Len(frames) - 1)
    <3>1. frames \in Seq(Frames) /\ Len(frames) = 1 /\ frames' = <<>>
      BY <1>2 DEF HandlerEnds, IInv
    <3>2. (Len(frames) = 1) = (SubSeq(frames, 1, Len(frames) - 1) = <<>>)
      BY <2>1, <3>1, FrontOfSeq DEF Running
    <3> QED  BY <3>1, <3>2
  <2> QED  BY <1>2, <2>1, <2>2, PopStep DEF HandlerEnds
<1>3. CASE FunctionReturns
  <2>1. Running
    <3>1. Len(frames) > 1  BY <1>3 DEF FunctionReturns
    <3> QED  BY <3>1, EmptySeq DEF Running
  <2> QED  BY <1>3, <2>1, PopStep DEF FunctionReturns
<1>4. CASE Skip
  <2>1. Running /\ UNCHANGED <<prog, pending>>  BY <1>4 DEF Skip, At
  <2> QED  BY <1>1, <1>4, <2>1, SkipStep
<1>5. CASE Evaluate
  <2>1. Running /\ UNCHANGED <<prog, pending>>  BY <1>5 DEF Evaluate, Ready, At
  <2>2. \E g : StepsTo(g)
    BY <1>5, EvalStep DEF Evaluate, Ready, Phases
  <2> QED  BY <1>1, <2>1, <2>2
<1>6. CASE Evaluated
  <2>1. Running /\ UNCHANGED <<prog, pending>>  BY <1>6 DEF Evaluated, At
  <2> QED  BY <1>1, <1>6, <2>1, EvaluatedStep
<1>7. CASE Declare
  <2>1. Running /\ UNCHANGED <<prog, pending>>  BY <1>7 DEF Declare, At
  <2> QED  BY <1>1, <1>7, <2>1, DeclareStep
<1>8. CASE Return
  <2>1. Running /\ UNCHANGED <<prog, pending>>  BY <1>8 DEF Return, At
  <2> QED  BY <1>1, <1>8, <2>1, ReturnStep
<1>9. CASE Jump
  <2>1. Running /\ UNCHANGED <<prog, pending>>  BY <1>9 DEF Jump, Ready, At
  <2> QED  BY <1>1, <1>9, <2>1, JumpStep
<1>10. CASE ChangeState
  <2>1. Running /\ UNCHANGED prog  BY <1>10 DEF ChangeState, Ready, At
  <2>2. pending' \in BOOLEAN  BY <1>10 DEF ChangeState
  <2> QED  BY <1>10, <2>1, <2>2, ChangeStateStep, TopStep
<1>11. CASE Branch
  <2>1. Running /\ UNCHANGED <<prog, pending>>  BY <1>11 DEF Branch, At
  <2> QED  BY <1>1, <1>11, <2>1, BranchStep
<1>12. CASE OpenBlock
  <2>1. Running /\ UNCHANGED <<prog, pending>>  BY <1>12 DEF OpenBlock, Ready, At
  <2> QED  BY <1>1, <1>12, <2>1, OpenBlockStep
<1>13. CASE TakeJump
  <2>1. Running /\ UNCHANGED <<prog, pending>>  BY <1>13 DEF TakeJump, At
  <2> QED  BY <1>1, <1>13, <2>1, TakeJumpStep
<1>14. CASE NextStatement
  <2>1. Running /\ UNCHANGED <<prog, pending>>  BY <1>14 DEF NextStatement, At
  <2> QED  BY <1>1, <1>14, <2>1, NextStatementStep
<1>15. CASE CloseBlock
  <2>1. Running /\ UNCHANGED <<prog, pending>>  BY <1>15 DEF CloseBlock, At
  <2> QED  BY <1>1, <1>15, <2>1, CloseBlockStep
<1>16. CASE StartDo
  <2>1. Running /\ UNCHANGED <<prog, pending>>  BY <1>16 DEF StartDo, Ready, At
  <2> QED  BY <1>1, <1>16, <2>1, StartDoStep
<1>17. CASE StartFor
  <2>1. Running /\ UNCHANGED <<prog, pending>>  BY <1>17 DEF StartFor, Ready, At
  <2> QED  BY <1>1, <1>17, <2>1, StartForStep
<1>18. CASE Initialised
  <2>1. Running /\ UNCHANGED <<prog, pending>> /\ At(Loops, "init")
    BY <1>18 DEF Initialised, At, Loops
  <2>2. ~Unwinding(Top)  BY <2>1, AtFacts
  <2>3. \E g : StepsTo(g)  BY <1>18, <2>1, <2>2, LoopEvalStep DEF Initialised
  <2> QED  BY <1>1, <2>1, <2>3
<1>19. CASE Iterate
  <2>1. Running /\ UNCHANGED <<prog, pending>>  BY <1>19 DEF Iterate, At
  <2> QED  BY <1>1, <1>19, <2>1, IterateStep
<1>20. CASE EndLoop
  <2>1. Running /\ UNCHANGED <<prog, pending>>  BY <1>20 DEF EndLoop, At
  <2> QED  BY <1>1, <1>20, <2>1, LeaveLoopStep
<1>21. CASE BreakLoop
  <2>1. Running /\ UNCHANGED <<prog, pending>>  BY <1>21 DEF BreakLoop, At
  <2> QED  BY <1>1, <1>21, <2>1, LeaveLoopStep
<1>22. CASE BodyEnds
  <2>1. Running /\ UNCHANGED <<prog, pending>> /\ At(Loops, "body")
    BY <1>22 DEF BodyEnds, At
  <2>2. ~Unwinding(Top)  BY <1>22 DEF BodyEnds, LoopBroken
  <2>3. \E to \in {"eval", "post"} :
          SetTop(Eval(Top, to)) \/ SetTop(Eval(Count(Top, Ctx.i + 1), to))
    BY <1>22 DEF BodyEnds
  <2>4. \E g : StepsTo(g)  BY <2>1, <2>2, <2>3, LoopEvalStep
  <2> QED  BY <1>1, <2>1, <2>4
<1>23. CASE Stepped
  <2>1. Running /\ UNCHANGED <<prog, pending>> /\ At(Loops, "post")
    BY <1>23 DEF Stepped, At, Loops
  <2>2. ~Unwinding(Top)  BY <2>1, AtFacts
  <2>3. \E g : StepsTo(g)  BY <1>23, <2>1, <2>2, LoopEvalStep DEF Stepped
  <2> QED  BY <1>1, <2>1, <2>3
<1>24. CASE CutOff
  <2>1. Running /\ UNCHANGED <<prog, pending>>  BY <1>24 DEF CutOff, At
  <2> QED  BY <1>1, <1>24, <2>1, CutOffStep
<1>25. ASSUME NEW b \in prog.funcs, Call(b) PROVE IInv'  BY <1>25, CallStep
<1>26. CASE Dispatch  BY <1>26, DispatchStep
<1>27. CASE UNCHANGED vars
  <2>1. UNCHANGED <<prog, frames, pending>>  BY <1>27 DEF vars
  <2>2. Statements' = Statements  BY <2>1 DEF Statements
  <2>3. Frames' = Frames  BY <2>1, <2>2 DEF Frames, Contexts, Locals
  <2>4. \A e : /\ Sound(e) => Sound(e)'
               /\ Clean(e) => Clean(e)'
               /\ Unwinding(e)' = Unwinding(e)
    BY <2>1, SameProgram
  <2>5. FramesSound' /\ FlagsClean'  BY <2>1, <2>4 DEF IInv, FramesSound, FlagsClean
  <2> QED  BY <2>1, <2>3, <2>5 DEF IInv
<1> QED
  BY <1>2, <1>3, <1>4, <1>5, <1>6, <1>7, <1>8, <1>9, <1>10, <1>11, <1>12, <1>13, <1>14, <1>15,
     <1>16, <1>17, <1>18, <1>19, <1>20, <1>21, <1>22, <1>23, <1>24, <1>25, <1>26, <1>27
  DEF Next, Step

LEMMA InvariantHolds == Spec => []IInv
<1>1. Init => IInv
  <2> SUFFICES ASSUME Init PROVE IInv  OBVIOUS
  <2>1. frames = <<>> /\ Len(frames) = 0 /\ frames \in Seq(Frames)  BY DEF Init
  <2>2. FramesSound /\ FlagsClean  BY <2>1 DEF FramesSound, FlagsClean
  <2>3. prog \in Programs /\ pending \in BOOLEAN  BY DEF Init
  <2> QED  BY <2>1, <2>2, <2>3 DEF IInv
<1> QED  BY <1>1, InvariantKept, PTL DEF Spec

----------------------------------------------------------------------------
(* The theorems *)

\* Every variable has its type, whatever the program: in particular no scope is
\* closed that was not opened, and a jump finds an index in its block.
THEOREM TypeCorrect == Spec => []TypeOK
<1>1. IInv => TypeOK  BY DEF IInv, TypeOK
<1> QED  BY <1>1, InvariantHolds, PTL

\* While a return or a jump is under way no statement of the frame is begun and
\* none of its expressions evaluated, in any program: vm_exec's guard against
\* that never has to skip anything, and no caller's frame carries a flag.
THEOREM NothingRunsWhileUnwinding == Spec => []UnwindingRunsNothing
<1>1. IInv => UnwindingRunsNothing
  <2> SUFFICES ASSUME IInv, NEW k \in DOMAIN frames, Unwinding(frames[k])
               PROVE  /\ k = Len(frames)
                      /\ ~(frames[k].returning /\ frames[k].jumping # NoName)
                      /\ \A j \in DOMAIN frames[k].ctl : frames[k].ctl[j].phase = "body"
    BY DEF UnwindingRunsNothing
  <2>1. k \in 1 .. Len(frames)  BY DEF IInv
  <2>2. Clean(frames[k]) /\ k = Len(frames) /\ Sound(frames[k])
    BY <2>1 DEF IInv, FlagsClean, FramesSound
  <2>3. DOMAIN frames[k].ctl = 1 .. Len(frames[k].ctl)  BY <2>2 DEF Sound, Frames
  <2>4. OneFlag(frames[k]) /\ AllWait(frames[k])  BY <2>2 DEF Clean
  <2> QED  BY <2>2, <2>3, <2>4 DEF OneFlag, AllWait, Waits
<1> QED  BY <1>1, InvariantHolds, PTL

\* The scope depth and the locals of every frame are those of the blocks and
\* fors open in it, however control left the others.
THEOREM ScopesAreMatched == Spec => []ScopesMatch
<1>1. IInv => ScopesMatch
  <2> SUFFICES ASSUME IInv, NEW k \in DOMAIN frames
               PROVE  DepthsMatch(frames[k]) /\ LocalsLive(frames[k])
                      /\ DOMAIN frames[k].ctl = 1 .. Len(frames[k].ctl)
    BY DEF ScopesMatch, DepthsMatch, LocalsLive
  <2>1. k \in 1 .. Len(frames)  BY DEF IInv
  <2>2. Sound(frames[k])  BY <2>1 DEF IInv, FramesSound
  <2>3. DOMAIN frames[k].ctl = 1 .. Len(frames[k].ctl)  BY <2>2 DEF Sound, Frames
  <2> QED  BY <2>2, <2>3 DEF Sound
<1> QED  BY <1>1, InvariantHolds, PTL

----------------------------------------------------------------------------
(* The tree *)

LEMMA SameTree ==
  /\ Text!Statements = Statements /\ Text!Loops = Loops
  /\ \A n : Text!Kind(n) = Kind(n) /\ Text!Kids(n) = Kids(n) /\ Text!Name(n) = Name(n)
BY DEF Text!Statements, Statements, Text!Loops, Loops, Text!Kind, Kind, Text!Kids, Kids, Text!Name, Name

\* Each statement is in one place, after the one that it is part of; the bodies of
\* handlers and functions are part of nothing.
LEMMA Places ==
  ASSUME prog \in Programs
  PROVE  /\ Statements \subseteq Nat \ {0}
         /\ \A n \in Statements : \A k \in DOMAIN Kids(n) :
              /\ Kids(n)[k] \in Statements
              /\ n < Kids(n)[k]
              /\ Text!Parent(Kids(n)[k]) = n
              /\ Text!PlaceIn(n, Kids(n)[k]) = k
         /\ \A n \in prog.handlers \cup prog.funcs : Text!Parent(n) = Text!NoParent
<1>1. WellFormed(prog)
  BY SyntaxAssumption
<1>2. Statements \subseteq Nat \ {0}
  BY <1>1 DEF WellFormed, Statements
<1>3. \A n \in Statements : \A k \in DOMAIN Kids(n) :
        /\ Kids(n)[k] \in Statements
        /\ n < Kids(n)[k]
        /\ Kids(n)[k] \notin prog.handlers \cup prog.funcs
        /\ \A m \in Statements : \A j \in DOMAIN Kids(m) : Kids(m)[j] = Kids(n)[k] => m = n /\ j = k
  <2>1. \A n \in Statements : Kids(n) \in Seq(Statements)
    BY Trees
  <2>2. \A n \in Statements : \A k \in DOMAIN Kids(n) : Kids(n)[k] \in Statements
    BY <2>1, SeqElement
  <2> QED
    BY <1>1, <2>2 DEF WellFormed, Statements, Kids
<1>4. ASSUME NEW n \in Statements, NEW k \in DOMAIN Kids(n)
      PROVE  Text!Parent(Kids(n)[k]) = n /\ Text!PlaceIn(n, Kids(n)[k]) = k
  <2> DEFINE kid == Kids(n)[k]
             around == {m \in Text!Statements : \E j \in DOMAIN Text!Kids(m) : Text!Kids(m)[j] = kid}
  <2>1. around = {n}
    BY <1>3, <1>4, SameTree
  <2>2. Text!Parent(kid) = n
    BY <2>1 DEF Text!Parent
  <2>3. \A j \in DOMAIN Kids(n) : Kids(n)[j] = kid => j = k
    BY <1>3, <1>4
  <2>4. Text!PlaceIn(n, kid) = k
    BY <2>3, SameTree DEF Text!PlaceIn
  <2> QED
    BY <2>2, <2>4
<1>5. ASSUME NEW n \in prog.handlers \cup prog.funcs PROVE Text!Parent(n) = Text!NoParent
  <2>1. {m \in Text!Statements : \E j \in DOMAIN Text!Kids(m) : Text!Kids(m)[j] = n} = {}
    BY <1>3, <1>5, SameTree
  <2> QED
    BY <2>1 DEF Text!Parent
<1> QED
  BY <1>2, <1>3, <1>4, <1>5

LEMMA ParentsAre ==
  ASSUME prog \in Programs, NEW n \in Statements, Text!Parent(n) # Text!NoParent
  PROVE  /\ Text!Parent(n) \in Statements
         /\ \E k \in DOMAIN Kids(Text!Parent(n)) : Kids(Text!Parent(n))[k] = n
<1> DEFINE around == {m \in Text!Statements : \E k \in DOMAIN Text!Kids(m) : Text!Kids(m)[k] = n}
<1>1. around # {}
  BY DEF Text!Parent
<1>2. Text!Parent(n) = CHOOSE m \in around : TRUE
  BY <1>1 DEF Text!Parent
<1>3. Text!Parent(n) \in around
  BY <1>1, <1>2
<1> QED
  BY <1>3, SameTree

----------------------------------------------------------------------------
(* The way through the text *)

Stretches == {"into", "past"} \X Statements
WayStep(way, x) ==
  LET m == x[2]
      p == Text!Parent(m)
  IN IF x[1] = "into"
     THEN CASE Text!Kind(m) = "block" ->
                 way[IF Text!Kids(m) = <<>> THEN <<"past", m>> ELSE <<"into", Text!Kids(m)[1]>>]
            [] Text!Kind(m) = "do" -> way[<<"into", Text!Kids(m)[1]>>]
            [] Text!Kind(m) = "for" -> <<m, "init">>
            [] OTHER -> <<m, "eval">>
     ELSE IF p = Text!NoParent THEN Text!End
          ELSE CASE Text!Kind(p) = "block" ->
                      way[IF Text!PlaceIn(p, m) = Len(Text!Kids(p)) THEN <<"past", p>>
                          ELSE <<"into", Text!Kids(p)[Text!PlaceIn(p, m) + 1]>>]
                 [] Text!Kind(p) = "for" -> <<p, "post">>
                 [] Text!Kind(p) = "if" -> way[<<"past", p>>]
                 [] OTHER -> <<p, "eval">>
Follow(way) == way = [x \in Stretches |-> WayStep(way, x)]

LEMMA WayIsChosen ==
  ASSUME NEW x
  PROVE  Text!Way(x) = (CHOOSE way : Follow(way))[x]
<1>1. Stretches = {"into", "past"} \X Text!Statements
  BY SameTree DEF Stretches
<1> QED
  BY <1>1 DEF Text!Way, Follow, WayStep

\* Where the way ends, and where it goes on from elsewhere.
Stops ==
  {x \in Stretches :
     IF x[1] = "into" THEN Kind(x[2]) \notin {"block", "do"}
     ELSE Text!Parent(x[2]) = Text!NoParent \/ Kind(Text!Parent(x[2])) \notin {"block", "if"}}
StopAt(x) == WayStep(<<>>, x)
GoesOn(x) ==
  LET m == x[2]
      p == Text!Parent(m)
  IN IF x[1] = "into"
     THEN IF Kind(m) = "block" /\ Kids(m) = <<>> THEN <<"past", m>> ELSE <<"into", Kids(m)[1]>>
     ELSE IF Kind(p) = "if" \/ Text!PlaceIn(p, m) = Len(Kids(p)) THEN <<"past", p>>
          ELSE <<"into", Kids(p)[Text!PlaceIn(p, m) + 1]>>

LEMMA StepsAlong ==
  ASSUME NEW way, NEW x \in Stretches
  PROVE  WayStep(way, x) = IF x \in Stops THEN StopAt(x) ELSE way[GoesOn(x)]
<1>1. CASE x[1] = "into"
  BY <1>1, SameTree DEF WayStep, Stops, StopAt, GoesOn
<1>2. CASE x[1] # "into"
  <2>1. CASE Text!Parent(x[2]) = Text!NoParent
    BY <1>2, <2>1, SameTree DEF WayStep, Stops, StopAt, GoesOn
  <2>2. CASE Text!Parent(x[2]) # Text!NoParent
    BY <1>2, <2>2, SameTree DEF WayStep, Stops, StopAt, GoesOn
  <2> QED
    BY <2>1, <2>2
<1> QED
  BY <1>1, <1>2

LEMMA GoesOnIsThere ==
  ASSUME prog \in Programs, NEW x \in Stretches \ Stops
  PROVE  GoesOn(x) \in Stretches
<1>1. PICK d \in {"into", "past"}, m \in Statements : x = <<d, m>>
  BY DEF Stretches
<1>2. x[1] = d /\ x[2] = m
  BY <1>1
<1>3. CASE d = "into"
  <2>1. Kind(m) \in {"block", "do"}
    BY <1>2, <1>3 DEF Stops
  <2>2. Kids(m) \in Seq(Statements) /\ (Kind(m) = "do" => Len(Kids(m)) = 1)
    BY Trees DEF Loops
  <2>3. CASE Kind(m) = "block" /\ Kids(m) = <<>>
    BY <1>2, <1>3, <2>3 DEF GoesOn, Stretches
  <2>4. CASE ~(Kind(m) = "block" /\ Kids(m) = <<>>)
    <3>1. Kids(m)[1] \in Statements
      BY <2>1, <2>2, <2>4
    <3> QED
      BY <1>2, <1>3, <2>4, <3>1 DEF GoesOn, Stretches
  <2> QED
    BY <2>3, <2>4
<1>4. CASE d = "past"
  <2> DEFINE p == Text!Parent(m)
  <2>1. p # Text!NoParent /\ Kind(p) \in {"block", "if"}
    BY <1>2, <1>4 DEF Stops
  <2>2. PICK k \in DOMAIN Kids(p) : Kids(p)[k] = m
    BY <2>1, ParentsAre
  <2>3. p \in Statements /\ Text!PlaceIn(p, m) = k /\ Kids(p) \in Seq(Statements)
    BY <2>1, <2>2, ParentsAre, Places, Trees
  <2>4. k # Len(Kids(p)) => Kids(p)[k + 1] \in Statements
    BY <2>2, <2>3
  <2> QED
    BY <1>2, <1>4, <2>3, <2>4 DEF GoesOn, Stretches
<1> QED
  BY <1>3, <1>4

LEMMA WayIs ==
  ASSUME prog \in Programs, NEW x \in Stretches
  PROVE  Text!Way(x) = IF x \in Stops THEN StopAt(x) ELSE Text!Way(GoesOn(x))
<1> DEFINE val == [y \in Stretches |-> StopAt(y)]
           on == [y \in Stretches |-> GoesOn(y)]
           way == CHOOSE w : Follow(w)
<1>1. \A y \in Stretches \ Stops : on[y] \in Stretches
  BY GoesOnIsThere
<1>2. PICK f : FoundAtEnds(Stretches, Stops, on, val, f)
  <2> HIDE DEF val, on
  <2> QED
    BY <1>1, PathsEnd
<1>3. ASSUME NEW w, NEW y \in Stretches
      PROVE  WayStep(w, y) = IF y \in Stops THEN val[y] ELSE w[on[y]]
  BY <1>3, StepsAlong
<1>4. Follow(f)
  <2>1. f = [y \in Stretches |-> WayStep(f, y)]
    <3> HIDE DEF val, on
    <3> QED
      BY <1>2, <1>3 DEF FoundAtEnds
  <2> QED
    BY <2>1 DEF Follow
<1>5. Follow(way)
  BY <1>4
<1>6. way = [y \in Stretches |-> WayStep(way, y)]
  BY <1>5 DEF Follow
<1>7. way[x] = WayStep(way, x)
  <2> HIDE DEF way
  <2> QED
    BY <1>6
<1>8. WayStep(way, x) = IF x \in Stops THEN StopAt(x) ELSE way[GoesOn(x)]
  BY StepsAlong
<1> QED
  BY <1>7, <1>8, WayIsChosen

\* Where one comes into a statement.
LEMMA IntoIs ==
  ASSUME prog \in Programs, NEW n \in Statements
  PROVE  /\ Kind(n) = "block" /\ Kids(n) = <<>> => Text!Into(n) = Text!Past(n)
         /\ Kind(n) = "block" /\ Kids(n) # <<>> => Text!Into(n) = Text!Into(Kids(n)[1])
         /\ Kind(n) = "do" => Text!Into(n) = Text!Into(Kids(n)[1])
         /\ Kind(n) = "for" => Text!Into(n) = <<n, "init">>
         /\ Kind(n) \notin {"block", "do", "for"} => Text!Into(n) = <<n, "eval">>
<1> DEFINE x == <<"into", n>>
<1>1. x \in Stretches /\ x[1] = "into" /\ x[2] = n
  BY DEF Stretches
<1>2. Text!Into(n) = Text!Way(x)
  BY DEF Text!Into
<1> HIDE DEF x
<1>3. CASE Kind(n) \in {"block", "do"}
  <2>1. x \notin Stops
    BY <1>1, <1>3 DEF Stops
  <2>2. Text!Into(n) = Text!Way(GoesOn(x))
    BY <1>1, <1>2, <2>1, WayIs
  <2>3. GoesOn(x) = IF Kind(n) = "block" /\ Kids(n) = <<>> THEN <<"past", n>> ELSE <<"into", Kids(n)[1]>>
    BY <1>1 DEF GoesOn
  <2> QED
    BY <1>3, <2>2, <2>3 DEF Text!Into, Text!Past
<1>4. CASE Kind(n) \notin {"block", "do"}
  <2>1. x \in Stops
    BY <1>1, <1>4 DEF Stops
  <2>2. Text!Into(n) = StopAt(x)
    BY <1>1, <1>2, <2>1, WayIs
  <2> QED
    BY <1>1, <1>4, <2>2, SameTree DEF StopAt, WayStep
<1> QED
  BY <1>3, <1>4

\* What comes past the part of a statement.
LEMMA PastIs ==
  ASSUME prog \in Programs, NEW n \in Statements, NEW k \in DOMAIN Kids(n)
  PROVE  /\ Kind(n) = "block" =>
              Text!Past(Kids(n)[k]) =
                IF k = Len(Kids(n)) THEN Text!Past(n) ELSE Text!Into(Kids(n)[k + 1])
         /\ Kind(n) = "if" => Text!Past(Kids(n)[k]) = Text!Past(n)
         /\ Kind(n) = "for" => Text!Past(Kids(n)[k]) = <<n, "post">>
         /\ Kind(n) \in {"while", "do"} => Text!Past(Kids(n)[k]) = <<n, "eval">>
<1> DEFINE m == Kids(n)[k]
           x == <<"past", m>>
<1>1. m \in Statements /\ Text!Parent(m) = n /\ Text!PlaceIn(n, m) = k /\ n # Text!NoParent
  BY Places DEF Text!NoParent
<1>2. x \in Stretches /\ x[1] = "past" /\ x[2] = m
  BY <1>1 DEF Stretches
<1>3. Text!Past(m) = Text!Way(x)
  BY DEF Text!Past
<1> HIDE DEF x, m
<1>4. CASE Kind(n) \in {"block", "if"}
  <2>1. x \notin Stops
    BY <1>1, <1>2, <1>4 DEF Stops
  <2>2. Text!Past(m) = Text!Way(GoesOn(x))
    BY <1>2, <1>3, <2>1, WayIs
  <2>3. GoesOn(x) = IF Kind(n) = "if" \/ k = Len(Kids(n)) THEN <<"past", n>> ELSE <<"into", Kids(n)[k + 1]>>
    BY <1>1, <1>2 DEF GoesOn
  <2> QED
    BY <1>4, <2>2, <2>3 DEF Text!Into, Text!Past, m
<1>5. CASE Kind(n) \notin {"block", "if"}
  <2>1. x \in Stops
    BY <1>1, <1>2, <1>5 DEF Stops
  <2>2. Text!Past(m) = StopAt(x)
    BY <1>2, <1>3, <2>1, WayIs
  <2> QED
    BY <1>1, <1>2, <1>5, <2>2, SameTree DEF StopAt, WayStep, m
<1> QED
  BY <1>4, <1>5

LEMMA PastRoot ==
  ASSUME prog \in Programs, NEW n \in Statements, Text!Parent(n) = Text!NoParent
  PROVE  Text!Past(n) = Text!End
<1> DEFINE x == <<"past", n>>
<1>1. x \in Stretches /\ x[1] = "past" /\ x[2] = n
  BY DEF Stretches
<1>2. x \in Stops
  BY <1>1 DEF Stops
<1> HIDE DEF x
<1>3. Text!Way(x) = StopAt(x)
  BY <1>1, <1>2, WayIs
<1> QED
  BY <1>1, <1>3 DEF Text!Past, StopAt, WayStep, x

----------------------------------------------------------------------------
(* The statements around one *)

Roots == {n \in Statements : Text!Parent(n) = Text!NoParent}
AroundStep(around, m) ==
  {m} \cup IF Text!Parent(m) = Text!NoParent THEN {} ELSE around[Text!Parent(m)]
Surrounds(around) == around = [m \in Statements |-> AroundStep(around, m)]

LEMMA AroundIsChosen ==
  ASSUME NEW n
  PROVE  Text!Around(n) = (CHOOSE around : Surrounds(around))[n]
BY SameTree DEF Text!Around, Surrounds, AroundStep

LEMMA AroundIs ==
  ASSUME prog \in Programs, NEW n \in Statements
  PROVE  Text!Around(n) =
           {n} \cup IF Text!Parent(n) = Text!NoParent THEN {} ELSE Text!Around(Text!Parent(n))
<1> DEFINE on == [m \in Statements |-> Text!Parent(m)]
           around == CHOOSE a : Surrounds(a)
<1>1. \A m \in Statements \ Roots : on[m] \in Statements
  BY ParentsAre DEF Roots
<1>2. PICK f : Gathered(Statements, Roots, on, f)
  <2> HIDE DEF on
  <2> QED
    BY <1>1, PathsGather
<1>3. ASSUME NEW a, NEW m \in Statements
      PROVE  AroundStep(a, m) = {m} \cup IF m \in Roots THEN {} ELSE a[on[m]]
  BY <1>3 DEF AroundStep, Roots
<1>4. f = [m \in Statements |-> AroundStep(f, m)]
  <2> HIDE DEF on
  <2>1. f = [m \in Statements |-> {m} \cup IF m \in Roots THEN {} ELSE f[on[m]]]
    BY <1>2 DEF Gathered
  <2>2. \A m \in Statements : AroundStep(f, m) = {m} \cup IF m \in Roots THEN {} ELSE f[on[m]]
    BY <1>3
  <2> QED
    BY <2>1, <2>2
<1>5. Surrounds(around)
  BY <1>4 DEF Surrounds
<1>6. around = [m \in Statements |-> AroundStep(around, m)]
  BY <1>5 DEF Surrounds
<1>7. around[n] = AroundStep(around, n)
  <2> HIDE DEF around
  <2> QED
    BY <1>6
<1> QED
  BY <1>7, AroundIsChosen DEF AroundStep

LEMMA AroundPart ==
  ASSUME prog \in Programs, NEW n \in Statements, NEW k \in DOMAIN Kids(n)
  PROVE  Text!Around(Kids(n)[k]) = {Kids(n)[k]} \cup Text!Around(n)
<1>1. Kids(n)[k] \in Statements /\ Text!Parent(Kids(n)[k]) = n /\ n # Text!NoParent
  BY Places DEF Text!NoParent
<1> QED
  BY <1>1, AroundIs

----------------------------------------------------------------------------
(* Where the frames stand in the text *)

\* Where a frame may go on from its point.
AheadOf(f) == Text!Successors(f.point) \cup (IF f.worn THEN Text!Beyond(f.point) ELSE {})

Compound(n) == Kind(n) \in {"block"} \cup Loops
\* The part that a call waits for, or has come back from.
Part(c) == Kids(c.node)[IF Kind(c.node) = "block" THEN c.i ELSE 1]

\* The calls open in a frame are those for the blocks and loops around the innermost one,
\* from the outside in.
Nested(calls) ==
  /\ \A j \in 1 .. Len(calls) : \A i \in 1 .. j : calls[i].node \in Text!Around(calls[j].node)
  /\ \A j \in 1 .. Len(calls) : \A n \in Text!Around(calls[j].node) :
       Compound(n) => \E i \in 1 .. j : calls[i].node = n
  /\ \A j \in 1 .. Len(calls) : \A i \in 1 .. (j - 1) : calls[i].node < calls[j].node
\* What comes past a statement comes past the part that the call around it waits for.
Aligned(calls) ==
  \A j \in 1 .. Len(calls) :
    Text!Past(calls[j].node) = IF j = 1 THEN Text!End ELSE Text!Past(Part(calls[j - 1]))
Counted(calls) ==
  \A j \in 1 .. Len(calls) :
    /\ Kind(calls[j].node) = "block" => calls[j].i \in 0 .. Len(Kids(calls[j].node))
    /\ calls[j].phase = "start" => calls[j].i = 0
Placed(calls) == Nested(calls) /\ Aligned(calls) /\ Counted(calls)

\* A while whose body runs is around the point reached last.
WhilesReached(calls, n) ==
  \A j \in 1 .. Len(calls) :
    Kind(calls[j].node) = "while" /\ calls[j].phase = "body" => calls[j].node \in Text!Around(n)

Expecting(c) == c.phase \in {"eval", "init", "post"}
Entering(c) == c.phase = "start" \/ (Kind(c.node) = "block" /\ c.phase = "body" /\ c.i = 0)

\* A jump under way is to a label that none of the blocks has that it has left.
Jumps(f, p) ==
  f.jumping # NoName =>
    /\ f.point[1] \in Statements /\ Kind(f.point[1]) = "jump" /\ f.point[2] = "eval"
    /\ Name(f.point[1]) = f.jumping
    /\ \A j \in 1 .. Len(f.ctl) : f.ctl[j].node \in Text!Around(f.point[1])
    /\ p \/ \A b \in Text!Homes(f.point[1]) : \E j \in 1 .. Len(f.ctl) : f.ctl[j].node = b
Returns(f) == f.returning => Text!End \in AheadOf(f)
\* From the point reached last the text goes on to where the innermost call stands.
Follows(f, p) ==
  ~Unwinding(f) =>
    /\ f.ctl = <<>> => p \/ Text!End \in AheadOf(f)
    /\ f.ctl # <<>> =>
         /\ Expecting(Inmost(f)) => f.point = <<Inmost(f).node, Inmost(f).phase>> /\ ~f.worn
         /\ Entering(Inmost(f)) => Text!Into(Inmost(f).node) \in AheadOf(f)
         /\ Waits(Inmost(f)) => p \/ Text!Past(Part(Inmost(f))) \in AheadOf(f)

\* p says whether a state is pending: then a function may end anywhere.
OnCourse(f, p) ==
  /\ Placed(f.ctl) /\ WhilesReached(f.ctl, f.point[1])
  /\ Jumps(f, p) /\ Returns(f) /\ Follows(f, p)
CallsOut(f) == f.ctl # <<>> /\ Expecting(Inmost(f))

FlowInv ==
  /\ \A k \in 1 .. Len(frames) : OnCourse(frames[k], pending)
  /\ \A k \in 1 .. (Len(frames) - 1) : CallsOut(frames[k])

LEMMA SameText ==
  ASSUME prog' = prog
  PROVE  /\ \A n : Text!Into(n)' = Text!Into(n) /\ Text!Past(n)' = Text!Past(n)
         /\ \A n : Text!Around(n)' = Text!Around(n) /\ Text!Homes(n)' = Text!Homes(n)
         /\ \A pt : Text!Successors(pt)' = Text!Successors(pt) /\ Text!Beyond(pt)' = Text!Beyond(pt)
<1>1. /\ \A n : Text!Kind(n)' = Text!Kind(n) /\ Text!Kids(n)' = Text!Kids(n) /\ Text!Name(n)' = Text!Name(n)
      /\ Text!Statements' = Text!Statements
  BY DEF Text!Statements, Text!Kids, Text!Kind, Text!Name
<1>2. \A x : Text!Way(x)' = Text!Way(x)
  BY DEF Text!Way, Text!Parent, Text!Statements, Text!Kids, Text!NoParent, Text!End, Text!PlaceIn, Text!Kind
<1>3. \A n : Text!Around(n)' = Text!Around(n)
  BY DEF Text!Around, Text!Parent, Text!Statements, Text!Kids, Text!NoParent
<1>4. \A n : Text!Into(n)' = Text!Into(n) /\ Text!Past(n)' = Text!Past(n)
  BY <1>2 DEF Text!Into, Text!Past
<1>5. \A b, name : Text!Labels(b, name)' = Text!Labels(b, name)
  BY <1>1 DEF Text!Labels
<1>6. \A n : Text!Homes(n)' = Text!Homes(n)
  BY <1>1, <1>3, <1>5 DEF Text!Homes
<1>7. \A n : Text!Target(n)' = Text!Target(n)
  BY DEF Text!Target, Text!Homes, Text!Labels, Text!Around, Text!Parent, Text!Statements, Text!Kids, Text!Name,
         Text!Kind, Text!NoParent, Text!End, Text!Past, Text!Way, Text!PlaceIn
<1>8. \A pt : Text!Successors(pt)' = Text!Successors(pt)
  BY <1>1, <1>4, <1>7 DEF Text!Successors, Text!Onwards, Text!Loops, Text!End, Text!NoParent
<1>9. \A pt : Text!Beyond(pt)' = Text!Beyond(pt)
  BY <1>1, <1>3, <1>4 DEF Text!Beyond, Text!Loops
<1> QED
  BY <1>3, <1>4, <1>6, <1>8, <1>9

LEMMA SameCourse ==
  ASSUME prog' = prog, NEW f, NEW p
  PROVE  OnCourse(f, p)' = OnCourse(f, p)
<1>1. /\ \A n : Kind(n)' = Kind(n) /\ Kids(n)' = Kids(n) /\ Name(n)' = Name(n)
      /\ Statements' = Statements
  BY DEF Statements, Kids, Kind, Name
<1>2. AheadOf(f)' = AheadOf(f)
  BY SameText DEF AheadOf
<1>3. (\A n : Compound(n)' = Compound(n)) /\ (\A c : Part(c)' = Part(c))
  BY <1>1 DEF Compound, Part, Loops
<1>4. Nested(f.ctl)' = Nested(f.ctl)
  BY <1>1, <1>3, SameText DEF Nested
<1>5. Aligned(f.ctl)' = Aligned(f.ctl)
  BY <1>3, SameText DEF Aligned, Text!End, Text!NoParent
<1>6. Counted(f.ctl)' = Counted(f.ctl)
  BY <1>1 DEF Counted
<1>7. WhilesReached(f.ctl, f.point[1])' = WhilesReached(f.ctl, f.point[1])
  BY <1>1, SameText DEF WhilesReached
<1>8. Jumps(f, p)' = Jumps(f, p)
  BY <1>1, SameText DEF Jumps
<1>9. Returns(f)' = Returns(f)
  BY <1>2 DEF Returns, Text!End, Text!NoParent
<1>10. \A c : Entering(c)' = Entering(c) /\ Waits(c)' = Waits(c)
  BY <1>1 DEF Entering, Waits
<1>11. Follows(f, p)' = Follows(f, p)
  BY <1>1, <1>2, <1>3, <1>10, SameText DEF Follows, Unwinding, Inmost, Expecting, Text!End, Text!NoParent
<1> QED
  BY <1>4, <1>5, <1>6, <1>7, <1>8, <1>9, <1>11 DEF OnCourse, Placed

----------------------------------------------------------------------------
(* The calls open in a frame *)

\* The innermost one returns.
LEMMA PlacedFront ==
  ASSUME NEW calls \in Seq(Contexts), calls # <<>>, Placed(calls)
  PROVE  /\ Placed(SubSeq(calls, 1, Len(calls) - 1))
         /\ \A n : WhilesReached(calls, n) => WhilesReached(SubSeq(calls, 1, Len(calls) - 1), n)
<1> DEFINE q == SubSeq(calls, 1, Len(calls) - 1)
<1>1. /\ Len(q) = Len(calls) - 1 /\ Len(calls) \in Nat \ {0}
      /\ \A j \in 1 .. Len(q) : q[j] = calls[j] /\ j \in 1 .. Len(calls)
  BY FrontOfSeq
<1> HIDE DEF q
<1>2. Nested(q)
  <2>1. \A j \in 1 .. Len(q) : \A i \in 1 .. j : i \in 1 .. Len(q)
    BY <1>1
  <2>2. \A j \in 1 .. Len(q) : \A i \in 1 .. (j - 1) : i \in 1 .. Len(q)
    BY <1>1
  <2>3. \A j \in 1 .. Len(q) : \A i \in 1 .. j : q[i].node \in Text!Around(q[j].node)
    BY <1>1, <2>1 DEF Placed, Nested
  <2>4. \A j \in 1 .. Len(q) : \A i \in 1 .. (j - 1) : q[i].node < q[j].node
    BY <1>1, <2>2 DEF Placed, Nested
  <2>5. ASSUME NEW j \in 1 .. Len(q), NEW n \in Text!Around(q[j].node), Compound(n)
        PROVE  \E i \in 1 .. j : q[i].node = n
    <3>1. PICK i \in 1 .. j : calls[i].node = n
      BY <1>1, <2>5 DEF Placed, Nested
    <3> QED
      BY <1>1, <2>1, <3>1
  <2> QED
    BY <2>3, <2>4, <2>5 DEF Nested
<1>3. Aligned(q)
  <2>1. \A j \in 1 .. Len(q) : j # 1 => j - 1 \in 1 .. Len(q)
    BY <1>1
  <2> QED
    BY <1>1, <2>1 DEF Placed, Aligned
<1>4. Counted(q)
  BY <1>1 DEF Placed, Counted
<1>5. \A n : WhilesReached(calls, n) => WhilesReached(q, n)
  BY <1>1 DEF WhilesReached
<1> QED
  BY <1>2, <1>3, <1>4, <1>5 DEF Placed, q

\* The innermost one comes to another phase or index.
LEMMA PlacedLast ==
  ASSUME NEW calls \in Seq(Contexts), calls # <<>>, Placed(calls), NEW c,
         c.node = calls[Len(calls)].node, c.phase # "start",
         Kind(c.node) = "block" => c.i \in 0 .. Len(Kids(c.node))
  PROVE  /\ Placed([calls EXCEPT ![Len(calls)] = c])
         /\ \A n : WhilesReached(calls, n) /\ (Kind(c.node) = "while" => c.node \in Text!Around(n)) =>
              WhilesReached([calls EXCEPT ![Len(calls)] = c], n)
<1> DEFINE q == [calls EXCEPT ![Len(calls)] = c]
<1>1. /\ Len(q) = Len(calls) /\ Len(calls) \in Nat \ {0}
      /\ q[Len(calls)] = c
      /\ \A j \in 1 .. (Len(calls) - 1) : q[j] = calls[j]
  BY EmptySeq
<1> HIDE DEF q
<1>2. \A j \in 1 .. Len(q) : q[j].node = calls[j].node
  <2>1. \A j \in 1 .. Len(q) : j # Len(calls) => j \in 1 .. (Len(calls) - 1)
    BY <1>1
  <2> QED
    BY <1>1, <2>1
<1>3. Nested(q)
  <2>1. \A j \in 1 .. Len(q) : \A i \in 1 .. j : i \in 1 .. Len(q)
    BY <1>1
  <2> QED
    BY <1>1, <1>2, <2>1 DEF Placed, Nested
<1>4. Aligned(q)
  <2>1. \A j \in 1 .. Len(q) : j # 1 => j - 1 \in 1 .. (Len(calls) - 1)
    BY <1>1
  <2> QED
    BY <1>1, <1>2, <2>1 DEF Placed, Aligned
<1>5. Counted(q)
  <2>1. \A j \in 1 .. Len(q) : j # Len(calls) => j \in 1 .. (Len(calls) - 1)
    BY <1>1
  <2> QED
    BY <1>1, <2>1 DEF Placed, Counted
<1>6. ASSUME NEW n, WhilesReached(calls, n), Kind(c.node) = "while" => c.node \in Text!Around(n)
      PROVE  WhilesReached(q, n)
  <2>1. \A j \in 1 .. Len(q) : j # Len(calls) => j \in 1 .. (Len(calls) - 1)
    BY <1>1
  <2> QED
    BY <1>1, <1>6, <2>1 DEF WhilesReached
<1> QED
  BY <1>3, <1>4, <1>5, <1>6 DEF Placed, q

\* One more call, for a statement that nothing but branches of ifs separates from the part
\* that the innermost waits for.
Fits(calls, n) ==
  /\ n \in Statements
  /\ Text!Past(n) = IF calls = <<>> THEN Text!End ELSE Text!Past(Part(calls[Len(calls)]))
  /\ \A j \in 1 .. Len(calls) : calls[j].node \in Text!Around(n) /\ calls[j].node < n
  /\ \A m \in Text!Around(n) : Compound(m) => m = n \/ \E j \in 1 .. Len(calls) : calls[j].node = m

LEMMA PlacedMore ==
  ASSUME prog \in Programs, NEW calls \in Seq(Contexts), Placed(calls), NEW c \in Contexts,
         Fits(calls, c.node), c.phase = "start", c.i = 0
  PROVE  /\ Placed(Append(calls, c))
         /\ \A n : WhilesReached(calls, n) => WhilesReached(Append(calls, c), n)
<1> DEFINE q == Append(calls, c)
           last == Len(calls) + 1
<1>1. /\ Len(q) = last /\ Len(calls) \in Nat
      /\ q[last] = c
      /\ \A j \in 1 .. Len(calls) : q[j] = calls[j]
      /\ \A j \in 1 .. last : j # last => j \in 1 .. Len(calls)
  OBVIOUS
<1> HIDE DEF q
<1>2. c.node \in Text!Around(c.node)
  BY AroundIs DEF Fits
<1>3. Nested(q)
  <2>1. ASSUME NEW j \in 1 .. Len(q), NEW i \in 1 .. j PROVE q[i].node \in Text!Around(q[j].node)
    <3>1. j # last => i \in 1 .. Len(calls)
      BY <1>1
    <3>2. i # last => i \in 1 .. Len(calls)
      BY <1>1
    <3> QED
      BY <1>1, <1>2, <3>1, <3>2 DEF Placed, Nested, Fits
  <2>2. ASSUME NEW j \in 1 .. Len(q), NEW n \in Text!Around(q[j].node), Compound(n)
        PROVE  \E i \in 1 .. j : q[i].node = n
    <3>1. CASE j = last
      <4>1. CASE n = c.node
        BY <1>1, <3>1, <4>1
      <4>2. CASE n # c.node
        <5>1. PICK i \in 1 .. Len(calls) : calls[i].node = n
          BY <1>1, <2>2, <3>1, <4>2 DEF Fits
        <5>2. i \in 1 .. j /\ q[i].node = n
          BY <1>1, <3>1, <5>1
        <5> QED
          BY <5>2
      <4> QED
        BY <4>1, <4>2
    <3>2. CASE j # last
      <4>1. j \in 1 .. Len(calls) /\ q[j] = calls[j]
        BY <1>1, <3>2
      <4>2. PICK i \in 1 .. j : calls[i].node = n
        BY <2>2, <4>1 DEF Placed, Nested
      <4>3. i \in 1 .. Len(calls)
        BY <1>1, <4>1
      <4> QED
        BY <1>1, <4>2, <4>3
    <3> QED
      BY <3>1, <3>2
  <2>3. ASSUME NEW j \in 1 .. Len(q), NEW i \in 1 .. (j - 1) PROVE q[i].node < q[j].node
    <3>1. i \in 1 .. Len(calls)
      BY <1>1
    <3> QED
      BY <1>1, <2>3, <3>1 DEF Placed, Nested, Fits
  <2> QED
    BY <2>1, <2>2, <2>3 DEF Nested
<1>4. Aligned(q)
  <2> SUFFICES ASSUME NEW j \in 1 .. Len(q)
               PROVE  Text!Past(q[j].node) = IF j = 1 THEN Text!End ELSE Text!Past(Part(q[j - 1]))
    BY DEF Aligned
  <2>1. CASE j = last
    <3>1. CASE calls = <<>>
      BY <1>1, <2>1, <3>1 DEF Fits
    <3>2. CASE calls # <<>>
      <4>1. Len(calls) \in 1 .. Len(calls) /\ j # 1 /\ j - 1 = Len(calls)
        BY <1>1, <2>1, <3>2, EmptySeq
      <4> QED
        BY <1>1, <2>1, <3>2, <4>1 DEF Fits
    <3> QED
      BY <3>1, <3>2
  <2>2. CASE j # last
    <3>1. j \in 1 .. Len(calls) /\ (j # 1 => j - 1 \in 1 .. Len(calls))
      BY <1>1, <2>2
    <3> QED
      BY <1>1, <3>1 DEF Placed, Aligned
  <2> QED
    BY <2>1, <2>2
<1>5. Counted(q)
  <2>1. 0 \in 0 .. Len(Kids(c.node))
    BY Trees, LenProperties DEF Fits
  <2> QED
    BY <1>1, <2>1 DEF Placed, Counted
<1>6. ASSUME NEW n, WhilesReached(calls, n) PROVE WhilesReached(q, n)
  BY <1>1, <1>6 DEF WhilesReached
<1> QED
  BY <1>3, <1>4, <1>5, <1>6 DEF Placed, q

\* The part that the innermost call waits for fits.
LEMMA PartFits ==
  ASSUME prog \in Programs, NEW calls \in Seq(Contexts), calls # <<>>, Placed(calls),
         NEW k \in DOMAIN Kids(calls[Len(calls)].node),
         Part(calls[Len(calls)]) = Kids(calls[Len(calls)].node)[k]
  PROVE  Fits(calls, Part(calls[Len(calls)]))
<1> DEFINE last == Len(calls)
           n == calls[last].node
           m == Kids(n)[k]
<1>1. last \in Nat \ {0} /\ last \in 1 .. last /\ n \in Statements
  <2>1. last \in Nat \ {0} /\ calls[last] \in Contexts
    BY EmptySeq
  <2> QED
    BY <2>1 DEF Contexts
<1>2. m \in Statements /\ n < m /\ n \in Nat /\ m \in Nat
  BY <1>1, Places
<1>3. Text!Around(m) = {m} \cup Text!Around(n)
  BY <1>1, AroundPart
<1> HIDE DEF m, n, last
<1>4. \A j \in 1 .. last : calls[j].node \in Text!Around(n)
  BY <1>1 DEF Placed, Nested, n, last
<1>5. \A j \in 1 .. last : calls[j].node < m
  <2> SUFFICES ASSUME NEW j \in 1 .. last PROVE calls[j].node < m
    OBVIOUS
  <2>1. CASE j = last
    BY <1>2, <2>1 DEF n
  <2>2. CASE j # last
    <3>1. j \in 1 .. (last - 1) /\ j \in 1 .. Len(calls)
      BY <1>1, <2>2 DEF last
    <3>2. calls[j].node < n
      BY <1>1, <3>1 DEF Placed, Nested, n, last
    <3>3. calls[j].node \in Nat
      <4>1. calls[j] \in Contexts
        BY <3>1
      <4> QED
        BY <4>1, Places DEF Contexts
    <3> QED
      BY <1>2, <3>2, <3>3
  <2> QED
    BY <2>1, <2>2
<1>6. \A x \in Text!Around(m) : Compound(x) => x = m \/ \E j \in 1 .. last : calls[j].node = x
  BY <1>1, <1>3 DEF Placed, Nested, n, last
<1>7. Part(calls[last]) = m
  BY DEF m, n, last
<1> QED
  BY <1>1, <1>2, <1>3, <1>4, <1>5, <1>6, <1>7 DEF Fits, last

\* A branch of an if that has returned fits.
LEMMA BranchFits ==
  ASSUME prog \in Programs, NEW calls \in Seq(Contexts), calls # <<>>, Placed(calls),
         Kind(calls[Len(calls)].node) = "if", NEW k \in DOMAIN Kids(calls[Len(calls)].node)
  PROVE  Fits(SubSeq(calls, 1, Len(calls) - 1), Kids(calls[Len(calls)].node)[k])
<1> DEFINE last == Len(calls)
           n == calls[last].node
           m == Kids(n)[k]
           q == SubSeq(calls, 1, last - 1)
<1>1. last \in Nat \ {0} /\ last \in 1 .. last /\ n \in Statements
  <2>1. last \in Nat \ {0} /\ calls[last] \in Contexts
    BY EmptySeq
  <2> QED
    BY <2>1 DEF Contexts
<1>2. m \in Statements /\ n < m /\ n \in Nat /\ m \in Nat
  BY <1>1, Places
<1>3. Text!Around(m) = {m} \cup Text!Around(n) /\ Text!Past(m) = Text!Past(n)
  BY <1>1, AroundPart, PastIs
<1>4. /\ Len(q) = last - 1
      /\ \A j \in 1 .. Len(q) : q[j] = calls[j] /\ j \in 1 .. last /\ j \in 1 .. (last - 1)
      /\ (last = 1) = (q = <<>>)
  BY <1>1, FrontOfSeq
<1>5. Kind(n) = "if"
  OBVIOUS
<1> HIDE DEF m, n, q, last
<1>6. \A j \in 1 .. Len(q) : q[j].node \in Text!Around(m) /\ q[j].node < m
  <2> SUFFICES ASSUME NEW j \in 1 .. Len(q) PROVE q[j].node \in Text!Around(m) /\ q[j].node < m
    OBVIOUS
  <2>1. q[j].node \in Text!Around(n) /\ q[j].node < n
    BY <1>1, <1>4 DEF Placed, Nested, n, last
  <2>2. q[j].node \in Nat
    <3>1. q[j] \in Contexts
      BY <1>4 DEF last
    <3> QED
      BY <3>1, Places DEF Contexts
  <2> QED
    BY <1>2, <1>3, <2>1, <2>2
<1>7. ASSUME NEW x \in Text!Around(m), Compound(x)
      PROVE  x = m \/ \E j \in 1 .. Len(q) : q[j].node = x
  <2>1. ~Compound(n)
    BY <1>5 DEF Compound, Loops
  <2>2. x = m \/ \E j \in 1 .. last : calls[j].node = x
    BY <1>1, <1>3, <1>7 DEF Placed, Nested, n, last
  <2>3. \A j \in 1 .. last : calls[j].node = x => j \in 1 .. Len(q)
    BY <1>1, <1>4, <1>7, <2>1 DEF n, last
  <2> QED
    BY <1>4, <2>2, <2>3
<1>8. Text!Past(m) = IF q = <<>> THEN Text!End ELSE Text!Past(Part(q[Len(q)]))
  <2>1. Text!Past(n) = IF last = 1 THEN Text!End ELSE Text!Past(Part(calls[last - 1]))
    BY <1>1 DEF Placed, Aligned, n, last
  <2>2. q # <<>> => q[Len(q)] = calls[last - 1]
    BY <1>1, <1>4
  <2> QED
    BY <1>3, <1>4, <2>1, <2>2
<1> QED
  BY <1>2, <1>6, <1>7, <1>8 DEF Fits, q, m, n, last

----------------------------------------------------------------------------
(* Steps of the text *)

Stack == [k \in DOMAIN frames |-> frames[k].point]
Worn == Running /\ Top.worn

LEMMA TextHere ==
  ASSUME IInv, Running
  PROVE  /\ Text!Here = Top.point /\ Text!Ahead = AheadOf(Top) /\ Worn = Top.worn
         /\ Len(Stack) = Len(frames) /\ Stack # <<>> /\ DOMAIN Stack = 1 .. Len(frames)
         /\ Len(frames) \in Nat \ {0} /\ DOMAIN frames = 1 .. Len(frames)
<1>1. Len(frames) \in Nat \ {0} /\ DOMAIN frames = 1 .. Len(frames)
  BY TopFacts
<1>2. Len(Stack) = Len(frames) /\ DOMAIN Stack = 1 .. Len(frames)
  BY <1>1 DEF Stack
<1>3. Len(frames) \in DOMAIN frames
  BY <1>1
<1>4. Stack # <<>>
  BY <1>1, <1>2
<1>5. Text!Here = Stack[Len(Stack)]
  BY DEF Text!Here, Stack
<1>6. Text!Here = Top.point
  BY <1>2, <1>3, <1>5 DEF Stack, Top
<1>7. Worn = Top.worn
  <2>1. Top.worn \in BOOLEAN
    BY TopFacts DEF Frames
  <2> QED
    BY <2>1 DEF Worn
<1>8. Text!Ahead = AheadOf(Top)
  BY <1>6 DEF Text!Ahead, AheadOf, Running
<1> QED
  BY <1>1, <1>2, <1>4, <1>6, <1>7, <1>8

LEMMA TextHandle ==
  Text!Handle <=> /\ Stack = <<>>
                  /\ \E h \in prog.handlers : Stack' = <<<<h, "enter">>>>
                  /\ pending' \in {FALSE, pending}
                  /\ UNCHANGED <<prog, Worn>>
BY DEF Text!Handle, Stack, Worn
LEMMA TextAdvance ==
  Text!Advance <=> /\ Stack # <<>>
                   /\ \E pt \in Text!Ahead \ {Text!End} :
                        /\ Stack' = [Stack EXCEPT ![Len(Stack)] = pt]
                        /\ pending' = (pending \/ Text!AsksForState(pt))
                   /\ Worn' = FALSE
                   /\ UNCHANGED prog
BY DEF Text!Advance, Stack, Worn
LEMMA TextCall ==
  Text!Call <=> /\ Stack # <<>>
                /\ Text!Here[2] \in Text!Expressions
                /\ \E f \in prog.funcs : Stack' = Append(Stack, <<f, "enter">>)
                /\ UNCHANGED <<prog, pending, Worn>>
BY DEF Text!Call, Stack, Worn
LEMMA TextLeave ==
  Text!Leave <=> /\ Stack # <<>>
                 /\ Text!End \in Text!Ahead \/ pending
                 /\ Stack' = SubSeq(Stack, 1, Len(Stack) - 1)
                 /\ Worn' = FALSE
                 /\ UNCHANGED <<prog, pending>>
BY DEF Text!Leave, Stack, Worn
LEMMA TextCutOff ==
  Text!CutOff <=> /\ Stack # <<>>
                  /\ Text!Beyond(Text!Here) # {}
                  /\ Worn' = TRUE
                  /\ UNCHANGED <<prog, Stack, pending>>
BY DEF Text!CutOff, Stack, Worn
LEMMA TextStutter == UNCHANGED Text!vars <=> UNCHANGED <<prog, Stack, pending, Worn>>
BY DEF Text!vars, Stack, Worn

\* What the running frame may become by a step of its own.
Stays(g) == g.point = Top.point /\ g.worn = Top.worn /\ UNCHANGED pending
Advances(g) ==
  /\ g.point \in AheadOf(Top) /\ g.point[2] # "end" /\ ~g.worn
  /\ pending' = (pending \/ Text!AsksForState(g.point))
Tires(g) ==
  /\ g.point = Top.point /\ g.worn /\ UNCHANGED pending
  /\ \E n \in Text!Around(Top.point[1]) : Kind(n) \in Loops
Moves(g) ==
  /\ SetTop(g) /\ g \in Frames
  /\ OnCourse(g, pending')
  /\ Stays(g) \/ Advances(g) \/ Tires(g)

LEMMA MoreIsPending ==
  ASSUME NEW f, NEW p \in BOOLEAN, NEW q \in BOOLEAN, p => q, OnCourse(f, p)
  PROVE  OnCourse(f, q)
BY DEF OnCourse, Jumps, Follows

LEMMA MovesInText ==
  ASSUME IInv, FlowInv, Running, UNCHANGED prog, \E g : Moves(g)
  PROVE  FlowInv' /\ [Text!Next]_(Text!vars)
<1>1. PICK g : Moves(g)
  OBVIOUS
<1> DEFINE n == Len(frames)
<1>2. /\ n \in Nat \ {0} /\ DOMAIN frames = 1 .. n
      /\ Text!Here = Top.point /\ Text!Ahead = AheadOf(Top) /\ Worn = Top.worn
      /\ Len(Stack) = n /\ Stack # <<>> /\ DOMAIN Stack = 1 .. n
  BY TextHere
<1>3. /\ DOMAIN frames' = 1 .. n /\ Len(frames') = n
      /\ frames'[n] = g
      /\ \A k \in 1 .. n : k # n => frames'[k] = frames[k]
  <2>1. frames' = [frames EXCEPT ![n] = g] /\ frames \in Seq(Frames) /\ g \in Frames
    BY <1>1 DEF Moves, SetTop, IInv
  <2>2. frames' \in Seq(Frames) /\ Len(frames') = n
    BY <1>2, <2>1
  <2>3. DOMAIN frames' = 1 .. n
    BY <2>2
  <2>4. \A k \in 1 .. n : frames'[k] = IF k = n THEN g ELSE frames[k]
    BY <1>2, <2>1
  <2>5. n \in 1 .. n
    BY <1>2
  <2> HIDE DEF n
  <2> QED
    BY <2>2, <2>3, <2>4, <2>5
<1>4. pending \in BOOLEAN /\ pending' \in BOOLEAN /\ (pending => pending')
  <2>1. Text!AsksForState(g.point) \in BOOLEAN /\ pending \in BOOLEAN
    BY DEF IInv, Text!AsksForState
  <2>2. UNCHANGED pending \/ pending' = (pending \/ Text!AsksForState(g.point))
    BY <1>1 DEF Moves, Stays, Advances, Tires
  <2> QED
    BY <2>1, <2>2
<1>5. g.point \in Statements \X (Phases \cup {"enter"}) /\ g.worn \in BOOLEAN
  BY <1>1 DEF Moves, Frames
<1>6. Running' /\ Top' = g
  <2>1. frames' # <<>>
    BY <1>2, <1>3
  <2> QED
    BY <1>3, <2>1 DEF Running, Top
<1>7. /\ Stack' = [Stack EXCEPT ![n] = g.point] /\ Worn' = g.worn
      /\ Stack = [k \in 1 .. n |-> Stack[k]]
  <2>1. Stack' = [k \in 1 .. n |-> frames'[k].point]
    BY <1>3 DEF Stack
  <2>2. Stack = [k \in 1 .. n |-> frames[k].point]
    BY <1>2 DEF Stack
  <2> QED
    BY <1>2, <1>3, <1>5, <1>6, <2>1, <2>2 DEF Worn
<1>8. FlowInv'
  <2>1. \A f, p : OnCourse(f, p)' = OnCourse(f, p)
    BY SameCourse
  <2>2. ASSUME NEW k \in 1 .. n PROVE OnCourse(frames'[k], pending')
    <3>1. CASE k = n
      BY <1>1, <1>3, <3>1 DEF Moves
    <3>2. CASE k # n
      <4>1. OnCourse(frames[k], pending)
        BY DEF FlowInv
      <4> QED
        BY <1>3, <1>4, <3>2, <4>1, MoreIsPending
    <3> QED
      BY <3>1, <3>2
  <2>3. ASSUME NEW k \in 1 .. (n - 1) PROVE CallsOut(frames'[k])
    <3>1. k \in 1 .. n /\ k # n
      <4>1. \A m \in Nat : \A j \in 1 .. (m - 1) : j \in 1 .. m /\ j # m
        OBVIOUS
      <4> QED
        BY <1>2, <4>1
    <3>2. CallsOut(frames[k])
      BY DEF FlowInv
    <3> QED
      BY <1>3, <3>1, <3>2
  <2>4. \A f : CallsOut(f)' = CallsOut(f)
    BY DEF CallsOut, Expecting, Inmost
  <2> QED
    BY <1>3, <2>1, <2>2, <2>3, <2>4 DEF FlowInv
<1>9. CASE Stays(g)
  <2>1. Stack[n] = Top.point
    BY <1>2 DEF Stack, Top
  <2>2. Stack' = Stack
    <3>1. Stack' = [Stack EXCEPT ![n] = Stack[n]]
      BY <1>7, <1>9, <2>1 DEF Stays
    <3> QED
      BY <1>2, <1>7, <3>1
  <2> QED
    BY <1>2, <1>7, <1>8, <1>9, <2>2, TextStutter DEF Stays
<1>10. CASE Advances(g)
  <2>1. g.point \in Text!Ahead \ {Text!End}
    BY <1>2, <1>10 DEF Advances, Text!End
  <2>2. Text!Advance
    BY <1>2, <1>5, <1>7, <1>10, <2>1, TextAdvance DEF Advances
  <2> QED
    BY <1>8, <2>2 DEF Text!Next
<1>11. CASE Tires(g)
  <2>1. Stack[n] = Top.point
    BY <1>2 DEF Stack, Top
  <2>2. Stack' = Stack
    <3>1. Stack' = [Stack EXCEPT ![n] = Stack[n]]
      BY <1>7, <1>11, <2>1 DEF Tires
    <3> QED
      BY <1>2, <1>7, <3>1
  <2>3. Text!Beyond(Text!Here) # {}
    BY <1>2, <1>11, SameTree DEF Tires, Text!Beyond
  <2>4. Text!CutOff
    BY <1>2, <1>5, <1>7, <1>11, <2>2, <2>3, TextCutOff DEF Tires
  <2> QED
    BY <1>8, <2>4 DEF Text!Next
<1> QED
  BY <1>1, <1>9, <1>10, <1>11 DEF Moves

----------------------------------------------------------------------------
(* Frames on course *)

SamePlace(g, f) == /\ g.point = f.point /\ g.worn = f.worn
                   /\ g.returning = f.returning /\ g.jumping = f.jumping

LEMMA Fields ==
  ASSUME NEW f \in Frames
  PROVE  /\ Finish(f).ctl = SubSeq(f.ctl, 1, Len(f.ctl) - 1) /\ SamePlace(Finish(f), f)
         /\ \A c : SetCtx(f, c).ctl = [f.ctl EXCEPT ![Len(f.ctl)] = c] /\ SamePlace(SetCtx(f, c), f)
         /\ \A n : /\ Exec(f, n).ctl = Append(f.ctl, [node |-> n, phase |-> "start", i |-> 0, calls |-> 0,
                                                      depth |-> f.scopeDepth])
                   /\ SamePlace(Exec(f, n), f)
         /\ EnterScope(f).ctl = f.ctl /\ SamePlace(EnterScope(f), f)
         /\ LeaveScope(f).ctl = f.ctl /\ SamePlace(LeaveScope(f), f)
         /\ \A n, ph : /\ Reach(f, n, ph).ctl = f.ctl
                       /\ Reach(f, n, ph).point = <<n, ph>> /\ Reach(f, n, ph).worn = FALSE
                       /\ Reach(f, n, ph).returning = f.returning /\ Reach(f, n, ph).jumping = f.jumping
<1>1. Finish(f).ctl = SubSeq(f.ctl, 1, Len(f.ctl) - 1) /\ SamePlace(Finish(f), f)
  BY DEF Finish, SamePlace, Frames
<1>2. ASSUME NEW c PROVE SetCtx(f, c).ctl = [f.ctl EXCEPT ![Len(f.ctl)] = c] /\ SamePlace(SetCtx(f, c), f)
  BY DEF SetCtx, SamePlace, Frames
<1>3. ASSUME NEW n
      PROVE  /\ Exec(f, n).ctl = Append(f.ctl, [node |-> n, phase |-> "start", i |-> 0, calls |-> 0,
                                                depth |-> f.scopeDepth])
             /\ SamePlace(Exec(f, n), f)
  BY DEF Exec, SamePlace, Frames
<1>4. EnterScope(f).ctl = f.ctl /\ SamePlace(EnterScope(f), f)
  BY DEF EnterScope, SamePlace, Frames
<1>5. LeaveScope(f).ctl = f.ctl /\ SamePlace(LeaveScope(f), f)
  BY DEF LeaveScope, SamePlace, Frames
<1>6. ASSUME NEW n, NEW ph
      PROVE  /\ Reach(f, n, ph).ctl = f.ctl
             /\ Reach(f, n, ph).point = <<n, ph>> /\ Reach(f, n, ph).worn = FALSE
             /\ Reach(f, n, ph).returning = f.returning /\ Reach(f, n, ph).jumping = f.jumping
  BY DEF Reach, Frames
<1> QED
  BY <1>1, <1>2, <1>3, <1>4, <1>5, <1>6

LEMMA ReachedInmost ==
  ASSUME NEW calls \in Seq(Contexts), calls # <<>>, Placed(calls)
  PROVE  WhilesReached(calls, calls[Len(calls)].node)
<1>1. Len(calls) \in 1 .. Len(calls)
  BY EmptySeq
<1> QED
  BY <1>1 DEF WhilesReached, Placed, Nested

\* The innermost statement is complete, and the text goes on past it.
LEMMA CourseCompleted ==
  ASSUME NEW f, Sound(f), f.ctl # <<>>, Placed(f.ctl),
         NEW g, g.ctl = SubSeq(f.ctl, 1, Len(f.ctl) - 1), ~Unwinding(g),
         WhilesReached(f.ctl, g.point[1]),
         NEW p \in BOOLEAN, p \/ Text!Past(Inmost(f).node) \in AheadOf(g)
  PROVE  OnCourse(g, p)
<1> DEFINE last == Len(f.ctl)
<1>1. f.ctl \in Seq(Contexts)
  BY DEF Sound, Frames
<1>2. Placed(g.ctl) /\ WhilesReached(g.ctl, g.point[1])
  BY <1>1, PlacedFront
<1>3. /\ Len(g.ctl) = last - 1 /\ last \in Nat \ {0}
      /\ \A j \in 1 .. (last - 1) : g.ctl[j] = f.ctl[j]
      /\ (last = 1) = (g.ctl = <<>>)
  BY <1>1, FrontOfSeq
<1>4. Text!Past(Inmost(f).node) = IF last = 1 THEN Text!End ELSE Text!Past(Part(f.ctl[last - 1]))
  BY <1>3 DEF Placed, Aligned, Inmost
<1>5. ASSUME g.ctl # <<>>
      PROVE  /\ Waits(Inmost(g)) /\ ~Expecting(Inmost(g)) /\ ~Entering(Inmost(g))
             /\ Inmost(g) = f.ctl[last - 1]
  <2>1. Inmost(g) = f.ctl[last - 1] /\ last - 1 \in 1 .. (last - 1)
    BY <1>3, <1>5 DEF Inmost
  <2>2. Waits(f.ctl[last - 1])
    BY <2>1 DEF Sound, OthersWait
  <2> QED
    BY <2>1, <2>2 DEF Waits, Expecting, Entering
<1>6. Follows(g, p)
  BY <1>3, <1>4, <1>5 DEF Follows
<1> QED
  BY <1>2, <1>6 DEF OnCourse, Jumps, Returns, Unwinding

\* A call is made for a statement that the text goes on into.
LEMMA CourseStarted ==
  ASSUME prog \in Programs, NEW calls \in Seq(Contexts), Placed(calls), NEW n, Fits(calls, n),
         NEW d \in Nat, NEW g,
         g.ctl = Append(calls, [node |-> n, phase |-> "start", i |-> 0, calls |-> 0, depth |-> d]),
         ~Unwinding(g), WhilesReached(calls, g.point[1]), Text!Into(n) \in AheadOf(g),
         NEW p \in BOOLEAN
  PROVE  OnCourse(g, p)
<1> DEFINE c == [node |-> n, phase |-> "start", i |-> 0, calls |-> 0, depth |-> d]
<1>1. c \in Contexts /\ c.node = n /\ c.phase = "start" /\ c.i = 0
  BY DEF Contexts, Phases, Fits
<1>2. g.ctl = Append(calls, c)
  OBVIOUS
<1> HIDE DEF c
<1>3. Placed(g.ctl) /\ WhilesReached(g.ctl, g.point[1])
  BY <1>1, <1>2, PlacedMore
<1>4. g.ctl # <<>> /\ Inmost(g) = c
  BY <1>2 DEF Inmost
<1>5. Follows(g, p)
  BY <1>1, <1>4 DEF Follows, Expecting, Waits
<1> QED
  BY <1>3, <1>5 DEF OnCourse, Jumps, Returns, Unwinding

\* The innermost call comes to another phase or index.
LEMMA CourseChanged ==
  ASSUME NEW f, Sound(f), f.ctl # <<>>, Placed(f.ctl),
         NEW c, c.node = Inmost(f).node, c.phase # "start",
         Kind(c.node) = "block" => c.i \in 0 .. Len(Kids(c.node)),
         NEW g, g.ctl = [f.ctl EXCEPT ![Len(f.ctl)] = c], ~Unwinding(g),
         WhilesReached(f.ctl, g.point[1]), Kind(c.node) = "while" => c.node \in Text!Around(g.point[1]),
         NEW p \in BOOLEAN,
         Expecting(c) => g.point = <<c.node, c.phase>> /\ ~g.worn,
         Entering(c) => Text!Into(c.node) \in AheadOf(g),
         Waits(c) => p \/ Text!Past(Part(c)) \in AheadOf(g)
  PROVE  OnCourse(g, p)
<1>1. f.ctl \in Seq(Contexts) /\ Inmost(f) = f.ctl[Len(f.ctl)] /\ Len(f.ctl) \in Nat \ {0}
  BY InmostTyped DEF Sound, Frames
<1>2. Placed(g.ctl) /\ WhilesReached(g.ctl, g.point[1])
  BY <1>1, PlacedLast
<1>3. g.ctl # <<>> /\ Inmost(g) = c
  <2>1. Len(g.ctl) = Len(f.ctl) /\ g.ctl[Len(f.ctl)] = c
    BY <1>1
  <2> QED
    BY <1>1, <2>1 DEF Inmost
<1>4. Follows(g, p)
  BY <1>3 DEF Follows
<1> QED
  BY <1>2, <1>4 DEF OnCourse, Jumps, Returns, Unwinding

\* The innermost statement is left by a return, or by a jump to a label it has not.
LEMMA CourseUnwound ==
  ASSUME NEW f, Sound(f), f.ctl # <<>>, NEW p \in BOOLEAN, OnCourse(f, p), Unwinding(f),
         NEW g, g.ctl = SubSeq(f.ctl, 1, Len(f.ctl) - 1), SamePlace(g, f),
         p \/ f.jumping = NoName \/ Inmost(f).node \notin Text!Homes(f.point[1])
  PROVE  OnCourse(g, p)
<1> DEFINE last == Len(f.ctl)
<1>1. f.ctl \in Seq(Contexts) /\ Inmost(f) = f.ctl[last]
  BY DEF Sound, Frames, Inmost
<1>2. Placed(g.ctl) /\ WhilesReached(g.ctl, g.point[1])
  BY <1>1, PlacedFront DEF OnCourse, SamePlace
<1>3. /\ Len(g.ctl) = last - 1 /\ last \in Nat \ {0}
      /\ \A j \in 1 .. (last - 1) : g.ctl[j] = f.ctl[j]
  BY <1>1, FrontOfSeq
<1>4. Unwinding(g)
  BY DEF SamePlace, Unwinding
<1>5. Returns(g)
  BY DEF OnCourse, Returns, SamePlace, AheadOf
<1>6. Jumps(g, p)
  <2> SUFFICES ASSUME f.jumping # NoName
               PROVE  /\ \A j \in 1 .. Len(g.ctl) : g.ctl[j].node \in Text!Around(f.point[1])
                      /\ p \/ \A b \in Text!Homes(f.point[1]) : \E j \in 1 .. Len(g.ctl) : g.ctl[j].node = b
    BY DEF OnCourse, Jumps, SamePlace
  <2>1. \A j \in 1 .. Len(g.ctl) : j \in 1 .. last
    BY <1>3
  <2>2. \A j \in 1 .. Len(g.ctl) : g.ctl[j].node \in Text!Around(f.point[1])
    BY <1>3, <2>1 DEF OnCourse, Jumps
  <2>3. ASSUME ~p, NEW b \in Text!Homes(f.point[1])
        PROVE  \E j \in 1 .. Len(g.ctl) : g.ctl[j].node = b
    <3>1. PICK j \in 1 .. last : f.ctl[j].node = b
      BY <2>3 DEF OnCourse, Jumps
    <3>2. j # last
      BY <1>1, <2>3, <3>1
    <3>3. j \in 1 .. (last - 1)
      BY <1>3, <3>1, <3>2
    <3> QED
      BY <1>3, <3>1, <3>3
  <2> QED
    BY <2>2, <2>3
<1> QED
  BY <1>2, <1>4, <1>5, <1>6 DEF OnCourse, Follows

----------------------------------------------------------------------------
(* Steps of the running frame *)

LEMMA TopOnCourse ==
  ASSUME IInv, FlowInv, NEW kinds, NEW ph, At(kinds, ph)
  PROVE  /\ prog \in Programs /\ pending \in BOOLEAN /\ Running
         /\ Top \in Frames /\ Sound(Top) /\ Clean(Top) /\ OnCourse(Top, pending)
         /\ Top.ctl \in Seq(Contexts) /\ Top.ctl # <<>> /\ Len(Top.ctl) \in Nat \ {0}
         /\ Ctx = Inmost(Top) /\ Ctx = Top.ctl[Len(Top.ctl)]
         /\ Ctx \in Contexts /\ Ctx.node \in Statements /\ Kind(Ctx.node) \in kinds /\ Ctx.phase = ph
         /\ ph # "body" => ~Unwinding(Top)
         /\ Kids(Ctx.node) \in Seq(Statements)
<1>1. PICK f : /\ f = Top /\ Running
               /\ Sound(f) /\ Clean(f) /\ f \in Frames /\ f.ctl # <<>>
               /\ Inmost(f) = Ctx /\ Ctx \in Contexts /\ Ctx.node \in Statements
               /\ Kind(Ctx.node) \in kinds /\ Ctx.phase = ph
               /\ ph # "body" => ~Unwinding(f)
  BY AtFacts
<1>2. Len(frames) \in 1 .. Len(frames)
  BY <1>1, TopFacts
<1>3. OnCourse(Top, pending)
  BY <1>2 DEF FlowInv, Top
<1>4. Top.ctl \in Seq(Contexts) /\ Len(Top.ctl) \in Nat \ {0}
  BY <1>1, InmostTyped DEF Frames
<1>5. prog \in Programs /\ pending \in BOOLEAN
  BY DEF IInv
<1> QED
  BY <1>1, <1>3, <1>4, <1>5, Trees DEF Inmost

\* Where a statement starts, or is in the middle of an expression.
LEMMA TopFollows ==
  ASSUME IInv, FlowInv, NEW kinds, NEW ph, At(kinds, ph)
  PROVE  /\ ph = "start" => Text!Into(Ctx.node) \in AheadOf(Top)
         /\ ph \in {"eval", "init", "post"} => Top.point = <<Ctx.node, ph>> /\ ~Top.worn
         /\ ph = "body" /\ ~Unwinding(Top) /\ Kind(Ctx.node) = "block" /\ Ctx.i = 0 =>
              Text!Into(Ctx.node) \in AheadOf(Top)
         /\ ph = "body" /\ ~Unwinding(Top) /\ (Kind(Ctx.node) = "block" => Ctx.i > 0) =>
              pending \/ Text!Past(Part(Ctx)) \in AheadOf(Top)
         /\ Kind(Ctx.node) = "block" => Ctx.i \in 0 .. Len(Kids(Ctx.node))
         /\ ph = "start" => Ctx.i = 0
<1>1. /\ OnCourse(Top, pending) /\ Ctx = Inmost(Top) /\ Ctx = Top.ctl[Len(Top.ctl)]
      /\ Top.ctl # <<>> /\ Ctx.phase = ph /\ (ph # "body" => ~Unwinding(Top))
      /\ Len(Top.ctl) \in Nat \ {0}
  BY TopOnCourse
<1>2. Len(Top.ctl) \in 1 .. Len(Top.ctl)
  BY <1>1
<1>3. Follows(Top, pending) /\ Placed(Top.ctl)
  BY <1>1 DEF OnCourse
<1>4. /\ Kind(Ctx.node) = "block" => Ctx.i \in 0 .. Len(Kids(Ctx.node))
      /\ ph = "start" => Ctx.i = 0
  BY <1>1, <1>2, <1>3 DEF Placed, Counted
<1> QED
  BY <1>1, <1>3, <1>4 DEF Follows, Expecting, Entering, Waits

\* The types come from the invariant of the next state.
LEMMA TypedTop ==
  ASSUME IInv, IInv', Running, UNCHANGED prog, NEW g, SetTop(g)
  PROVE  g \in Frames
<1>1. Len(frames) \in Nat \ {0} /\ DOMAIN frames = 1 .. Len(frames) /\ frames \in Seq(Frames)
  BY TopFacts DEF IInv
<1>2. frames' = [frames EXCEPT ![Len(frames)] = g]
  BY DEF SetTop
<1>3. Len(frames) \in DOMAIN frames /\ DOMAIN frames' = DOMAIN frames /\ frames'[Len(frames)] = g
  BY <1>1, <1>2
<1>4. frames' \in Seq(Frames)'
  BY DEF IInv
<1>5. Frames' = Frames
  <2>1. Statements' = Statements
    BY DEF Statements
  <2> QED
    BY <2>1 DEF Frames, Contexts, Locals
<1> QED
  BY <1>3, <1>4, <1>5, SeqElement

Steady == IInv /\ FlowInv /\ IInv' /\ UNCHANGED prog

LEMMA SuccessorsAre ==
  ASSUME NEW n
  PROVE  /\ Kind(n) \in {"expr", "decl", "label", "state", "empty"} =>
              Text!Successors(<<n, "eval">>) = {Text!Past(n)}
         /\ Kind(n) \in Loops => Text!Successors(<<n, "eval">>) = {Text!Into(Kids(n)[1]), Text!Past(n)}
         /\ Kind(n) = "if" => Text!Successors(<<n, "eval">>) =
              {Text!Into(Kids(n)[k]) : k \in DOMAIN Kids(n)} \cup (IF Len(Kids(n)) = 1 THEN {Text!Past(n)} ELSE {})
         /\ Kind(n) = "return" => Text!Successors(<<n, "eval">>) = {Text!End}
         /\ Kind(n) = "jump" => Text!Successors(<<n, "eval">>) = {Text!Target(n)}
         /\ Text!Successors(<<n, "init">>) = {<<n, "eval">>}
         /\ Text!Successors(<<n, "post">>) = {<<n, "eval">>}
         /\ Text!Successors(<<n, "enter">>) = {Text!Into(n)}
<1>1. /\ Text!Successors(<<n, "init">>) = {<<n, "eval">>}
      /\ Text!Successors(<<n, "post">>) = {<<n, "eval">>}
      /\ Text!Successors(<<n, "enter">>) = {Text!Into(n)}
      /\ Text!Successors(<<n, "eval">>) = Text!Onwards(n)
  BY DEF Text!Successors
<1>2. Kind(n) \in {"expr", "decl", "label", "state", "empty"} => Text!Onwards(n) = {Text!Past(n)}
  BY SameTree DEF Text!Onwards, Loops
<1>3. Kind(n) \in Loops => Text!Onwards(n) = {Text!Into(Kids(n)[1]), Text!Past(n)}
  BY SameTree DEF Text!Onwards, Loops
<1>4. Kind(n) = "if" => Text!Onwards(n) =
        {Text!Into(Kids(n)[k]) : k \in DOMAIN Kids(n)} \cup (IF Len(Kids(n)) = 1 THEN {Text!Past(n)} ELSE {})
  BY SameTree DEF Text!Onwards, Loops
<1>5. Kind(n) = "return" => Text!Onwards(n) = {Text!End}
  BY SameTree DEF Text!Onwards, Loops
<1>6. Kind(n) = "jump" => Text!Onwards(n) = {Text!Target(n)}
  BY SameTree DEF Text!Onwards, Loops
<1> QED
  BY <1>1, <1>2, <1>3, <1>4, <1>5, <1>6

\* A statement that is done as soon as it is reached.
LEMMA LeafMoves ==
  ASSUME Steady, NEW kinds, At(kinds, "start"), kinds \subseteq {"label", "state", "empty"},
         SetTop(Finish(Reach(Top, Ctx.node, "eval"))),
         pending' = (pending \/ Text!AsksForState(<<Ctx.node, "eval">>))
  PROVE  \E g : Moves(g)
<1> DEFINE n == Ctx.node
           h == Reach(Top, n, "eval")
           g == Finish(h)
<1>1. /\ prog \in Programs /\ pending \in BOOLEAN /\ Running
      /\ Top \in Frames /\ Sound(Top) /\ OnCourse(Top, pending)
      /\ Top.ctl \in Seq(Contexts) /\ Top.ctl # <<>>
      /\ Ctx = Inmost(Top) /\ Ctx = Top.ctl[Len(Top.ctl)]
      /\ n \in Statements /\ Kind(n) \in kinds /\ ~Unwinding(Top)
  BY TopOnCourse DEF Steady
<1>2. h \in Frames /\ h.ctl = Top.ctl /\ h.point = <<n, "eval">> /\ h.worn = FALSE
      /\ h.returning = Top.returning /\ h.jumping = Top.jumping
  <2>1. Sound(h)
    BY <1>1, ReachSound DEF Phases
  <2>2. \A m, ph : /\ Reach(Top, m, ph).ctl = Top.ctl
                   /\ Reach(Top, m, ph).point = <<m, ph>> /\ Reach(Top, m, ph).worn = FALSE
                   /\ Reach(Top, m, ph).returning = Top.returning /\ Reach(Top, m, ph).jumping = Top.jumping
    BY <1>1, Fields
  <2> QED
    BY <2>1, <2>2 DEF Sound
<1> HIDE DEF h
<1>3. g.ctl = SubSeq(Top.ctl, 1, Len(Top.ctl) - 1) /\ g.point = <<n, "eval">> /\ g.worn = FALSE
      /\ ~Unwinding(g)
  BY <1>1, <1>2, Fields DEF SamePlace, Unwinding
<1>4. g \in Frames /\ SetTop(g)
  BY <1>1, TypedTop DEF Steady, h
<1> HIDE DEF g
<1>5. Text!Past(n) \in AheadOf(g)
  <2>1. Text!Successors(<<n, "eval">>) = {Text!Past(n)}
    BY <1>1, SuccessorsAre
  <2> QED
    BY <1>3, <2>1 DEF AheadOf
<1>6. pending' \in BOOLEAN
  BY DEF Steady, IInv
<1>7. WhilesReached(Top.ctl, n)
  BY <1>1, ReachedInmost DEF OnCourse
<1>8. g.point[1] = n
  BY <1>3
<1>9. OnCourse(g, pending')
  BY <1>1, <1>3, <1>5, <1>6, <1>7, <1>8, CourseCompleted DEF OnCourse
<1>10. Text!Into(n) = <<n, "eval">>
  BY <1>1, IntoIs
<1>11. Advances(g)
  BY <1>3, <1>10, TopFollows DEF Advances, Steady
<1> QED
  BY <1>4, <1>9, <1>11 DEF Moves

LEMMA NoState ==
  ASSUME NEW n, NEW ph, Kind(n) # "state"
  PROVE  pending \in BOOLEAN => pending = (pending \/ Text!AsksForState(<<n, ph>>))
<1>1. Text!AsksForState(<<n, ph>>) = FALSE
  BY SameTree DEF Text!AsksForState
<1> QED
  BY <1>1

LEMMA SkipMoves == Steady /\ Skip => \E g : Moves(g)
<1> SUFFICES ASSUME Steady, Skip PROVE \E g : Moves(g)
  OBVIOUS
<1>1. At(Kinds, "start")
  BY DEF Skip
<1>2. ~Unwinding(Top) /\ pending \in BOOLEAN
  BY <1>1, TopOnCourse DEF Steady
<1>3. /\ At({"label", "empty"}, "start")
      /\ SetTop(Finish(Reach(Top, Ctx.node, "eval"))) /\ UNCHANGED pending
  BY <1>2 DEF Skip, At
<1>4. Kind(Ctx.node) \in {"label", "empty"}
  BY <1>3 DEF At
<1>5. pending' = (pending \/ Text!AsksForState(<<Ctx.node, "eval">>))
  BY <1>2, <1>3, <1>4, NoState
<1> QED
  BY <1>3, <1>5, LeafMoves

LEMMA ChangeStateMoves == Steady /\ ChangeState => \E g : Moves(g)
<1> SUFFICES ASSUME Steady, ChangeState PROVE \E g : Moves(g)
  OBVIOUS
<1>1. /\ At({"state"}, "start") /\ Kind(Ctx.node) = "state"
      /\ SetTop(Finish(Reach(Top, Ctx.node, "eval")))
      /\ pending' = (pending \/ Name(Ctx.node) \in prog.states)
  BY DEF ChangeState, Ready, At
<1>2. Text!AsksForState(<<Ctx.node, "eval">>) = (Name(Ctx.node) \in prog.states)
  BY <1>1, SameTree DEF Text!AsksForState
<1>3. pending' = (pending \/ Text!AsksForState(<<Ctx.node, "eval">>))
  BY <1>1, <1>2
<1> QED
  BY <1>1, <1>3, LeafMoves

----------------------------------------------------------------------------
(* Statements that are complete *)

LEMMA CompletedMoves ==
  ASSUME Steady, NEW kinds, NEW ph, At(kinds, ph), ~Unwinding(Top),
         NEW g, SetTop(g), g.ctl = SubSeq(Top.ctl, 1, Len(Top.ctl) - 1), SamePlace(g, Top),
         UNCHANGED pending, pending \/ Text!Past(Ctx.node) \in AheadOf(Top)
  PROVE  \E h : Moves(h)
<1>1. /\ pending \in BOOLEAN /\ Running /\ Sound(Top) /\ OnCourse(Top, pending)
      /\ Top.ctl # <<>> /\ Ctx = Inmost(Top)
  BY TopOnCourse DEF Steady
<1>2. g \in Frames
  BY <1>1, TypedTop DEF Steady
<1>3. ~Unwinding(g) /\ g.point = Top.point /\ AheadOf(g) = AheadOf(Top)
  BY DEF SamePlace, Unwinding, AheadOf
<1>4. OnCourse(g, pending)
  BY <1>1, <1>3, CourseCompleted DEF OnCourse
<1>5. Stays(g) /\ pending' = pending
  BY DEF Stays, SamePlace
<1> QED
  BY <1>2, <1>4, <1>5 DEF Moves

\* The statement was about its expression.
LEMMA DoneMoves ==
  ASSUME Steady, NEW kinds, At(kinds, "eval"),
         Text!Past(Ctx.node) \in Text!Successors(<<Ctx.node, "eval">>),
         NEW g, SetTop(g), g.ctl = SubSeq(Top.ctl, 1, Len(Top.ctl) - 1), SamePlace(g, Top),
         UNCHANGED pending
  PROVE  \E h : Moves(h)
<1>1. ~Unwinding(Top)
  BY TopOnCourse DEF Steady
<1>2. Top.point = <<Ctx.node, "eval">>
  BY TopFollows DEF Steady
<1>3. Text!Past(Ctx.node) \in AheadOf(Top)
  BY <1>2 DEF AheadOf
<1> QED
  BY <1>1, <1>3, CompletedMoves

LEMMA EvaluatedMoves == Steady /\ Evaluated => \E g : Moves(g)
<1> SUFFICES ASSUME Steady, Evaluated PROVE \E g : Moves(g)
  OBVIOUS
<1>1. At({"expr"}, "eval") /\ SetTop(Finish(Top)) /\ UNCHANGED pending
  BY DEF Evaluated
<1>2. Kind(Ctx.node) = "expr" /\ Top \in Frames
  BY <1>1, TopOnCourse DEF Steady
<1>3. Finish(Top).ctl = SubSeq(Top.ctl, 1, Len(Top.ctl) - 1) /\ SamePlace(Finish(Top), Top)
  BY <1>2, Fields
<1>4. Text!Past(Ctx.node) \in Text!Successors(<<Ctx.node, "eval">>)
  BY <1>2, SuccessorsAre
<1> QED
  BY <1>1, <1>3, <1>4, DoneMoves

LEMMA DeclareMoves == Steady /\ Declare => \E g : Moves(g)
<1> SUFFICES ASSUME Steady, Declare PROVE \E g : Moves(g)
  OBVIOUS
<1>1. At({"decl"}, "eval") /\ SetTop(Finish(Define(Top))) /\ UNCHANGED pending
  BY DEF Declare
<1>2. Kind(Ctx.node) = "decl" /\ Top \in Frames
  BY <1>1, TopOnCourse DEF Steady
<1> DEFINE g == Finish(Define(Top))
<1>3. g.ctl = SubSeq(Top.ctl, 1, Len(Top.ctl) - 1) /\ SamePlace(g, Top)
  BY <1>2 DEF Finish, Define, SamePlace, Frames
<1>4. Text!Past(Ctx.node) \in Text!Successors(<<Ctx.node, "eval">>)
  BY <1>2, SuccessorsAre
<1> HIDE DEF g
<1>5. SetTop(g)
  BY <1>1 DEF g
<1> QED
  BY <1>1, <1>3, <1>4, <1>5, DoneMoves

\* A loop returns, with the scope of a for.
LEMMA LeaveLoopFields ==
  ASSUME NEW f \in Frames
  PROVE  LeaveLoop(f).ctl = SubSeq(f.ctl, 1, Len(f.ctl) - 1) /\ SamePlace(LeaveLoop(f), f)
BY DEF LeaveLoop, Finish, LeaveScope, SamePlace, Frames

LEMMA EndLoopMoves == Steady /\ EndLoop => \E g : Moves(g)
<1> SUFFICES ASSUME Steady, EndLoop PROVE \E g : Moves(g)
  OBVIOUS
<1>1. At(Loops, "eval") /\ SetTop(LeaveLoop(Top)) /\ UNCHANGED pending
  BY DEF EndLoop
<1>2. Kind(Ctx.node) \in Loops /\ Top \in Frames
  BY <1>1, TopOnCourse DEF Steady
<1>3. LeaveLoop(Top).ctl = SubSeq(Top.ctl, 1, Len(Top.ctl) - 1) /\ SamePlace(LeaveLoop(Top), Top)
  BY <1>2, LeaveLoopFields
<1>4. Text!Past(Ctx.node) \in Text!Successors(<<Ctx.node, "eval">>)
  BY <1>2, SuccessorsAre
<1> QED
  BY <1>1, <1>3, <1>4, DoneMoves

LEMMA ReturnMoves == Steady /\ Return => \E g : Moves(g)
<1> SUFFICES ASSUME Steady, Return PROVE \E g : Moves(g)
  OBVIOUS
<1> DEFINE g == Finish([Top EXCEPT !.returning = TRUE])
<1>1. At({"return"}, "eval") /\ SetTop(g) /\ UNCHANGED pending
  BY DEF Return
<1>2. /\ Kind(Ctx.node) = "return" /\ Top \in Frames /\ Running
      /\ OnCourse(Top, pending) /\ ~Unwinding(Top)
      /\ Top.ctl \in Seq(Contexts) /\ Top.ctl # <<>>
  BY <1>1, TopOnCourse DEF Steady
<1>3. /\ g.ctl = SubSeq(Top.ctl, 1, Len(Top.ctl) - 1)
      /\ g.point = Top.point /\ g.worn = Top.worn /\ g.returning = TRUE /\ g.jumping = Top.jumping
  BY <1>2 DEF Finish, Frames
<1> HIDE DEF g
<1>4. g \in Frames
  BY <1>1, <1>2, TypedTop DEF Steady
<1>5. Placed(g.ctl) /\ WhilesReached(g.ctl, g.point[1])
  BY <1>2, <1>3, PlacedFront DEF OnCourse
<1>6. Jumps(g, pending)
  BY <1>2, <1>3 DEF Jumps, Unwinding
<1>7. Returns(g)
  <2>1. Top.point = <<Ctx.node, "eval">>
    BY <1>1, TopFollows DEF Steady
  <2>2. Text!Successors(<<Ctx.node, "eval">>) = {Text!End}
    BY <1>2, SuccessorsAre
  <2> QED
    BY <1>3, <2>1, <2>2 DEF Returns, AheadOf
<1>8. Follows(g, pending)
  BY <1>3 DEF Follows, Unwinding
<1>9. OnCourse(g, pending')
  BY <1>1, <1>5, <1>6, <1>7, <1>8 DEF OnCourse
<1>10. Stays(g)
  BY <1>1, <1>3 DEF Stays
<1> QED
  BY <1>1, <1>4, <1>9, <1>10 DEF Moves

LEMMA CutOffMoves == Steady /\ CutOff => \E g : Moves(g)
<1> SUFFICES ASSUME Steady, CutOff PROVE \E g : Moves(g)
  OBVIOUS
<1>1. PICK ph \in {"eval", "body", "post"} : At(Loops, ph)
  BY DEF CutOff, At, Loops
<1> DEFINE h == LeaveLoop(Top)
           g == [h EXCEPT !.worn = TRUE]
           n == Ctx.node
<1>2. SetTop(g) /\ UNCHANGED pending
  BY DEF CutOff
<1>3. /\ prog \in Programs /\ pending \in BOOLEAN /\ Kind(n) \in Loops /\ Top \in Frames /\ Running
      /\ Sound(Top) /\ OnCourse(Top, pending) /\ Clean(Top) /\ Ctx = Inmost(Top) /\ Ctx.phase = ph
      /\ Top.ctl \in Seq(Contexts) /\ Top.ctl # <<>> /\ n \in Statements
      /\ (ph # "body" => ~Unwinding(Top))
  BY <1>1, TopOnCourse DEF Steady
<1>4. ~Unwinding(Top)
  BY <1>3 DEF CutOff, LoopBroken, At
<1>5. h \in Frames /\ h.ctl = SubSeq(Top.ctl, 1, Len(Top.ctl) - 1) /\ SamePlace(h, Top)
  BY <1>1, <1>3, LeaveLoopFields, LeaveLoopSound DEF Steady
<1> HIDE DEF h
<1>6. /\ g.ctl = SubSeq(Top.ctl, 1, Len(Top.ctl) - 1)
      /\ g.point = Top.point /\ g.worn = TRUE /\ ~Unwinding(g)
  BY <1>4, <1>5 DEF SamePlace, Frames, Unwinding
<1> HIDE DEF g
<1>7. g \in Frames
  BY <1>2, <1>3, TypedTop DEF Steady
<1>8. n \in Text!Around(Top.point[1])
  <2>1. CASE ph = "body"
    <3>1. Kind(n) = "while"
      BY <1>3, <2>1 DEF CutOff, At
    <3>2. Len(Top.ctl) \in 1 .. Len(Top.ctl) /\ Top.ctl[Len(Top.ctl)] = Ctx
      BY <1>3, InmostTyped
    <3> QED
      BY <1>3, <2>1, <3>1, <3>2 DEF OnCourse, WhilesReached
  <2>2. CASE ph # "body"
    <3>1. Top.point = <<n, ph>>
      BY <1>1, <2>2, TopFollows DEF Steady
    <3> QED
      BY <1>3, <3>1, AroundIs
  <2> QED
    BY <2>1, <2>2
<1>9. Text!Past(n) \in AheadOf(g)
  BY <1>3, <1>6, <1>8, SameTree DEF AheadOf, Text!Beyond
<1>10. OnCourse(g, pending)
  BY <1>3, <1>6, <1>9, CourseCompleted DEF OnCourse
<1>11. Tires(g)
  BY <1>2, <1>3, <1>6, <1>8 DEF Tires
<1> QED
  BY <1>2, <1>7, <1>10, <1>11 DEF Moves

----------------------------------------------------------------------------
(* Blocks and loops that are left *)

LEMMA UnwoundMoves ==
  ASSUME Steady, NEW kinds, At(kinds, "body"), Unwinding(Top),
         NEW g, SetTop(g), g.ctl = SubSeq(Top.ctl, 1, Len(Top.ctl) - 1), SamePlace(g, Top),
         UNCHANGED pending,
         pending \/ Top.jumping = NoName \/ Ctx.node \notin Text!Homes(Top.point[1])
  PROVE  \E h : Moves(h)
<1>1. /\ pending \in BOOLEAN /\ Running /\ Sound(Top) /\ OnCourse(Top, pending)
      /\ Top.ctl # <<>> /\ Ctx = Inmost(Top)
  BY TopOnCourse DEF Steady
<1>2. g \in Frames
  BY <1>1, TypedTop DEF Steady
<1>3. OnCourse(g, pending)
  BY <1>1, CourseUnwound
<1>4. Stays(g) /\ pending' = pending
  BY DEF Stays, SamePlace
<1> QED
  BY <1>2, <1>3, <1>4 DEF Moves

LEMMA BreakLoopMoves == Steady /\ BreakLoop => \E g : Moves(g)
<1> SUFFICES ASSUME Steady, BreakLoop PROVE \E g : Moves(g)
  OBVIOUS
<1>1. At(Loops, "body") /\ LoopBroken /\ SetTop(LeaveLoop(Top)) /\ UNCHANGED pending
  BY DEF BreakLoop
<1>2. Kind(Ctx.node) \in Loops /\ Top \in Frames
  BY <1>1, TopOnCourse DEF Steady
<1>3. LeaveLoop(Top).ctl = SubSeq(Top.ctl, 1, Len(Top.ctl) - 1) /\ SamePlace(LeaveLoop(Top), Top)
  BY <1>2, LeaveLoopFields
<1>4. CASE Unwinding(Top)
  <2>1. Ctx.node \notin Text!Homes(Top.point[1])
    BY <1>2, SameTree DEF Text!Homes, Loops
  <2> QED
    BY <1>1, <1>3, <1>4, <2>1, UnwoundMoves
<1>5. CASE ~Unwinding(Top)
  <2>1. pending
    BY <1>1, <1>5 DEF LoopBroken
  <2> QED
    BY <1>1, <1>3, <1>5, <2>1, CompletedMoves
<1> QED
  BY <1>4, <1>5

\* A block that looks for the label of the jump has it if it is one of the homes.
LEMMA HomesHave ==
  ASSUME NEW n, NEW s, n \in Text!Homes(s)
  PROVE  HasLabel(n, Name(s))
BY SameTree DEF Text!Homes, Text!Labels, HasLabel, IsLabel

LEMMA CloseBlockMoves == Steady /\ CloseBlock => \E g : Moves(g)
<1> SUFFICES ASSUME Steady, CloseBlock PROVE \E g : Moves(g)
  OBVIOUS
<1> DEFINE n == Ctx.node
           g == Finish(LeaveScope(Top))
<1>1. /\ At({"block"}, "body") /\ ~Caught /\ (Broken \/ Ctx.i = Len(Kids(n)))
      /\ SetTop(g) /\ UNCHANGED pending
  BY DEF CloseBlock
<1>2. /\ prog \in Programs /\ Kind(n) = "block" /\ Top \in Frames /\ Sound(Top) /\ Clean(Top)
      /\ Ctx = Inmost(Top) /\ Top.ctl # <<>> /\ Ctx.phase = "body" /\ n \in Statements
      /\ OnCourse(Top, pending) /\ Kids(n) \in Seq(Statements)
  BY <1>1, TopOnCourse DEF Steady
<1>3. g.ctl = SubSeq(Top.ctl, 1, Len(Top.ctl) - 1) /\ SamePlace(g, Top)
  BY <1>2 DEF Finish, LeaveScope, SamePlace, Frames
<1> HIDE DEF g
<1>4. CASE Unwinding(Top)
  <2>1. Ctx.i > 0
    <3>1. Waits(Inmost(Top))
      BY <1>2, <1>4, NotUnwinding
    <3> QED
      BY <1>2, <3>1 DEF Waits
  <2>2. pending \/ Top.jumping = NoName \/ n \notin Text!Homes(Top.point[1])
    <3> SUFFICES ASSUME ~pending, Top.jumping # NoName, n \in Text!Homes(Top.point[1])
                 PROVE  FALSE
      OBVIOUS
    <3>1. ~Top.returning
      BY <1>2, <1>4 DEF Clean, OneFlag
    <3>2. Name(Top.point[1]) = Top.jumping
      BY <1>2 DEF OnCourse, Jumps
    <3>3. HasLabel(n, Top.jumping)
      BY <3>2, HomesHave
    <3> QED
      BY <1>1, <2>1, <3>1, <3>3 DEF Caught
  <2> QED
    BY <1>1, <1>3, <1>4, <2>2, UnwoundMoves
<1>5. CASE ~Unwinding(Top)
  <2>1. pending \/ Ctx.i = Len(Kids(n))
    BY <1>1, <1>5 DEF Broken
  <2>2. ASSUME ~pending PROVE Text!Past(n) \in AheadOf(Top)
    <3>1. Ctx.i = Len(Kids(n)) /\ Len(Kids(n)) \in Nat
      BY <1>2, <2>1, <2>2
    <3>2. CASE Ctx.i = 0
      <4>1. Kids(n) = <<>>
        BY <1>2, <3>1, <3>2, EmptySeq
      <4>2. Text!Into(n) = Text!Past(n)
        BY <1>2, <4>1, IntoIs
      <4> QED
        BY <1>1, <1>2, <1>5, <3>2, <4>2, TopFollows DEF Steady
    <3>3. CASE Ctx.i # 0
      <4>1. Ctx.i > 0 /\ Ctx.i \in DOMAIN Kids(n)
        BY <1>2, <3>1, <3>3
      <4>2. Part(Ctx) = Kids(n)[Ctx.i]
        BY <1>2 DEF Part
      <4>3. Text!Past(Kids(n)[Ctx.i]) = Text!Past(n)
        BY <1>2, <3>1, <4>1, PastIs
      <4> QED
        BY <1>1, <1>2, <1>5, <2>2, <4>1, <4>2, <4>3, TopFollows DEF Steady
    <3> QED
      BY <3>2, <3>3
  <2> QED
    BY <1>1, <1>3, <1>5, <2>2, CompletedMoves
<1> QED
  BY <1>4, <1>5

----------------------------------------------------------------------------
(* Expressions *)

\* The innermost call of g is where that of f was, at phase ph.
Comes(g, f, c) == /\ g.ctl = [f.ctl EXCEPT ![Len(f.ctl)] = c]
                  /\ c \in Contexts /\ c.node = Inmost(f).node

LEMMA GotoComes ==
  ASSUME NEW f \in Frames, f.ctl # <<>>, NEW ph \in Phases
  PROVE  /\ \E c : Comes(Goto(f, ph), f, c) /\ c.phase = ph /\ c.i = Inmost(f).i
         /\ SamePlace(Goto(f, ph), f) /\ Goto(f, ph) \in Frames
<1> DEFINE c == [Inmost(f) EXCEPT !.phase = ph, !.calls = 0]
<1>1. Inmost(f) \in Contexts
  BY InmostTyped
<1>2. c \in Contexts /\ c.node = Inmost(f).node /\ c.phase = ph /\ c.i = Inmost(f).i
  BY <1>1 DEF Contexts
<1>3. Goto(f, ph) = SetCtx(f, c)
  BY DEF Goto
<1> HIDE DEF c
<1>4. SetCtx(f, c).ctl = [f.ctl EXCEPT ![Len(f.ctl)] = c] /\ SamePlace(SetCtx(f, c), f)
  BY Fields
<1>5. SetCtx(f, c) \in Frames
  BY <1>2, SetCtxCtl
<1> QED
  BY <1>2, <1>3, <1>4, <1>5 DEF Comes

LEMMA CountComes ==
  ASSUME NEW f \in Frames, f.ctl # <<>>, NEW i \in Nat
  PROVE  /\ \E c : Comes(Count(f, i), f, c) /\ c.phase = Inmost(f).phase /\ c.i = i
         /\ SamePlace(Count(f, i), f) /\ Count(f, i) \in Frames
<1> DEFINE c == [Inmost(f) EXCEPT !.i = i]
<1>1. Inmost(f) \in Contexts
  BY InmostTyped
<1>2. c \in Contexts /\ c.node = Inmost(f).node /\ c.phase = Inmost(f).phase /\ c.i = i
  BY <1>1 DEF Contexts
<1>3. Count(f, i) = SetCtx(f, c)
  BY DEF Count
<1> HIDE DEF c
<1>4. SetCtx(f, c).ctl = [f.ctl EXCEPT ![Len(f.ctl)] = c] /\ SamePlace(SetCtx(f, c), f)
  BY Fields
<1>5. SetCtx(f, c) \in Frames
  BY <1>2, SetCtxCtl
<1> QED
  BY <1>2, <1>3, <1>4, <1>5 DEF Comes

\* To come there by way of another place is to come there.
LEMMA ComesTwice ==
  ASSUME NEW f \in Frames, f.ctl # <<>>, NEW h, NEW b, Comes(h, f, b), NEW g, NEW c, Comes(g, h, c)
  PROVE  Comes(g, f, c) /\ Inmost(h) = b /\ h.ctl # <<>>
<1> DEFINE n == Len(f.ctl)
<1>1. n \in Nat \ {0} /\ f.ctl \in Seq(Contexts) /\ DOMAIN f.ctl = 1 .. n
  BY InmostTyped DEF Frames
<1>2. Len(h.ctl) = n /\ h.ctl[n] = b /\ h.ctl # <<>>
  BY <1>1 DEF Comes
<1>3. Inmost(h) = b
  BY <1>2 DEF Inmost
<1>4. g.ctl = [[f.ctl EXCEPT ![n] = b] EXCEPT ![n] = c]
  BY <1>2 DEF Comes
<1>5. g.ctl = [f.ctl EXCEPT ![n] = c]
  BY <1>4
<1> QED
  BY <1>2, <1>3, <1>5 DEF Comes

LEMMA EvalFields ==
  ASSUME NEW f \in Frames, f.ctl # <<>>, NEW ph \in Phases
  PROVE  /\ \E c : Comes(Eval(f, ph), f, c) /\ c.phase = ph /\ c.i = Inmost(f).i
         /\ Eval(f, ph).point = <<Inmost(f).node, ph>> /\ Eval(f, ph).worn = FALSE
         /\ Eval(f, ph).returning = f.returning /\ Eval(f, ph).jumping = f.jumping
         /\ Eval(f, ph) \in Frames
<1> DEFINE h == Goto(f, ph)
           n == Inmost(f).node
           g == Reach(h, n, ph)
<1>1. (\E c : Comes(h, f, c) /\ c.phase = ph /\ c.i = Inmost(f).i) /\ SamePlace(h, f) /\ h \in Frames
  BY GotoComes
<1>2. Eval(f, ph) = g
  BY DEF Eval
<1>3. n \in Statements
  BY InmostTyped DEF Contexts
<1> HIDE DEF h, n
<1>4. <<n, ph>> \in Statements \X (Phases \cup {"enter"})
  BY <1>3
<1>5. g \in Frames
  BY <1>1, <1>4 DEF Reach, Frames
<1>6. \A m, q : /\ Reach(h, m, q).ctl = h.ctl
                /\ Reach(h, m, q).point = <<m, q>> /\ Reach(h, m, q).worn = FALSE
                /\ Reach(h, m, q).returning = h.returning /\ Reach(h, m, q).jumping = h.jumping
  BY <1>1, Fields
<1>7. /\ g.ctl = h.ctl /\ g.point = <<n, ph>> /\ g.worn = FALSE
      /\ g.returning = h.returning /\ g.jumping = h.jumping
  BY <1>6
<1> HIDE DEF g
<1>8. \E c : Comes(g, f, c) /\ c.phase = ph /\ c.i = Inmost(f).i
  BY <1>1, <1>7 DEF Comes
<1>9. g.returning = f.returning /\ g.jumping = f.jumping
  BY <1>1, <1>7 DEF SamePlace
<1> QED
  BY <1>2, <1>5, <1>7, <1>8, <1>9 DEF n

\* A statement comes to an expression of its own.
LEMMA EvalMoves ==
  ASSUME Steady, NEW kinds, NEW ph, At(kinds, ph), ~Unwinding(Top),
         Kind(Ctx.node) \notin {"block", "state"},
         NEW to \in {"eval", "init", "post"}, <<Ctx.node, to>> \in AheadOf(Top),
         NEW g, SetTop(g), NEW c, Comes(g, Top, c), c.phase = to,
         g.point = <<Ctx.node, to>>, g.worn = FALSE,
         g.returning = Top.returning, g.jumping = Top.jumping, UNCHANGED pending
  PROVE  \E h : Moves(h)
<1> DEFINE n == Ctx.node
<1>1. /\ prog \in Programs /\ pending \in BOOLEAN /\ Running /\ Sound(Top) /\ OnCourse(Top, pending)
      /\ Top.ctl \in Seq(Contexts) /\ Top.ctl # <<>> /\ n \in Statements
      /\ Ctx = Inmost(Top) /\ Ctx = Top.ctl[Len(Top.ctl)]
  BY TopOnCourse DEF Steady
<1>2. g \in Frames
  BY <1>1, TypedTop DEF Steady
<1>3. ~Unwinding(g) /\ g.point[1] = n /\ n \in Text!Around(n)
  BY <1>1, AroundIs DEF Unwinding
<1>4. g.ctl = [Top.ctl EXCEPT ![Len(Top.ctl)] = c] /\ c.node = n
  BY <1>1 DEF Comes
<1>5. WhilesReached(Top.ctl, n)
  BY <1>1, ReachedInmost DEF OnCourse
<1>6. ~Entering(c) /\ ~Waits(c) /\ c.phase # "start"
  BY DEF Entering, Waits
<1>7. OnCourse(g, pending)
  BY <1>1, <1>3, <1>4, <1>5, <1>6, CourseChanged DEF OnCourse
<1>8. pending = (pending \/ Text!AsksForState(<<n, to>>))
  BY <1>1, NoState
<1>9. Advances(g)
  BY <1>8 DEF Advances
<1> QED
  BY <1>2, <1>7, <1>9 DEF Moves

LEMMA EvaluateMoves == Steady /\ Evaluate => \E g : Moves(g)
<1> SUFFICES ASSUME Steady, Evaluate PROVE \E g : Moves(g)
  OBVIOUS
<1> DEFINE kinds == {"expr", "decl", "return", "if", "while"}
<1>1. At(kinds, "start") /\ SetTop(Eval(Top, "eval")) /\ UNCHANGED pending
  BY DEF Evaluate, Ready
<1>2. /\ Kind(Ctx.node) \in kinds /\ Top \in Frames /\ Top.ctl # <<>> /\ Ctx = Inmost(Top)
      /\ ~Unwinding(Top) /\ prog \in Programs /\ Ctx.node \in Statements
  BY <1>1, TopOnCourse DEF Steady
<1>3. PICK c : Comes(Eval(Top, "eval"), Top, c) /\ c.phase = "eval" /\ c.i = Inmost(Top).i
  BY <1>2, EvalFields DEF Phases
<1>4. /\ Eval(Top, "eval").point = <<Ctx.node, "eval">> /\ Eval(Top, "eval").worn = FALSE
      /\ Eval(Top, "eval").returning = Top.returning /\ Eval(Top, "eval").jumping = Top.jumping
  BY <1>2, EvalFields DEF Phases
<1>5. Text!Into(Ctx.node) = <<Ctx.node, "eval">>
  BY <1>2, IntoIs
<1>6. <<Ctx.node, "eval">> \in AheadOf(Top)
  BY <1>1, <1>5, TopFollows DEF Steady
<1> QED
  BY <1>1, <1>2, <1>3, <1>4, <1>6, EvalMoves

LEMMA StartForMoves == Steady /\ StartFor => \E g : Moves(g)
<1> SUFFICES ASSUME Steady, StartFor PROVE \E g : Moves(g)
  OBVIOUS
<1> DEFINE h == Eval(Top, "init")
           g == EnterScope(h)
<1>1. At({"for"}, "start") /\ SetTop(g) /\ UNCHANGED pending
  BY DEF StartFor, Ready
<1>2. /\ Kind(Ctx.node) = "for" /\ Top \in Frames /\ Top.ctl # <<>> /\ Ctx = Inmost(Top)
      /\ ~Unwinding(Top) /\ prog \in Programs /\ Ctx.node \in Statements
  BY <1>1, TopOnCourse DEF Steady
<1>3. PICK c : Comes(h, Top, c) /\ c.phase = "init" /\ c.i = Inmost(Top).i
  BY <1>2, EvalFields DEF Phases
<1>4. /\ h.point = <<Ctx.node, "init">> /\ h.worn = FALSE
      /\ h.returning = Top.returning /\ h.jumping = Top.jumping
  BY <1>2, EvalFields DEF Phases
<1>5. h \in Frames
  BY <1>2, EvalFields DEF Phases
<1> HIDE DEF h
<1>6. g.ctl = h.ctl /\ SamePlace(g, h)
  BY <1>5, Fields
<1>7. Text!Into(Ctx.node) = <<Ctx.node, "init">>
  BY <1>2, IntoIs
<1>8. <<Ctx.node, "init">> \in AheadOf(Top)
  BY <1>1, <1>7, TopFollows DEF Steady
<1> HIDE DEF g
<1>9. Comes(g, Top, c)
  BY <1>3, <1>6 DEF Comes
<1>10. /\ g.point = <<Ctx.node, "init">> /\ g.worn = FALSE
       /\ g.returning = Top.returning /\ g.jumping = Top.jumping
  BY <1>4, <1>6 DEF SamePlace
<1> QED
  BY <1>1, <1>2, <1>3, <1>8, <1>9, <1>10, EvalMoves

\* A loop goes to an expression of its own, counted on or not.
LEMMA LoopEvalMoves ==
  ASSUME Steady, NEW kinds, NEW ph, At(kinds, ph), ~Unwinding(Top), kinds \subseteq Loops,
         NEW to \in {"eval", "post"}, <<Ctx.node, to>> \in AheadOf(Top),
         SetTop(Eval(Top, to)) \/ SetTop(Eval(Count(Top, Ctx.i + 1), to)),
         UNCHANGED pending
  PROVE  \E h : Moves(h)
<1>1. /\ Kind(Ctx.node) \in Loops /\ Top \in Frames /\ Top.ctl # <<>> /\ Ctx = Inmost(Top)
      /\ Ctx \in Contexts
  BY TopOnCourse DEF Steady
<1>2. Kind(Ctx.node) \notin {"block", "state"} /\ to \in Phases
  BY <1>1 DEF Loops, Phases
<1>3. CASE SetTop(Eval(Top, to))
  <2>1. PICK c : Comes(Eval(Top, to), Top, c) /\ c.phase = to /\ c.i = Inmost(Top).i
    BY <1>1, <1>2, EvalFields
  <2>2. /\ Eval(Top, to).point = <<Ctx.node, to>> /\ Eval(Top, to).worn = FALSE
        /\ Eval(Top, to).returning = Top.returning /\ Eval(Top, to).jumping = Top.jumping
    BY <1>1, <1>2, EvalFields
  <2> QED
    BY <1>2, <1>3, <2>1, <2>2, EvalMoves
<1>4. CASE SetTop(Eval(Count(Top, Ctx.i + 1), to))
  <2> DEFINE j == Ctx.i + 1
             h == Count(Top, j)
             g == Eval(h, to)
  <2>1. j \in Nat
    BY <1>1 DEF Contexts
  <2>2. SetTop(g)
    BY <1>4
  <2> HIDE DEF j
  <2>3. PICK b : Comes(h, Top, b) /\ b.phase = Inmost(Top).phase /\ b.i = j
    BY <1>1, <2>1, CountComes
  <2>4. h \in Frames /\ SamePlace(h, Top)
    BY <1>1, <2>1, CountComes
  <2> HIDE DEF h
  <2>5. h.ctl # <<>> /\ Inmost(h) = b
    <3>1. Len(Top.ctl) \in Nat \ {0} /\ Top.ctl \in Seq(Contexts)
      BY <1>1, InmostTyped DEF Frames
    <3> QED
      BY <2>3, <3>1 DEF Comes, Inmost
  <2>6. PICK c : Comes(g, h, c) /\ c.phase = to /\ c.i = Inmost(h).i
    BY <1>2, <2>4, <2>5, EvalFields
  <2>7. Comes(g, Top, c)
    BY <1>1, <2>3, <2>6, ComesTwice
  <2>8. /\ g.point = <<Inmost(h).node, to>> /\ g.worn = FALSE
        /\ g.returning = h.returning /\ g.jumping = h.jumping
    BY <1>2, <2>4, <2>5, EvalFields
  <2>9. /\ g.point = <<Ctx.node, to>> /\ g.returning = Top.returning /\ g.jumping = Top.jumping
    BY <1>1, <2>3, <2>4, <2>5, <2>8 DEF SamePlace, Comes
  <2> QED
    BY <1>2, <2>2, <2>6, <2>7, <2>8, <2>9, EvalMoves
<1> QED
  BY <1>3, <1>4

LEMMA InitialisedMoves == Steady /\ Initialised => \E g : Moves(g)
<1> SUFFICES ASSUME Steady, Initialised PROVE \E g : Moves(g)
  OBVIOUS
<1>1. At({"for"}, "init") /\ SetTop(Eval(Top, "eval")) /\ UNCHANGED pending
  BY DEF Initialised
<1>2. ~Unwinding(Top)
  BY <1>1, TopOnCourse DEF Steady
<1>3. Top.point = <<Ctx.node, "init">>
  BY <1>1, TopFollows DEF Steady
<1>4. <<Ctx.node, "eval">> \in AheadOf(Top)
  <2>1. Text!Successors(<<Ctx.node, "init">>) = {<<Ctx.node, "eval">>}
    BY SuccessorsAre
  <2> QED
    BY <1>3, <2>1 DEF AheadOf
<1> QED
  BY <1>1, <1>2, <1>4, LoopEvalMoves DEF Loops

LEMMA SteppedMoves == Steady /\ Stepped => \E g : Moves(g)
<1> SUFFICES ASSUME Steady, Stepped PROVE \E g : Moves(g)
  OBVIOUS
<1>1. At({"for"}, "post") /\ SetTop(Eval(Count(Top, Ctx.i + 1), "eval")) /\ UNCHANGED pending
  BY DEF Stepped
<1>2. ~Unwinding(Top)
  BY <1>1, TopOnCourse DEF Steady
<1>3. Top.point = <<Ctx.node, "post">>
  BY <1>1, TopFollows DEF Steady
<1>4. <<Ctx.node, "eval">> \in AheadOf(Top)
  <2>1. Text!Successors(<<Ctx.node, "post">>) = {<<Ctx.node, "eval">>}
    BY SuccessorsAre
  <2> QED
    BY <1>3, <2>1 DEF AheadOf
<1> QED
  BY <1>1, <1>2, <1>4, LoopEvalMoves DEF Loops

LEMMA BodyEndsMoves == Steady /\ BodyEnds => \E g : Moves(g)
<1> SUFFICES ASSUME Steady, BodyEnds PROVE \E g : Moves(g)
  OBVIOUS
<1>1. At(Loops, "body") /\ ~Unwinding(Top) /\ ~pending /\ UNCHANGED pending
  BY DEF BodyEnds, LoopBroken
<1> DEFINE n == Ctx.node
           to == IF Kind(n) = "for" THEN "post" ELSE "eval"
<1>2. /\ Kind(n) \in Loops /\ prog \in Programs /\ n \in Statements /\ Kids(n) \in Seq(Statements)
  BY <1>1, TopOnCourse DEF Steady
<1>3. Kind(n) # "block" /\ 1 \in DOMAIN Kids(n)
  BY <1>2, Trees DEF Loops
<1>4. Part(Ctx) = Kids(n)[1]
  BY <1>3 DEF Part
<1>5. Text!Past(Kids(n)[1]) = <<n, to>>
  BY <1>2, <1>3, PastIs DEF Loops
<1>6. <<n, to>> \in AheadOf(Top)
  BY <1>1, <1>3, <1>4, <1>5, TopFollows DEF Steady
<1>7. SetTop(Eval(Top, to)) \/ SetTop(Eval(Count(Top, Ctx.i + 1), to))
  BY DEF BodyEnds, At
<1>8. to \in {"eval", "post"}
  OBVIOUS
<1> HIDE DEF to
<1> QED
  BY <1>1, <1>6, <1>7, <1>8, LoopEvalMoves

----------------------------------------------------------------------------
(* Statements that are started *)

\* vm_exec is called for a statement that the text goes on into.
LEMMA StartedMoves ==
  ASSUME Steady, Running, ~Unwinding(Top), NEW f \in Frames, SamePlace(f, Top), Placed(f.ctl),
         WhilesReached(f.ctl, Top.point[1]), NEW n, Fits(f.ctl, n), Text!Into(n) \in AheadOf(Top),
         SetTop(Exec(f, n)), UNCHANGED pending
  PROVE  \E h : Moves(h)
<1> DEFINE g == Exec(f, n)
<1>1. prog \in Programs /\ pending \in BOOLEAN
  BY DEF Steady, IInv
<1>2. /\ g.ctl = Append(f.ctl, [node |-> n, phase |-> "start", i |-> 0, calls |-> 0, depth |-> f.scopeDepth])
      /\ SamePlace(g, f)
  BY Fields
<1>3. SetTop(g)
  OBVIOUS
<1> HIDE DEF g
<1>4. g \in Frames
  BY <1>3, TypedTop DEF Steady
<1>5. g.point = Top.point /\ g.worn = Top.worn /\ ~Unwinding(g) /\ AheadOf(g) = AheadOf(Top)
  BY <1>2 DEF SamePlace, Unwinding, AheadOf
<1>6. f.scopeDepth \in Nat /\ f.ctl \in Seq(Contexts)
  BY DEF Frames
<1>7. OnCourse(g, pending)
  BY <1>1, <1>2, <1>5, <1>6, CourseStarted
<1>8. Stays(g)
  BY <1>5 DEF Stays
<1> QED
  BY <1>3, <1>4, <1>7, <1>8 DEF Moves, Stays

\* The innermost statement calls it for part k of it.
LEMMA PartMoves ==
  ASSUME Steady, NEW kinds, NEW ph, At(kinds, ph), ~Unwinding(Top), NEW f \in Frames, SamePlace(f, Top),
         NEW c, Comes(f, Top, c), c.phase # "start", NEW k \in DOMAIN Kids(Ctx.node),
         Part(c) = Kids(Ctx.node)[k], Kind(Ctx.node) = "block" => c.i \in 0 .. Len(Kids(Ctx.node)),
         Kind(Ctx.node) = "while" => Top.point[1] = Ctx.node,
         NEW m, m = Kids(Ctx.node)[k], Text!Into(m) \in AheadOf(Top),
         SetTop(Exec(f, m)), UNCHANGED pending
  PROVE  \E h : Moves(h)
<1> DEFINE n == Ctx.node
<1>1. /\ prog \in Programs /\ Running /\ OnCourse(Top, pending) /\ Top \in Frames
      /\ Top.ctl \in Seq(Contexts) /\ Top.ctl # <<>> /\ Len(Top.ctl) \in Nat \ {0} /\ n \in Statements
      /\ Ctx = Inmost(Top) /\ Ctx = Top.ctl[Len(Top.ctl)]
  BY TopOnCourse DEF Steady
<1>2. f.ctl = [Top.ctl EXCEPT ![Len(Top.ctl)] = c] /\ c.node = n /\ c \in Contexts
  BY <1>1 DEF Comes
<1>3. Kind(n) = "while" => n \in Text!Around(Top.point[1])
  BY <1>1, AroundIs
<1>4. Placed(f.ctl) /\ WhilesReached(f.ctl, Top.point[1])
  BY <1>1, <1>2, <1>3, PlacedLast DEF OnCourse
<1>5. f.ctl \in Seq(Contexts) /\ f.ctl # <<>> /\ f.ctl[Len(f.ctl)] = c
  BY <1>1, <1>2
<1>6. Fits(f.ctl, m)
  BY <1>1, <1>2, <1>4, <1>5, PartFits
<1> QED
  BY <1>1, <1>4, <1>6, StartedMoves

LEMMA NextStatementMoves == Steady /\ NextStatement => \E g : Moves(g)
<1> SUFFICES ASSUME Steady, NextStatement PROVE \E g : Moves(g)
  OBVIOUS
<1> DEFINE n == Ctx.node
           i == Ctx.i + 1
           f == Count(Top, i)
           m == Kids(n)[i]
<1>1. /\ At({"block"}, "body") /\ ~Broken /\ Ctx.i < Len(Kids(n))
      /\ SetTop(Exec(f, m)) /\ UNCHANGED pending
  BY DEF NextStatement
<1>2. /\ prog \in Programs /\ Kind(n) = "block" /\ Top \in Frames /\ Sound(Top) /\ Clean(Top)
      /\ Ctx = Inmost(Top) /\ Top.ctl # <<>> /\ Ctx.phase = "body" /\ n \in Statements
      /\ Kids(n) \in Seq(Statements) /\ Ctx \in Contexts
  BY <1>1, TopOnCourse DEF Steady
<1>3. Ctx.i \in Nat /\ i \in Nat /\ i > 0 /\ i \in DOMAIN Kids(n) /\ i \in 0 .. Len(Kids(n))
  <2>1. Ctx.i \in Nat /\ Len(Kids(n)) \in Nat
    BY <1>2 DEF Contexts
  <2> QED
    BY <1>1, <1>2, <2>1
<1>4. ~Unwinding(Top)
  <2>1. CASE Ctx.i > 0
    BY <1>1, <2>1 DEF Broken
  <2>2. CASE ~(Ctx.i > 0)
    <3>1. ~Waits(Inmost(Top))
      BY <1>2, <2>2 DEF Waits
    <3> QED
      BY <1>2, <3>1, NotUnwinding
  <2> QED
    BY <2>1, <2>2
<1>5. Text!Into(m) \in AheadOf(Top)
  <2>1. CASE Ctx.i = 0
    <3>1. Text!Into(n) \in AheadOf(Top)
      BY <1>1, <1>2, <1>4, <2>1, TopFollows DEF Steady
    <3>2. Kids(n) # <<>> /\ i = 1
      BY <1>1, <2>1
    <3> QED
      BY <1>2, <3>1, <3>2, IntoIs
  <2>2. CASE Ctx.i # 0
    <3>1. Ctx.i > 0 /\ Ctx.i \in DOMAIN Kids(n) /\ Ctx.i # Len(Kids(n))
      BY <1>1, <1>2, <1>3, <2>2
    <3>2. ~pending
      BY <1>1, <3>1 DEF Broken
    <3>3. Part(Ctx) = Kids(n)[Ctx.i]
      BY <1>2 DEF Part
    <3>4. Text!Past(Kids(n)[Ctx.i]) = Text!Into(m)
      BY <1>2, <3>1, PastIs
    <3> QED
      BY <1>1, <1>2, <1>4, <3>1, <3>2, <3>3, <3>4, TopFollows DEF Steady
  <2> QED
    BY <2>1, <2>2
<1> HIDE DEF i
<1>6. PICK c : Comes(f, Top, c) /\ c.phase = Inmost(Top).phase /\ c.i = i
  BY <1>2, <1>3, CountComes
<1>7. f \in Frames /\ SamePlace(f, Top)
  BY <1>2, <1>3, CountComes
<1>8. c.phase # "start" /\ Part(c) = m
  BY <1>2, <1>6 DEF Part, Comes
<1> HIDE DEF f, m
<1>9. m = Kids(n)[i]
  BY DEF m
<1> QED
  BY <1>1, <1>2, <1>3, <1>4, <1>5, <1>6, <1>7, <1>8, <1>9, PartMoves

\* A loop calls vm_exec for its body, counted on or not.
LEMMA LoopBodyMoves ==
  ASSUME Steady, NEW kinds, NEW ph, At(kinds, ph), kinds \subseteq Loops, ~Unwinding(Top),
         NEW f \in Frames, SamePlace(f, Top),
         NEW c, Comes(f, Top, c), c.phase = "body",
         Kind(Ctx.node) = "while" => Top.point[1] = Ctx.node,
         Text!Into(Body) \in AheadOf(Top), SetTop(Exec(f, Body)), UNCHANGED pending
  PROVE  \E h : Moves(h)
<1> DEFINE n == Ctx.node
<1>1. /\ prog \in Programs /\ Kind(n) \in Loops /\ n \in Statements /\ Kids(n) \in Seq(Statements)
      /\ Ctx = Inmost(Top)
  BY TopOnCourse DEF Steady
<1>2. Kind(n) # "block" /\ 1 \in DOMAIN Kids(n)
  BY <1>1, Trees DEF Loops
<1>3. Part(c) = Kids(n)[1] /\ Body = Kids(n)[1]
  BY <1>1, <1>2 DEF Part, Comes, Body
<1> QED
  BY <1>2, <1>3, PartMoves

LEMMA StartDoMoves == Steady /\ StartDo => \E g : Moves(g)
<1> SUFFICES ASSUME Steady, StartDo PROVE \E g : Moves(g)
  OBVIOUS
<1> DEFINE f == Goto(Top, "body")
<1>1. At({"do"}, "start") /\ SetTop(Exec(f, Body)) /\ UNCHANGED pending
  BY DEF StartDo, Ready
<1>2. /\ prog \in Programs /\ Kind(Ctx.node) = "do" /\ Top \in Frames /\ Top.ctl # <<>>
      /\ ~Unwinding(Top) /\ Ctx.node \in Statements
  BY <1>1, TopOnCourse DEF Steady
<1>3. PICK c : Comes(f, Top, c) /\ c.phase = "body" /\ c.i = Inmost(Top).i
  BY <1>2, GotoComes DEF Phases
<1>4. f \in Frames /\ SamePlace(f, Top)
  BY <1>2, GotoComes DEF Phases
<1>5. Text!Into(Ctx.node) = Text!Into(Body)
  BY <1>2, IntoIs DEF Body
<1>6. Text!Into(Body) \in AheadOf(Top)
  BY <1>1, <1>5, TopFollows DEF Steady
<1> HIDE DEF f
<1> QED
  BY <1>1, <1>2, <1>3, <1>4, <1>6, LoopBodyMoves DEF Loops

LEMMA IterateMoves == Steady /\ Iterate => \E g : Moves(g)
<1> SUFFICES ASSUME Steady, Iterate PROVE \E g : Moves(g)
  OBVIOUS
<1>1. At(Loops, "eval") /\ UNCHANGED pending
  BY DEF Iterate, At, Loops
<1>2. /\ prog \in Programs /\ Kind(Ctx.node) \in Loops /\ Top \in Frames /\ Top.ctl # <<>>
      /\ ~Unwinding(Top) /\ Ctx.node \in Statements /\ Ctx = Inmost(Top) /\ Ctx \in Contexts
  BY <1>1, TopOnCourse DEF Steady
<1>3. Top.point = <<Ctx.node, "eval">>
  BY <1>1, TopFollows DEF Steady
<1>4. Top.point[1] = Ctx.node /\ Text!Into(Body) \in AheadOf(Top)
  <2>1. Text!Successors(<<Ctx.node, "eval">>) = {Text!Into(Body), Text!Past(Ctx.node)}
    BY <1>2, SuccessorsAre DEF Body
  <2> QED
    BY <1>3, <2>1 DEF AheadOf
<1>5. CASE SetTop(Exec(Goto(Top, "body"), Body))
  <2> DEFINE f == Goto(Top, "body")
  <2>1. PICK c : Comes(f, Top, c) /\ c.phase = "body" /\ c.i = Inmost(Top).i
    BY <1>2, GotoComes DEF Phases
  <2>2. f \in Frames /\ SamePlace(f, Top) /\ SetTop(Exec(f, Body))
    BY <1>2, <1>5, GotoComes DEF Phases
  <2> HIDE DEF f
  <2> QED
    BY <1>1, <1>2, <1>4, <2>1, <2>2, LoopBodyMoves
<1>6. CASE SetTop(Exec(Goto(Count(Top, Ctx.i + 1), "body"), Body))
  <2> DEFINE j == Ctx.i + 1
             h == Count(Top, j)
             f == Goto(h, "body")
  <2>1. j \in Nat
    BY <1>2 DEF Contexts
  <2>2. SetTop(Exec(f, Body))
    BY <1>6
  <2> HIDE DEF j
  <2>3. PICK b : Comes(h, Top, b) /\ b.phase = Inmost(Top).phase /\ b.i = j
    BY <1>2, <2>1, CountComes
  <2>4. h \in Frames /\ SamePlace(h, Top)
    BY <1>2, <2>1, CountComes
  <2> HIDE DEF h
  <2>5. h.ctl # <<>>
    <3>1. Len(Top.ctl) \in Nat \ {0} /\ Top.ctl \in Seq(Contexts)
      BY <1>2, InmostTyped DEF Frames
    <3> QED
      BY <2>3, <3>1 DEF Comes
  <2>6. PICK c : Comes(f, h, c) /\ c.phase = "body" /\ c.i = Inmost(h).i
    BY <2>4, <2>5, GotoComes DEF Phases
  <2>7. f \in Frames /\ SamePlace(f, h)
    BY <2>4, <2>5, GotoComes DEF Phases
  <2>8. Comes(f, Top, c)
    BY <1>2, <2>3, <2>6, ComesTwice
  <2> HIDE DEF f
  <2>9. SamePlace(f, Top)
    BY <2>4, <2>7 DEF SamePlace
  <2> QED
    BY <1>1, <1>2, <1>4, <2>2, <2>6, <2>7, <2>8, <2>9, LoopBodyMoves
<1> QED
  BY <1>5, <1>6 DEF Iterate

LEMMA BranchMoves == Steady /\ Branch => \E g : Moves(g)
<1> SUFFICES ASSUME Steady, Branch PROVE \E g : Moves(g)
  OBVIOUS
<1> DEFINE n == Ctx.node
           f == Finish(Top)
<1>1. At({"if"}, "eval") /\ UNCHANGED pending
  BY DEF Branch
<1>2. /\ prog \in Programs /\ Kind(n) = "if" /\ Top \in Frames /\ Sound(Top) /\ Top.ctl # <<>>
      /\ ~Unwinding(Top) /\ n \in Statements /\ Ctx = Inmost(Top) /\ Ctx = Top.ctl[Len(Top.ctl)]
      /\ Running /\ OnCourse(Top, pending) /\ Top.ctl \in Seq(Contexts)
  BY <1>1, TopOnCourse DEF Steady
<1>3. Top.point = <<n, "eval">>
  BY <1>1, TopFollows DEF Steady
<1>4. f.ctl = SubSeq(Top.ctl, 1, Len(Top.ctl) - 1) /\ SamePlace(f, Top) /\ f \in Frames
  BY <1>2, Fields, FinishCtl
<1>5. Text!Successors(<<n, "eval">>) =
        {Text!Into(Kids(n)[k]) : k \in DOMAIN Kids(n)} \cup (IF Len(Kids(n)) = 1 THEN {Text!Past(n)} ELSE {})
  BY <1>2, SuccessorsAre
<1>6. CASE Len(Kids(n)) = 1 /\ SetTop(f)
  <2>1. Text!Past(n) \in Text!Successors(<<n, "eval">>)
    BY <1>5, <1>6
  <2> QED
    BY <1>1, <1>4, <1>6, <2>1, DoneMoves
<1>7. ASSUME NEW k \in DOMAIN Kids(n), SetTop(Exec(f, Kids(n)[k]))
      PROVE  \E g : Moves(g)
  <2>1. Placed(f.ctl) /\ WhilesReached(f.ctl, Top.point[1])
    BY <1>2, <1>4, PlacedFront DEF OnCourse
  <2>2. Fits(f.ctl, Kids(n)[k])
    BY <1>2, <1>4, <1>7, BranchFits DEF OnCourse
  <2>3. Text!Into(Kids(n)[k]) \in AheadOf(Top)
    BY <1>3, <1>5, <1>7 DEF AheadOf
  <2> HIDE DEF f
  <2> QED
    BY <1>1, <1>2, <1>4, <1>7, <2>1, <2>2, <2>3, StartedMoves
<1> QED
  BY <1>6, <1>7 DEF Branch

LEMMA OpenBlockMoves == Steady /\ OpenBlock => \E g : Moves(g)
<1> SUFFICES ASSUME Steady, OpenBlock PROVE \E g : Moves(g)
  OBVIOUS
<1> DEFINE n == Ctx.node
           h == Goto(Top, "body")
           g == EnterScope(h)
<1>1. At({"block"}, "start") /\ SetTop(g) /\ UNCHANGED pending
  BY DEF OpenBlock, Ready
<1>2. /\ prog \in Programs /\ pending \in BOOLEAN /\ Kind(n) = "block" /\ Top \in Frames /\ Sound(Top)
      /\ Top.ctl # <<>> /\ ~Unwinding(Top) /\ n \in Statements /\ Ctx = Inmost(Top) /\ Running
      /\ OnCourse(Top, pending) /\ Kids(n) \in Seq(Statements)
  BY <1>1, TopOnCourse DEF Steady
<1>3. Ctx.i = 0 /\ Text!Into(n) \in AheadOf(Top)
  BY <1>1, TopFollows DEF Steady
<1>4. PICK c : Comes(h, Top, c) /\ c.phase = "body" /\ c.i = Inmost(Top).i
  BY <1>2, GotoComes DEF Phases
<1>5. h \in Frames /\ SamePlace(h, Top)
  BY <1>2, GotoComes DEF Phases
<1> HIDE DEF h
<1>6. g.ctl = h.ctl /\ SamePlace(g, h)
  BY <1>5, Fields
<1> HIDE DEF g
<1>7. g \in Frames
  BY <1>1, <1>2, TypedTop DEF Steady
<1>8. SamePlace(g, Top)
  BY <1>5, <1>6 DEF SamePlace
<1>9. g.ctl = [Top.ctl EXCEPT ![Len(Top.ctl)] = c] /\ c.node = n
  BY <1>2, <1>4, <1>6 DEF Comes
<1>10. ~Unwinding(g) /\ AheadOf(g) = AheadOf(Top) /\ g.point = Top.point
  BY <1>2, <1>8 DEF SamePlace, Unwinding, AheadOf
<1>11. 0 \in 0 .. Len(Kids(n))
  BY <1>2, LenProperties
<1>12. c.i = 0
  BY <1>2, <1>3, <1>4
<1>13. ~Expecting(c) /\ ~Waits(c)
  BY <1>2, <1>4, <1>9, <1>12 DEF Expecting, Waits
<1>14. OnCourse(g, pending)
  BY <1>2, <1>3, <1>4, <1>9, <1>10, <1>11, <1>12, <1>13, CourseChanged DEF OnCourse
<1>15. Stays(g) /\ pending' = pending
  BY <1>1, <1>8 DEF Stays, SamePlace
<1> QED
  BY <1>1, <1>7, <1>14, <1>15 DEF Moves

----------------------------------------------------------------------------
(* Jumps *)

LEMMA JumpMoves == Steady /\ Jump => \E g : Moves(g)
<1> SUFFICES ASSUME Steady, Jump PROVE \E g : Moves(g)
  OBVIOUS
<1> DEFINE n == Ctx.node
           last == Len(Top.ctl)
           g == Finish(Reach([Top EXCEPT !.jumping = Name(n)], n, "eval"))
<1>1. At({"jump"}, "start") /\ SetTop(g) /\ UNCHANGED pending
  BY DEF Jump, Ready
<1>2. /\ prog \in Programs /\ pending \in BOOLEAN /\ Kind(n) = "jump" /\ Top \in Frames
      /\ Top.ctl \in Seq(Contexts) /\ Top.ctl # <<>> /\ last \in Nat \ {0}
      /\ ~Unwinding(Top) /\ n \in Statements /\ Ctx = Top.ctl[last] /\ Running
      /\ OnCourse(Top, pending)
  BY <1>1, TopOnCourse DEF Steady
<1>3. /\ g.ctl = SubSeq(Top.ctl, 1, last - 1)
      /\ g.point = <<n, "eval">> /\ g.worn = FALSE /\ g.returning = Top.returning /\ g.jumping = Name(n)
  BY <1>2 DEF Finish, Reach, Frames
<1> HIDE DEF g
<1>4. g \in Frames
  BY <1>1, <1>2, TypedTop DEF Steady
<1>5. /\ Len(g.ctl) = last - 1
      /\ \A j \in 1 .. (last - 1) : g.ctl[j] = Top.ctl[j]
  BY <1>2, <1>3, FrontOfSeq
<1>6. Placed(g.ctl) /\ WhilesReached(g.ctl, n)
  BY <1>2, <1>3, PlacedFront, ReachedInmost DEF OnCourse
<1>7. last \in 1 .. last /\ \A j \in 1 .. (last - 1) : j \in 1 .. last
  BY <1>2
<1>8. Jumps(g, pending)
  <2>1. \A j \in 1 .. Len(g.ctl) : g.ctl[j].node \in Text!Around(n)
    BY <1>2, <1>5, <1>7 DEF OnCourse, Placed, Nested
  <2>2. ASSUME NEW b \in Text!Homes(n) PROVE \E j \in 1 .. Len(g.ctl) : g.ctl[j].node = b
    <3>1. b \in Text!Around(n) /\ Kind(b) = "block"
      BY SameTree DEF Text!Homes
    <3>2. PICK j \in 1 .. last : Top.ctl[j].node = b
      BY <1>2, <1>7, <3>1 DEF OnCourse, Placed, Nested, Compound
    <3>3. j # last
      BY <1>2, <3>1, <3>2
    <3>4. j \in 1 .. (last - 1)
      BY <1>2, <3>2, <3>3
    <3> QED
      BY <1>5, <3>2, <3>4
  <2> QED
    BY <1>2, <1>3, <2>1, <2>2 DEF Jumps
<1>9. Returns(g)
  BY <1>2, <1>3 DEF Returns, Unwinding
<1>10. Follows(g, pending)
  <2>1. Name(n) # NoName
    BY <1>2, Trees
  <2> QED
    BY <1>3, <2>1 DEF Follows, Unwinding
<1>11. OnCourse(g, pending)
  BY <1>3, <1>6, <1>8, <1>9, <1>10 DEF OnCourse
<1>12. Text!Into(n) = <<n, "eval">>
  BY <1>2, IntoIs
<1>13. <<n, "eval">> \in AheadOf(Top)
  BY <1>1, <1>12, TopFollows DEF Steady
<1>14. pending = (pending \/ Text!AsksForState(<<n, "eval">>))
  BY <1>2, NoState
<1>15. Advances(g)
  BY <1>1, <1>3, <1>13, <1>14 DEF Advances
<1> QED
  BY <1>1, <1>4, <1>11, <1>15 DEF Moves

\* find_label_in finds the first of the labels, if there is one.
LEMMA FirstLabel ==
  ASSUME prog \in Programs, NEW n \in Statements, NEW l, HasLabel(n, l)
  PROVE  /\ FindLabel(n, l) \in Text!Labels(n, l) /\ FindLabel(n, l) \in DOMAIN Kids(n)
         /\ (CHOOSE k \in Text!Labels(n, l) : \A j \in Text!Labels(n, l) : k <= j) = FindLabel(n, l)
<1> DEFINE T == Text!Labels(n, l)
           first == FindLabel(n, l)
<1>1. Kids(n) \in Seq(Statements)
  BY Trees
<1>2. T = {k \in DOMAIN Kids(n) : IsLabel(n, k, l)} /\ T \subseteq Nat
  BY <1>1, SameTree DEF Text!Labels, IsLabel
<1>3. T # {}
  BY <1>2 DEF HasLabel
<1>4. PICK k \in T : \A m \in T : k <= m
  <2> HIDE DEF T
  <2> QED
    BY <1>2, <1>3, LeastNumber
<1>5. k \in DOMAIN Kids(n) /\ IsLabel(n, k, l) /\ \A m \in 1 .. (k - 1) : ~IsLabel(n, m, l)
  <2> SUFFICES ASSUME NEW m \in 1 .. (k - 1) PROVE ~IsLabel(n, m, l)
    BY <1>2, <1>4
  <2>1. m \in DOMAIN Kids(n)
    BY <1>1, <1>2, <1>4
  <2>2. ~(k <= m)
    BY <1>2, <1>4
  <2> QED
    BY <1>2, <1>4, <2>1, <2>2
<1>6. first \in DOMAIN Kids(n) /\ IsLabel(n, first, l) /\ \A m \in 1 .. (first - 1) : ~IsLabel(n, m, l)
  BY <1>5 DEF FindLabel
<1>7. first \in T /\ first \in Nat /\ first >= 1
  BY <1>1, <1>2, <1>6
<1> HIDE DEF T, first
<1>8. first = k
  <2>1. k <= first
    BY <1>4, <1>7
  <2>2. ~(k <= first - 1)
    <3>1. k \in Nat /\ k >= 1
      BY <1>1, <1>2, <1>4, <1>5
    <3> QED
      BY <1>5, <1>6, <1>7, <3>1
  <2>3. k \in Nat
    BY <1>2, <1>4
  <2> QED
    BY <1>7, <2>1, <2>2, <2>3
<1>9. \A x \in T : (\A j \in T : x <= j) => x = k
  <2> SUFFICES ASSUME NEW x \in T, \A j \in T : x <= j PROVE x = k
    OBVIOUS
  <2>1. x <= k /\ k <= x /\ x \in Nat /\ k \in Nat
    BY <1>2, <1>4
  <2> QED
    BY <2>1
<1>10. (CHOOSE x \in T : \A j \in T : x <= j) = k
  BY <1>4, <1>9
<1> QED
  BY <1>6, <1>7, <1>8, <1>10 DEF T, first

\* The innermost call is for the innermost of the homes.
LEMMA InnermostHome ==
  ASSUME prog \in Programs, NEW calls \in Seq(Contexts), calls # <<>>, Nested(calls), NEW s,
         \A b \in Text!Homes(s) : \E j \in 1 .. Len(calls) : calls[j].node = b,
         calls[Len(calls)].node \in Text!Homes(s)
  PROVE  (CHOOSE b \in Text!Homes(s) : Text!Homes(s) \subseteq Text!Around(b)) = calls[Len(calls)].node
<1> DEFINE last == Len(calls)
           n == calls[last].node
           H == Text!Homes(s)
<1>1. last \in Nat \ {0} /\ last \in 1 .. last
  BY EmptySeq
<1>2. \A j \in 1 .. last : calls[j].node \in Nat
  <2> SUFFICES ASSUME NEW j \in 1 .. last PROVE calls[j].node \in Nat
    OBVIOUS
  <2>1. calls[j] \in Contexts
    OBVIOUS
  <2> QED
    BY <2>1, Places DEF Contexts
<1>3. Kind(n) = "block"
  BY SameTree DEF Text!Homes
<1>4. H \subseteq Text!Around(n)
  BY <1>1 DEF Nested
<1>5. ASSUME NEW b \in H, H \subseteq Text!Around(b) PROVE b = n
  <2>1. PICK j \in 1 .. last : calls[j].node = b
    OBVIOUS
  <2>2. PICK i \in 1 .. j : calls[i].node = n
    <3>1. n \in Text!Around(calls[j].node) /\ Compound(n)
      BY <1>3, <1>5, <2>1 DEF Compound
    <3> QED
      BY <3>1 DEF Nested
  <2>3. j = last
    <3> SUFFICES ASSUME j # last PROVE FALSE
      OBVIOUS
    <3>1. i \in 1 .. (last - 1)
      BY <1>1
    <3>2. calls[i].node < calls[last].node
      BY <1>1, <3>1 DEF Nested
    <3> QED
      BY <1>1, <1>2, <2>2, <3>2
  <2> QED
    BY <2>1, <2>3
<1> QED
  BY <1>4, <1>5

LEMMA TakeJumpMoves == Steady /\ TakeJump => \E g : Moves(g)
<1> SUFFICES ASSUME Steady, TakeJump PROVE \E g : Moves(g)
  OBVIOUS
<1> DEFINE n == Ctx.node
           s == Top.point[1]
           l == Top.jumping
           i == FindLabel(n, l)
           h == [Top EXCEPT !.jumping = NoName]
           g == Count(h, i)
<1>1. At({"block"}, "body") /\ Caught /\ SetTop(g) /\ UNCHANGED pending
  BY DEF TakeJump
<1>2. /\ prog \in Programs /\ pending \in BOOLEAN /\ Kind(n) = "block" /\ Top \in Frames /\ Sound(Top)
      /\ Top.ctl \in Seq(Contexts) /\ Top.ctl # <<>> /\ Len(Top.ctl) \in Nat \ {0}
      /\ n \in Statements /\ Ctx = Inmost(Top) /\ Ctx = Top.ctl[Len(Top.ctl)] /\ Ctx.phase = "body"
      /\ Running /\ OnCourse(Top, pending) /\ Kids(n) \in Seq(Statements)
  BY <1>1, TopOnCourse DEF Steady
<1>3. ~Top.returning /\ ~pending /\ l # NoName /\ HasLabel(n, l)
  BY <1>1 DEF Caught
<1>4. /\ Kind(s) = "jump" /\ Name(s) = l /\ Top.point = <<s, "eval">>
      /\ \A j \in 1 .. Len(Top.ctl) : Top.ctl[j].node \in Text!Around(s)
      /\ \A b \in Text!Homes(s) : \E j \in 1 .. Len(Top.ctl) : Top.ctl[j].node = b
  <2>1. Jumps(Top, pending)
    BY <1>2 DEF OnCourse
  <2>2. Top.point = <<Top.point[1], Top.point[2]>>
    BY <1>2 DEF Frames
  <2> QED
    BY <1>3, <2>1, <2>2 DEF Jumps
<1>5. /\ i \in Text!Labels(n, l) /\ i \in DOMAIN Kids(n)
      /\ (CHOOSE k \in Text!Labels(n, l) : \A j \in Text!Labels(n, l) : k <= j) = i
  BY <1>2, <1>3, FirstLabel
<1>6. i \in Nat /\ i > 0 /\ i \in 0 .. Len(Kids(n))
  BY <1>2, <1>5
<1>7. n \in Text!Homes(s)
  <2>1. n \in Text!Around(s)
    BY <1>2, <1>4
  <2> QED
    BY <1>2, <1>4, <1>5, <2>1, SameTree DEF Text!Homes
<1>8. (CHOOSE b \in Text!Homes(s) : Text!Homes(s) \subseteq Text!Around(b)) = n
  <2>1. Nested(Top.ctl)
    BY <1>2 DEF OnCourse, Placed
  <2>2. Top.ctl[Len(Top.ctl)].node = n
    BY <1>2
  <2> HIDE DEF s
  <2> QED
    BY <1>2, <1>4, <1>7, <2>1, <2>2, InnermostHome
<1>9. Text!Target(s) = Text!Past(Kids(n)[i])
  BY <1>4, <1>5, <1>7, <1>8, SameTree DEF Text!Target
<1>10. Text!Past(Kids(n)[i]) \in AheadOf(Top)
  <2>1. Text!Successors(<<s, "eval">>) = {Text!Target(s)}
    BY <1>4, SuccessorsAre
  <2> QED
    BY <1>4, <1>9, <2>1 DEF AheadOf
<1>11. /\ h \in Frames /\ h.ctl = Top.ctl /\ h.point = Top.point /\ h.worn = Top.worn
       /\ h.returning = Top.returning /\ h.jumping = NoName
  BY <1>2 DEF Frames
<1> HIDE DEF h, i
<1>12. h.ctl # <<>> /\ Inmost(h) = Ctx
  BY <1>2, <1>11 DEF Inmost
<1>13. PICK c : Comes(g, h, c) /\ c.phase = Inmost(h).phase /\ c.i = i
  BY <1>6, <1>11, <1>12, CountComes
<1>14. SamePlace(g, h)
  BY <1>6, <1>11, <1>12, CountComes
<1> HIDE DEF g
<1>15. g \in Frames
  BY <1>1, <1>2, TypedTop DEF Steady
<1>16. g.ctl = [Top.ctl EXCEPT ![Len(Top.ctl)] = c] /\ c.node = n /\ c.phase = "body"
  BY <1>2, <1>11, <1>12, <1>13 DEF Comes
<1>17. g.point = Top.point /\ g.worn = Top.worn /\ ~Unwinding(g) /\ AheadOf(g) = AheadOf(Top)
  BY <1>3, <1>11, <1>14 DEF SamePlace, Unwinding, AheadOf
<1>18. Part(c) = Kids(n)[i] /\ ~Expecting(c) /\ ~Entering(c)
  BY <1>2, <1>6, <1>13, <1>16 DEF Part, Expecting, Entering
<1>19. Text!Past(Part(c)) \in AheadOf(g)
  BY <1>10, <1>17, <1>18
<1>20. OnCourse(g, pending)
  <2>1. Kind(c.node) # "while" /\ c.i \in 0 .. Len(Kids(c.node)) /\ c.phase # "start"
    BY <1>2, <1>6, <1>13, <1>16
  <2> QED
    BY <1>2, <1>16, <1>17, <1>18, <1>19, <2>1, CourseChanged DEF OnCourse
<1>21. Stays(g) /\ pending' = pending
  BY <1>1, <1>17 DEF Stays
<1> QED
  BY <1>1, <1>15, <1>20, <1>21 DEF Moves

----------------------------------------------------------------------------
(* Frames that come and go *)

LEMMA FlowCarried ==
  ASSUME prog' = prog,
         \A k \in 1 .. Len(frames') : OnCourse(frames'[k], pending'),
         \A k \in 1 .. (Len(frames') - 1) : CallsOut(frames'[k])
  PROVE  FlowInv'
<1>1. \A f, p : OnCourse(f, p)' = OnCourse(f, p)
  BY SameCourse
<1>2. \A f : CallsOut(f)' = CallsOut(f)
  BY DEF CallsOut, Expecting, Inmost
<1> QED
  BY <1>1, <1>2 DEF FlowInv

\* A handler or function is at the start of its text.
LEMMA NewFrameOnCourse ==
  ASSUME prog \in Programs, NEW n \in prog.handlers \cup prog.funcs, NEW p \in BOOLEAN
  PROVE  /\ OnCourse(NewFrame(n), p) /\ NewFrame(n) \in Frames
         /\ NewFrame(n).point = <<n, "enter">> /\ NewFrame(n).worn = FALSE
<1> DEFINE g == NewFrame(n)
<1>1. n \in Statements /\ Kind(n) = "block" /\ Text!Parent(n) = Text!NoParent
  BY Trees, Places
<1>2. g \in Frames /\ ~Unwinding(g)
  BY <1>1, NewFrameSound DEF Sound
<1>3. /\ g.ctl = Append(<<>>, [node |-> n, phase |-> "start", i |-> 0, calls |-> 0, depth |-> 0])
      /\ g.point = <<n, "enter">> /\ g.worn = FALSE
  BY DEF NewFrame
<1>4. Placed(<<>>) /\ WhilesReached(<<>>, n) /\ <<>> \in Seq(Contexts)
  BY DEF Placed, Nested, Aligned, Counted, WhilesReached
<1>5. Fits(<<>>, n)
  <2>1. Text!Past(n) = Text!End
    BY <1>1, PastRoot
  <2>2. Text!Around(n) = {n}
    BY <1>1, AroundIs
  <2> QED
    BY <1>1, <2>1, <2>2 DEF Fits
<1> HIDE DEF g
<1>6. Text!Into(n) \in AheadOf(g)
  <2>1. Text!Successors(<<n, "enter">>) = {Text!Into(n)}
    BY SuccessorsAre
  <2> QED
    BY <1>3, <2>1 DEF AheadOf
<1>7. g.point[1] = n
  BY <1>3
<1>8. OnCourse(g, p)
  BY <1>2, <1>3, <1>4, <1>5, <1>6, <1>7, CourseStarted
<1> QED
  BY <1>2, <1>3, <1>8 DEF g

LEMMA DispatchInText ==
  ASSUME IInv, Dispatch
  PROVE  FlowInv' /\ Text!Handle
<1>1. PICK h \in prog.handlers : frames' = <<NewFrame(h)>>
  BY DEF Dispatch
<1>2. /\ ~Running /\ frames = <<>> /\ UNCHANGED prog /\ pending' \in {FALSE, pending}
      /\ prog \in Programs /\ pending' \in BOOLEAN
  BY DEF Dispatch, Running, IInv
<1> DEFINE g == NewFrame(h)
<1>3. /\ OnCourse(g, pending') /\ g.point = <<h, "enter">> /\ g.worn = FALSE
  BY <1>2, NewFrameOnCourse
<1> HIDE DEF g
<1>4. frames' = <<g>>
  BY <1>1 DEF g
<1>5. FlowInv'
  <2>1. Len(frames') = 1 /\ \A k \in 1 .. Len(frames') : frames'[k] = g
    BY <1>4
  <2> QED
    BY <1>2, <1>3, <2>1, FlowCarried
<1>6. Stack = <<>> /\ Worn = FALSE
  BY <1>2 DEF Stack, Worn
<1>7. Stack' = <<<<h, "enter">>>> /\ Worn' = FALSE
  BY <1>3, <1>4 DEF Stack, Worn, Running, Top
<1> QED
  BY <1>2, <1>5, <1>6, <1>7, TextHandle

\* The text of a frame that has no call open has ended.
LEMMA EndAhead ==
  ASSUME OnCourse(Top, pending), Top \in Frames, Top.ctl = <<>>
  PROVE  Text!End \in AheadOf(Top) \/ pending
<1>1. CASE ~Unwinding(Top)
  BY <1>1 DEF OnCourse, Follows
<1>2. CASE Top.returning
  BY <1>2 DEF OnCourse, Returns
<1>3. CASE Top.jumping # NoName /\ ~pending
  <2> DEFINE s == Top.point[1]
  <2>1. Jumps(Top, pending)
    BY DEF OnCourse
  <2>2. Kind(s) = "jump" /\ Top.point[2] = "eval" /\ Text!Homes(s) = {}
    BY <1>3, <2>1 DEF Jumps
  <2>3. Top.point = <<s, "eval">>
    BY <2>2 DEF Frames
  <2>4. Text!Target(s) = Text!End
    BY <2>2 DEF Text!Target
  <2>5. Text!Successors(<<s, "eval">>) = {Text!Target(s)}
    BY <2>2, SuccessorsAre
  <2> QED
    BY <2>3, <2>4, <2>5 DEF AheadOf
<1> QED
  BY <1>1, <1>2, <1>3 DEF Unwinding

LEMMA StackTyped ==
  ASSUME IInv
  PROVE  Stack \in Seq({f.point : f \in Frames})
<1>1. frames \in Seq(Frames)
  BY DEF IInv
<1>2. \A k \in DOMAIN frames : frames[k].point \in {f.point : f \in Frames}
  <2>1. \A k \in DOMAIN frames : frames[k] \in Frames
    BY <1>1, SeqElement
  <2> QED
    BY <2>1
<1>3. DOMAIN frames = 1 .. Len(frames) /\ Len(frames) \in Nat
  BY <1>1
<1> QED
  BY <1>2, <1>3 DEF Stack

LEMMA FrontIs ==
  ASSUME NEW S, NEW s \in Seq(S), NEW n \in Nat \ {0}, Len(s) = n
  PROVE  SubSeq(s, 1, n - 1) = [k \in 1 .. (n - 1) |-> s[k]]
<1> DEFINE q == SubSeq(s, 1, n - 1)
<1>1. s # <<>>
  OBVIOUS
<1>2. q \in Seq(S) /\ Len(q) = n - 1 /\ \A k \in 1 .. (n - 1) : q[k] = s[k]
  BY <1>1, FrontOfSeq
<1> HIDE DEF q
<1>3. q = [k \in 1 .. Len(q) |-> q[k]]
  BY <1>2
<1> QED
  BY <1>2, <1>3 DEF q

LEMMA BackIs ==
  ASSUME NEW S, NEW s \in Seq(S), NEW n \in Nat, Len(s) = n, NEW e
  PROVE  Append(s, e) = [k \in 1 .. (n + 1) |-> IF k = n + 1 THEN e ELSE s[k]]
<1> DEFINE q == Append(s, e)
<1>1. s \in Seq(S \cup {e})
  <2>1. \A k \in 1 .. Len(s) : s[k] \in S \cup {e}
    OBVIOUS
  <2>2. s = [k \in 1 .. Len(s) |-> s[k]]
    OBVIOUS
  <2> QED
    BY <2>1, <2>2
<1>2. q \in Seq(S \cup {e}) /\ Len(q) = n + 1 /\ q[n + 1] = e /\ \A k \in 1 .. n : q[k] = s[k]
  BY <1>1, AppendProperties
<1> HIDE DEF q
<1>3. q = [k \in 1 .. Len(q) |-> q[k]]
  BY <1>2
<1>4. \A k \in 1 .. (n + 1) : q[k] = IF k = n + 1 THEN e ELSE s[k]
  <2>1. \A k \in 1 .. (n + 1) : k = n + 1 \/ k \in 1 .. n
    OBVIOUS
  <2> QED
    BY <1>2, <2>1
<1> QED
  BY <1>2, <1>3, <1>4 DEF q

LEMMA LeavesInText ==
  ASSUME Steady, Running, Top.ctl = <<>>, UNCHANGED pending,
         frames' = SubSeq(frames, 1, Len(frames) - 1)
  PROVE  FlowInv' /\ Text!Leave
<1> DEFINE n == Len(frames)
<1>1. /\ n \in Nat \ {0} /\ DOMAIN frames = 1 .. n /\ Top \in Frames
      /\ Text!Here = Top.point /\ Text!Ahead = AheadOf(Top)
      /\ Len(Stack) = n /\ Stack # <<>> /\ DOMAIN Stack = 1 .. n
      /\ frames \in Seq(Frames) /\ frames # <<>>
  BY TextHere, TopFacts DEF Steady, IInv, Running
<1>2. /\ frames' \in Seq(Frames) /\ Len(frames') = n - 1
      /\ \A k \in 1 .. (n - 1) : frames'[k] = frames[k]
      /\ (n = 1) = (frames' = <<>>)
  BY <1>1, FrontOfSeq
<1>3. /\ \A k \in 1 .. (n - 1) : k \in 1 .. n /\ k # n
      /\ \A k \in 1 .. (n - 2) : k \in 1 .. (n - 1)
      /\ n # 1 => n - 1 \in 1 .. (n - 1)
      /\ n - 1 \in Nat
  <2>1. \A m \in Nat \ {0} : /\ \A k \in 1 .. (m - 1) : k \in 1 .. m /\ k # m
                             /\ \A k \in 1 .. (m - 2) : k \in 1 .. (m - 1)
                             /\ m # 1 => m - 1 \in 1 .. (m - 1)
                             /\ m - 1 \in Nat
    OBVIOUS
  <2> QED
    BY <1>1, <2>1
<1>4. \A k \in 1 .. n : OnCourse(frames[k], pending)
  BY DEF Steady, FlowInv
<1>5. \A k \in 1 .. (n - 1) : CallsOut(frames[k])
  BY DEF Steady, FlowInv
<1>6. \A k \in 1 .. (n - 1) : ~Unwinding(frames[k])
  BY <1>3 DEF Steady, IInv, FlagsClean
<1>7. FlowInv'
  <2>1. \A k \in 1 .. Len(frames') : OnCourse(frames'[k], pending')
    BY <1>2, <1>3, <1>4
  <2>2. \A k \in 1 .. (Len(frames') - 1) : k \in 1 .. (n - 1)
    BY <1>1, <1>2
  <2>3. \A k \in 1 .. (Len(frames') - 1) : CallsOut(frames'[k])
    BY <1>2, <1>5, <2>2
  <2> QED
    BY <2>1, <2>3, FlowCarried DEF Steady
<1>8. Text!End \in Text!Ahead \/ pending
  <2>1. n \in 1 .. n
    BY <1>1
  <2>2. OnCourse(Top, pending)
    BY <1>4, <2>1 DEF Top
  <2> QED
    BY <1>1, <2>2, EndAhead
<1>9. Worn' = FALSE
  <2>1. CASE n = 1
    BY <1>2, <2>1 DEF Worn, Running
  <2>2. CASE n # 1
    <3>1. Top' = frames[n - 1]
      BY <1>2, <1>3, <2>2 DEF Top
    <3>2. Follows(frames[n - 1], pending) /\ CallsOut(frames[n - 1]) /\ ~Unwinding(frames[n - 1])
      BY <1>3, <1>4, <1>5, <1>6, <2>2 DEF OnCourse
    <3>3. ~frames[n - 1].worn
      BY <3>2 DEF Follows, CallsOut
    <3> QED
      BY <3>1, <3>3 DEF Worn
  <2> QED
    BY <2>1, <2>2
<1>10. Stack' = SubSeq(Stack, 1, n - 1)
  <2>1. DOMAIN frames' = 1 .. (n - 1)
    BY <1>2
  <2>2. Stack' = [k \in 1 .. (n - 1) |-> frames[k].point]
    BY <1>2, <2>1 DEF Stack
  <2>3. \A k \in 1 .. (n - 1) : Stack[k] = frames[k].point
    BY <1>1, <1>3 DEF Stack
  <2>4. SubSeq(Stack, 1, n - 1) = [k \in 1 .. (n - 1) |-> Stack[k]]
    BY <1>1, StackTyped, FrontIs DEF Steady
  <2> QED
    BY <2>2, <2>3, <2>4
<1> QED
  BY <1>1, <1>7, <1>8, <1>9, <1>10, TextLeave DEF Steady

\* A frame that calls a function stays where it is.
LEMMA CallingOnCourse ==
  ASSUME IInv, FlowInv, NEW ph \in {"eval", "init", "post"}, At(Kinds, ph)
  PROVE  /\ OnCourse(Calling(Top), pending) /\ CallsOut(Calling(Top)) /\ Calling(Top) \in Frames
         /\ Calling(Top).point = Top.point /\ Top.point = <<Ctx.node, ph>> /\ Top.worn = FALSE
<1> DEFINE c == [Ctx EXCEPT !.calls = @ + 1]
           g == Calling(Top)
<1>1. /\ prog \in Programs /\ pending \in BOOLEAN /\ Top \in Frames /\ Sound(Top) /\ ~Unwinding(Top)
      /\ OnCourse(Top, pending) /\ Top.ctl # <<>> /\ Top.ctl \in Seq(Contexts)
      /\ Len(Top.ctl) \in Nat \ {0} /\ Ctx = Inmost(Top) /\ Ctx \in Contexts
      /\ Ctx.node \in Statements /\ Ctx.phase = ph
  BY TopOnCourse
<1>2. Top.point = <<Ctx.node, ph>> /\ ~Top.worn
  BY TopFollows
<1>3. Kind(Ctx.node) = "block" => Ctx.i \in 0 .. Len(Kids(Ctx.node))
  BY TopFollows
<1>4. c.node = Ctx.node /\ c.phase = ph /\ c.i = Ctx.i
  BY <1>1 DEF Contexts
<1>5. g = SetCtx(Top, c)
  BY <1>1 DEF Calling
<1>6. g \in Frames
  BY <1>1, CallingSound DEF Sound
<1> HIDE DEF c, g
<1>7. g.ctl = [Top.ctl EXCEPT ![Len(Top.ctl)] = c] /\ SamePlace(g, Top)
  BY <1>1, <1>5, Fields
<1>8. ~Unwinding(g) /\ g.point = Top.point /\ g.worn = Top.worn
  BY <1>1, <1>7 DEF SamePlace, Unwinding
<1>9. OnCourse(g, pending)
  <2>1. ~Entering(c) /\ ~Waits(c) /\ c.phase # "start"
    BY <1>4 DEF Entering, Waits
  <2>2. g.point = <<c.node, c.phase>> /\ ~g.worn
    BY <1>2, <1>4, <1>8
  <2>3. c.node \in Text!Around(g.point[1]) /\ WhilesReached(Top.ctl, g.point[1])
    BY <1>1, <1>2, <1>4, <1>8, AroundIs DEF OnCourse
  <2> QED
    BY <1>1, <1>3, <1>4, <1>7, <1>8, <2>1, <2>2, <2>3, CourseChanged DEF OnCourse
<1>10. CallsOut(g)
  <2>1. g.ctl # <<>> /\ Inmost(g) = c
    BY <1>1, <1>7 DEF Inmost
  <2> QED
    BY <1>4, <2>1 DEF CallsOut, Expecting
<1>11. Top.worn = FALSE
  BY <1>1, <1>2 DEF Frames
<1> QED
  BY <1>2, <1>6, <1>8, <1>9, <1>10, <1>11 DEF g

LEMMA CallInText ==
  ASSUME Steady, NEW b \in prog.funcs, Call(b)
  PROVE  FlowInv' /\ Text!Call
<1>1. PICK ph \in {"eval", "init", "post"} : At(Kinds, ph)
  BY DEF Call
<1> DEFINE n == Len(frames)
           h == Calling(Top)
           g == NewFrame(b)
           q == [frames EXCEPT ![n] = h]
<1>2. /\ n \in Nat \ {0} /\ DOMAIN frames = 1 .. n /\ frames \in Seq(Frames) /\ prog \in Programs
      /\ Text!Here = Top.point /\ Worn = Top.worn
      /\ Len(Stack) = n /\ Stack # <<>> /\ DOMAIN Stack = 1 .. n /\ Running /\ pending \in BOOLEAN
  BY <1>1, TextHere DEF Steady, IInv, At
<1>3. /\ OnCourse(h, pending) /\ CallsOut(h) /\ h \in Frames /\ h.point = Top.point
      /\ Top.point = <<Ctx.node, ph>> /\ Top.worn = FALSE
  BY <1>1, CallingOnCourse DEF Steady
<1>4. OnCourse(g, pending) /\ g \in Frames /\ g.point = <<b, "enter">> /\ g.worn = FALSE
  BY <1>2, NewFrameOnCourse
<1>5. UNCHANGED <<prog, pending>> /\ frames' = Append(q, g)
  BY DEF Call
<1> HIDE DEF h, g
<1>6. /\ q \in Seq(Frames) /\ Len(q) = n
      /\ \A k \in 1 .. n : q[k] = IF k = n THEN h ELSE frames[k]
  BY <1>2, <1>3
<1> HIDE DEF q, n
<1>7. /\ frames' \in Seq(Frames) /\ Len(frames') = n + 1
      /\ frames'[n + 1] = g /\ \A k \in 1 .. n : frames'[k] = q[k]
  <2>1. \A s \in Seq(Frames) : \A e \in Frames :
          /\ Append(s, e) \in Seq(Frames) /\ Len(Append(s, e)) = Len(s) + 1
          /\ Append(s, e)[Len(s) + 1] = e
          /\ \A k \in 1 .. Len(s) : Append(s, e)[k] = s[k]
    OBVIOUS
  <2> QED
    BY <1>4, <1>5, <1>6, <2>1
<1>8. DOMAIN frames' = 1 .. (n + 1) /\ frames' # <<>>
  BY <1>2, <1>7
<1>9. \A k \in 1 .. n : OnCourse(frames[k], pending)
  BY DEF Steady, FlowInv, n
<1>10. \A k \in 1 .. (n - 1) : CallsOut(frames[k])
  BY DEF Steady, FlowInv, n
<1>11. FlowInv'
  <2>1. ASSUME NEW k \in 1 .. (n + 1) PROVE OnCourse(frames'[k], pending')
    <3>1. CASE k = n + 1
      BY <1>4, <1>5, <1>7, <3>1
    <3>2. CASE k # n + 1
      <4>1. k \in 1 .. n
        BY <1>2, <3>2
      <4> QED
        BY <1>3, <1>5, <1>6, <1>7, <1>9, <4>1
    <3> QED
      BY <3>1, <3>2
  <2>2. ASSUME NEW k \in 1 .. n PROVE CallsOut(frames'[k])
    <3>1. k # n => k \in 1 .. (n - 1)
      BY <1>2
    <3> QED
      BY <1>3, <1>6, <1>7, <1>10, <3>1
  <2>3. Len(frames') = n + 1 /\ Len(frames') - 1 = n
    BY <1>2, <1>7
  <2> QED
    BY <1>5, <2>1, <2>2, <2>3, FlowCarried
<1>12. Stack' = Append(Stack, <<b, "enter">>)
  <2>1. Stack' = [k \in 1 .. (n + 1) |-> frames'[k].point]
    BY <1>8 DEF Stack
  <2>2. ASSUME NEW k \in 1 .. n PROVE frames'[k].point = Stack[k]
    <3>1. Stack[k] = frames[k].point
      BY <1>2 DEF Stack
    <3>2. k = n => frames[k] = Top
      BY DEF Top, n
    <3> QED
      BY <1>3, <1>6, <1>7, <3>1, <3>2
  <2>3. frames'[n + 1].point = <<b, "enter">>
    BY <1>4, <1>7
  <2>4. \A k \in 1 .. (n + 1) : k = n + 1 \/ k \in 1 .. n
    BY <1>2
  <2>5. \A k \in 1 .. (n + 1) : frames'[k].point = IF k = n + 1 THEN <<b, "enter">> ELSE Stack[k]
    BY <2>2, <2>3, <2>4
  <2>6. Append(Stack, <<b, "enter">>) = [k \in 1 .. (n + 1) |-> IF k = n + 1 THEN <<b, "enter">> ELSE Stack[k]]
    BY <1>2, StackTyped, BackIs DEF Steady
  <2> QED
    BY <2>1, <2>5, <2>6
<1>13. Worn' = FALSE /\ Worn = FALSE
  <2>1. Top' = g
    BY <1>7 DEF Top
  <2> QED
    BY <1>2, <1>3, <1>4, <2>1 DEF Worn
<1>14. Text!Here[2] \in Text!Expressions
  BY <1>2, <1>3 DEF Text!Expressions
<1> QED
  BY <1>2, <1>5, <1>11, <1>12, <1>13, <1>14, TextCall

----------------------------------------------------------------------------
(* All steps *)

LEMMA MovingInText ==
  ASSUME Steady, Running, \E g : Moves(g)
  PROVE  FlowInv' /\ [Text!Next]_(Text!vars)
BY MovesInText DEF Steady

\* The frames stay on course, and the text takes a step or none.
LEMMA StepInText == IInv /\ FlowInv /\ [Next]_vars => FlowInv' /\ [Text!Next]_(Text!vars)
<1> SUFFICES ASSUME IInv, FlowInv, [Next]_vars PROVE FlowInv' /\ [Text!Next]_(Text!vars)
  OBVIOUS
<1>1. IInv'
  BY InvariantKept
<1>2. UNCHANGED prog
  BY DEF vars, Next, Step, HandlerEnds, FunctionReturns, Skip, Evaluate, Evaluated, Declare, Return, Jump,
         ChangeState, Branch, OpenBlock, TakeJump, NextStatement, CloseBlock, StartDo, StartFor, Initialised,
         Iterate, EndLoop, BreakLoop, BodyEnds, Stepped, CutOff, Call, Dispatch
<1>3. Steady
  BY <1>1, <1>2 DEF Steady
<1>4. CASE HandlerEnds
  <2>1. Running /\ Top.ctl = <<>> /\ UNCHANGED pending
    BY <1>4 DEF HandlerEnds, Running
  <2>2. frames' = SubSeq(frames, 1, Len(frames) - 1)
    <3>1. frames \in Seq(Frames) /\ Len(frames) = 1 /\ frames' = <<>>
      BY <1>4 DEF HandlerEnds, IInv
    <3>2. (Len(frames) = 1) = (SubSeq(frames, 1, Len(frames) - 1) = <<>>)
      BY <2>1, <3>1, FrontOfSeq DEF Running
    <3> QED
      BY <3>1, <3>2
  <2> QED
    BY <1>3, <2>1, <2>2, LeavesInText DEF Text!Next
<1>5. CASE FunctionReturns
  <2>1. Running
    <3>1. Len(frames) > 1
      BY <1>5 DEF FunctionReturns
    <3> QED
      BY <3>1, EmptySeq DEF Running
  <2> QED
    BY <1>3, <1>5, <2>1, LeavesInText DEF FunctionReturns, Text!Next
<1>6. CASE Skip
  BY <1>3, <1>6, SkipMoves, MovingInText DEF Skip, At
<1>7. CASE Evaluate
  BY <1>3, <1>7, EvaluateMoves, MovingInText DEF Evaluate, Ready, At
<1>8. CASE Evaluated
  BY <1>3, <1>8, EvaluatedMoves, MovingInText DEF Evaluated, At
<1>9. CASE Declare
  BY <1>3, <1>9, DeclareMoves, MovingInText DEF Declare, At
<1>10. CASE Return
  BY <1>3, <1>10, ReturnMoves, MovingInText DEF Return, At
<1>11. CASE Jump
  BY <1>3, <1>11, JumpMoves, MovingInText DEF Jump, Ready, At
<1>12. CASE ChangeState
  BY <1>3, <1>12, ChangeStateMoves, MovingInText DEF ChangeState, Ready, At
<1>13. CASE Branch
  BY <1>3, <1>13, BranchMoves, MovingInText DEF Branch, At
<1>14. CASE OpenBlock
  BY <1>3, <1>14, OpenBlockMoves, MovingInText DEF OpenBlock, Ready, At
<1>15. CASE TakeJump
  BY <1>3, <1>15, TakeJumpMoves, MovingInText DEF TakeJump, At
<1>16. CASE NextStatement
  BY <1>3, <1>16, NextStatementMoves, MovingInText DEF NextStatement, At
<1>17. CASE CloseBlock
  BY <1>3, <1>17, CloseBlockMoves, MovingInText DEF CloseBlock, At
<1>18. CASE StartDo
  BY <1>3, <1>18, StartDoMoves, MovingInText DEF StartDo, Ready, At
<1>19. CASE StartFor
  BY <1>3, <1>19, StartForMoves, MovingInText DEF StartFor, Ready, At
<1>20. CASE Initialised
  BY <1>3, <1>20, InitialisedMoves, MovingInText DEF Initialised, At
<1>21. CASE Iterate
  BY <1>3, <1>21, IterateMoves, MovingInText DEF Iterate, At
<1>22. CASE EndLoop
  BY <1>3, <1>22, EndLoopMoves, MovingInText DEF EndLoop, At
<1>23. CASE BreakLoop
  BY <1>3, <1>23, BreakLoopMoves, MovingInText DEF BreakLoop, At
<1>24. CASE BodyEnds
  BY <1>3, <1>24, BodyEndsMoves, MovingInText DEF BodyEnds, At
<1>25. CASE Stepped
  BY <1>3, <1>25, SteppedMoves, MovingInText DEF Stepped, At
<1>26. CASE CutOff
  BY <1>3, <1>26, CutOffMoves, MovingInText DEF CutOff, At
<1>27. CASE \E b \in prog.funcs : Call(b)
  BY <1>3, <1>27, CallInText DEF Text!Next
<1>28. CASE Dispatch
  BY <1>28, DispatchInText DEF Text!Next
<1>29. CASE UNCHANGED vars
  <2>1. UNCHANGED <<prog, frames, pending>>
    BY <1>29 DEF vars
  <2>2. FlowInv'
    BY <2>1, FlowCarried DEF FlowInv
  <2>3. UNCHANGED <<Stack, Worn>>
    BY <2>1 DEF Stack, Worn, Running, Top
  <2> QED
    BY <2>1, <2>2, <2>3, TextStutter
<1> QED
  BY <1>4, <1>5, <1>6, <1>7, <1>8, <1>9, <1>10, <1>11, <1>12, <1>13, <1>14, <1>15, <1>16, <1>17, <1>18,
     <1>19, <1>20, <1>21, <1>22, <1>23, <1>24, <1>25, <1>26, <1>27, <1>28, <1>29
  DEF Next, Step

\* Whatever the program is, the flags of vm_exec take control where its text says:
\* each statement and expression that is reached may follow the one reached before,
\* a jump comes past the first label of its name in the innermost block around it
\* that has one, a loop that is cut off is left for what comes after it, and a
\* function ends where its text does, or early once a state is pending.
THEOREM FlowImplemented == Spec => FlowSpec
<1>1. Init => FlowInv /\ Text!Init
  <2> SUFFICES ASSUME Init PROVE FlowInv /\ Text!Init
    OBVIOUS
  <2>1. frames = <<>> /\ Len(frames) = 0 /\ prog \in Programs /\ pending = FALSE
    BY DEF Init
  <2>2. FlowInv
    BY <2>1 DEF FlowInv
  <2>3. Stack = <<>> /\ Worn = FALSE
    BY <2>1 DEF Stack, Worn, Running
  <2> QED
    BY <2>1, <2>2, <2>3 DEF Text!Init, Stack, Worn
<1>2. Spec => []FlowInv
  <2>1. IInv /\ FlowInv /\ [Next]_vars => FlowInv'
    BY StepInText
  <2> QED
    BY <1>1, <2>1, InvariantHolds, PTL DEF Spec
<1>3. IInv /\ FlowInv /\ [Next]_vars => [Text!Next]_(Text!vars)
  BY StepInText
<1> QED
  BY <1>1, <1>2, <1>3, InvariantHolds, PTL DEF Spec, FlowSpec, Text!Spec

=============================================================================
