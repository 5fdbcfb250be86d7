------------------------------- MODULE Syntax -------------------------------
(***************************************************************************)
(* The statement trees that vm.c walks.                                    *)
(*                                                                         *)
(* A program is a sequence of statements that name each other by position. *)
(* Of a statement there is its kind, the statements it is made of, and the *)
(* name it mentions: of a label or of an LSL state.  Expressions are left  *)
(* out: an expression may call functions and have any value.               *)
(***************************************************************************)
EXTENDS Integers, Sequences

CONSTANTS
  Programs,  \* the programs a behaviour may run, each a record of its tree,
             \* its names, the states among them, its handlers and functions
  NoName     \* not a name

Loops == {"while", "do", "for"}
Kinds == {"expr", "decl", "return", "jump", "label", "state", "empty", "block", "if"} \cup Loops

\* A handler and a function have a block for their body; a loop has one
\* statement, an if has one or two.  The compiler writes no other trees.  The
\* loader makes a statement of its own of each part that it reads, after the whole.
WellFormed(p) ==
  /\ p.tree \in Seq([kind : Kinds, kids : Seq(DOMAIN p.tree), name : p.names \cup {NoName}])
  /\ NoName \notin p.names
  /\ p.states \subseteq p.names
  /\ \A n \in p.handlers \cup p.funcs : n \in DOMAIN p.tree /\ p.tree[n].kind = "block"
  /\ \A n \in DOMAIN p.tree :
       /\ p.tree[n].kind \in Loops => Len(p.tree[n].kids) = 1
       /\ p.tree[n].kind = "if" => Len(p.tree[n].kids) \in {1, 2}
       /\ p.tree[n].kind \in {"jump", "label", "state"} => p.tree[n].name # NoName
       /\ \A k \in DOMAIN p.tree[n].kids :
            /\ n < p.tree[n].kids[k]
            /\ p.tree[n].kids[k] \notin p.handlers \cup p.funcs
            /\ \A m \in DOMAIN p.tree : \A j \in DOMAIN p.tree[m].kids :
                 p.tree[m].kids[j] = p.tree[n].kids[k] => m = n /\ j = k

ASSUME SyntaxAssumption == \A p \in Programs : WellFormed(p)

VARIABLE prog  \* the program that runs; never changes

Statements == DOMAIN prog.tree
Kind(n) == prog.tree[n].kind
Kids(n) == prog.tree[n].kids
Name(n) == prog.tree[n].name

=============================================================================
