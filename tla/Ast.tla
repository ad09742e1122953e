-------------------------------- MODULE Ast --------------------------------
(***************************************************************************)
(* The syntax tree of a program (src/parser/ast.h): an array of nodes, each*)
(* with its children in order.  A node that is not there is 0.  Types,     *)
(* casts and positions are left out: the functions modelled are well typed.*)
(***************************************************************************)
EXTENDS Integers, Sequences, FiniteSets

VARIABLE ast    \* the nodes

NONODE == 0

Type(i) == ast[i].type
Kids(i) == ast[i].kids
Kid(i, k) == IF k \in DOMAIN Kids(i) THEN Kids(i)[k] ELSE NONODE

(* NODE_FN_DEC: the parameters, the body; 1 if it returns a value.         *)
FnDecs == SelectSeq([i \in DOMAIN ast |-> i], LAMBDA i : Type(i) = "FN_DEC")
FnNumber(name) == CHOOSE n \in DOMAIN FnDecs : ast[FnDecs[n]].name = name
Params(f) == Kids(Kid(f, 1))
Body(f) == Kid(f, 2)
Valued(f) == ast[f].int = 1

(* A case is its values, then its block; a default only its block.         *)
CaseBody(c) == Kid(c, CHOOSE k \in DOMAIN Kids(c) : Type(Kid(c, k)) = "BLOCK")

(* A node of the parser: its kind, the name or the number it carries, and  *)
(* its children, trees themselves until Flatten gives them their place.    *)
N(type, name, int, kids) == [type |-> type, name |-> name, int |-> int, kids |-> kids]

(* The array of a tree, children before their parent (NODE_EMPTY, a missing*)
(* part of a for, is a node like any other).                               *)
RECURSIVE Flatten(_, _)
Flatten(tree, done) ==
  LET RECURSIVE Place(_, _, _)
      Place(k, nodes, roots) ==
        IF k > Len(tree.kids) THEN Append(nodes, [tree EXCEPT !.kids = roots])
        ELSE LET with == Flatten(tree.kids[k], nodes)
             IN Place(k + 1, with, Append(roots, Len(with)))
  IN Place(1, done, <<>>)
=============================================================================
