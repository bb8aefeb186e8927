------------------------------ MODULE AstHeap ------------------------------
(***************************************************************************)
(* What the memory of the AST nodes promises to the rest of cdecl,         *)
(* whatever the parser builds with it (c_ast.c, and the places of parser.y *)
(* and c_typedef.c that decide who owns a node).                           *)
(*                                                                         *)
(* Every c_ast_t is pushed onto the garbage-collection list when it is     *)
(* allocated.  A command either collects the list, and every node it       *)
(* created is gone, or it defines a type and drops the list, and the nodes *)
(* live on, owned by an entry of the typedef table.  At exit the table     *)
(* frees the ASTs it owns.                                                 *)
(*                                                                         *)
(* A command may link the nodes it creates in any way: while they are on   *)
(* the list their links do not matter, and they are fixed here when the    *)
(* list is dropped.  Parser.tla gives the productions that make them, and  *)
(* is checked to implement this specification.                             *)
(*                                                                         *)
(* A definition whose name ends in an underscore and a word is the one     *)
(* after it with a mistake that a property must notice.                    *)
(***************************************************************************)
EXTENDS Integers, FiniteSets

CONSTANTS Node, \* the cells malloc may return for a c_ast_t
          NIL   \* the null pointer

ASSUME NodeAssumption == IsFiniteSet(Node) /\ NIL \notin Node

VARIABLES
  phase,     \* "idle", "parse", "exit", "exited" or "aborted"
  live,      \* the cells allocated and not yet freed
  gc,        \* the nodes on the list that starts at c_ast_gc_head
  head,      \* c_ast_gc_head, the node created last, or NIL
  recursive, \* the nodes whose gc_next is &c_ast_free_recursive
  of,        \* of[n] is n->as.parent.of_ast, once n is off the list
  args,      \* args[n] is the set of the nodes on n->as.func.args, likewise
  roots,     \* the ASTs that entries of the typedef table own
  count      \* c_ast_count

vars == <<phase, live, gc, head, recursive, of, args, roots, count>>
heap == <<live, gc, head, recursive, of, args, roots, count>>

Phase == {"idle", "parse", "exit", "exited", "aborted"}

TypeOK ==
  /\ phase \in Phase
  /\ live \subseteq Node
  /\ gc \subseteq live
  /\ head \in gc \cup {NIL}
  /\ recursive \subseteq live
  /\ of \in [Node -> Node \cup {NIL}]
  /\ args \in [Node -> SUBSET Node]
  /\ roots \subseteq live
  /\ count \in Int

-----------------------------------------------------------------------------
(* Links.                                                                  *)

\* The nodes that each node links to.
kids == [n \in Node |-> args[n] \cup ({of[n]} \ {NIL})]

Closed(k, S) == \A n \in S : k[n] \subseteq S

\* The nodes that can be reached from R by the links k.
Reachable(k, R) ==
  {n \in Node : \A S \in SUBSET Node : R \subseteq S /\ Closed(k, S) => n \in S}

\* The nodes of the AST at n.
Nodes(n) == Reachable(kids, {n})

\* The AST at root is a tree: no node of it is linked from two places.
Tree(root) ==
  /\ \A n \in Nodes(root) : of[n] \notin args[n] /\ root \notin kids[n]
  /\ \A m, n \in Nodes(root) : m # n => kids[m] \cap kids[n] = {}

\* The calls c_ast_free_impl(n, r) that a set of such calls makes in turn: of_ast
\* is always freed recursively, an argument only if its gc_next says so.
FreeCalls(C) ==
  \A c \in C : c[2] =>
    /\ of[c[1]] # NIL => <<of[c[1]], TRUE>> \in C
    /\ \A a \in args[c[1]] : <<a, a \in recursive>> \in C

\* The nodes that c_ast_free(n) frees.
Freed(n) ==
  {m \in Node : \A C \in SUBSET (Node \X BOOLEAN) :
                  <<n, n \in recursive>> \in C /\ FreeCalls(C)
                    => \E r \in BOOLEAN : <<m, r>> \in C}

\* The mark of a freed cell stays.
Free_mark(F) ==
  /\ live' = live \ F
  /\ of' = [n \in Node |-> IF n \in F THEN NIL ELSE of[n]]
  /\ args' = [n \in Node |-> IF n \in F THEN {} ELSE args[n]]
  /\ count' = count - Cardinality(F)
  /\ UNCHANGED recursive

\* FREE for the cells of F.  Their contents mean nothing any more; the model
\* blanks them.
Free(F) ==
  /\ live' = live \ F
  /\ recursive' = recursive \ F
  /\ of' = [n \in Node |-> IF n \in F THEN NIL ELSE of[n]]
  /\ args' = [n \in Node |-> IF n \in F THEN {} ELSE args[n]]
  /\ count' = count - Cardinality(F)

-----------------------------------------------------------------------------
\* The predefined types are leaves that their entries of the table own.
Init ==
  /\ phase = "idle"
  /\ live \in SUBSET Node
  /\ gc = {} /\ head = NIL
  /\ recursive = live /\ roots = live
  /\ of = [n \in Node |-> NIL]
  /\ args = [n \in Node |-> {}]
  /\ count = Cardinality(live)

Start ==
  /\ phase = "idle"
  /\ phase' = "parse"
  /\ UNCHANGED heap

\* A production: c_ast_new for each new node, the last of them at the head.
Build ==
  /\ phase = "parse"
  /\ \E new \in SUBSET (Node \ live) :
       /\ live' = live \cup new
       /\ gc' = gc \cup new
       /\ count' = count + Cardinality(new)
       /\ IF new = {} THEN head' = head ELSE head' \in new
  /\ UNCHANGED <<phase, recursive, of, args, roots>>

\* parse_cleanup: c_ast_gc frees every node of the list, none recursively.
Collect ==
  /\ phase = "parse"
  /\ phase' = "idle"
  /\ Free(gc)
  /\ gc' = {} /\ head' = NIL
  /\ UNCHANGED roots

\* The links that c_ast_set_parent and c_ast_list_append have made among the
\* nodes own, which the command leaves behind.
Link(own) ==
  /\ of' \in [Node -> Node \cup {NIL}]
  /\ \A n \in Node :
       IF n \in own THEN of'[n] \in gc \cup {NIL} ELSE of'[n] = of[n]
  /\ args' \in [Node -> SUBSET Node]
  /\ \A n \in Node :
       IF n \in own THEN args'[n] \subseteq gc ELSE args'[n] = args[n]

\* The list is not dropped.
GcRelease_keep ==
  /\ recursive' = (recursive \cup ({head} \ {NIL})) \cap live'
  /\ UNCHANGED <<gc, head>>

\* c_ast_gc_release marks the head of the list, whichever node that is, and
\* drops the list.
GcRelease ==
  /\ recursive' = (recursive \cup ({head} \ {NIL})) \cap live'
  /\ gc' = {} /\ head' = NIL

\* The AST may share nodes.
Release_shared ==
  /\ phase = "parse"
  /\ phase' = "idle"
  /\ Link(gc)
  /\ \E root \in gc : roots' = roots \cup {root}
  /\ UNCHANGED <<live, count>>
  /\ GcRelease

\* A new name: c_typedef_add takes the AST.  It does not check that the AST is a
\* tree; that is assumed here of the command, and Parser is checked to keep to it
\* (ImplementsHeap).
Release ==
  /\ phase = "parse"
  /\ phase' = "idle"
  /\ Link(gc)
  /\ \E root \in gc :
       /\ Tree(root)'
       /\ roots' = roots \cup {root}
  /\ UNCHANGED <<live, count>>
  /\ GcRelease

\* One node is freed and two are counted.
ReleaseDuplicate_twice ==
  /\ phase = "parse"
  /\ phase' = "idle"
  /\ \E dup \in gc, decl \in gc :
       /\ dup # head
       /\ live' = live \ {dup, decl}
       /\ Link(gc \ {dup, decl})
  /\ count' = count - 2
  /\ GcRelease
  /\ UNCHANGED roots

\* An existing name with an equivalent type: c_typedef_add frees the new AST,
\* c_ast_gc_release drops the list, and typedef_declaration_c frees the AST of
\* the declarator.  What else the command built stays allocated.
ReleaseDuplicate ==
  /\ phase = "parse"
  /\ phase' = "idle"
  /\ \E dup \in gc, decl \in gc :
       /\ dup # decl /\ dup # head
       /\ live' = live \ {dup, decl}
       /\ Link(gc \ {dup, decl})
  /\ count' = count - 2
  /\ GcRelease
  /\ UNCHANGED roots

\* exit() runs cdecl_cleanup.
Quit ==
  /\ phase = "idle"
  /\ phase' = "exit"
  /\ UNCHANGED heap

\* c_typedef_cleanup: rb_tree_free calls c_typedef_free on one entry.
FreeTypedef ==
  /\ phase = "exit"
  /\ \E t \in roots :
       /\ Free(Freed(t))
       /\ roots' = roots \ {t}
  /\ UNCHANGED <<phase, gc, head>>

\* c_ast_cleanup, when no entry is left.
Cleanup ==
  /\ phase = "exit" /\ roots = {}
  /\ phase' = "exited"
  /\ UNCHANGED heap

\* An assertion fails.
Abort ==
  /\ phase = "parse"
  /\ phase' = "aborted"
  /\ UNCHANGED heap

Terminated ==
  /\ phase \in {"exited", "aborted"}
  /\ UNCHANGED vars

Next ==
  \/ Start \/ Build \/ Collect \/ Release \/ ReleaseDuplicate
  \/ Quit \/ FreeTypedef \/ Cleanup \/ Abort \/ Terminated

Spec == Init /\ [][Next]_vars

-----------------------------------------------------------------------------
(* Properties.                                                             *)

\* c_ast_count, by which c_ast_cleanup finds leaks, is the number of nodes
\* that are allocated, through every way a command or the exit can go.
CountExact == count = Cardinality(live)

\* Nothing an entry of the typedef table can reach is ever freed before the
\* entry is: neither by the collection after a later command, nor with the
\* duplicate of a redefinition, nor with another entry at exit.
NoDangling == Reachable(kids, roots) \subseteq live

\* No two entries reach the same node and no node is linked twice below one,
\* so that the exit frees no node twice.  That each is a tree when it is defined is
\* the assumption in Release; that it stays one, and apart from the others, is not.
SingleOwner ==
  /\ \A s, t \in roots : s # t => Nodes(s) \cap Nodes(t) = {}
  /\ \A t \in roots : Tree(t)

\* What a defined type means does not change: no later command relinks a node
\* that an entry of the table can reach.
DefinitionsKept ==
  [][phase # "exit" =>
       \A n \in Reachable(kids, roots) : of'[n] = of[n] /\ args'[n] = args[n]]_vars
=============================================================================
