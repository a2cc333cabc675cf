------------------------------- MODULE Frame -------------------------------
(***************************************************************************)
(* The stack frame of a function: assign_paramloc and assign_memloc of     *)
(* src/emit-amd64-sysv.c.  The recursion over the tree of the body is a    *)
(* walk; "path" is its stack, one node per call of assign_memloc.  The     *)
(* tree itself is what the walk finds: each step chooses the next piece.   *)
(* An address is a distance below the frame pointer: a variable of width w *)
(* at location l takes the bytes l - w .. l - 1 counted downwards.         *)
(***************************************************************************)
EXTENDS Integers, Sequences, FiniteSets

CONSTANTS
  Widths,        \* the widths of the types; a type's alignment is its width
  NPARAM_REG,    \* the parameters passed in registers
  MaxParameters, \* bound on the parameters of the function
  MaxVariables,  \* bound on the local variables
  MaxVisits      \* bound on the trees that are visited

ASSUME FrameAssumption ==
  /\ Widths \subseteq {4, 8}
  /\ {NPARAM_REG, MaxParameters, MaxVariables, MaxVisits} \subseteq Nat

VARIABLES
  params,    \* the parameters, in order: [width, loc]
  variables, \* the local variables met so far, in order: [width, loc]
  path,      \* the nodes from the body to the tree being visited
  visits,    \* the number of trees visited
  stacksz,   \* the size of the frame, once it is known
  phase      \* "params", "body", "done" or "crashed"

vars == <<params, variables, path, visits, stacksz, phase>>

Align(sz, to) == ((sz + to - 1) \div to) * to
Larger(a, b) == IF a >= b THEN a ELSE b
Top(s) == s[Len(s)]
Pop(s) == SubSeq(s, 1, Len(s) - 1)
SetTop(s, e) == [s EXCEPT ![Len(s)] = e]

STACKTOP == 8
STACKALIGN == 16

(* The place of a variable of width w in a frame of size sz, which is also *)
(* the new size.  The mutant does not align it.                            *)
PlaceUnaligned(sz, w) == sz + w
Place(sz, w) == Align(sz + w, w)

InRegister(k) == k <= NPARAM_REG

(* The size of the frame after the parameters passed in registers. *)
ParametersSize ==
  LET mine == {k \in 1..Len(params) : InRegister(k)} IN
  IF mine = {} THEN STACKTOP
  ELSE params[CHOOSE k \in mine : \A j \in mine : j <= k].loc

(* top of assign_paramloc: the first parameter passed on the stack is      *)
(* above the return address and the saved frame pointer.                   *)
ParametersTop ==
  IF InRegister(Len(params)) THEN 16 ELSE Top(params).width - Top(params).loc
-----------------------------------------------------------------------------
Init ==
  /\ params = <<>>
  /\ variables = <<>>
  /\ path = <<>>
  /\ visits = 0
  /\ stacksz = STACKTOP
  /\ phase = "params"

(* One iteration of assign_paramloc. *)
AssignParameter(w) ==
  /\ phase = "params"
  /\ Len(params) < MaxParameters
  /\ params' = Append(params,
       [width |-> w,
        loc |-> IF InRegister(Len(params) + 1) THEN Place(ParametersSize, w)
                ELSE -Align(ParametersTop, 8)])
  /\ UNCHANGED <<variables, path, visits, stacksz, phase>>

(* A call of assign_memloc: "in" is the size it is given, "size" the size  *)
(* its children are given, "max" the largest size any of them returned.    *)
Node(op, in) == [op |-> op, in |-> in, size |-> in, max |-> 0, children |-> 0, decls |-> {}]

(* func: the body is a sequence. *)
EnterBody ==
  /\ phase = "params"
  /\ phase' = "body"
  /\ path' = <<[Node("sequence", ParametersSize) EXCEPT !.max = ParametersSize]>>
  /\ UNCHANGED <<params, variables, visits, stacksz>>

(* The declarations of a sequence come before its statements.  The mutant  *)
(* does not give the statements the new size.                              *)
DeclareForgetsSize(w) ==
  LET top == Top(path)
      loc == Place(top.max, w)
  IN
  /\ phase = "body"
  /\ top.op = "sequence" /\ top.children = 0
  /\ Len(variables) < MaxVariables
  /\ variables' = Append(variables, [width |-> w, loc |-> loc])
  /\ path' = SetTop(path, [top EXCEPT !.max = loc, !.decls = @ \cup {Len(variables) + 1}])
  /\ UNCHANGED <<params, visits, stacksz, phase>>

Declare(w) ==
  LET top == Top(path)
      loc == Place(top.size, w)
  IN
  /\ phase = "body"
  /\ top.op = "sequence" /\ top.children = 0
  /\ Len(variables) < MaxVariables
  /\ variables' = Append(variables, [width |-> w, loc |-> loc])
  /\ path' = SetTop(path, [top EXCEPT !.size = loc, !.max = loc,
                                      !.decls = @ \cup {Len(variables) + 1}])
  /\ UNCHANGED <<params, visits, stacksz, phase>>

(* How many subtrees assign_memloc visits in a node, at least and at most. *)
Operators == {"unary", "binary", "branch", "sequence"}
FewestChildren(op) ==
  IF op = "unary" THEN 1 ELSE IF op = "sequence" THEN 0 ELSE 2
MostChildren(op) ==
  IF op = "unary" THEN 1 ELSE IF op = "binary" THEN 2
  ELSE IF op = "branch" THEN 3 ELSE MaxVisits

CanVisit ==
  /\ phase = "body"
  /\ Top(path).children < MostChildren(Top(path).op)
  /\ visits < MaxVisits

(* The recursive call on a subtree that has subtrees. *)
Enter(op) ==
  LET top  == Top(path)
      node == Node(op, top.size)
  IN
  /\ CanVisit
  /\ path' = Append(SetTop(path, [top EXCEPT !.children = @ + 1]),
                    IF op = "sequence" THEN [node EXCEPT !.max = node.in] ELSE node)
  /\ visits' = visits + 1
  /\ UNCHANGED <<params, variables, stacksz, phase>>

(* The value returned to a node.  The mutant keeps the last one. *)
ReturnedLast(node, size) == [node EXCEPT !.max = size]
Returned(node, size) == [node EXCEPT !.max = Larger(@, size)]

(* The recursive call on a constant, a variable or a return without value. *)
Leaf ==
  /\ CanVisit
  /\ path' = SetTop(path, [Returned(Top(path), Top(path).size) EXCEPT !.children = @ + 1])
  /\ visits' = visits + 1
  /\ UNCHANGED <<params, variables, stacksz, phase>>

(* The recursive call on an Ocall, which does not look at the expression   *)
(* that is called: the temporaries of the calls in it, of the widths ws,   *)
(* keep the location 0.                                                    *)
Call(ws) ==
  /\ CanVisit
  /\ Len(variables) + Len(ws) <= MaxVariables
  /\ path' = SetTop(path, [Returned(Top(path), Top(path).size) EXCEPT !.children = @ + 1])
  /\ variables' = variables \o [k \in 1..Len(ws) |-> [width |-> ws[k], loc |-> 0]]
  /\ visits' = visits + 1
  /\ UNCHANGED <<params, stacksz, phase>>

(* The body of a branch or a loop is the NULL of an empty statement. *)
MissingBody ==
  /\ CanVisit
  /\ Top(path).op = "branch" /\ Top(path).children = 1
  /\ phase' = "crashed"
  /\ UNCHANGED <<params, variables, path, visits, stacksz>>

(* assign_memloc returns; the body's size is that of the frame, which      *)
(* prologue and epilogue align.                                            *)
Leave ==
  LET top   == Top(path)
      outer == Pop(path)
  IN
  /\ phase = "body"
  /\ top.children >= FewestChildren(top.op)
  /\ IF outer = <<>>
     THEN /\ stacksz' = Align(top.max, STACKALIGN)
          /\ phase' = "done"
          /\ path' = <<>>
     ELSE /\ path' = SetTop(outer, Returned(Top(outer), top.max))
          /\ UNCHANGED <<stacksz, phase>>
  /\ UNCHANGED <<params, variables, visits>>

Next ==
  \/ \E w \in Widths : AssignParameter(w) \/ Declare(w)
  \/ EnterBody
  \/ \E op \in Operators : Enter(op)
  \/ Leaf
  \/ Call(<<>>)
  \/ \E w \in Widths : Call(<<w>>)
  \/ MissingBody
  \/ Leave

Spec == Init /\ [][Next]_vars
-----------------------------------------------------------------------------
Slots == [width : Widths, loc : Int]
Nodes == [op : Operators, in : Nat, size : Nat, max : Nat, children : Nat, decls : SUBSET Nat]

(* The variables have their types; the walk is somewhere in the body until *)
(* it is done.                                                             *)
TypeOK ==
  /\ params \in Seq(Slots)
  /\ variables \in Seq(Slots)
  /\ path \in Seq(Nodes)
  /\ visits \in Nat
  /\ stacksz \in Nat
  /\ phase \in {"params", "body", "done", "crashed"}
  /\ phase = "body" => path # <<>>
  /\ \A i \in 1..Len(path) : path[i].decls \subseteq 1..Len(variables)

Disjoint(s, t) == s.loc <= t.loc - t.width \/ t.loc <= s.loc - s.width

(* The register that the prologue saves, the saved frame pointer and the   *)
(* return address.                                                         *)
SavedRbx == [width |-> 8, loc |-> 8]
Linkage  == [width |-> 16, loc |-> 0]

(* The variables of the sequences around the tree being visited: those     *)
(* that are alive when it is executed.                                     *)
Alive == UNION {path[i].decls : i \in 1..Len(path)}

(* Variables that are alive at the same time never share a byte with each  *)
(* other, with a parameter, or with what the prologue and the call saved,  *)
(* although sequences beside each other reuse the same bytes.              *)
AliveSlotsDisjoint ==
  /\ \A v, u \in Alive : v # u => Disjoint(variables[v], variables[u])
  /\ \A v \in Alive, k \in 1..Len(params) : Disjoint(variables[v], params[k])
  /\ \A j, k \in 1..Len(params) : j # k => Disjoint(params[j], params[k])
  /\ \A v \in Alive : Disjoint(variables[v], SavedRbx) /\ variables[v].loc > 0
  /\ \A k \in 1..Len(params) : Disjoint(params[k], SavedRbx) /\ Disjoint(params[k], Linkage)

(* The frame the prologue reserves holds every variable that was given a   *)
(* place, at whatever depth of the tree it was declared.                   *)
FrameHoldsSlots ==
  /\ TypeOK
  /\ phase = "done" =>
    /\ \A v \in 1..Len(variables) : variables[v].loc <= stacksz
    /\ \A k \in 1..Len(params) : params[k].loc <= stacksz
    /\ stacksz % STACKALIGN = 0

(* Every slot is aligned for its type, in a frame whose pointer is.        *)
SlotsAligned ==
  /\ \A v \in 1..Len(variables) : variables[v].loc % variables[v].width = 0
  /\ \A k \in 1..Len(params) : params[k].loc % params[k].width = 0

(* assign_memloc "recursively assigns stack locations to local variables   *)
(* declared in t" (456-460): when it is done, every one has a location.    *)
EveryVariableAssigned ==
  phase = "done" => \A v \in 1..Len(variables) : variables[v].loc # 0
=============================================================================
