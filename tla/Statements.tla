----------------------------- MODULE Statements -----------------------------
(***************************************************************************)
(* Statements, from the productions of src/parser.y.in to the jumps of     *)
(* src/emit-amd64-sysv.c.  The parser reads the body of a function and     *)
(* lowers it with the actions of src/semant.c, tree() flattens it, and the *)
(* processor runs what the assembler accepts, one instruction a step.      *)
(*                                                                         *)
(* An expression is a number, in the order of the source, and evaluates to *)
(* zero or not.  Along the tree the parser keeps what the source means, a  *)
(* list of expressions, returns, ifs and whiles, in which C defines the    *)
(* other statements; "todo" is what is left of it to do, and advances with *)
(* the expressions that the processor evaluates.                           *)
(***************************************************************************)
EXTENDS Naturals, Sequences, FiniteSets

CONSTANTS
  ExprTypes,  \* the types of expressions: "int", "void", or "NULL" after an error
  MaxSize,    \* bound on the expressions and keywords of a function,
  MaxRefused  \* and of one with an error

ASSUME StatementsAssumption ==
  /\ ExprTypes \subseteq {"int", "void", "NULL"}
  /\ MaxSize \in Nat /\ MaxRefused \in 0..MaxSize

(* Trees: NULL is no tree, and a type may be NULL too.  The expression 0   *)
(* is one that is not there.                                               *)
Null == [op |-> "NULL"]
Expr(e, ty)  == IF e = 0 THEN Null ELSE [op |-> "Oexpr", e |-> e, ty |-> ty]
Zero         == [op |-> "Oconst", ty |-> "int"]
Seq_(ss)     == [op |-> "Oseq", stmts |-> ss]
Ret(base)    == [op |-> "Oret", base |-> base]
Branch(op, cond) == [op |-> op, cond |-> cond, t |-> Null, f |-> Null]

(* make_branch: an untyped condition takes the place of the statement. *)
MakeBranch(op, cond) == IF cond.ty = "NULL" THEN cond ELSE Branch(op, cond)

(* make_for *)
Listed(t) == IF t = Null THEN <<>> ELSE <<t>>
MakeFor(i, c, n) ==
  Seq_(Listed(i) \o <<MakeBranch("Owhile", IF c = Null THEN Zero ELSE c)>> \o Listed(n))

(* Mutant of AddForBody: the tail runs before the body. *)
AddForBodyTailFirst(fr, body) ==
  IF Len(fr.stmts) # 3 \/ body = Null \/ fr.stmts[2].op # "Owhile" THEN Null
  ELSE Seq_(<<fr.stmts[1], [fr.stmts[2] EXCEPT !.t = Seq_(<<fr.stmts[3], body>>)]>>)

(* Mutant of AddForBody: the body is taken for a block. *)
AddForBodyOfBlock(fr, body) ==
  IF Len(fr.stmts) # 3 \/ body = Null \/ body.op # "Oseq" \/ fr.stmts[2].op # "Owhile" THEN Null
  ELSE Seq_(<<fr.stmts[1], [fr.stmts[2] EXCEPT !.t = Seq_(Append(body.stmts, fr.stmts[3]))]>>)

(* add_for_body, Null where it stops: it asserts that there are three      *)
(* statements, dereferences the body, and asserts that the second one is a *)
(* loop.                                                                   *)
AddForBody(fr, body) ==
  IF Len(fr.stmts) # 3 \/ body = Null \/ fr.stmts[2].op # "Owhile" THEN Null
  ELSE LET tail  == fr.stmts[3]
           inner == IF body.op = "Oseq" THEN Append(body.stmts, tail) ELSE <<body, tail>>
       IN  Seq_(<<fr.stmts[1], [fr.stmts[2] EXCEPT !.t = Seq_(inner)]>>)

(* $$->t = $2 and $$->f = $4; after an error $$ may be an expression. *)
Then(tree, t) == IF tree.op = "Oexpr" THEN tree ELSE [tree EXCEPT !.t = t]
Else(tree, f) == IF tree.op = "Oexpr" THEN tree ELSE [tree EXCEPT !.f = f]
-----------------------------------------------------------------------------
(* The code: evaluations, jumps and labels, and the trees that tree() has  *)
(* still to walk.                                                          *)
Ins(op, arg) == [op |-> op, arg |-> arg]
Label(l) == <<Ins("label", l)>>
Jmp(l)   == <<Ins("jmp", l)>>
Je(l)    == <<Ins("je", l)>>
Walk(t)  == <<Ins("tree", t)>>
RetLabel == <<"ret", 0>>

(* Mutant of BranchCode: the label is only there for an else. *)
BranchCodeWithoutLabel(k, cond, t, f, hasElse) ==
  cond \o Je(<<"branch.else", k>>) \o t
  \o IF hasElse THEN Jmp(<<"branch.end", k>>) \o Label(<<"branch.else", k>>) \o f
                     \o Label(<<"branch.end", k>>)
     ELSE Label(<<"branch.end", k>>)

(* tree(): Obranch *)
BranchCode(k, cond, t, f, hasElse) ==
  cond \o Je(<<"branch.else", k>>) \o t
  \o (IF hasElse THEN Jmp(<<"branch.end", k>>) ELSE <<>>)
  \o Label(<<"branch.else", k>>) \o f \o Label(<<"branch.end", k>>)

(* Mutant of LoopCode: a loop goes back to its test, past the condition. *)
LoopCodePastCondition(op, k, cond, t) ==
  (IF op = "Odowhile" THEN Jmp(<<"while.body:", k>>) ELSE <<>>)
  \o cond \o Label(<<"while.cond", k>>) \o Je(<<"while.after", k>>)
  \o (IF op = "Odowhile" THEN Label(<<"while.body", k>>) ELSE <<>>)
  \o t \o Jmp(<<"while.cond", k>>) \o Label(<<"while.after", k>>)

(* tree(): Owhile and Odowhile.  The jump into a do has a colon after its  *)
(* operand.                                                                *)
LoopCode(op, k, cond, t) ==
  (IF op = "Odowhile" THEN Jmp(<<"while.body:", k>>) ELSE <<>>)
  \o Label(<<"while.cond", k>>) \o cond \o Je(<<"while.after", k>>)
  \o (IF op = "Odowhile" THEN Label(<<"while.body", k>>) ELSE <<>>)
  \o t \o Jmp(<<"while.cond", k>>) \o Label(<<"while.after", k>>)

(* What the assembler accepts: each jump is to the one label of its name.  *)
Target(code, l) == {i \in 1..Len(code) : code[i] = Ins("label", l)}
Assembles(code) ==
  \A i \in 1..Len(code) :
    code[i].op \in {"jmp", "je", "label"} => Cardinality(Target(code, code[i].arg)) = 1
-----------------------------------------------------------------------------
(* What the source means. *)
Evaluate(e)    == IF e = 0 THEN <<>> ELSE <<[op |-> "expression", e |-> e]>>
ReturnOf(e)    == <<[op |-> "return", e |-> e]>>
IfOf(c, t, f)  == <<[op |-> "if", e |-> c, t |-> t, f |-> f]>>
WhileOf(c, t)  == <<[op |-> "while", e |-> c, t |-> t]>>
DoOf(c, t)     == t \o WhileOf(c, t)
ForOf(i, c, n, t) == Evaluate(i) \o WhileOf(c, t \o Evaluate(n))

(* The expression that is evaluated next, 0 if there is none; and what is  *)
(* left when it was not zero, or was.                                      *)
Asks(ss) == IF ss = <<>> THEN 0 ELSE Head(ss).e
After(ss, ax) ==
  LET s == Head(ss) IN
  IF s.op = "expression" THEN Tail(ss)
  ELSE IF s.op = "return" THEN <<>>
  ELSE IF s.op = "if" THEN (IF ax THEN s.t ELSE s.f) \o Tail(ss)
  ELSE IF ax THEN s.t \o ss ELSE Tail(ss)
-----------------------------------------------------------------------------
VARIABLES
  stack,   \* the parser's stack: the statements it is in, with their trees
  blocks,  \* bstack: the statements of the blocks that are open
  done,    \* the statement just reduced, if any
  size,    \* the expressions and keywords read
  void,    \* whether curfn returns void
  err,     \* semant_error
  seen,    \* what was read of these: a "do"; a "for" without a condition; a
           \* "hollow" statement, which the compiler cannot lower
  status,  \* of the compiler, then of the program
  work,    \* what tree() has still to print and to walk
  label,   \* the number of the next labels
  code,    \* the instructions of the function
  pc, ax,  \* the processor: the next instruction; whether eax is not zero
  todo     \* what is left of the source

parser  == <<stack, blocks, done, size, void, err, seen>>
emitter == <<work, label, code>>
program == <<pc, ax, todo>>
vars    == <<parser, status, emitter, program>>

(* A statement is empty, or closed or open, as the grammar calls it. *)
Reduced(kind, src, tree) == [kind |-> kind, src |-> src, tree |-> tree]
None   == Reduced("none", <<>>, Null)
Around(kind) == IF kind = "open" THEN "open" ELSE "closed"
Frame(op, i, c, n, tree) ==
  [op |-> op, i |-> i, c |-> c, n |-> n, src |-> <<>>, tree |-> tree]
Top    == stack[Len(stack)]
In(op) == Len(stack) > 0 /\ Top.op = op

(* compound: LCURLY, as the body of a function begins. *)
Init ==
  /\ stack = <<Frame("block", 0, 0, 0, Null)>>
  /\ blocks = <<<<>>>>
  /\ done = None
  /\ size = 0
  /\ void \in BOOLEAN
  /\ err = FALSE /\ seen = {}
  /\ status = "parsing"
  /\ work = <<>> /\ label = 0 /\ code = <<>>
  /\ pc = 1 /\ ax = FALSE
  /\ todo = <<>>

(* The parser reads n more expressions or keywords where a statement may   *)
(* begin.                                                                  *)
Read(n) ==
  /\ status = "parsing" /\ done = None
  /\ size + n <= IF err THEN MaxRefused ELSE MaxSize
  /\ size' = size + n
  /\ UNCHANGED <<void, seen, emitter, program>>

Push(frame) == stack' = Append(stack, frame) /\ UNCHANGED <<blocks, done>>
Reduce(s)   == done' = s /\ UNCHANGED <<stack, blocks>>
Report(b)   == err' = (err \/ b)

OpenBlock ==
  /\ Read(1)
  /\ stack' = Append(stack, Frame("block", 0, 0, 0, Null))
  /\ blocks' = Append(blocks, <<>>)
  /\ UNCHANGED <<done, err, status>>

(* SEMICOLON, and expression SEMICOLON *)
Expression ==
  \/ Read(1) /\ Reduce(Reduced("empty", <<>>, Null)) /\ UNCHANGED <<err, status>>
  \/ \E ty \in ExprTypes :
       /\ Read(1)
       /\ Reduce(Reduced("closed", Evaluate(size'), Expr(size', ty)))
       /\ Report(ty = "NULL")
       /\ UNCHANGED status

(* make_return: assign reads the type of the expression. *)
Return ==
  /\ Read(1)
  /\ \E e \in {0, size'}, ty \in ExprTypes :
       /\ Report((void <=> e # 0) \/ (e # 0 /\ ty # "int"))
       /\ IF ~void /\ e # 0 /\ ty = "NULL"
          THEN status' = "segv" /\ UNCHANGED <<stack, blocks, done>>
          ELSE /\ Reduce(Reduced("closed", ReturnOf(e), Ret(Expr(e, ty))))
               /\ UNCHANGED status

If ==
  \E ty \in ExprTypes :
    /\ Read(1)
    /\ Push(Frame("if", 0, size', 0, MakeBranch("Obranch", Expr(size', ty))))
    /\ Report(ty # "int")
    /\ UNCHANGED status

While ==
  \E ty \in ExprTypes :
    /\ Read(1)
    /\ Push(Frame("while", 0, size', 0, MakeBranch("Owhile", Expr(size', ty))))
    /\ Report(ty # "int")
    /\ UNCHANGED status

(* make_for enters a block, appends what is there and leaves it, before    *)
(* the body is read.                                                       *)
For ==
  /\ Read(3)
  /\ \E i \in {0, size + 1}, c \in {0, size + 2}, n \in {0, size + 3}, ty \in ExprTypes :
       /\ Push(Frame("for", i, c, n, MakeFor(Expr(i, "int"), Expr(c, ty), Expr(n, "int"))))
       /\ Report(c # 0 /\ ty # "int")
       /\ UNCHANGED status

Do ==
  /\ Read(1)
  /\ Push(Frame("do", 0, size', 0, Null))
  /\ UNCHANGED <<err, status>>

(* A statement with the body just reduced is seen. *)
See(what) == seen' = seen \cup what \cup (IF done.kind = "empty" THEN {"hollow"} ELSE {})

(* if closedstmt ELSE *)
ElseKeyword ==
  /\ status = "parsing" /\ done # None
  /\ In("if") /\ done.kind # "open"
  /\ stack' = [stack EXCEPT ![Len(stack)] =
                 [Top EXCEPT !.op = "else", !.src = done.src, !.tree = Then(Top.tree, done.tree)]]
  /\ done' = None
  /\ See({})
  /\ UNCHANGED <<blocks, size, void, err, status, emitter, program>>

(* The production that ends in the statement just reduced: what becomes of *)
(* it is s.                                                                *)
Ends(op, s) ==
  /\ status = "parsing" /\ done # None
  /\ In(op)
  /\ stack' = SubSeq(stack, 1, Len(stack) - 1)
  /\ done' = s
  /\ UNCHANGED <<blocks, size, void, emitter, program>>

EndIf ==
  /\ Ends("if", Reduced("open", IfOf(Top.c, done.src, <<>>), Then(Top.tree, done.tree)))
  /\ See({})
  /\ UNCHANGED <<err, status>>

EndElse ==
  /\ Ends("else", Reduced(Around(done.kind), IfOf(Top.c, Top.src, done.src),
                          Else(Top.tree, done.tree)))
  /\ UNCHANGED <<err, seen, status>>

EndWhile ==
  /\ Ends("while", Reduced(Around(done.kind), WhileOf(Top.c, done.src),
                           Then(Top.tree, done.tree)))
  /\ See({})
  /\ UNCHANGED <<err, status>>

EndFor ==
  /\ In("for")
  /\ See((IF Top.c = 0 THEN {"for"} ELSE {}) \cup (IF 0 \in {Top.i, Top.n} THEN {"hollow"} ELSE {}))
  /\ LET tree == AddForBody(Top.tree, done.tree) IN
     IF tree # Null
     THEN /\ Ends("for", Reduced(Around(done.kind), ForOf(Top.i, Top.c, Top.n, done.src), tree))
          /\ UNCHANGED <<err, status>>
     ELSE /\ status = "parsing" /\ done # None
          /\ status' = "crashed"
          /\ UNCHANGED <<stack, blocks, done, size, void, err, emitter, program>>

(* DO stmt while: the condition is read last. *)
EndDo ==
  /\ In("do")
  /\ \E ty \in ExprTypes :
    LET tree == MakeBranch("Odowhile", Expr(Top.c, ty)) IN
    /\ Ends("do", Reduced("closed", DoOf(Top.c, done.src), Then(tree, done.tree)))
    /\ See({"do"})
    /\ Report(ty # "int")
    /\ UNCHANGED status

(* stmts stmt *)
EndOfStatement ==
  /\ status = "parsing" /\ done # None
  /\ In("block")
  /\ stack' = [stack EXCEPT ![Len(stack)] = [Top EXCEPT !.src = Top.src \o done.src]]
  /\ blocks' = IF done.tree = Null THEN blocks
               ELSE [blocks EXCEPT ![Len(blocks)] = Append(@, done.tree)]
  /\ done' = None
  /\ UNCHANGED <<size, void, err, seen, status, emitter, program>>

(* leave_block: what is left of bstack. *)
LeaveBlock == SubSeq(blocks, 1, Len(blocks) - 1)

(* compound: RCURLY, of a block in another statement. *)
CloseBlock ==
  /\ status = "parsing" /\ done = None
  /\ Len(stack) > 1 /\ In("block")
  /\ done' = Reduced("closed", Top.src, Seq_(blocks[Len(blocks)]))
  /\ stack' = SubSeq(stack, 1, Len(stack) - 1)
  /\ blocks' = LeaveBlock
  /\ UNCHANGED <<size, void, err, seen, status, emitter, program>>

(* The body of the function ends.  main emits its code, up to the label    *)
(* of the epilogue, unless there was an error.                             *)
EndOfFunction ==
  /\ status = "parsing" /\ done = None
  /\ Len(stack) = 1
  /\ todo' = Top.src
  /\ work' = Walk(Seq_(blocks[1])) \o Label(RetLabel)
  /\ stack' = <<>> /\ blocks' = <<>>
  /\ status' = IF err THEN "refused" ELSE "emitting"
  /\ UNCHANGED <<done, size, void, err, seen, label, code, pc, ax>>
-----------------------------------------------------------------------------
(* tree(): it prints, or walks what a tree is made of.                     *)
Say ==
  /\ status = "emitting" /\ work # <<>>
  /\ Head(work).op # "tree"
  /\ code' = Append(code, Head(work))
  /\ work' = Tail(work)
  /\ UNCHANGED <<parser, status, label, program>>

(* At a tree of one of the operators, which becomes what is printed and    *)
(* walked for it.                                                          *)
Walking(ops) ==
  /\ status = "emitting" /\ work # <<>>
  /\ Head(work).op = "tree" /\ Head(work).arg.op \in ops
Tree == Head(work).arg
Becomes(items) ==
  /\ work' = items \o Tail(work)
  /\ UNCHANGED <<parser, status, code, program>>

EmitNull ==
  /\ Walking({"NULL"})
  /\ status' = "crashed"
  /\ UNCHANGED <<parser, emitter, program>>

EmitExpression ==
  \/ Walking({"Oexpr"}) /\ Becomes(<<Ins("eval", Tree.e)>>) /\ UNCHANGED label
  \/ Walking({"Oconst"}) /\ Becomes(<<Ins("zero", 0)>>) /\ UNCHANGED label

(* It leaves a sequence after a return. *)
EmitSeq ==
  /\ Walking({"Oseq"})
  /\ LET ts == Tree.stmts IN
     Becomes(IF ts = <<>> THEN <<>>
             ELSE IF Head(ts).op = "Oret" THEN Walk(Head(ts))
             ELSE Walk(Head(ts)) \o Walk(Seq_(Tail(ts))))
  /\ UNCHANGED label

EmitRet ==
  /\ Walking({"Oret"})
  /\ Becomes((IF Tree.base = Null THEN <<>> ELSE Walk(Tree.base)) \o Jmp(RetLabel))
  /\ UNCHANGED label

(* An expression has no labels. *)
EmitBranch ==
  /\ Walking({"Obranch"})
  /\ Becomes(BranchCode(label, Walk(Tree.cond), Walk(Tree.t),
                        IF Tree.f = Null THEN <<>> ELSE Walk(Tree.f), Tree.f # Null))
  /\ label' = label + 1

EmitLoop ==
  /\ Walking({"Owhile", "Odowhile"})
  /\ Becomes(LoopCode(Tree.op, label, Walk(Tree.cond), Walk(Tree.t)))
  /\ label' = label + 1

(* The assembler. *)
Assemble ==
  /\ status = "emitting" /\ work = <<>>
  /\ status' = IF Assembles(code) THEN "running" ELSE "unassembled"
  /\ UNCHANGED <<parser, emitter, program>>

(* The processor. *)
Step ==
  LET i == code[pc] IN
  /\ status = "running"
  /\ pc' = IF i.op = "jmp" \/ (i.op = "je" /\ ~ax)
           THEN CHOOSE l \in Target(code, i.arg) : TRUE ELSE pc + 1
  /\ ax' \in IF i.op = "eval" THEN BOOLEAN ELSE IF i.op = "zero" THEN {FALSE} ELSE {ax}
  /\ todo' = IF i.op = "eval" /\ i.arg = Asks(todo) THEN After(todo, ax') ELSE todo
  /\ status' = IF pc = Len(code) THEN "returned" ELSE status
  /\ UNCHANGED <<parser, emitter>>

Parse ==
  \/ OpenBlock \/ Expression \/ Return \/ If \/ While \/ For \/ Do \/ ElseKeyword
  \/ EndIf \/ EndElse \/ EndWhile \/ EndFor \/ EndDo \/ EndOfStatement \/ CloseBlock
  \/ EndOfFunction

Emit == Say \/ EmitNull \/ EmitExpression \/ EmitSeq \/ EmitRet \/ EmitBranch \/ EmitLoop

Next == Parse \/ Emit \/ Assemble \/ Step

(* The processor goes on with the program as long as it runs. *)
Spec == Init /\ [][Next]_vars /\ WF_vars(Step)
-----------------------------------------------------------------------------
(* Each statement is on the parser's stack, and each block on bstack. *)
TypeOK ==
  /\ size \in 0..MaxSize
  /\ {void, err, ax} \subseteq BOOLEAN
  /\ seen \subseteq {"do", "for", "hollow"}
  /\ status \in {"parsing", "segv", "crashed", "refused", "emitting", "unassembled", "running",
                 "returned"}
  /\ pc \in 1..(Len(code) + 1) /\ label \in Nat
  /\ Len(blocks) = Cardinality({i \in 1..Len(stack) : stack[i].op = "block"})

AtExpression == status = "running" /\ code[pc].op = "eval"

(* The processor evaluates the expressions that the source asks for next,  *)
(* in its order, and returns when it asks for none: through the blocks     *)
(* that add_for_body makes or extends, the statements that tree() drops    *)
(* and the labels of nested statements.  A for without a condition is left *)
(* out: make_for gives it one that is zero.                                *)
FollowsSource ==
  /\ TypeOK
  /\ "for" \notin seen =>
    /\ AtExpression => code[pc].arg = Asks(todo)
    /\ status = "returned" => Asks(todo) = 0

(* The compiler stops without a word only on source that it cannot lower:  *)
(* an empty body that is no else, and a for of which a part is missing     *)
(* that is not the condition.                                              *)
CrashesAreHollow ==
  status \in {"segv", "crashed"} => err \/ "hollow" \in seen

(* Only a do gives code that the assembler refuses: the labels of the      *)
(* other statements are defined once each, and what jumps uses them.       *)
OnlyDoUnassembled ==
  status = "unassembled" => "do" \in seen

(* A program that runs always comes to another expression or to the end:   *)
(* no jumps go round without one.                                          *)
Progress == status = "running" ~> status = "returned" \/ AtExpression
=============================================================================
