---------------------------- MODULE Expressions ----------------------------
(***************************************************************************)
(* Expressions: the semantic actions of src/semant.c that the productions  *)
(* of src/parser.y.in call, on the parser's stack of values.  Parentheses  *)
(* let every production follow every other, so that each action applies to *)
(* whatever trees are on top.  A tree is its root, with the operand of an  *)
(* Oaddr or Oindir, which a later & or * may bring back; the operands of   *)
(* the other operators are never read again and live in "last" only.       *)
(*                                                                         *)
(* A type is a core with some pointers around it; the core of a function   *)
(* type is the name of its struct.  One operator stands for those that     *)
(* make_unary and make_binary treat alike: Oneg for Opos and Ocomp; Omul   *)
(* for Odiv, Omod, Oand, Oxor and Oor; Osl for Osr; Olt for the relational *)
(* operators; Oeq for Oneq.                                                *)
(***************************************************************************)
EXTENDS Conversions, Sequences

CONSTANTS
  Declared,   \* the identifiers in scope: a function from names to types
  Functions,  \* the function types: from their cores to [ret, params]
  Constants,  \* the types integer constants may have
  TypeNames,  \* the types casts may name
  MaxStack,   \* bound on the values the parser holds,
  MaxArgs,    \* and on the arguments of a function
  MaxDepth    \* bound on the pointers around a core

Type(core, depth) == [core |-> core, depth |-> depth]
NULL == Type("NULL", 0)
Void == Type("void", 0)
IntT  == Type("int", 0)
PtrTo(t) == Type(t.core, t.depth + 1)
Base(t)  == Type(t.core, t.depth - 1)

Cores == {"NULL", "void"} \cup IntegerTypes \cup DOMAIN Functions
Types == [core : Cores, depth : 0..MaxDepth]

IsPtr(t)    == t.depth > 0
IsFun(t)    == t.depth = 0 /\ t.core \in DOMAIN Functions
IsArith(t)  == t.depth = 0 /\ t.core \in IntegerTypes
IsScalar(t) == IsArith(t) \/ IsPtr(t)
Complete(t) == IsScalar(t)

(* Names have the types declare_symbol lets through without an error, and  *)
(* parameters those left by adjust: one of a prototype may be void.  The   *)
(* type name of a cast has no stars.                                       *)
ASSUME ConstantsAssumption ==
  /\ MaxArgs \in Nat /\ {MaxStack, MaxDepth} \subseteq Nat \ {0}
  /\ DOMAIN Functions \cap ({"NULL", "void"} \cup IntegerTypes) = {}
  /\ \A f \in DOMAIN Functions :
       /\ Functions[f].ret \in Types
       /\ Functions[f].ret = Void \/ IsScalar(Functions[f].ret)
       /\ Functions[f].ret.core # "NULL"
       /\ Functions[f].params \in Seq({t \in Types : t.core # "NULL" /\ ~IsFun(t)})
  /\ \A n \in DOMAIN Declared :
       /\ Declared[n] \in Types
       /\ IsScalar(Declared[n]) \/ IsFun(Declared[n])
       /\ Declared[n].core # "NULL"
  /\ Constants \subseteq {t \in Types : IsArith(t)}
  /\ TypeNames \subseteq {t \in Types : t = Void \/ IsArith(t)}

(* compatible: function types that are not the same struct have to have no *)
(* parameters.                                                             *)
Compatible(s, t) ==
  \/ s = t
  \/ /\ s.depth = t.depth
     /\ {s.core, t.core} \subseteq DOMAIN Functions
     /\ Functions[s.core].params = <<>> /\ Functions[t.core].params = <<>>
     /\ Functions[s.core].ret = Functions[t.core].ret

UnaryOps  == {"Oaddr", "Oindir", "Oneg", "Onot"}
BinaryOps == {"Omul", "Osl", "Olt", "Oeq", "Oadd", "Osub"}

NoTree == [op |-> "none"]
Tree(op, ty) == [op |-> op, ty |-> ty, null |-> FALSE, decayed |-> FALSE,
                 lvalue |-> FALSE, base |-> NoTree]

(* The types that promote and commonrealtype give two arithmetic types. *)
Arch == Amd64(1)
Promote(t) == Type(Promoted(Arch, t.core), 0)
Common(l, r) == Type(CommonRealType(Arch, Promoted(Arch, l.core), Promoted(Arch, r.core)), 0)
SizeT == Type("ulong", 0)
PtrDiffT == Type("long", 0)

(* convert, once its assertions hold. *)
Convert(to, t) ==
  IF Compatible(to, t.ty) THEN [t EXCEPT !.ty = to]
  ELSE [Tree("Ocast", to) EXCEPT !.null = t.null /\ to = PtrTo(Void)]

(* A tree whose type is set to NULL: only its flag lvalue is read again. *)
Untyped(t) == [Tree(t.op, NULL) EXCEPT !.lvalue = t.lvalue]

(* What a call leaves: a tree, the types of its operands in it, and whether*)
(* it reported an error; or the way in which it stopped the compiler.      *)
Made(t, l, r)     == [tree |-> t, l |-> l, r |-> r, report |-> FALSE, stop |-> "no"]
Refused(t, l, r)  == [Made(t, l, r) EXCEPT !.report = TRUE]
Stopped(how, rep) == [Made(Tree("none", NULL), NULL, NULL) EXCEPT !.stop = how, !.report = rep]
-----------------------------------------------------------------------------
(* assign: the errors it reports, and how it stops on types it does not    *)
(* expect.                                                                 *)
AssignReports(lty, r) ==
  IF IsArith(lty) THEN ~IsArith(r.ty)
  ELSE \/ ~IsPtr(r.ty) /\ ~r.null
       \/ /\ ~Compatible(lty, r.ty)
          /\ Base(lty) # Void
          /\ ~(IsPtr(r.ty) /\ Base(r.ty) = Void)

AssignStops(lty, r) ==
  IF lty = NULL THEN "segv"
  ELSE IF lty = Void \/ IsFun(lty) THEN "die"
  ELSE IF r.ty = NULL THEN "segv"
  ELSE "no"

(* make_assign *)
MakeAssign(l, r) ==
  IF ~l.lvalue THEN Refused(Tree("Oassign", NULL), l.ty, r.ty)
  ELSE IF AssignStops(l.ty, r) # "no" THEN Stopped(AssignStops(l.ty, r), FALSE)
  ELSE [Made(Tree("Oassign", l.ty), l.ty, Convert(l.ty, r).ty)
        EXCEPT !.report = AssignReports(l.ty, r)]

(* Mutant of AddressOf: anything has an address. *)
AddressOfAny(t) ==
  LET x == IF t.decayed THEN t.base ELSE t IN
  IF x.op = "Oindir" THEN Made(x.base, x.ty, NULL)
  ELSE Made([Tree("Oaddr", PtrTo(x.ty)) EXCEPT !.base = x], x.ty, NULL)

(* make_unary: its cases Oaddr and Oindir *)
AddressOf(t) ==
  LET x == IF t.decayed THEN t.base ELSE t IN
  IF ~x.lvalue /\ ~IsFun(x.ty) THEN Refused(Tree("Oaddr", NULL), x.ty, NULL)
  ELSE IF x.op = "Oindir" THEN Made(x.base, x.ty, NULL)
  ELSE Made([Tree("Oaddr", PtrTo(x.ty)) EXCEPT !.base = x], x.ty, NULL)

Dereferenced(t) ==
  IF ~IsPtr(t.ty) THEN Refused([Tree("Oindir", NULL) EXCEPT !.lvalue = TRUE], t.ty, NULL)
  ELSE IF t.op = "Oaddr" THEN Made(t.base, t.ty, NULL)
  ELSE Made([Tree("Oindir", Base(t.ty)) EXCEPT !.lvalue = ~IsFun(Base(t.ty)), !.base = t],
            t.ty, NULL)

(* Mutant of MakeUnary: the type of ! is int, whatever its operand. *)
MakeUnaryNotIsInt(op, t) ==
  IF op = "Onot" THEN Made(Tree(op, IntT), t.ty, NULL)
  ELSE IF t.ty = NULL THEN Refused([Tree(op, NULL) EXCEPT !.lvalue = op = "Oindir"], NULL, NULL)
  ELSE IF op = "Oaddr"  THEN AddressOf(t)
  ELSE IF op = "Oindir" THEN Dereferenced(t)
  ELSE Made(Tree(op, t.ty), t.ty, NULL)

(* make_unary.  Its label err reports only if the operand had no type.     *)
MakeUnary(op, t) ==
  IF t.ty = NULL
  THEN Refused([Tree(op, NULL) EXCEPT !.lvalue = op = "Oindir"], NULL, NULL)
  ELSE IF op = "Oaddr"  THEN AddressOf(t)
  ELSE IF op = "Oindir" THEN Dereferenced(t)
  ELSE IF op = "Onot"   THEN Made(Tree(op, IF IsScalar(t.ty) THEN IntT ELSE NULL), t.ty, NULL)
  ELSE IF IsArith(t.ty) THEN Made(Tree(op, Promote(t.ty)), Promote(t.ty), NULL)
  ELSE Made(Tree(op, NULL), t.ty, NULL)

(* decay *)
Decay(t) ==
  IF IsFun(t.ty) THEN [MakeUnary("Oaddr", t).tree EXCEPT !.decayed = TRUE] ELSE t

(* Mutant of PointerPlus: its error is not reported. *)
PointerPlusSilently(op, tl, tr) ==
  IF Complete(Base(tl)) THEN Made(Tree(op, tl), tl, SizeT) ELSE Made(Tree(op, NULL), tl, tr)

(* make_binary, for a pointer tl and an index of type tr; and for two      *)
(* pointers, whose difference is divided by the width of what they point to*)
PointerPlus(op, tl, tr) ==
  IF Complete(Base(tl)) THEN Made(Tree(op, tl), tl, SizeT) ELSE Refused(Tree(op, NULL), tl, tr)

PointerMinus(tl, tr) ==
  IF Compatible(tl, tr) /\ Complete(Base(tl))
  THEN LET ty == Common(PtrDiffT, IntT) IN Made(Tree("Odiv", ty), ty, ty)
  ELSE Refused(Tree("Osub", NULL), tl, tr)

(* Which pointers make_binary compares. *)
Comparable(op, l, r) ==
  \/ Compatible(l.ty, r.ty)
  \/ op = "Oeq" /\ (Void \in {Base(l.ty), Base(r.ty)} \/ l.null \/ r.null)

(* Mutant of MakeArithmetic: the operands are not converted. *)
MakeArithmeticUnconverted(op, tl, tr) == Made(Tree(op, tl), tl, tr)

MakeArithmetic(op, tl, tr) ==
  IF op = "Osl" THEN Made(Tree(op, Promote(tl)), Promote(tl), Promote(tr))
  ELSE Made(Tree(op, IF op \in {"Olt", "Oeq"} THEN IntT ELSE Common(tl, tr)),
            Common(tl, tr), Common(tl, tr))

(* make_binary *)
MakeBinary(op, l, r) ==
  IF NULL \in {l.ty, r.ty} THEN Made(Tree(op, NULL), l.ty, r.ty)
  ELSE IF IsArith(l.ty) /\ IsArith(r.ty) THEN MakeArithmetic(op, l.ty, r.ty)
  ELSE IF op = "Osub" /\ IsPtr(l.ty) /\ IsPtr(r.ty) THEN PointerMinus(l.ty, r.ty)
  ELSE IF op = "Oadd" /\ IsArith(l.ty) /\ IsPtr(r.ty) THEN PointerPlus(op, r.ty, l.ty)
  ELSE IF op \in {"Oadd", "Osub"} /\ IsPtr(l.ty) /\ IsArith(r.ty) THEN PointerPlus(op, l.ty, r.ty)
  ELSE IF op \in {"Olt", "Oeq"} /\ IsPtr(l.ty) /\ IsPtr(r.ty) /\ Comparable(op, l, r)
       THEN Made(Tree(op, IntT), l.ty, r.ty)
  ELSE Refused(Tree(op, NULL), l.ty, r.ty)

(* make_subscript *)
MakeSubscript(l, r) ==
  IF r.ty = NULL THEN Made(r, NULL, NULL)
  ELSE IF l.ty = NULL THEN Made(l, NULL, NULL)
  ELSE IF (IsArith(l.ty) /\ IsPtr(r.ty)) \/ (IsArith(r.ty) /\ IsPtr(l.ty))
  THEN LET p == MakeBinary("Oadd", l, r)
           x == MakeUnary("Oindir", p.tree)
       IN  [x EXCEPT !.report = p.report \/ x.report]
  ELSE Refused(Untyped(l), l.ty, r.ty)

(* make_ident, for a name that is declared; make_iconst for a constant it  *)
(* accepts.                                                                *)
MakeIdent(n) ==
  Made(Decay([Tree("Ovar", Declared[n]) EXCEPT !.lvalue = ~IsFun(Declared[n])]), NULL, NULL)
MakeUndeclared == Refused([Tree("Ovar", NULL) EXCEPT !.lvalue = TRUE], NULL, NULL)
MakeIconst(ty, zero) == Made([Tree("Oconst", ty) EXCEPT !.null = zero], NULL, NULL)

(* make_cast.  The type name is NULL after an error in its specifiers.     *)
MakeCast(to, t) ==
  IF to = NULL THEN Stopped("segv", TRUE)
  ELSE IF t.ty = NULL THEN Stopped("segv", FALSE)
  ELSE IF ~IsScalar(t.ty) /\ to # Void THEN Refused(Untyped(t), t.ty, NULL)
  ELSE Made(Convert(to, t), t.ty, NULL)

(* The loop of make_call over the arguments: the first at which it stops.  *)
ParamAt(ps, i) == IF i <= Len(ps) THEN ps[i] ELSE NULL

(* Mutant of WrongNumber: missing arguments are not noticed. *)
TooMany(f, args) == Len(args) > Len(f.params)

WrongNumber(f, args) == Len(args) # Len(f.params)

IsCallee(t) == IsPtr(t.ty) /\ IsFun(Base(t.ty))

BadArguments(f, args) ==
  {i \in 1..Len(args) : AssignStops(ParamAt(f.params, i), args[i]) # "no"}
CallReports(f, args, n) ==
  WrongNumber(f, args) \/ \E i \in 1..n : AssignReports(f.params[i], args[i])

(* make_call.  What is called but not a function has no vector of          *)
(* parameters; the wrong number of arguments does not keep it from looking *)
(* for the parameter of each.                                              *)
MakeCall(fn, args) ==
  IF fn.ty = NULL THEN Made(fn, NULL, NULL)
  ELSE IF ~IsCallee(fn) THEN Stopped("segv", TRUE)
  ELSE
    LET f     == Functions[fn.ty.core]
        bad   == BadArguments(f, args)
        first == CHOOSE i \in bad : \A j \in bad : i <= j
    IN
    IF bad = {}
    THEN [Made(Tree("Oseq", f.ret), fn.ty, NULL) EXCEPT !.report = CallReports(f, args, Len(args))]
    ELSE Stopped(AssignStops(ParamAt(f.params, first), args[first]), CallReports(f, args, first - 1))
-----------------------------------------------------------------------------
VARIABLES
  stack,  \* the trees the parser holds
  err,    \* semant_error
  silent, \* make_unary gave up on the type of its operand, without a report
  status, \* "running", or how the compiler stopped
  last    \* the last call: its production, operands and report

vars == <<stack, err, silent, status, last>>

NoCall == [by |-> "none", op |-> "none", ty |-> NULL, l |-> NULL, r |-> NULL,
           null |-> FALSE, report |-> FALSE]

Init ==
  /\ stack = <<>>
  /\ err = FALSE
  /\ silent = FALSE
  /\ status = "running"
  /\ last = NoCall

Value(i) == stack[Len(stack) + 1 - i]

(* A production pops its n values and pushes the tree it makes of them.    *)
Reduce(by, n, out) ==
  /\ status = "running"
  /\ err' = (err \/ out.report)
  /\ last' = [by |-> by, op |-> out.tree.op, ty |-> out.tree.ty, l |-> out.l, r |-> out.r,
              null |-> n > 0 /\ Value(1).null, report |-> out.report]
  /\ IF out.stop # "no"
     THEN status' = out.stop /\ UNCHANGED <<stack, silent>>
     ELSE /\ stack' = Append(SubSeq(stack, 1, Len(stack) - n), out.tree)
          /\ silent' = \/ silent
                       \/ /\ by \in {"Oneg", "Onot"} /\ Value(1).ty # NULL
                          /\ out.tree.ty = NULL
          /\ UNCHANGED status

Primary ==
  /\ Len(stack) < IF stack # <<>> /\ IsCallee(stack[1]) THEN 1 + MaxArgs ELSE MaxStack
  /\ \/ \E n \in DOMAIN Declared : Reduce("ident", 0, MakeIdent(n))
     \/ Reduce("ident", 0, MakeUndeclared)
     \/ \E ty \in Constants, zero \in BOOLEAN : Reduce("iconst", 0, MakeIconst(ty, zero))

Unary ==
  /\ Len(stack) >= 1
  /\ \E op \in UnaryOps :
       /\ op = "Oaddr" => Value(1).ty.depth < MaxDepth
       /\ Reduce(op, 1, MakeUnary(op, Value(1)))

Cast ==
  /\ Len(stack) >= 1
  /\ \E to \in TypeNames \cup {NULL} : Reduce("cast", 1, MakeCast(to, Value(1)))

Binary ==
  /\ Len(stack) >= 2
  /\ \E op \in BinaryOps :
       Reduce(op, 2, MakeBinary(op, Value(2), Value(1)))

Assign ==
  /\ Len(stack) >= 2
  /\ Reduce("Oassign", 2, MakeAssign(Value(2), Value(1)))

Subscript ==
  /\ Len(stack) >= 2
  /\ Reduce("subscript", 2, MakeSubscript(Value(2), Value(1)))

Calling ==
  \E n \in 0..(Len(stack) - 1) :
    LET args == SubSeq(stack, Len(stack) - n + 1, Len(stack)) IN
    Reduce("call", n + 1, MakeCall(Value(n + 1), args))

(* expression SEMICOLON *)
EndStatement ==
  /\ status = "running"
  /\ Len(stack) = 1
  /\ stack' = <<>>
  /\ last' = NoCall
  /\ UNCHANGED <<err, silent, status>>

Next ==
  \/ Primary \/ Unary \/ Cast \/ Binary \/ Assign \/ Subscript \/ Calling \/ EndStatement

Spec == Init /\ [][Next]_vars
-----------------------------------------------------------------------------
(* A tree on the stack, and what is below its Oaddr and Oindir nodes. *)
OnStack == {stack[i] : i \in 1..Len(stack)}
Below(t) == IF t.base = NoTree THEN {} ELSE {t.base}
Trees == LET one == UNION {Below(t) : t \in OnStack}
             two == UNION {Below(t) : t \in one}
         IN  OnStack \cup one \cup two

(* The trees have types, and only Oaddr and Oindir have an operand that is *)
(* read again; a decayed tree is the address of a function (974).          *)
TypeOK ==
  /\ Len(stack) <= MaxStack + MaxArgs
  /\ {err, silent} \subseteq BOOLEAN
  /\ status \in {"running", "segv", "die"}
  /\ \A t \in Trees :
       /\ t.ty \in Types
       /\ t.base # NoTree => t.op \in {"Oaddr", "Oindir"}
       /\ t.decayed => t.op = "Oaddr" /\ IsFun(t.base.ty)

(* lvalue() of the code generator dies on anything but a variable or a     *)
(* star.  It is called for the left-hand side of an assignment, which      *)
(* make_assign lets through if its flag lvalue is set, and for the operand *)
(* of &, wherever casts, calls, parentheses and & and * that undid each    *)
(* other have carried the flag.                                            *)
LvaluesHaveAddress ==
  /\ TypeOK
  /\ ~err => \A t \in Trees :
    /\ t.lvalue /\ t.ty # NULL => t.op \in {"Ovar", "Oindir"} /\ ~IsFun(t.ty)
    /\ t.op = "Oaddr" /\ t.ty # NULL => t.base.op \in {"Ovar", "Oindir"}

(* What tree() relies on: both operands of an instruction have the width   *)
(* and the sign of its result, or of each other for a comparison, and a    *)
(* pointer is moved by a number of bytes.  Conversions are in the tree     *)
(* wherever C converts an operand.                                         *)
OperandsAgree ==
  ~err /\ last.ty # NULL /\ last.by \in BinaryOps \cup {"Oassign"} =>
    /\ last.op \in {"Omul", "Odiv"} => IsArith(last.ty) /\ last.l = last.ty /\ last.r = last.ty
    /\ last.op \in {"Oadd", "Osub"} =>
         \/ IsArith(last.ty) /\ last.l = last.ty /\ last.r = last.ty
         \/ IsPtr(last.ty) /\ last.l = last.ty /\ last.r = SizeT
    /\ last.op = "Osl" => last.l = last.ty /\ IsArith(last.r)
    /\ last.op \in {"Olt", "Oeq"} =>
         /\ last.ty = IntT
         /\ \/ IsArith(last.l) /\ last.l = last.r
            \/ IsPtr(last.l) /\ IsPtr(last.r)
         /\ last.op = "Olt" => Compatible(last.l, last.r)
    /\ last.op = "Oassign" => IsScalar(last.ty) /\ last.l = last.ty /\ last.r = last.ty

(* A function that takes a parameter of type void. *)
TakesVoid(f) == \E i \in 1..Len(Functions[f].params) : Functions[f].params[i] = Void

(* semant_error says "whether compilation can continue past semantic       *)
(* analysis" (semant.h 8): the compiler crashes on an expression, or loses *)
(* its type, only after it has reported an error.  There are three         *)
(* exceptions.  The operators that make_unary refuses in silence take a    *)
(* type away (1039).  And assign, which "should never be called with lty = *)
(* void" (192), is called with it for *w = x and a pointer w to void, and  *)
(* for the argument of a prototype whose parameter is void: valid_functy   *)
(* looks for one in definitions only (533).                                *)
ErrorsAreTracked ==
  /\ status = "segv" => err \/ silent
  /\ status = "die" => \/ err
                       \/ Value(2).op = "Oindir" /\ Value(2).ty = Void
                       \/ last.by = "call" /\ \E t \in OnStack : IsCallee(t) /\ TakesVoid(t.ty.core)
  /\ (\E t \in OnStack : t.ty = NULL) => err \/ silent

(* What comes after an operand without a type has no type either: no tree  *)
(* with an error in it looks like one without.  (A call that gave an error *)
(* for its arguments has the type of its function.)                        *)
ErrorsPropagate ==
  [][/\ last'.by \in UnaryOps \cup BinaryOps \cup {"subscript"}
     /\ \E i \in Len(stack')..Len(stack) : stack[i].ty = NULL
     => stack'[Len(stack')].ty = NULL]_vars

(* A call that is not refused hands the function as many arguments as it   *)
(* has parameters, each of a kind that converts: prologue and call() take  *)
(* the registers and the room on the stack from the one and the other.     *)
CallsMatch ==
  [][LET n    == Len(stack')
         args == SubSeq(stack, n + 1, Len(stack))
     IN  /\ last'.by = "call" /\ status' = "running" /\ ~last'.report
         /\ stack[n].ty # NULL
         => LET ps == Functions[stack[n].ty.core].params IN
            /\ Len(args) = Len(ps)
            /\ \A i \in 1..Len(ps) : IsArith(args[i].ty) = IsArith(ps[i]) \/ args[i].null]_vars
=============================================================================
