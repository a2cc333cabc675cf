---------------------------- MODULE Instructions ----------------------------
(***************************************************************************)
(* From an expression to what the processor computes: the trees make_unary *)
(* and make_binary of src/semant.c build, the instructions that tree() and *)
(* lvalue() of src/emit-amd64-sysv.c select for them, and a machine that   *)
(* executes these.  Words are scaled: a byte has one bit, so that an int   *)
(* has 4 bits, a long or a pointer 8, and addresses count bytes.           *)
(*                                                                         *)
(* Expressions are those without errors; Expressions has the others, and   *)
(* RuntimeStack the calls.  unsigned long is left out, since its type is   *)
(* declared signed (see Conversions).                                      *)
(*                                                                         *)
(* A tree carries what tree() prints for it, which depends on the tree and *)
(* on the places of the variables alone.  An expression of the source is a *)
(* line of exprs, with the lines of its operands: the trees are not read   *)
(* to say what it means.                                                   *)
(***************************************************************************)
EXTENDS Conversions, Sequences

CONSTANTS
  Variables,  \* the variables, with their types
  AddressOf,  \* and where they are
  Literals,   \* the values of the integer constants, of type int
  TypeNames,  \* the types casts may name
  Memories,   \* what the variables hold before the expression is evaluated
  Operators,  \* the binary operators
  MaxOps,     \* bound on the operators of an expression
  MaxStack    \* bound on the values the parser holds

Arch == Amd64(1)
Pointers == {"int*", "void*"}
Width(ty)  == IF ty \in Pointers THEN 8 ELSE Arch[ty].width
Signed(ty) == ty \notin Pointers /\ Arch[ty].sign = 1
IsPtr(ty)  == ty \in Pointers
IsInt(ty)  == ty \notin Pointers
IntWidth   == 4   \* of the type int, in bytes

Shifts      == {"Osl", "Osr"}
Comparisons == {"Olt", "Ogt", "Ole", "Oge", "Oeq", "Oneq"}
Arithmetic  == {"Omul", "Odiv", "Omod", "Oadd", "Osub", "Oand", "Oxor", "Oor"}

(* A memory, by the addresses of the variables. *)
Mem == [{AddressOf[x] : x \in DOMAIN Variables} -> Nat]

ASSUME VariablesAssumption ==
  /\ Variables \in [DOMAIN Variables -> {"int", "uint", "long"} \cup Pointers]
  /\ AddressOf \in [DOMAIN Variables -> 0..255]
ASSUME LiteralsAssumption  == Literals \subseteq 0..7
ASSUME TypeNamesAssumption == TypeNames \subseteq {"int", "uint", "long"}
ASSUME MemoriesAssumption  == Memories \subseteq Mem
ASSUME OperatorsAssumption == Operators \subseteq Arithmetic \cup Shifts \cup Comparisons
ASSUME BoundsAssumption    == MaxOps \in Nat /\ MaxStack \in Nat
-----------------------------------------------------------------------------
(* The instructions.  w is the number of bits of the operands, which the   *)
(* suffix and the names of the registers say.                              *)
Ins(i, w) == [i |-> i, w |-> w]
MovConst(w, k) == [i |-> "const", w |-> w, k |-> k]
Load(w, a)     == [i |-> "load", w |-> w, at |-> a]
Lea(a)         == [i |-> "lea", w |-> 8, at |-> a]
Push(r)        == [i |-> "push", w |-> 8, reg |-> r]
PopTo(r)       == [i |-> "pop", w |-> 8, reg |-> r]
Set(cc)        == [i |-> "set", w |-> 1, cc |-> cc]

(* lvalue *)
Lvalue(t) ==
  IF t.op = "Ovar" THEN << Lea(AddressOf[t.name]) >>
  ELSE t.base.code \o << Ins("movq rax, rbx", 8) >>

(* Mutant of CmpSuffix: it takes all operands for unsigned. *)
CmpSuffixUnsigned(op, signed) ==
  CASE op = "Olt" -> "b" [] op = "Ogt" -> "a" [] op = "Ole" -> "be" [] op = "Oge" -> "ae"
    [] op = "Oeq" -> "e" [] op = "Oneq" -> "ne"

(* The condition codes: cmpsuffix. *)
CmpSuffix(op, signed) ==
  CASE op = "Olt" -> IF signed THEN "l" ELSE "b"
    [] op = "Ogt" -> IF signed THEN "g" ELSE "a"
    [] op = "Ole" -> IF signed THEN "le" ELSE "be"
    [] op = "Oge" -> IF signed THEN "ge" ELSE "ae"
    [] op = "Oeq" -> "e"
    [] op = "Oneq" -> "ne"

(* The operands of a binary operator.  The mutant gives up a word where it *)
(* has no use for the register.                                            *)
OperandsKept(t) ==
  t.r.code \o << Push("rax") >> \o t.l.code
            \o (IF t.op \in Shifts /\ t.r.op = "Oconst" THEN << >>
                ELSE << PopTo(IF t.op \in Shifts THEN "rcx" ELSE "rbx") >>)

Operands(t) ==
  t.r.code \o << Push("rax") >> \o t.l.code
            \o << PopTo(IF t.op \in Shifts THEN "rcx" ELSE "rbx") >>

(* The operands of an assignment.  The mutant keeps the address in rbx     *)
(* while the right-hand side is computed.                                  *)
StoredInRbx(t) == Lvalue(t.l) \o t.r.code

Stored(t) == Lvalue(t.l) \o << Push("rbx") >> \o t.r.code \o << PopTo("rbx") >>

(* The code of the operator itself. *)
Operator(t) ==
  LET w == Width(t.ty) IN
  CASE t.op = "Oindir"           -> << Ins("load (rax)", w) >>
    [] t.op = "Oaddr"            -> << Ins("movq rbx, rax", 8) >>
    [] t.op = "Opos"             -> << >>
    [] t.op \in {"Oneg", "Ocomp"} -> << Ins(t.op, w) >>
    [] t.op = "Onot"             -> << Ins("cmp 0", w), Set("e"), Ins("movzbl", 4) >>
    [] t.op = "Ocast"            -> IF w = 8 /\ Width(t.base.ty) = 4
                                    THEN << Ins(IF Signed(t.ty) THEN "movslq" ELSE "movq eax, rax", 8) >>
                                    ELSE << >>
    [] t.op \in {"Odiv", "Omod"} -> (IF Signed(t.ty) THEN << Ins("cltd", w), Ins("idiv", w) >>
                                     ELSE << Ins("xor dx", w), Ins("div", w) >>)
                                    \o (IF t.op = "Omod" THEN << Ins("mov dx, ax", w) >> ELSE << >>)
    [] t.op = "Osr"              -> << Ins(IF Signed(t.ty) THEN "sar" ELSE "shr", w) >>
    [] t.op \in Comparisons      -> << Ins("cmp bx", w), Set(CmpSuffix(t.op, Signed(t.l.ty))), Ins("movzbl", 4) >>
    [] OTHER                     -> << Ins(t.op, w) >>

(* tree, for an expression. *)
Code(t) ==
  CASE t.op = "Oconst"  -> << MovConst(Width(t.ty), t.ival) >>
    [] t.op = "Ovar"    -> << Load(Width(t.ty), AddressOf[t.name]) >>
    [] t.op = "Oaddr"   -> Lvalue(t.base) \o Operator(t)
    [] t.op = "Oassign" -> Stored(t) \o Operator(t)
    [] t.op \in Arithmetic \cup Shifts \cup Comparisons -> Operands(t) \o Operator(t)
    [] OTHER            -> t.base.code \o Operator(t)
-----------------------------------------------------------------------------
(* The trees of semant.c, with the code that tree() prints for them. *)
Emitted(t) == [t EXCEPT !.code = Code(t)]

Const(k)            == Emitted([op |-> "Oconst", ty |-> "int", ival |-> k, code |-> <<>>])
Var(x)              == Emitted([op |-> "Ovar", ty |-> Variables[x], name |-> x, code |-> <<>>])
Unary(op, ty, base) == Emitted([op |-> op, ty |-> ty, base |-> base, code |-> <<>>])
Binary(op, ty, l, r) ==
  Emitted([op |-> op, ty |-> ty, l |-> l, r |-> r, code |-> <<>>])

Convert(to, t) == IF t.ty = to THEN t ELSE Unary("Ocast", to, t)
Promote(t) == Convert(Promoted(Arch, t.ty), t)
Common(l, r) == CommonRealType(Arch, Promote(l).ty, Promote(r).ty)

HasAddress(t) == t.op \in {"Ovar", "Oindir"}
IsNull(t) == t.op = "Oconst" /\ t.ival = 0

(* What the operators of semant.c accept.  Pointers to pointers are left   *)
(* out, and so are the addresses of pointers.                              *)
UnaryTyped(op, t) ==
  CASE op = "Oaddr"  -> HasAddress(t) /\ t.ty = "int"
    [] op = "Oindir" -> t.ty = "int*"
    [] op = "Onot"   -> TRUE
    [] OTHER         -> IsInt(t.ty)

(* make_unary *)
MakeUnary(op, t) ==
  CASE op = "Oaddr"  -> IF t.op = "Oindir" THEN t.base ELSE Unary(op, "int*", t)
    [] op = "Oindir" -> IF t.op = "Oaddr" THEN t.base ELSE Unary(op, "int", t)
    [] op = "Onot"   -> Unary(op, "int", t)
    [] OTHER         -> Unary(op, Promote(t).ty, Promote(t))

(* make_binary: the usual arithmetic conversions, for a result of type ty. *)
Usual(op, ty, l, r) ==
  Binary(op, ty, Convert(Common(l, r), Promote(l)), Convert(Common(l, r), Promote(r)))
Arith(op, l, r) == Usual(op, Common(l, r), l, r)

(* Mutant of Index: the index is converted to the type of the pointer. *)
IndexToPointer(op, p, i) == Binary(op, p.ty, p, Convert(p.ty, Arith("Omul", i, Const(IntWidth))))

(* make_binary, for a pointer and an index: it is scaled in its own type.  *)
Index(op, p, i) == Binary(op, p.ty, p, Convert("ulong", Arith("Omul", i, Const(IntWidth))))

BinaryTyped(op, l, r) ==
  \/ IsInt(l.ty) /\ IsInt(r.ty)
  \/ op = "Osub" /\ l.ty = "int*" /\ r.ty = "int*"
  \/ op = "Osub" /\ l.ty = "int*" /\ IsInt(r.ty)
  \/ op = "Oadd" /\ {l.ty, r.ty} \cap Pointers = {"int*"} /\ l.ty # r.ty
  \/ op \in Comparisons /\ IsPtr(l.ty) /\ IsPtr(r.ty)
     /\ (l.ty # r.ty => op \in {"Oeq", "Oneq"})

(* make_binary *)
MakeBinary(op, l, r) ==
  IF IsPtr(l.ty) /\ IsPtr(r.ty)
  THEN IF op = "Osub" THEN Arith("Odiv", Binary(op, "long", l, r), Const(IntWidth))
       ELSE Binary(op, "int", l, r)
  ELSE IF IsPtr(r.ty) THEN Index(op, r, l)
  ELSE IF IsPtr(l.ty) THEN Index(op, l, r)
  ELSE IF op \in Shifts THEN Binary(op, Promote(l).ty, Promote(l), Promote(r))
  ELSE IF op \in Comparisons THEN Usual(op, "int", l, r)
  ELSE Arith(op, l, r)

(* make_assign, and what assign lets through. *)
AssignTyped(l, r) ==
  /\ HasAddress(l)
  /\ \/ IsInt(l.ty) /\ IsInt(r.ty)
     \/ IsPtr(l.ty) /\ IsPtr(r.ty)
     \/ l.ty = "void*" /\ IsNull(r)
MakeAssign(l, r) == Binary("Oassign", l.ty, l, Convert(l.ty, r))
-----------------------------------------------------------------------------
(* The machine: registers, flags (what the last cmp compared), the pushed  *)
(* words and the memory.  Writing the half of a register clears the other. *)
Low(w, n) == n % 2 ^ w
AsSigned(w, n) == IF Low(w, n) >= 2 ^ (w - 1) THEN Low(w, n) - 2 ^ w ELSE Low(w, n)
Truncated(a, b) == LET q == (IF a < 0 THEN -a ELSE a) \div (IF b < 0 THEN -b ELSE b)
                   IN  IF (a < 0) = (b < 0) THEN q ELSE -q

(* Bit by bit, of words of up to 8 bits. *)
Bitwise2(op, m, n) ==
  LET a == [k \in 0..7 |-> (m \div 2 ^ k) % 2]
      b == [k \in 0..7 |-> (n \div 2 ^ k) % 2]
      c == [k \in 0..7 |-> CASE op = "Oand" -> a[k] * b[k]
                             [] op = "Oor"  -> a[k] + b[k] - a[k] * b[k]
                             [] op = "Oxor" -> (a[k] + b[k]) % 2]
  IN  c[0] + 2 * c[1] + 4 * c[2] + 8 * c[3] + 16 * c[4] + 32 * c[5] + 64 * c[6] + 128 * c[7]

Machine(mem) == [rax |-> 0, rbx |-> 0, rcx |-> 0, rdx |-> 0, cmp |-> <<0, 0, 4>>,
                 pushed |-> <<>>, mem |-> mem, fault |-> FALSE]

Fault(m) == [m EXCEPT !.fault = TRUE]

Holds(cc, cmp) ==
  LET w == cmp[3]
      a == IF cc \in {"l", "g", "le", "ge"} THEN AsSigned(w, cmp[1]) ELSE Low(w, cmp[1])
      b == IF cc \in {"l", "g", "le", "ge"} THEN AsSigned(w, cmp[2]) ELSE Low(w, cmp[2])
  IN  CASE cc \in {"l", "b"}   -> a < b
        [] cc \in {"g", "a"}   -> a > b
        [] cc \in {"le", "be"} -> a <= b
        [] cc \in {"ge", "ae"} -> a >= b
        [] cc = "e"            -> a = b
        [] cc = "ne"           -> a # b

(* The division of rdx:rax by rbx. *)
Divide(m, w, signed) ==
  LET n == Low(w, m.rdx) * 2 ^ w + Low(w, m.rax)
      a == IF signed THEN AsSigned(2 * w, n) ELSE n
      b == IF signed THEN AsSigned(w, m.rbx) ELSE Low(w, m.rbx)
      q == Truncated(a, b)
      r == IF signed THEN AsSigned(w, q) ELSE Low(w, q)
  IN  IF b = 0 THEN Fault(m)
      ELSE IF r # q THEN Fault(m)
      ELSE [m EXCEPT !.rax = Low(w, q), !.rdx = Low(w, a - q * b)]

(* The result of an instruction in rax, for those that leave it there.     *)
Result(m, i, w) ==
  LET a == Low(w, m.rax)
      b == Low(w, m.rbx)
      c == m.rcx % w
  IN
  CASE i = "Oneg"  -> -a
    [] i = "Ocomp" -> 2 ^ w - 1 - a
    [] i = "Omul"  -> a * b
    [] i = "Oadd"  -> a + b
    [] i = "Osub"  -> a - b
    [] i \in {"Oand", "Oor", "Oxor"} -> Bitwise2(i, a, b)
    [] i = "Osl"   -> a * 2 ^ c
    [] i = "sar"   -> AsSigned(w, a) \div 2 ^ c
    [] i = "shr"   -> a \div 2 ^ c
    [] i = "movslq" -> AsSigned(4, m.rax)
    [] i = "movzbl" -> m.rax % 2
    [] i = "mov dx, ax" -> m.rdx
    [] i = "movq rbx, rax" -> m.rbx

Execute(m, s) ==
  LET w == s.w IN
  IF m.fault THEN m ELSE
  CASE s.i = "const" -> [m EXCEPT !.rax = Low(w, s.k)]
    [] s.i = "load"  -> [m EXCEPT !.rax = Low(w, m.mem[s.at])]
    [] s.i = "lea"   -> [m EXCEPT !.rbx = s.at]
    [] s.i = "push"  -> [m EXCEPT !.pushed = Append(@, m[s.reg])]
    [] s.i = "pop"   -> [m EXCEPT ![s.reg] = m.pushed[Len(m.pushed)],
                                  !.pushed = SubSeq(@, 1, Len(@) - 1)]
    [] s.i = "movq rax, rbx" -> [m EXCEPT !.rbx = m.rax]
    [] s.i = "load (rax)" -> IF m.rax \in DOMAIN m.mem
                             THEN [m EXCEPT !.rax = Low(w, m.mem[m.rax])] ELSE Fault(m)
    [] s.i = "Oassign" -> IF m.rbx \in DOMAIN m.mem
                          THEN [m EXCEPT !.mem[m.rbx] = Low(w, m.rax)] ELSE Fault(m)
    [] s.i = "cmp 0"  -> [m EXCEPT !.cmp = <<m.rax, 0, w>>]
    [] s.i = "cmp bx" -> [m EXCEPT !.cmp = <<m.rax, m.rbx, w>>]
    [] s.i = "set"    -> [m EXCEPT !.rax = (@ - (@ % 2)) + (IF Holds(s.cc, m.cmp) THEN 1 ELSE 0)]
    [] s.i = "cltd"   -> [m EXCEPT !.rdx = IF AsSigned(w, m.rax) < 0 THEN 2 ^ w - 1 ELSE 0]
    [] s.i = "xor dx" -> [m EXCEPT !.rdx = 0]
    [] s.i = "idiv"   -> Divide(m, w, TRUE)
    [] s.i = "div"    -> Divide(m, w, FALSE)
    [] OTHER          -> [m EXCEPT !.rax = Low(w, Result(m, s.i, w))]

Executed(code, m) ==
  LET after[n \in 0..Len(code)] == IF n = 0 THEN m ELSE Execute(after[n - 1], code[n])
  IN  after[Len(code)]
-----------------------------------------------------------------------------
(* What C says an expression means: a number of its type and the memory    *)
(* after it, operands in the order of Operands and Stored, as C leaves it  *)
(* open.  Overflow wraps around.  ok is false where C leaves the result    *)
(* undefined and in these cases, in which the compiler has its own way:    *)
(* - an unsigned int above the largest int is made a long (342 of the code *)
(*   generator extends with the sign of the new type);                     *)
(* - ! and comparisons are given a long or a pointer that does not fit in  *)
(*   32 bits (212: their instruction has the width of their result);       *)
(* - a scaled index does not fit in the type int (1124 of semant.c).       *)
(* DepartsAsNamed says what it makes of these.                             *)
ToType(ty, n) == IF Signed(ty) THEN AsSigned(Width(ty), n) ELSE Low(Width(ty), n)

Undefined(mem) == [n |-> 0, mem |-> mem, ok |-> FALSE]
Means(n, mem, ok) == [n |-> n, mem |-> mem, ok |-> ok]

Converted(from, to, m) ==
  Means(ToType(to, m.n), m.mem,
        m.ok /\ ~(~Signed(from) /\ Width(from) = 4 /\ Width(to) = 8 /\ m.n > 7))

Fits(ty, n) == Width(ty) = 4 \/ (IF IsPtr(ty) THEN n <= 15 ELSE n \in -8..7)

Cells == {AddressOf[x] : x \in {x \in DOMAIN Variables : Width(Variables[x]) = 4}}

Arithmetic2(op, ty, a, b) ==
  CASE op = "Omul" -> a * b
    [] op = "Oadd" -> a + b
    [] op = "Osub" -> a - b
    [] op = "Odiv" -> Truncated(a, b)
    [] op = "Omod" -> a - Truncated(a, b) * b
    [] op \in {"Oand", "Oor", "Oxor"} ->
         Bitwise2(op, Low(Width(ty), a), Low(Width(ty), b))

Compared(op, a, b) ==
  IF CASE op = "Olt" -> a < b [] op = "Ogt" -> a > b [] op = "Ole" -> a <= b
       [] op = "Oge" -> a >= b [] op = "Oeq" -> a = b [] op = "Oneq" -> a # b
  THEN 1 ELSE 0

(* An operator on two numbers, of the types tl and tr.                     *)
Applied(op, tl, tr, a, b) ==
  LET ct == IF IsInt(tl) /\ IsInt(tr) THEN CommonRealType(Arch, tl, tr) ELSE tl
      l  == Converted(tl, ct, a)
      r  == Converted(tr, ct, b)
      q  == Truncated(l.n, r.n)
  IN
  IF op \in Comparisons
  THEN Means(Compared(op, l.n, r.n), a.mem, l.ok /\ r.ok /\ Fits(ct, l.n) /\ Fits(ct, r.n))
  ELSE IF IsPtr(tl) /\ IsPtr(tr)
  THEN Means(Truncated(AsSigned(8, a.n - b.n), IntWidth), a.mem, a.ok /\ b.ok)
  ELSE IF IsPtr(tl)
  THEN Means(Low(8, IF op = "Oadd" THEN a.n + IntWidth * b.n ELSE a.n - IntWidth * b.n), a.mem,
             a.ok /\ b.ok /\ (Width(tr) = 4 => IntWidth * b.n \in -8..7))
  ELSE IF op \in Shifts
  THEN IF b.n \in 0..(Width(tl) - 1)
       THEN Means(ToType(tl, IF op = "Osl" THEN a.n * 2 ^ b.n ELSE a.n \div 2 ^ b.n), a.mem, a.ok /\ b.ok)
       ELSE Undefined(a.mem)
  ELSE IF op \in {"Odiv", "Omod"} /\ (r.n = 0 \/ ToType(ct, q) # q) THEN Undefined(a.mem)
  ELSE Means(ToType(ct, Arithmetic2(op, ct, l.n, r.n)), a.mem, l.ok /\ r.ok)

(* The meaning of an expression: its type; for each memory, its value and  *)
(* the address it denotes as the left side of an assignment; the same for  *)
(* the pointer behind its star; and of its text, whether it is a constant  *)
(* 0, through casts to its own type, and whether one is assigned in it to  *)
(* a pointer to void.                                                      *)
Nowhere == [mem \in Mem |-> Undefined(mem)]

Meaning(ty, value, place, pointer, null, assigned) ==
  [ty |-> ty, value |-> value, place |-> place, pointer |-> pointer,
   null |-> null, assigned |-> assigned]

LeafMeaning(s) ==
  IF s.op = "Oconst"
  THEN Meaning(s.ty, [mem \in Mem |-> Means(s.arg, mem, TRUE)], Nowhere, Nowhere, s.arg = 0, FALSE)
  ELSE Meaning(s.ty, [mem \in Mem |-> Means(ToType(s.ty, mem[AddressOf[s.arg]]), mem, TRUE)],
               [mem \in Mem |-> Means(AddressOf[s.arg], mem, TRUE)], Nowhere, FALSE, FALSE)

(* What the pointer of value a points to. *)
Pointed(a) ==
  IF a.ok /\ a.n \in Cells THEN Means(ToType("int", a.mem[a.n]), a.mem, TRUE) ELSE Undefined(a.mem)

Negated(op, ty, from, a) ==
  Means(CASE op = "Onot"  -> IF a.n = 0 THEN 1 ELSE 0
          [] op = "Oneg"  -> ToType(ty, -a.n)
          [] op = "Ocomp" -> ToType(ty, -a.n - 1)
          [] op = "Opos"  -> ToType(ty, a.n),
        a.mem, a.ok /\ (op = "Onot" => Fits(from, a.n)))

(* &*e = x is taken for e = x. *)
UnaryMeaning(s, x) ==
  CASE s.op = "Oaddr"  -> Meaning(s.ty, x.place, x.pointer, Nowhere, FALSE, x.assigned)
    [] s.op = "Oindir" -> Meaning(s.ty, [mem \in Mem |-> Pointed(x.value[mem])], x.value, x.place,
                                  FALSE, x.assigned)
    [] s.op = "cast"   -> Meaning(s.ty, [mem \in Mem |-> Converted(x.ty, s.ty, x.value[mem])],
                                  x.place, x.pointer, s.ty = x.ty /\ x.null, x.assigned)
    [] OTHER           -> Meaning(s.ty, [mem \in Mem |-> Negated(s.op, s.ty, x.ty, x.value[mem])],
                                  Nowhere, Nowhere, FALSE, x.assigned)

(* The value r is stored at p. *)
Assigned(ty, p, r) ==
  IF p.ok /\ r.ok /\ p.n \in DOMAIN r.mem /\ (ty = "int" => p.n \in Cells)
  THEN Means(r.n, [r.mem EXCEPT ![p.n] = Low(Width(ty), r.n)], TRUE)
  ELSE Undefined(r.mem)

(* The right operand comes first, and an integer before a pointer. *)
BinaryMeaning(s, l, r) ==
  LET value ==
        [mem \in Mem |->
          IF s.op = "Oassign"
          THEN LET p == l.place[mem] IN Assigned(s.ty, p, Converted(r.ty, s.ty, r.value[p.mem]))
          ELSE IF IsInt(l.ty) /\ IsPtr(r.ty)
          THEN LET a == l.value[mem] IN Applied(s.op, r.ty, l.ty, r.value[a.mem], a)
          ELSE LET b == r.value[mem] IN Applied(s.op, l.ty, r.ty, l.value[b.mem], b)]
  IN  Meaning(s.ty, value, Nowhere, Nowhere, FALSE,
              l.assigned \/ r.assigned \/ (s.op = "Oassign" /\ s.ty = "void*" /\ r.null))

(* The meanings of the expressions es, each after its operands. *)
Meanings(es) ==
  LET m[k \in DOMAIN es] ==
        IF es[k].l = 0 THEN LeafMeaning(es[k])
        ELSE IF es[k].r = 0 THEN UnaryMeaning(es[k], m[es[k].l])
        ELSE BinaryMeaning(es[k], m[es[k].l], m[es[k].r])
  IN  m
-----------------------------------------------------------------------------
VARIABLES
  stack,   \* the values of the parser
  exprs,   \* the expressions of the source, in the order of their reduction
  status,  \* "parsing", "done", or "unassembled"
  before,  \* the memory in which the expression was evaluated
  machine  \* the machine after it

exprVars == <<stack, exprs, status, before, machine>>

ExprInit ==
  /\ stack = <<>>
  /\ exprs = <<>>
  /\ status = "parsing"
  /\ before = <<>>
  /\ machine = Machine(<<>>)

(* A value of the parser: its tree, the expression it was parsed from and  *)
(* the number of operators in it.                                          *)
Ops == LET sum[k \in 0..Len(stack)] == IF k = 0 THEN 0 ELSE sum[k - 1] + stack[k].ops
       IN  sum[Len(stack)]
Value(k) == stack[Len(stack) + 1 - k]

(* The last n values become one, of the expression e. *)
Reduce(n, tree, op, arg, l, r, ops) ==
  /\ exprs' = Append(exprs, [op |-> op, ty |-> tree.ty, arg |-> arg, l |-> l, r |-> r])
  /\ stack' = Append(SubSeq(stack, 1, Len(stack) - n),
                     [tree |-> tree, src |-> Len(exprs) + 1, ops |-> ops])
  /\ UNCHANGED <<status, before, machine>>

Primary ==
  /\ status = "parsing"
  /\ Len(stack) < MaxStack
  /\ Len(stack) + Ops <= MaxOps
  /\ \/ \E x \in DOMAIN Variables : Reduce(0, Var(x), "Ovar", x, 0, 0, 0)
     \/ \E k \in Literals : Reduce(0, Const(k), "Oconst", k, 0, 0, 0)

(* An operator of one or two operands. *)
ReduceUnary(op, tree) == Reduce(1, tree, op, 0, Value(1).src, 0, Value(1).ops + 1)
ReduceBinary(op, tree) ==
  Reduce(2, tree, op, 0, Value(2).src, Value(1).src, Value(2).ops + Value(1).ops + 1)

UnaryExpression ==
  /\ status = "parsing" /\ stack # <<>> /\ Ops < MaxOps
  /\ \E op \in {"Oaddr", "Oindir", "Opos", "Oneg", "Ocomp", "Onot"} :
       /\ UnaryTyped(op, Value(1).tree)
       /\ ReduceUnary(op, MakeUnary(op, Value(1).tree))

Cast ==
  /\ status = "parsing" /\ stack # <<>> /\ Ops < MaxOps
  /\ \E ty \in TypeNames : ReduceUnary("cast", Convert(ty, Value(1).tree))

BinaryExpression ==
  /\ status = "parsing" /\ Len(stack) >= 2 /\ Ops < MaxOps
  /\ \E op \in Operators :
       /\ BinaryTyped(op, Value(2).tree, Value(1).tree)
       /\ ReduceBinary(op, MakeBinary(op, Value(2).tree, Value(1).tree))

Assignment ==
  /\ status = "parsing" /\ Len(stack) >= 2 /\ Ops < MaxOps
  /\ AssignTyped(Value(2).tree, Value(1).tree)
  /\ ReduceBinary("Oassign", MakeAssign(Value(2).tree, Value(1).tree))

(* What the assembler accepts: it knows no instruction that moves a        *)
(* register of 32 bits to one of 64.                                       *)
Assembles(code) == \A k \in 1..Len(code) : code[k].i # "movq eax, rax"

(* The code is assembled and run. *)
Evaluate ==
  /\ status = "parsing" /\ Len(stack) = 1
  /\ IF Assembles(stack[1].tree.code)
     THEN \E mem \in Memories :
            /\ status' = "done"
            /\ before' = mem
            /\ machine' = Executed(stack[1].tree.code, Machine(mem))
     ELSE status' = "unassembled" /\ UNCHANGED <<before, machine>>
  /\ UNCHANGED <<stack, exprs>>

ExprNext == Primary \/ UnaryExpression \/ Cast \/ BinaryExpression \/ Assignment \/ Evaluate

ExprSpec == ExprInit /\ [][ExprNext]_exprVars
-----------------------------------------------------------------------------
(* The result is in rax, the variables hold what they should, and nothing  *)
(* faults, wherever C gives the expression a meaning.                      *)
ComputesMeaning ==
  status = "done" =>
    LET ty == stack[1].tree.ty
        m  == Meanings(exprs)[stack[1].src].value[before]
    IN  m.ok => /\ ~machine.fault
                /\ Low(Width(ty), machine.rax) = Low(Width(ty), m.n)
                /\ machine.mem = m.mem

(* However operators nest, what is pushed around operands is popped.       *)
PushesBalance == status = "done" /\ ~machine.fault => machine.pushed = <<>>

(* The assembler refuses one thing only, the instruction that makes a      *)
(* pointer of the constant 0 where it is assigned to a pointer to void: no *)
(* other int is ever made a pointer, through promotions, the conversion of *)
(* operands, the scaling of an index or an assignment.                     *)
OnlyNullUnassembled ==
  status = "unassembled" => Meanings(exprs)[stack[1].src].assigned

(* What the program makes of the last operator, where it goes its own way: *)
(* a conversion of unsigned int to long extends with a sign; !, and the    *)
(* comparison of operands of which one has 64 bits, look at 32 of them;    *)
(* and the scaled index of a pointer is cut to 32 bits, and extended with  *)
(* a sign.                                                                 *)
Half(n)       == AsSigned(4, n)
AsLong(ty, n) == IF ty = "uint" THEN Half(n) ELSE n

Departure1(s, t, n) ==
  CASE s.op = "Onot" -> IF Low(4, n) = 0 THEN 1 ELSE 0
    [] s.op = "cast" -> AsLong(t, n)
Departure2(op, tl, tr, a, b) ==
  CASE op \in Comparisons -> IF IsPtr(tl) THEN Compared(op, Low(4, a), Low(4, b))
                             ELSE Compared(op, Half(a), Half(b))
    [] IsPtr(tl)          -> IF op = "Oadd" THEN a + Half(IntWidth * b) ELSE a - Half(IntWidth * b)
    [] OTHER              -> Arithmetic2(op, "long", AsLong(tl, a), AsLong(tr, b))

Departs1(s, t) ==
  (s.op = "Onot" /\ Width(t) = 8) \/ (s.op = "cast" /\ s.ty = "long" /\ t = "uint")
Departs2(op, tl, tr) ==
  \/ op \in Comparisons /\ 8 \in {Width(tl), Width(tr)}
  \/ op \in {"Oadd", "Osub"} /\ IsPtr(tl) /\ Width(tr) = 4
  \/ op \in {"Omul", "Oadd", "Osub", "Oand", "Oor", "Oxor"} /\ {tl, tr} = {"long", "uint"}

(* The last operator departs from C, if it is one that does, in this way;  *)
(* its operands are of types tl and tr, and had the values a and b.        *)
LeavesWord(n, mem) ==
  ~machine.fault /\ machine.mem = mem /\ Low(8, machine.rax) = Low(8, n)
UnaryDeparts(s, t, a) ==
  Departs1(s, t) /\ a.ok => LeavesWord(Departure1(s, t, a.n), a.mem)
BinaryDeparts(op, tl, tr, a, b) ==
  Departs2(op, tl, tr) /\ a.ok /\ b.ok => LeavesWord(Departure2(op, tl, tr, a.n, b.n), a.mem)
LastOfTwo(op, l, r) ==
  BinaryDeparts(op, l.ty, r.ty, l.value[r.value[before].mem], r.value[before])
LastDeparts(s, M) ==
  /\ s.l # 0 /\ s.r = 0 => UnaryDeparts(s, M[s.l].ty, M[s.l].value[before])
  /\ s.r # 0 => IF IsInt(M[s.l].ty) /\ IsPtr(M[s.r].ty)
                THEN LastOfTwo(s.op, M[s.r], M[s.l])
                ELSE LastOfTwo(s.op, M[s.l], M[s.r])

(* "the signed type can represent all the values of the unsigned one,      *)
(* resulting type is the signed one" (semant.c:257), and yet the code for  *)
(* it does not keep them; "usual arithmetic conversions" (225) give a      *)
(* comparison operands of 64 bits, and the code compares 32.  This is how  *)
(* the program departs from C, and all: whatever its operands are made of, *)
(* an operator of which Meanings says nothing on these grounds has just    *)
(* the value it has with the wrong conversion or the low half.             *)
DepartsAsNamed == status = "done" => LastDeparts(exprs[stack[1].src], Meanings(exprs))
=============================================================================
