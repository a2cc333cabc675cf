---------------------------- MODULE RuntimeStack ----------------------------
(***************************************************************************)
(* The stack of a running program, as the code of src/emit-amd64-sysv.c    *)
(* uses it: the pushes and pops around the operands of an operator, the    *)
(* calling sequence of call(), the prologue and the epilogue.  Functions   *)
(* call each other and themselves in any way; what they compute is left    *)
(* out.  Memory is made of cells of eight bytes.  "active" is a record of  *)
(* what each active function may rely on, to compare the memory with.      *)
(***************************************************************************)
EXTENDS Integers, Sequences, FiniteSets

CONSTANTS
  Values,     \* what a variable, an operand or an argument may be
  Narrow,     \* the arguments whose type has four bytes, and not eight
  ReturnAddress,
  NPARAM_REG, \* the arguments passed in registers
  MaxArgs,    \* bound on the arguments of a call
  MaxLocals,  \* bound on the other variables of a function
  MaxInner,   \* bound on both, together, where not the first function calls
  MaxPushes,  \* bound on the pushes a function has not popped
  MaxDepth    \* bound on the active functions

ASSUME StackAssumption ==
  /\ Narrow \subseteq Values
  /\ Values \subseteq Int /\ ReturnAddress \in Int
  /\ {NPARAM_REG, MaxArgs, MaxLocals, MaxInner, MaxPushes, MaxDepth} \subseteq Nat

VARIABLES
  rsp, rbp, rbx, \* the registers that outlive an operation
  memory,        \* the cells at and above rsp
  active         \* the active functions, the running one last

vars == <<rsp, rbp, rbx, memory, active>>

Align(sz, to) == ((sz + to - 1) \div to) * to
Larger(a, b) == IF a >= b THEN a ELSE b
Top(s) == s[Len(s)]
Pop(s) == SubSeq(s, 1, Len(s) - 1)
SetTop(s, e) == [s EXCEPT ![Len(s)] = e]

STACKTOP == 8
STACKALIGN == 16

(* The arguments of a call are a sequence of [width, value]. *)
Registered(args) == IF Len(args) > NPARAM_REG THEN SubSeq(args, 1, NPARAM_REG) ELSE args
Stacked(args) == IF Len(args) > NPARAM_REG THEN SubSeq(args, NPARAM_REG + 1, Len(args)) ELSE <<>>

(* Mutant of StackAdjust: without its last alignment. *)
StackAdjustByCell(args) ==
  LET st == Stacked(args)
      n  == Len(st)
      sum[k \in 0..n] == IF k = 0 THEN 0
                         ELSE Align(sum[k - 1] + st[n + 1 - k].width, Larger(st[n + 1 - k].width, 8))
  IN  sum[n]

(* stackadjust: the arguments passed on the stack, from the last to the    *)
(* first.                                                                  *)
StackAdjust(args) ==
  LET st == Stacked(args)
      n  == Len(st)
      sum[k \in 0..n] == IF k = 0 THEN 0
                         ELSE Align(sum[k - 1] + st[n + 1 - k].width, Larger(st[n + 1 - k].width, 8))
  IN  Align(sum[n], 16)

(* eightbyte: where call() writes the k-th argument on the stack. *)
ArgumentOffset(st, k) ==
  LET offset[i \in 1..k] == IF i = 1 THEN 0
                            ELSE Align(offset[i - 1] + st[i - 1].width, Larger(st[i - 1].width, 8))
  IN  offset[k]

(* Where assign_paramloc tells the function to read it.  The mutant does   *)
(* not align it.                                                           *)
ParameterOffsetUnaligned(st, k) ==
  LET top[i \in 1..k] == IF i = 1 THEN 16 ELSE top[i - 1] + st[i - 1].width
  IN  top[k]

ParameterOffset(st, k) ==
  LET top[i \in 1..k] == IF i = 1 THEN Align(16, 8) ELSE Align(top[i - 1] + st[i - 1].width, 8)
  IN  top[k]

Write(mem, cells) == [a \in DOMAIN mem \cup DOMAIN cells |->
                        IF a \in DOMAIN cells THEN cells[a] ELSE mem[a]]
Above(mem, a) == [b \in {b \in DOMAIN mem : b >= a} |-> mem[b]]

(* The cell of a function's k-th variable, the parameters passed in        *)
(* registers first (Frame shows that variables do not share their bytes);  *)
(* and the frame with n of them.                                           *)
LocalCell(bp, k) == bp - STACKTOP - 8 * k
FrameSize(n) == Align(STACKTOP + 8 * n, STACKALIGN)

(* The first function is called by the run-time system, with the stack     *)
(* aligned, and the prologue is done.  It has no variables.                *)
Init ==
  \E saved \in Values :
    /\ rbp = 0
    /\ rsp = -FrameSize(0)
    /\ rbx = saved
    /\ memory = [a \in {0, 8, -8} |-> IF a = 8 THEN ReturnAddress ELSE saved]
    /\ active = << [rbp |-> 0, rbx |-> saved, caller |-> saved, adjust |-> 0, args |-> <<>>,
                    locals |-> <<>>, size |-> FrameSize(0), pushed |-> <<>>] >>

(* push, of the value of an operand. *)
PushOperand(v) ==
  /\ Len(Top(active).pushed) < MaxPushes
  /\ rsp' = rsp - 8
  /\ memory' = Write(memory, [a \in {rsp - 8} |-> v])
  /\ active' = SetTop(active, [Top(active) EXCEPT !.pushed = Append(@, v)])
  /\ UNCHANGED <<rbp, rbx>>

(* pop, to rbx or to rcx. *)
PopOperand(torbx) ==
  /\ Top(active).pushed # <<>>
  /\ rsp' = rsp + 8
  /\ memory' = Above(memory, rsp + 8)
  /\ rbx' = IF torbx THEN memory[rsp] ELSE rbx
  /\ active' = SetTop(active, [Top(active) EXCEPT !.pushed = Pop(@)])
  /\ UNCHANGED rbp

(* An assignment to a variable, or to a parameter passed on the stack; its *)
(* address is left in rbx.                                                 *)
Assign(k, v) ==
  /\ k \in 1..Len(Top(active).locals)
  /\ memory' = Write(memory, [a \in {LocalCell(rbp, k)} |-> v])
  /\ active' = SetTop(active, [Top(active) EXCEPT !.locals[k] = v])
  /\ rbx' = LocalCell(rbp, k)
  /\ UNCHANGED <<rsp, rbp>>

AssignParameter(k, v) ==
  LET st == Stacked(Top(active).args) IN
  /\ k \in 1..Len(st)
  /\ memory' = Write(memory, [a \in {rbp + ParameterOffset(st, k)} |-> v])
  /\ active' = SetTop(active, [Top(active) EXCEPT !.args[NPARAM_REG + k].value = v])
  /\ rbx' = rbp + ParameterOffset(st, k)
  /\ UNCHANGED <<rsp, rbp>>

(* call(): room for the arguments on the stack, the arguments, the call;   *)
(* and the prologue of the function called, which has n variables more     *)
(* than the parameters passed in registers.                                *)
Call(args, values) ==
  LET st     == Stacked(args)
      sp     == rsp - StackAdjust(args)
      bp     == sp - 16
      locals == [k \in 1..Len(Registered(args)) |-> args[k].value] \o values
      stored == [a \in {sp + ArgumentOffset(st, k) : k \in 1..Len(st)} |->
                   st[CHOOSE k \in 1..Len(st) : sp + ArgumentOffset(st, k) = a].value]
      scratch == IF st = <<>> THEN rbx ELSE Top(st).value
      entry  == [a \in {bp + 8, bp, bp - 8} |->
                   IF a = bp + 8 THEN ReturnAddress ELSE IF a = bp THEN rbp ELSE scratch]
      saved  == [a \in {LocalCell(bp, k) : k \in 1..Len(locals)} |->
                   locals[CHOOSE k \in 1..Len(locals) : LocalCell(bp, k) = a]]
  IN
  /\ Len(active) < MaxDepth
  /\ Len(active) > 1 => Len(args) + Len(values) <= MaxInner
  /\ rbp' = bp
  /\ rsp' = bp - FrameSize(Len(locals))
  /\ rbx' = scratch
  /\ memory' = Write(Write(Write(memory, stored), entry), saved)
  /\ active' = Append(active,
       [rbp |-> bp, rbx |-> scratch, caller |-> rbp, adjust |-> StackAdjust(args), args |-> args,
        locals |-> locals, size |-> FrameSize(Len(locals)), pushed |-> <<>>])

(* Mutants of Return: rbx is not restored; the caller keeps the room of    *)
(* the arguments.                                                          *)
ReturnWithoutRbx ==
  /\ Len(active) > 1
  /\ Top(active).pushed = <<>>
  /\ rbp' = memory[rbp]
  /\ rsp' = rbp + 16 + Top(active).adjust
  /\ memory' = Above(memory, rsp')
  /\ active' = Pop(active)
  /\ UNCHANGED rbx
ReturnKeepsArguments ==
  /\ Len(active) > 1
  /\ Top(active).pushed = <<>>
  /\ rbx' = memory[rbp - 8]
  /\ rbp' = memory[rbp]
  /\ rsp' = rbp + 16
  /\ memory' = Above(memory, rsp')
  /\ active' = Pop(active)

(* A return is a statement, so that no operand is on the stack: epilogue,  *)
(* and the end of call() in the caller.                                    *)
Return ==
  /\ Len(active) > 1
  /\ Top(active).pushed = <<>>
  /\ rbx' = memory[rbp - 8]
  /\ rbp' = memory[rbp]
  /\ rsp' = rbp + 16 + Top(active).adjust
  /\ memory' = Above(memory, rsp')
  /\ active' = Pop(active)

Argument(v) == [width |-> IF v \in Narrow THEN 4 ELSE 8, value |-> v]
Arguments == UNION {[1..n -> {Argument(v) : v \in Values}] : n \in 0..MaxArgs}
Initial   == UNION {[1..n -> Values] : n \in 0..MaxLocals}

Next ==
  \/ \E v \in Values : PushOperand(v)
  \/ \E torbx \in BOOLEAN : PopOperand(torbx)
  \/ \E k \in 1..(NPARAM_REG + MaxLocals), v \in Values : Assign(k, v)
  \/ \E k \in 1..MaxArgs, v \in Values : AssignParameter(k, v)
  \/ \E args \in Arguments, values \in Initial : Call(args, values)
  \/ Return

Spec == Init /\ [][Next]_vars
-----------------------------------------------------------------------------
(* Memory is made of aligned cells between the stack pointer and the       *)
(* linkage of the first function.                                          *)
TypeOK ==
  /\ rsp \in Int /\ rbp \in Int /\ rsp <= rbp
  /\ active # <<>>
  /\ DOMAIN memory \subseteq {a \in rsp..8 : a % 8 = 0}
  /\ \A a \in DOMAIN memory : memory[a] \in Int

(* What memory holds for an active function. *)
Holds(a, v) == a \in DOMAIN memory /\ memory[a] = v
FrameIntact(f) ==
  LET st == Stacked(f.args) IN
  /\ Holds(f.rbp, f.caller) /\ Holds(f.rbp + 8, ReturnAddress) /\ Holds(f.rbp - 8, f.rbx)
  /\ \A k \in 1..Len(f.locals) : Holds(LocalCell(f.rbp, k), f.locals[k])
  /\ \A k \in 1..Len(st) : Holds(f.rbp + ParameterOffset(st, k), st[k].value)
  /\ \A k \in 1..Len(f.pushed) : Holds(f.rbp - f.size - 8 * k, f.pushed[k])

(* Every active function finds its frame as it left it, however deep the   *)
(* calls below it go: the link to its caller, the saved register, its      *)
(* variables, its parameters where assign_paramloc says they are, and the  *)
(* operands it has pushed.                                                 *)
FramesIntact == \A i \in 1..Len(active) : FrameIntact(active[i])

(* The stack pointer is exactly below the operands the running function    *)
(* has pushed: pushes and pops, calls and returns balance.                 *)
StackBalanced ==
  /\ TypeOK
  /\ rbp = Top(active).rbp
  /\ rsp = rbp - Top(active).size - 8 * Len(Top(active).pushed)

(* rbx is callee-saved: its caller finds in it what it left there.         *)
RbxPreserved == [][Len(active') < Len(active) => rbx' = Top(active).rbx]_vars

(* "0(%rbp) = 0(%rsp) (stack is aligned)", says the prologue (48): a       *)
(* function's frame starts at a multiple of STACKALIGN.  It does exactly   *)
(* when an even number of operands is on the stack where it is called, in  *)
(* the active functions together.                                          *)
AlignedUnlessPushed ==
  LET below[i \in 1..Len(active)] ==
        IF i = 1 THEN 0 ELSE below[i - 1] + Len(active[i - 1].pushed)
  IN  \A i \in 1..Len(active) : active[i].rbp % STACKALIGN = 8 * (below[i] % 2)
=============================================================================
