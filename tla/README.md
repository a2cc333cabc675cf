# A verification project for mcc1

mcc1 is a compiler for a small C: one process, one thread, one pass. The parser
(bison, `src/parser.y.in`) asks the lexer for tokens and calls the semantic
actions of `src/semant.c` as it reduces; these build symbols, types and trees;
when the whole file was read without an error, the code generator
(`src/emit-amd64-sysv.c`) walks what they left and prints assembly. There is no
concurrency, no persistence and no network. What makes it hard is the order of
things: four stacks (scopes, blocks, declspecs, the parser's own) that different
productions push and pop, values that stand for an error and travel on, the
parameters that are read in one place and installed in another, and code that
must keep a run-time stack balanced through calls that nest in any way.

The paths below are those of the C files in the repository's `src/` directory.
Numbers in parentheses are lines of the file under discussion.

## 1. Inventory

| component | state | operations | used by |
|---|---|---|---|
| declaration specifiers (`semant.c` 311-451) | `struct declspec` on `dsstack` | `enter_decl`, `add_specifier`, `declspec_type`, `leave_decl` | parser: `declspecs`, `specquals` |
| types (`semant.c` 70-135, `main.c` 6-20) | `struct type` | `ptrty`, `functy`, `adjust`, `complete`, `compatible` | declarations, expressions |
| declarations (`semant.c` 454-641) | `struct symbol`, `extdefs`, `curfn`, `semant_error` | `make_idecl`, `make_pdecl`, `make_fdecl`, `valid_functy`, `declare_symbol`, `define_function`, `enter_fun`, `leave_fun` | parser |
| scopes (`semant.c` 25-68, 609-625) | the chain from `curscope` to `filescope`, each a table and a level | `enter_scope`, `leave_scope`, `install`, `resolve` | declarations, statements, identifiers |
| statements (`semant.c` 643-760) | `bstack`, trees | `enter_block`, `append_statement`, `make_branch`, `make_for`, `add_for_body`, `make_return`, `leave_block` | parser, `make_call` |
| expressions (`semant.c` 137-309, 762-1207) | trees | `make_ident`, `make_unary`, `make_binary`, `make_cast`, `make_call`, `make_assign`, conversions | parser |
| integer constants (`semant.c` 278-296, 781-824) | none | `make_iconst`, `iconsttype` | parser |
| frame layout (`emit-amd64-sysv.c` 456-591) | `stackloc` of every variable | `assign_paramloc`, `assign_memloc` | `func` |
| calling sequence (39-124, 147-199) | the registers and stack of the program that is compiled | `push`, `pop`, `call`, `prologue`, `epilogue` | `tree`, `func` |
| instructions (203-454) | `label` | `tree`, `lvalue` | `func` |
| identifiers and tables (`strings.c`) | `allkeys`, every `struct table` | `getkey`, `table_put`, `table_find`, `table_free` | lexer, scopes |
| source lines, diagnostics (`source.c`) | `line_map` | `make_line_map`, `get_line_number`, `emitdiag` | everything that reports |
| lexer (`lex.c`, `tokens.def`) | the cursor `sp` | `yylex`, `comment`, `commentl` | parser |
| vectors (`common.c`) | `struct vec` | `vec_push`, `vec_pop`, `vec_next`, ... | everything |
| driver (`main.c`) | none | `main`, `slurp` | |

How they interact. The parser owns the order: `declspecs` opens an entry of
`dsstack`, a declarator reads the top entry, `leave_decl` closes it; a parameter
list nests whole declarations inside a declarator; `fndef` installs the
function, opens the scope of its parameters, reads the body in scopes of its own
and closes the parameters' scope. `semant.c` and the code generator share the
`extdefs` vector, the symbols and the trees, and the flag `semant_error`, which
is all that keeps an erroneous tree from the code generator. The frame layout
writes `stackloc` and the instructions read it; the caller's `call` and the
callee's `prologue` share the offsets of the arguments without sharing code.

What is hard, and the properties that make each part correct:

* Specifiers. C lets specifiers come in any order; `add_specifier` keeps a set
  and a special value for an error. Correct: a list is refused exactly when its
  multiset is not one C allows, with one diagnostic, and order never shows.
* Declarations. Correct: the assertions of every operation hold wherever the
  parser can call it; the declspec a declarator reads is its own; a
  redeclaration is detected exactly; a name is defined at most once; an error
  never leaks a NULL type into a scope or into the code generator.
* Scopes. Correct: a name means after a block what it meant before it.
* Expressions. Correct: a tree without an error is one the code generator can
  translate, with the conversions of C in it; a tree with one is never taken for
  one without.
* Statements and instructions. Correct: the program does what the source says,
  in its order, with its values, and leaves the stack as it was.
* Frame and run-time stack. Correct: variables that live together share no
  byte; every function finds its frame, its parameters, its operands and its
  callee-saved register as it left them.
* Tables. Correct: one pointer per spelling; a table is a dictionary.
* Lexer, constants. Correct: the file is cut into tokens, each the longest, up
  to its end; a constant has the value of its text and a type that can hold it.
* Diagnostics. Correct: every offset is on exactly one line.

The complete list of hazards, each at its line, is in `PROJECT.json`.

## 2. Modules

| module | what it is |
|---|---|
| `Specifiers` | the pure part of the specifiers: `AddSpecifier`, `DeclspecType` |
| `SpecifierList` | reading one list, with the multiset read so far as history |
| `OperatorTheorems` | lemmas on `Specifiers`; least and greatest elements; induction over an interval |
| `Conversions` | promotion, the common type of two operands, the type of a constant, on any architecture |
| `Sums`, `MCSums` | `SpecifierList` and `Conversions` composed: the type of a sum of declared variables and constants; its instance |
| `ArithmeticProofs` | theorems on `SpecifierList`, `Sums` and `Instructions`, which share the conversions |
| `Types` | types as a core and a number of pointers; `Compatible` as the code computes it |
| `Declarations` | declarations, scopes, blocks and function definitions under the grammar |
| `LexicalScopes` | the abstract specification of scoping: environments saved and restored |
| `DeclarationsInvariant` | the inductive invariant `IInv` |
| `DeclarationsProofs` | theorems on `Declarations` |
| `MCDeclarations` | `Declarations` for TLC: symmetry of the names |
| `Expressions`, `MCExpressions`, `ExpressionsProofs` | the semantic actions of expressions, their errors and their types; an instance; theorems |
| `Statements`, `StatementsProofs` | statements from the grammar to trees, to jumps and labels, to what runs; theorems |
| `Instructions`, `MCInstructions` | expressions as instructions, executed on a scaled processor |
| `Frame`, `FrameProofs` | the layout of a frame, as a walk of the tree; its theorems |
| `RuntimeStack`, `RuntimeStackProofs` | the stack of the compiled program, through calls; its theorems |
| `Dictionary`, `Strings`, `MCStrings` | the abstract dictionary, the hash table that implements it, its instance |
| `Vectors` | growable arrays whose elements move |
| `Source` | reading the file, the line map, the lookups of diagnostics |
| `Lexer`, `MCLexer` | `Source` composed with the lexer and `make_iconst`; its instance |
| `TextProofs` | theorems on `Source`, `Lexer` and `Strings` |

### Specifiers and SpecifierList

`declspec.ts` is a set of bits; here it is a set of names (`SpecNone` is the
empty set, `SpecInvalid` the set `{"invalid"}`; the bit for `long long` is
`"longlong"`). `Combines` is the condition under which `add_specifier` accepts
one more, `Combine` what it makes of the two. Once invalid, a set stays invalid
and nothing more is reported. `SpecifierList` reads a list, one action per
`typespec`, and remembers how often each specifier was written, so that its
properties can compare what the code did with C's rule (`Allowed`, `NamedType`),
which knows nothing of orders or sets.

### Conversions and Sums

`promote`, `commonrealtype` and `iconsttype` read a `struct arch` that `isemant`
was given, so `Conversions` has it as a parameter: the rank, the width and the
sign of each integer type. `AsInC` is what C asks of an architecture. The one
that the program has, `Amd64`, is not like that: `main.c` declares `ulongtype`
and the long long types signed, and of the rank of `long` (17-20). The properties
of `Sums` are about both, and say what that table costs: types are *alike* if an
architecture does not tell them apart, and where the type C gives a sum is that
of an operand, the sum may have the type of another one that is alike, which
depends on the order; and a constant that no type can hold has the last type.
On architectures `AsInC` neither happens (`TypeOfSumInC`).

`Sums` declares a variable with a list of specifiers, adds it to the sum so far,
and goes on; `acc` is the type of the tree, `seen` the set of the types of the
operands. The property compares the two: what the code finds two operands at a
time is the least type for the set.

### Types

All types declarations can build are `[core, depth, ret, params]`. One detail
matters: `compatible` (126) hands the address of a slot of a vector of symbols
to itself as if it were a type. Two slots differ, and the word it reads as a
type code is part of a pointer, so two nonempty parameter lists are never
compatible; `ParametersCompatible` says just that.

### Declarations

One action per production with a semantic action. `parser` is the part of the
parse stack these productions leave behind, one frame per open declaration,
function definition and compound statement; the guards on its top are the
grammar. A frame says where it is (`at`), what it is inside (`ctx`), how many
stars were shifted and not reduced yet, and the symbol and parameters read. The
other variables have the names of the C variables: `dsstack`, `bstack`,
`curfn`, `extdefs`, `scopes` (the chain from `filescope` to `curscope`), `syms`
(every symbol allocated; a pointer is an index), `err` (`semant_error`).

| action | code |
|---|---|
| `BeginDeclspecs`, `MoreDeclspecs` | `enter_decl` and `add_specifier` in `declspecs` |
| `Identifier` | `make_idecl`; the stars before it are chosen here, since they are shifted before |
| `BeginParameters`, `EndParameter`, `MakeFdecl` | `(`; `paramdecl` with `leave_decl` and the push; `make_fdecl` and `functy` at `)` |
| `MakePdecl` | `make_pdecl`, one star |
| `DeclareSymbol`, `EndDeclaration` | `declare_symbol` in `initdecl`; `leave_decl` at `;` |
| `DefineFunction` | `define_function` and `enter_fun`, called one after the other in `fndef` |
| `EnterBlock`, `LeaveBlock`, `LeaveFun` | `enter_block`, `leave_block`, `leave_fun` |
| `UseIdentifier`, `Return` | `make_ident` and `make_return`, as statements |
| `EndOfFile` | the test of `semant_error` in `main` |

Where the code dereferences NULL, the state becomes `"crashed"`. A syntax error
ends the compiler with nothing emitted; a behaviour that stops says the same, so
it needs no action. In a block only the variables are kept, and a block that is
the body of an `if` or a loop is treated as a statement of the block around it,
which is where the code puts it unless the condition had an error. Expressions
are not there but for an identifier and the value of a `return`, of type int.

Two things the model shows that the code does not say: parameters are
installed in a scope of level 1 with the level 0 at which they were read, which
is why the outermost block of a function may declare a parameter's name again;
and `fndef` never closes its declspec, so `dsstack` grows by one entry per
function, which `DsstackDiscipline` shows to be harmless.

### Expressions

Parentheses let any production follow any other, so the model is the parser's
stack of values and one action per production: each takes the trees it needs
from the top and pushes what the semantic action returns. A tree is its root,
with the operand of an `&` or `*` below it, which the next `*` or `&` brings
back; the operands of other operators are read once, when the tree is made, and
`last` keeps them for the properties of that step.

| action | code |
|---|---|
| `Primary` | `make_ident`, `make_iconst` |
| `Unary`, `Cast` | `make_unary`, `make_cast` |
| `Binary`, `Assign`, `Subscript` | `make_binary`, `make_assign`, `make_subscript` |
| `Calling` | `make_call`, with `decay` of its arguments and the temporary |
| `EndStatement` | `append_statement`, which forgets the tree |

A name has a type that `declare_symbol` lets through, a parameter one that
`adjust` leaves (`ConstantsAssumption`). `valid_functy` looks for void
parameters in definitions only, so that one of a prototype may be void; a call
of it ends in the `die` of `assign`, which `ErrorsAreTracked` has to name as an
exception (`TakesVoid`).

### Statements

Three stages, one after the other. The parser's productions (with `make_branch`,
`make_for`, `add_for_body`, `make_return`, `append_statement`) turn a source
into a tree, and keep the source along it. `tree()` walks the tree and prints
`code`: evaluations, conditional and unconditional jumps, labels numbered by one
counter. Its recursion is a list, `work`, of what it has still to print and to
walk, and there is an action for each operator. Then a processor executes
`code`. Each expression is a number and evaluates to zero or not, as it likes.
`todo` is what C has left to do of the source, and advances with the expressions
evaluated, so that the comparison is between two ways of running a program, step
by step.

An expression may have no type (its errors are those of `Expressions`) or be
void. In `"segv"` and `"crashed"` the compiler stopped at a NULL or at an
assertion, while it was parsing or while it was emitting. `"unassembled"` is
what the assembler refuses. `seen` remembers what the properties name as
exceptions: a `do`; a `for` without a condition; and, as `"hollow"`, an empty
statement as the body of an `if` or a loop, or a `for` without its first or
third part, on which the compiler stops.

### Instructions

A value of the parser is a tree, as `make_unary`, `make_binary`, `make_cast` and
`make_assign` build it, and the expression of the source it was made from: a line
of `exprs`, with the lines of its operands. A tree carries the instructions that
`tree()` prints for it (`Code`, `Lvalue`, with their register names and
suffixes), as these depend on the tree and on the places of the variables alone;
so each tree is printed once, from the code of its operands. `Evaluate` takes
the only value left, asks the assembler, and executes the code.

| action | code |
|---|---|
| `Primary` | `make_ident`, `make_iconst` |
| `UnaryExpression`, `Cast` | `make_unary`, `make_cast` |
| `BinaryExpression`, `Assignment` | `make_binary`, `make_assign` |
| `Evaluate` | `tree()` for the expression, the assembler, the processor |

`Meanings` is C's: it reads `exprs`, never a tree, and says of each expression
what it gives for every memory: a number of its type and the memory after it.
Besides, it has what an expression denotes on the left of an assignment
(`place`), the same for what is behind its star (`pointer`), which an `&` and
another `*` bring back, and whether it is a constant 0. Words are scaled to one
bit a byte: an int has 4 bits, a long or a pointer 8, so that every overflow,
sign extension and truncation is within reach of a few constants.

`Meanings` leaves out, as if C gave them no meaning, the operands for which the
program is known to differ: comparisons of 64 bits and `!` look at half of their
operand (212, 335, 384), an unsigned int above the largest int is made a long
with a sign (339-345), and an index is scaled in its own type (`semant.c`
1117-1125). So `ComputesMeaning` says nothing of these, and
`DepartsAsNamed` does. For an operator whose operands have a meaning and that
Meanings leaves out on these grounds, it says which value the program has
instead: that of the comparison of the low halves, of the unsigned int read as
an int, of the index reduced to 32 bits. So nothing else can go wrong with these
operators unnoticed, and a repair of the code has to be made in the property too.
`Meanings` evaluates operands in the program's order, as C allows, and takes
`&*e = x` for `e = x`, as `make_unary` does.

### Frame

`assign_memloc` is a recursion on the tree of the body. Here it is a walk:
`path` has one node per call on the C stack, with the size that was passed in,
the size its children are given, and the largest size returned so far; the tree
is whatever the walk chooses. All operators with the same traversal are one kind
of node. A place is a distance below `%rbp`; parameters passed on the stack are
above it and have a negative one, as `stackloc` does.

### RuntimeStack

What the emitted instructions do to `%rsp`, `%rbp`, `%rbx` and memory. Memory
is a function from the addresses at and above `%rsp` to values, so that
everything below is forgotten. `active` records what each active function may
rely on and is only compared with memory, never read by a step, except for the
amount of room the caller subtracted for its arguments, a constant in the
caller's code. `Call` is the code of `call()` followed by the prologue,
`Return` the epilogue followed by the caller's `addq`. A `return` happens with
no operand pushed, since it is a statement.

### Strings and Dictionary

A key is a pointer to a `string`, here an index; the hash is any function of
the spelling, given by the configuration. The code doubles a table when `len`
reaches half of `cap`, but `len` is never incremented: the doubling is
unreachable, and left out.

### Vectors, Source and Lexer

A vector is a block with cells, and `reallocarray` always moves it, which is the
worst it may do; a pointer names a block and an index, and a pointer that was
kept too long reaches nothing. `slurp` pushes the bytes of the file,
`make_line_map` writes through `prev`, the pointer of the last push. Elsewhere
in the project vectors are sequences, as no other code keeps a pointer over a
push.

`Source` has one action for the loop of `slurp`, one for `isource` up to the
first line, one for the body of `make_line_map`'s loop and one for its end. A
location is any `lo <= hi` up to the terminator, which is what the lexer and
`YYLLOC_DEFAULT` produce for tokens and rules that are not empty.

`Lexer` goes on where `Source` ends: `sp` walks over the source by one blank,
comment character, or token at a time, `at` is the function that is running, and
`pieces` is what was recognised. `MakeIconst` reads the text of an integer again
as `strtoul` does, which knows nothing of where the token ends. The parser may
refuse any token, which ends the compiler.

What a token is, for the properties, is not taken from `lex.c`: `Punctuators` is
the table of `tokens.def`, with the arrow; a word has digits after its first
letter, and a number has its suffix and its dot, as in C. `yylex` stops short of
these three, and `CutShort` names them: there is a longer token at the place of
a piece if and only if it is one of them.

## 3. Runs

| run | bounds | states | what it shows |
|---|---|---|---|
| `specifiers` | lists of up to 6; all architectures with widths of 2 to 4 bits, and the table of `main.c` with bytes of one bit; 11 constants up to 255 | 360 000 | the multiset rule, the name, the single diagnostic; the type of a sum is the least for its operands, or alike that of an operand which is; that of a constant can hold it, if any can |
| `declarations` | 2 names, int and void, 3 declarators, 1 star, 2 parameters, nesting 2 | 570 000 | what is external is distinct and fit for the code generator; errors stay out of scope; bodies are final; `IInv` is an invariant |
| `scopes` | 2 names, int, 4 declarators, nesting 4 | 580 000 | assertions, the redeclaration test, the declspec stack, refinement of `LexicalScopes` |
| `prototype` | 2 names, int, 4 declarators, 1 parameter | | violation: a definition after a prototype with a parameter |
| `expressions` | 5 variables of int, unsigned int, long, int \* and void \*, 3 functions, 2 values, 2 arguments, 2 pointers | 580 000 | what may be assigned to has an address; operands agree with their operator; errors are reported, and stay errors; calls match their function |
| `statements` | 5 expressions and keywords, 4 with an error | 2 630 000 | the program follows the source; which source crashes the compiler or gives code that is refused; nothing loops without an expression |
| `instructions` | 2 operators, 6 variables, 3 memories, constants 0 and 3 | 710 000 | the processor computes C's value and memory, or departs from it as named; pops what it pushed; the assembler takes all but one form |
| `frame` | 1 register, 3 parameters, 3 variables, 4 trees | 1 390 000 | disjoint, aligned slots in a frame that holds them |
| `frame_unassigned` | the same | | violation: temporaries without a place |
| `runtime_stack` | widths 4 and 8, 1 register, 3 arguments, 1 local, 1 push, depth 3, 1 variable in inner callers | 1 790 000 | frames intact, stack balanced, `rbx` preserved, alignment exactly as odd pushes leave it |
| `strings` | 4 spellings, 2 buckets, equal hashes | 42 000 | one key per spelling; refinement of `Dictionary` |
| `lexer` | all files of 2 of 19 characters and 3 of 16; 4 to 7 of those of integers, comments, punctuators or lines | 420 000 | each offset on one line, the cursor in the line, the file cut into the longest tokens of C but for three forms, constants read as their text, the end reached |

Why the bounds are enough for what they are asked.

* `specifiers`: a specifier can be repeated three times at most before its list
  is refused for good, and six leaves room for each to be. Widths of 2 to 4 bits
  give every order of three ranks, strict or not, and a sum's type depends on
  nothing else; its operands are not bounded. On the table of `main.c`, with 4 and
  8 bits, the constants lie on either side of the largest int, unsigned int and
  long.
* `declarations`, `scopes`: two names and three declarators give every order of
  variable, prototype and definition of one name, with another beside it;
  nesting 2 reaches a parameter list inside a declaration and a block inside a
  function. `scopes` trades types for depth: four frames hold a function, a
  block, a nested declaration and the parameters in it, or a function with three
  blocks. All of these properties are proved as well.
* `expressions`: an action reads the two values on top, or a function and its
  arguments, and there is one type of each kind that it distinguishes; the
  functions have no parameter, two, or a void one. The
  operators that the code treats alike are one. The stack of values is bounded,
  the depth of an expression is not.
* `statements`: five reach a loop around an `if` with two branches, and every
  pair of nested or neighbouring statements.
* `instructions`: two operators are one below the other on either side, in the
  registers and on the stack, with a cast or a star anywhere. The memories have
  values of both signs, 0, and values whose product or sum overflows.
* `frame`, `runtime_stack`: one register makes the second argument the first on
  the stack, where the code has six and the seventh; no definition depends on
  the number. Three arguments of two widths give every pair of neighbours on the
  stack. Depth 3 is a caller, a callee that is a caller too, and a callee.
* `strings`: four spellings are one more than needed for a collision of hashes
  and one of buckets in the same chain.
* `lexer`: the longest punctuator has three characters, the shortest that shows
  a prefix without digits and what follows has four, a comment in lines six.

Every configuration but `MCStrings.cfg` and `RuntimeStack.cfg` sets
`CHECK_DEADLOCK FALSE`, as the system does stop: the compiler at the end of the
file, after an error or a crash; a function laid out; a program that returned.

Type invariants are the first conjunct of a safety property of their module
(`TypeOK` in `KeysUnique`, `FrameHoldsSlots`, `StackBalanced`,
`EveryOffsetOnItsLine`, `LvaluesHaveAddress`, `FollowsSource`).

Fairness and liveness. Two properties say that something must eventually happen.
`ScanEnds` (`Lexer`): the compiler reaches the end of the file or something it
refuses; it assumes weak fairness of its next step, as the compiler is one
process that waits for nothing but a file. `Progress` (`Statements`): a program
that runs comes to another expression or returns; it assumes weak fairness of
`Step`, which says that the processor goes on executing. Nothing else waits:
the other loops are over finite vectors, and what bounds them is in the actions.

Each property has a mutant in `PROJECT.json`: a definition of the model changed
as a slip in the code would change it, which the run detects. The mutated forms
stand beside the definitions, with a comment that says what is wrong with them.

The two runs that end in a violation are disagreements between the code and what
its own comments or messages say. Both were seen on the compiler too:

1. `compatible()` never finds two nonempty parameter lists compatible, so
   `int f(int a); int f(int a) { ... }` is refused for an incompatible type
   (`PrototypeMatchesDefinition`).
2. `assign_memloc` does not visit the called expression of an `Ocall`, whose
   temporaries keep the location 0 and are emitted as a global named `__tmp`
   (`EveryVariableAssigned`).

### What else the models show

The models follow the code in all of the following; the properties name them as
exceptions, so that they fail should there be another.

* Expressions: `p = 0` is refused for a pointer to int (185); a function does
  not decay below a star (1008); `*w = x` for a `void *w` reaches the `die` of
  `assign` (191-205), and so does a call of a prototype with a void parameter;
  `-p` loses its type in silence (1039); `&*p` is an lvalue (989).
* Constants: `strtoul` reads past an empty prefix, in `0x 5`, `0x-1` or `0x0x5`,
  and the assertion at 803 fails. `iconsttype` "returns the first type capable of
  representing k" (279), but one of 2^63 or more gets `ullongtype`, which
  `main.c` declares signed (20; `ConstantTypeIsAble`).
* Sums: the table of `main.c` has four types of one rank and sign, of which
  `commonrealtype` takes the right operand's (240): `long + ulong` is a `ulong`,
  `ulong + long` a `long`. `SumTypeIsLeast` allows for this (`Alike`) and for
  nothing else.
* Statements: the jump of a `do` has a colon behind its label
  (`emit-amd64-sysv.c` 423); `for` asserts that it has all its parts (685) and
  dereferences its body, NULL for an empty statement (690); without a condition
  it gets a zero (719).
* Definitions: `define_function` returns NULL after an error and `enter_fun` is
  called with it (`parser.y.in` 113).
* Instructions: an unsigned int is converted to long since "the signed type can
  represent all the values of the unsigned one" (`semant.c` 257), but extended
  with a sign (342); comparisons have operands of 64 bits and look at the low
  half (212, 384), and so does `!` (335); an index is scaled in int (`semant.c`
  1124). `DepartsAsNamed` names these. `w = 0` for a pointer to void is not
  assembled (343).
* Stack: a function called while an odd number of operands is pushed has a frame
  that is not aligned; `AlignedUnlessPushed` says that there is no other.
* Lexer: a dot takes the next character with it (138); a byte 0xFF ends the file
  (`main.c` 39). Tokens are cut short, as `CutShort` names them: `->`, which is in
  the table (`tokens.def` 19), into `-` and `>` (113); an identifier or a keyword
  at its first digit (68), so that `_Decimal128` is never read (`tokens.def` 106);
  a number at its suffix or its dot (94).

## 4. Proofs

Everything below is proved for every value of the constants (any number of
names, symbols, stars, parameters and nested blocks, lists and files of any
length, frames of any shape), from the `ASSUME`s of the modules alone. Each is
an inductive invariant, a lemma for each action, and a temporal conclusion.

`ArithmeticProofs`. Of `SpecifierList`, the invariant ties the set to the multiset
read: the set is `SpecInvalid` if the multiset is not allowed, and otherwise it
is, specifier by specifier, what the counts say. That the error value is never
left, and that no allowed multiset extends one that is not, makes it inductive;
each of the four properties follows from it (`TypeCorrect`, `RejectsExactly`,
`NamesItsMultiset`, `DefaultCaseUnreachable`). `Sums` resets that list again and
again and keeps the invariant through it (`SpecifiersOfSums`). The types, ordered
as C orders them on an architecture it allows, have least upper bounds, and
`commonrealtype` computes them; so a sum has the least upper bound of the set of
its operands, at every length (`TypeOfSumInC`). On the table of `main.c`
(`MainIsCovered`) four types are alike, and the sum has the type of an operand of
those four or, without one, that of int or unsigned int (`OfOperandExtends`),
where C gives it the last of its operands' types (`LastIsLeast`). `TypeOfSum` is about both: the invariant
`SumInv` has one conjunct for each kind, and the induction is over the steps, one
operand each. `iconsttype` tries C's candidates in their order and takes the
first that is able, and the last type if none is (`ConstantTypesAreAble`). For
this, that what is below 2^m is below 2^n for a larger n (`PowersGrow`): as the library's
theorem on the number of subsets says that 2^(n+1) is twice 2^n, no induction is
needed.

Of `Instructions`, in the same module: expressions nest without a bound, but a
tree and its meaning are each made of those of the operands, so that a relation
between the two goes up with every reduction. `Denotes(c, ty, D)` says that the
code `c`, executed from any state of the processor that has not faulted, faults
or leaves what was pushed as it was, and that wherever `D` is defined for the
memory of that state, it leaves `D`'s value in rax, as far as the type goes, and
`D`'s memory. It says nothing of the other registers, and it holds from any
state: this is what lets the code of one operand run between the push and the
pop of another. `Good(t, D, s)` is that of the code of a tree, or that the
assembler refuses the code, and then `s` holds. The steps are:

* `ExecutedConcat`: executing one code and then another, by induction over the
  runs of the processor (`RunsAgree`, `UpTo`).
* What each instruction does (`ConstStep` to `ComputeStep`), and that what it
  leaves agrees with the number C asks for in the low bits of the type: words
  that agree are kept by sums, products and negations (`SumsAgree`,
  `ProductsAgree`), extension (`Signed4` and the like), division (`DivideStep`),
  shifts (`ShiftMaps`) and comparisons (`Decided`), each under the conditions
  under which the meaning is defined.
* `GoodUnary`, `GoodBinary`, `AssignGood`: from an instruction to the tree, for
  an operand in rax, two operands with one of them pushed, and a place with its
  address pushed.
* `BinaryGood`: `make_binary` for any two operands that `BinaryTyped` lets
  through: the usual conversions, shifts, comparisons, indices scaled by the
  constant that `make_binary` adds, the difference of pointers.
* `Sound(t, m)`: the tree is `Good` for the value of the meaning, and what
  `make_unary` and `make_assign` look at in it is right too: the operand of a
  star computes the place, the operand of an `&` is a variable, a constant 0 is
  one of the source. This is needed because `*&e` and `&*e` bring an older tree
  back (`AddressSound`, `IndirectionSound`) and `lvalue()` goes into the star.
* The inductive invariant, `IInv`: every tree on the stack is `Sound` for its
  line of `exprs` (`Consistent`), and the processor's state is what the code of
  the last tree made of `before` (`Evaluated`). One more line of `exprs` leaves
  the meanings of the others alone (`MeaningsAppend`).

Each property follows: `ComputesItsMeaning`, `PushesAreBalanced` and
`OnlyNullsUnassembled`. `IInv` speaks of all states of the processor, so that TLC
cannot evaluate it; TLC checks the three properties. The theorems are about
words of the scaled lengths, for any variables with any addresses and contents,
any memories and expressions of any size; the assumptions are those on what is
declared, on constants, which are small ints, and on casts, which name int,
unsigned int or long.

`DeclarationsProofs`. None of the properties of `Declarations` is inductive. The
strengthening is `IInv` of `DeclarationsInvariant`, which the run `declarations`
checks as an invariant too:

* `ParserShape`, `ScopeShape`, `DsstackShape`: the frames of the parse stack are
  a function, its blocks, and then a declaration with the parameters it is
  nested in; there is one scope for the file, one for the parameters and one per
  block, each one level deeper; there are enough declspecs. This is what the
  assertions need (`AssertionsNeverFail`).
* `DeclaringFresh`, `DeclaringOnce`, `DeclaringFrames`: a symbol that a
  declarator is still building has the current level, is known to no scope,
  block or function type, and is built by one frame only, so that changing its
  type disturbs nothing else.
* `FunctionsOK`, `ParametersOK`, `InScopeOK`: a parameter has a type and the
  level of its function; what is in scope has a type, and the level of its
  scope, but for parameters, which have level 0 in the scope of level 1. This
  makes the comparison of levels exact (`RedeclarationExact`) and keeps NULL
  types out of scope (`ErrorsConfined`).
* `ExternalsOK`: an external definition is what its name means at file scope,
  and is listed once (`DistinctExternals`, `BodiesAreFinal`).
* `ErrorsReported`, `EmissionOK`: a NULL type, an invalid specifier or a crash
  goes with `semant_error`; without it, what was declared so far can be emitted
  (`EmissionIsSafe`).

On top of `IInv`, that the scopes implement `LexicalScopes` (`ScopesAreLexical`):
what a name means in a chain of scopes is what the last one holds for it or, if
it holds nothing, what the name means in those around it (`MeaningStep`). So
`install` changes one meaning, `enter_scope` saves all and `leave_scope` restores
them. That at most `MaxSymbols` symbols exist goes with it.

And the declspec stack (`DsstackDisciplined`), by counting: it has one entry for
each declaration being read and for the function being defined, above one for
each function that has its body already (`DsstackCount`). `leave_fun` moves an
entry from the former to the latter, and `define_function` keeps both, as the
symbol it returns has no body yet.

`FrameProofs`. The variables seen so far are those of the nodes on the path and
those of finished subtrees. `PathOK` says of each node that its variables lie
between the size it was called with and the size it gives its children, in the
order they were declared, and that a node begins where those around it end: so
what is alive together is apart (`SlotsNeverOverlap`). `Holds` says that what
the nodes will return is at least the place of every variable ever seen, with
which `func` gets enough room (`FrameIsLargeEnough`). Alignment needs that the
widths are 4 and 8 only, and divide 16 (`SlotsAreAligned`).

`RuntimeStackProofs`. The frames of the active functions abut: what a caller has
pushed, arguments included, ends where the parameters of its callee begin
(`Upper` of a frame is `Bottom` of the one below it). All that is written lies
below `rsp` or in the running function's own variables, so that it disturbs no
frame further up (`FramesStayIntact`); and a return, which drops what is below
the frame, finds `rsp`, `rbp` and `rbx` where its frame says they were saved
(`StackIsBalanced`, `RbxIsPreserved`). The offsets of the arguments, as the caller
places them, and of the parameters, as the callee reads them, are two recursive
walks in different code, in opposite directions; that they agree, for any number
of arguments, is shown by giving each a closed form. Every step of the code but
a push moves `rsp` by a multiple of 16 in all, which leaves the parity of the
pushes (`FramesAreAligned`).

`TextProofs`. While `make_line_map` runs, the lines found tile the text before
`p`, are numbered from 1, and `prev` points to the last of them, in the block
the vector is in now: the push and the store through `prev` come in an order
that keeps this. At the end they tile all of it (`OffsetsOnLines`). The walk of
`get_source_line` over them is recursive along the vector; from any line on, it
returns the only line the offset is on, or NULL behind that line (`LineFound`,
by `UpTo`), and the cursor of `emitdiag` is on the right character
(`CursorsOnLines`).

The lexer reads the source, and its property speaks of the file. `Reads` says
what the one is of the other: a beginning that stops at the end or at an ending
byte, with some blanks replaced by spaces; so that a character of a token is
the same in both (`TextFacts`). What a token of C is can then be told from the
characters of the source (`TokensByCharacter`): for punctuators, that the table
is what the macros of `yylex` compare, and the arrow (`PairsSpelled`,
`TriplesSpelled`). Each loop of `yylex` stops at the longest one, or at a
character of `CutShort` (`WordIsLongest`, `IntegerIsLongest`,
`PunctuatorIsLongest`), and with such a character there is a longer one. No
loop runs past the terminator, as it is in none of their sets. The invariant
`LInv` has the pieces so far, where the next one begins, and what was read of a
comment that is not finished: its first two characters, and that no end of it
was overlooked (`InComment`). `TilesSource` follows. For `make_iconst`, `DigitsRead`
says what stands between the prefix and the end of a token, and `IconstOutcome`
what `strtoul` makes of it, in either version of C: it stops at the end, or
before it at a digit the base does not have, or it has run past it, and then
there was no digit or a single 0 that begins a second prefix
(`IntegersAreTheirTexts`). `LexerKeepsLines` says that the lexer is the `Source`
that it extends, whose theorems hold of it too. `LexerAssumption` is what the
ASCII characters of the lexer's tables satisfy: none of them is a blank or an
ending byte.

Of `Strings`, in the same module: keys in a chain have the hash of their bucket
and different spellings, and every key allocated is in its chain
(`OneKeyPerText`). A table's entry is in the chain of its key, so that looking
for it in one chain is looking in the whole table: every step of the chains is a
step of `Dictionary` or a stutter (`ChainsImplementDictionary`).

`ExpressionsProofs`. Trees nest without a bound, but a tree that `&` or `*`
brings back was on the stack before: all trees are in a set that holds what
each of them is made of (`Closed`), and in which what has an address, or is a
function, is a variable or a star (`Fits`). Every semantic action makes a tree
that can be added to such a set (`Makes`), so that one exists in each state
(`EInv`), without an induction over trees. What else an action may leave is
`Outcome`: a tree without a type, or a stop, only with a report or an operand
that had no type. From these: `LvaluesAlwaysHaveAddress`, `ErrorsTracked`,
`OperandsAlwaysAgree`, and, as properties of steps, `ErrorsAlwaysPropagate` and
`CallsAlwaysMatch`. The assumptions are those on what is declared.

`StatementsProofs`. Trees and the source they stand for nest without a bound, and
there is no induction over them. As in `ExpressionsProofs`, there is a relation
instead: `Lowering(P, seen)` says of each pair of a list of statements and a tree
in `P` that the tree has the operator which the list calls for, and that its
parts are in `P` with the parts of the list. Each production makes a pair that can
be added (`SequenceLowered`, `IfLowered`, `ForLowered` and so on; appending the tail of
a `for` to a block adds a pair for each end of the block). So as long as there is
no error all that the parser holds is lowered (`Parsed`), and a tree that is NULL
or that `add_for_body` stops on comes from hollow source (`OnlyHollowCrashes`).

While the code is printed, `Labelled` says that the labels of `code` and of
`work` are disjoint, defined once each and numbered below `label`, and that jumps
are to them; a tree in `work` has none yet, and when it becomes instructions it
takes the next number. What is dropped after a return was not walked. At the end
there is nothing left to walk, and each jump has its one label (`CodeIsAssembled`).

That the code follows the source is said of what lies between two instructions:
what is left of the source there, if eax is zero and if it is not. `Follows` says
of one instruction that it takes what is left before it to what is left after
it: an evaluation to what its outcome leaves, a label to itself, a jump to
anything if what is left is what is left at its label. A tree in `work` takes what
it was lowered from, and the rest, to the rest. `Runs` chains them. When a tree
becomes instructions, they run between the same two ends, with new labels whose
places are fixed then (`BranchesRun`, `LoopsRun`): at the condition of a loop, the
loop itself is left. When all is printed the chain is there for the processor,
and each of its steps moves along it, or to the one label of a jump, where the
same is left (`CodeFollowsSource`). The assumptions are those on the bounds.

`OperatorTheorems` holds the facts about operators these proofs cite: what
`AddSpecifier` and `DeclspecType` return, and that a nonempty set of numbers has
a least and, if bounded, a greatest element. `UpTo` is induction over an interval,
with a set in the place of a predicate; it gives closed forms to recursive
functions over numbers.

Only model-checked: the two liveness properties, `ScanEnds` and `Progress`, as
the prover has no rules for fairness; and `DepartsAsNamed`, which is about
single operators and the order of their operands, for which the relation above
keeps no more than the meaning. The two runs that end in a violation have
no theorem. Only proved: `NeverDies`, as the runs on what a list names leave little
of it open.

## 5. Not modelled, and why

* The LALR automaton is generated by bison; its grammar is in the guards.
* The wording and colours of diagnostics, the parsing of options: no state of
  the compiler depends on them.
* `malloc` failing, which ends the program. Freed memory: the compiler frees
  almost nothing; `leave_scope` frees the entries of a table that nothing reaches
  any more.
* The type names of casts, which push and pop one declspec within an expression.
* ERANGE of `strtoul`, which only warns; `unsigned long` in `Instructions`, as
  its type is declared signed; calls within the expressions of `Instructions`,
  which would need the memory of `RuntimeStack` below its registers.
* The growth of a hash table (unreachable), `vec_fill` and `vec_prev` (without a
  caller).
* The build and test scripts: no state of the program is in them.

## 6. Plan

The order was that of importance: what may be declared and what it means, then
the memory of the compiled program, then what computes with it, then the text
it is read from. What is left:

1. Models: the calls of `Instructions` over the memory of `RuntimeStack`, with
   the temporaries that `Frame` places; words of 32 and 64 bits, for which the
   proofs on words would have to be made for any length.
