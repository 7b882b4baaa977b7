# MITScript in TLA+

MITScript is a small dynamic language: integers, strings, booleans, `None`,
records, and functions that are closures over the variables of the functions
they are written in. The repository holds two implementations of it, a tree-walking
interpreter (`src/interpreter`) and a bytecode compiler with a
virtual machine and a garbage collector (`src/vm`, `src/gc`), with one parser for both. These
modules specify the second one, from the linked list under the collector up to whole
programs, read from their tokens, compiled, written as bytecode text and read back, and run; compare it with the
first; and prove the collector, its list and the machine's use of memory correct, and collections unobservable, for every heap and every program.

Nothing in the program is concurrent. What is hard here is different: the
collector may run before any instruction, frees what it thinks is unreachable
and so gives a wrong pointer no symptom until an address is reused; frames
outlive their calls because closures refer into them; the machine trusts the
tables the compiler, or the bytecode parser, made for it; and the source parser decides what a statement is
by parsing its beginning, throwing the result away and parsing it again.

## Inventory

| component | source | state | operations | what makes it correct |
|---|---|---|---|---|
| garbage collector | `gc/gc.h` | registered objects, marks, bytes in use and limit | `allocate`, `addMemory`, `isFull`, `markSuccessors`, `gc` | nothing reachable is freed, everything else is; marks are clear between collections; the account balances; a collection ends |
| object list | `gc/gc.h` | `head_`, `next_`, `size_`, an iterator's two pointers | `push_back`, `erase`, `begin`, `end`, `++` | erasing under the iterator neither loses, repeats nor resurrects a node |
| virtual machine | `vm/src/interpreter.cpp`, `bytecode/` | `stack_frames_`, `current_function_`, `instruction_pointer_`, the heap | 33 instructions, `call`, natives, `garbageCollect` | pointers lead where the casts assume; calls leave their callers alone; a collection cannot be observed; no undefined behaviour |
| bytecode compiler | `vm/src/compiler` | symbol tables, the function being built | one `visit` per node, `globals`, `assigns`, `findReturn` | compiled programs do what the tree says; tables are consistent; every function leaves a value |
| AST interpreter | `interpreter/interpreter_src` | a stack of frames of names, `rval`, `return_flag` | one `visit` per node, lookup, calls | it is the semantics the compiler is compared with |
| source parser | `interpreter/parser_src`, `parser.h` | the index in the token stream | one function per nonterminal, one `convert` per node | exactly the language of the grammar is accepted, with its precedence and associativity; the token reported is the wrong one |
| bytecode printer, parser | `vm/bc-parser` | the text; bison's stack and `out` | `print`, `escape`, `unescape`, the rules of the grammar | what `mitscriptc` prints, `mitscript -b` reads back as the same functions |
| drivers | `vm/src/bytecode-*.cpp` | none | arguments, files, the `catch` | |
| collector test | `gc/main.cpp`, `object.h` | a graph of its own | | |

How they interact. The driver reads a program, with `-s` by parser (tokens to a concrete tree, that to
the abstract tree) and compiler, or with `-b` by the bytecode parser from a text that `mitscriptc`, parser,
compiler and printer in a row, wrote. It gives the resulting `Function` to `Interpreter::executeProgram`. The machine calls
`CollectedHeap::allocate` inside instructions and `garbageCollect()` at the start of each
one. That calls `gc()` with `stack_frames_` as the rootset, which calls
back into `follow()` of frames, records, references and closures. Containers report their growth to
the heap with `addMemory`. Everything is one thread: the interleavings that
matter are those of instructions with collections, and of the calls nested in each other.

## Modules

| module | models | relation to the others |
|---|---|---|
| `AbstractHeap` | what the collector promises: a collection is one step that removes exactly what no frame leads to | implemented by `CollectedHeap` |
| `ObjectRegistry` | what the collector needs of its list: a set visited once per sweep | used by `CollectedHeap`, implemented by `HeapList` |
| `CollectedHeap` | `gc/gc.h`: allocation, account, mark phase with its recursion, sweep; and a most general program around it | instantiates both |
| `CollectedHeapProofs` | the inductive invariant and five theorems about the collector | extends `CollectedHeap` |
| `HeapAccountProofs` | the theorems about the memory account and the types | extends `CollectedHeapProofs` and `SetInduction` |
| `HeapList` | `LinkedList` and its iterator at the level of pointers | implements `ObjectRegistry` |
| `HeapListProofs` | the theorems about the list | extends `HeapList` and `SetInduction` |
| `Interpreter` | the virtual machine, instruction by instruction | a collection is one step, as `AbstractHeap` has it |
| `InterpreterProofs` | the machine's invariant; a lemma per instruction, and one about collections, that its part about memory is kept | extends `Interpreter` and `SetInduction` |
| `InterpreterTheorems` | the rest of the invariant, about programs with consistent tables, and five theorems | extends `InterpreterProofs` |
| `SetInduction` | lemmas the proofs share: induction stated with sets, iterating a function, sums over finite sets, least, greatest and k-th smallest numbers of a set | |
| `CollectionTransparent` | two machines running the same program, one of which never collects | extends and instantiates `Interpreter` |
| `CollectionTransparentProofs` | the relation between the two machines; a lemma per instruction, and one about collections, that it is kept; one theorem | extends `CollectionTransparent` and `InterpreterTheorems`, instantiates `InterpreterProofs` for the second machine |
| `Syntax` | syntax trees, `AST.h`, and what `globals` and `assigns` see of them | used by all that follow |
| `ConcreteSyntax` | concrete syntax trees, `CST.h` | used by the next two |
| `Parser` | the recursive-descent parser, function by function, with `reportError` and the index it goes back to | extends `ConcreteSyntax` |
| `TreeConverter` | `TreeConverter.cpp` and `ParseProgram`: tokens to a tree, an error or a terminated program | extends `Syntax`, instantiates `Parser` |
| `Grammar` | the grammar of the specification (page 10), as sets of derived trees, and its inverse, a tree written as tokens | what the parser is compared with |
| `SourceParser` | a program read token by token, with the parser's verdict at each | extends `TreeConverter`, instantiates `Grammar` |
| `Compiler` | `compiler.cpp`, `symbol_table.h` and the tables of `Function`: a tree to the functions the machine runs | extends `Syntax` |
| `TreeInterpreter` | `interpreter_src`: what a program prints and how it ends, by walking its tree | extends `Syntax` |
| `BytecodeText` | `prettyprinter.h`, `bc-lexer.lex`, `bc-parser.yy`: functions to tokens of bytecode and back | |
| `CompiledProgram` | `mitscript -s`: parse, compile, run; and `mitscriptc` followed by `mitscript -b` up to the function that is read | extends `Compiler`, instantiates `Interpreter`, `TreeInterpreter`, `TreeConverter`, `Grammar` and `BytecodeText` |
| `MC*` | the instances TLC checks | |

### The collector

The C++ locals of an instruction, which hold objects no frame leads to yet,
are `locals`; the program may do anything with what it holds (`Program`), so the model
covers the virtual machine, the test of `gc/main.cpp` and any other user that
collects between its operations only. `pc` tells an instruction
(`run`) from the call of `garbageCollect()` before the next one (`fetch`), the
mark loop and the sweep. The mark phase is modelled call by call:
`callstack` is the stack of `follow()` calls, and `pending` is what each still has to
visit. The order of a rootset, of a `follow()` and of the sweep are left open,
so they cover each implementation of `follow()`. Functions, constants and
the like are `Static`: never registered, marked once, never unmarked.

The memory account counts everything the code charges: the heap itself; the interpreter, its three containers and
the names in them (`machine`: what `executeProgram` adds is `MachineSize`, and `AddGlobal` is `global_indices_[]` meeting a new name); the
storage of `stack_frames_` (`capacity`), which doubles when a frame is pushed on a full one, is charged before the old storage is given
back, and never shrinks; and for each object its base size and what its containers and field names added
(`tracked`). The test of `gc/main.cpp` has no machine and an uncharged rootset: there `MachineSize` and `PointerSize` are 0.
`current_memory_bytes_` is a `size_t` in the code and a number in the model; that it never goes below 0 is
part of `TypeOK`.

The list is modelled separately, with explicit deletes and reuse of
addresses. `gc()` is replaced there by "some set is marked" (`begin`).

### The virtual machine

A heap of `MaxAddress` cells holds frames, records, references, closures and the
integers and strings that instructions compute; constants, `None` and booleans
are static. Exceptions end the run with their name as `status`; `undefined` stands for
undefined behaviour in C++ and `overflow` for printing a record that contains itself. `isFull()`
is left open: any instruction may be preceded by a
collection. A native function runs inside `call`, as in the code. `executeProgram` puts the native functions in the first three places of
main's table of functions, whatever the program has there (`initializeNativeFunctions`), and writes past the end of a table
with fewer (`undefined` before the first instruction, `Boot`).

A position of a program's code may hold several instructions: one
"program" stands for all programs of its shape, and TLC tries each. Calls
make closures, captured variables and nested calls; values, records and natives put each
kind of value wherever an operand is expected, most of them wrong; forged ones make
closures no compiler makes, whose frames have slots that nothing fills; the seventh program is `vm/tests/test1.mitbc`, whose
main has no room for the native functions.

An integer lies between -`INT_MAX` - 1 and `INT_MAX`, 2^31 - 1 in the code: a result beyond them wraps, as it does in the builds of
the repository, and dividing the least integer by -1 ends the program as the processor's trap does (`trap`).
`TreeInterpreter` has the same integers.

Names of local variables are abstracted to positions. A field name is one of
`FieldOrder`, which a program that builds another name stops at.

### From source to result

`Parser`, `TreeConverter`, `Compiler`, `TreeInterpreter` and `BytecodeText` are pure: a function or visit of the code is an
operator from the state of parser, compiler or interpreter (its members as a record) to the
next state. An exception is a field that makes everything later do nothing.

*Parsing.* A token is a type and a text. `Parser` gives each function of `nonterminals.h` an operator of its
name (the four levels of binary operators share `Chain` and `Prime`) and carries the index `tokens.seek` sets, so
what is parsed twice is parsed twice. A function that is in a circle with others is called by its name, through
`Parse`. The concrete tree keeps the lists growing to the right;
`TreeConverter` turns them into operators that associate to the left. `stoi` of a constant beyond `INT_MAX` ends the
program. `Grammar` knows nothing of lookahead, indices or lists: a nonterminal derives a set of trees from a sequence
of tokens, with operators left-recursive. `SourceParser` compares the two on every sequence of tokens a
vocabulary allows.

*Compiling.* The instructions a visit leaves in `current_block_` are `block`, the
enclosing functions and symbol tables are stacks in place of the saved pointers, and a
reference to a variable carries the variable's name until the end of its function
resolves it, as in the code. In `TreeInterpreter`, frames and records are
numbered as they are made.

*Bytecode text.* `print` gives the tokens of a function with the functions in it. A name that is a keyword of
bytecode becomes the keyword's token; strings go through `unescape` and `escape` character by character for the strings in `Spelling`. The
parser is what bison makes of `bc-parser.yy`: it has a stack of `YYMAXDEPTH` symbols, on which a right-recursive list stays until
its last element is read, and `out` is the function whose rule was reduced last.

`CompiledProgram` chooses a program, writes it as tokens, parses and compiles these in its initial state and lets
`Interpreter` run the result one instruction at a time. The tree that was parsed must be the one that was written
(`ReadsBack`). When the machine stops, output and ending must be those of
`TreeInterpreter!Run` (`Agrees`). After the first instruction, three properties look at all the
compiled code, the paths no run takes included: indices lie within
tables, which are as `DefinedBehaviour` needs them (`TablesConsistent`), the operand stack has one depth at each position, enough for the
instruction there and exactly one value at a return (`StackBalanced`), and the text `mitscriptc` prints is read
back as the same functions, or fails as it must (`RoundTrip`; `tests/a3/run-tests.sh` runs programs that way). No collection
happens in these runs: `vm` shows that none can be noticed.

## Runs

| run | instance | shows |
|---|---|---|
| `heap_graphs` | 3 objects, 1 static with a pointer to itself, always full | nothing reachable freed, nothing else kept, no re-entry; the invariant of the proofs |
| `heap_contract` | 2 objects, 1 static, 1 tracked byte each, one byte for the machine and for each place in `stack_frames_`, a heap always full and one filled by two objects and their frames, fairness | typing, marks clear between collections, the account balances; the collector implements `AbstractHeap`; collections end and free what was garbage |
| `heap_list` | 4 nodes, a counter up to 3, fairness | list and heap agree, the iterator is sound, `ObjectRegistry` is implemented, the sweep ends; the invariant of the proofs |
| `object_count` | 4 nodes, a counter up to 3 | **violated**: the counter wraps |
| `vm` | 7 program shapes with up to 5 open instructions, two words to type, 14 addresses, two machines | pointers lead, calls leave callers alone, no undefined behaviour in a program with consistent tables, the invariant of the proofs; a collection cannot be observed as long as behaviour is defined |
| `bytecode_references` | one program in the shape the bytecode parser leaves it | **violated**: `push_ref` finds no reference |
| `source_parser` | 7 vocabularies of 6 to 10 tokens, programs of up to 11 tokens and 4 opened brackets, 5-bit integers | exactly what the grammar derives is parsed, to its tree; the token reported stays the reported one |
| `compiled` | 2174 programs, 5-bit integers, a bison stack of 90 | programs are parsed as they were written; compiled code does what the tree says; tables are consistent; operand stacks are balanced on every path; bytecode text is read back |
| `loop_return` | one program | **violated**: a function whose only return is in a loop that does not run |
| `undefined_variable` | `tests/a5/private/bad/bad02` | **violated**: the machine ends with an exception nothing catches |
| `operand_order` | one program | **violated**: the right operand of `<` is evaluated first |
| `uninitialised_global` | `tests/a5/private/bad/bad15` | **violated**: a global nobody assigned is `None` |

Why the bounds are enough. Three objects give every shape that matters to marking: a
chain, a cycle, a shared successor, garbage beside each of these. Two
objects suffice where the property is about one object and the account or
about one collection after another. Four list nodes allow a run of erasures at
the head, in the middle and at the end, with survivors between; a counter
of two bits (`UINT16_MAX` = 3) wraps with four nodes as the code's 16 bits do with 65 536. Fourteen addresses hold the global frame, the closures of its functions, two calls with
their references and a few values; a program that needs more waits until a collection
frees some, so reuse of addresses happens constantly. The machine that never
collects has as many, so the last of the open instructions may find no memory there; both take a step together or neither does. Both
are given the same word when they ask for one.

The vocabularies of `source_parser` each begin where one part of the grammar is reached and offer the tokens
that part looks at: binary operators of all levels and unary ones, parentheses, left sides with calls and
assignments (the two that are parsed again), `if` with and without `else`, `while`, parameters, records. Eight to
eleven tokens, of which at most three or four open a bracket (`opening`), are enough for three operators in a row, an index within an index, a nested block
and each list with none, one and two elements. After an error only one more token is read, which is all the
error can depend on. With 5-bit integers the constant 16 is the first that `stoi` rejects.

The programs of `compiled` are four families (`MCCompiledProgram`). *Scopes*: `x` assigned, read or
declared global in any of main, `f`, `g` inside `f` and `k` inside `g`, together with a
parameter captured across one and two levels; every combination, called twice so that frames of
one function coexist. *Control*: two statements in the body of a loop followed by a rest, with
`if`, `if else`, inner loops and returns in every position. *Operators*: each operator over
operands of each kind, one of them a call that prints. *Others*: records, methods, native functions and what may
be done to them, recursion, exceptions, `return` in main, the limits of integers, names that are keywords of
bytecode, strings with quotes, backslashes and line ends. With `YYMAXDEPTH` 90 some 150 programs exceed bison's stack, others
stay below it by one. `MaxAddress` is
30, which no program reaches: the machine would stop there, and TLC would report a deadlock. The following programs are not among them, because the two implementations
disagree on them. For globals read before they are assigned two tests decide, and the machine is wrong
(`uninitialised_global`). For the others no document does, or the reason is one a violated run
shows: `intcast` of values other than strings; a name declared global only in a function compiled after its first use; a call
of, or an assignment into, something wrong with effects in the arguments or the right side;
`fun(x, x)`. A program without statements is left out as well, although the specification allows it (see the disagreements below).

Fairness. `CollectedHeap` assumes `WF(GcStep)` and `HeapList` `WF(Sweep)`:
`gc()` is an ordinary call of a single thread and, once entered, runs to its end.
Nothing is assumed of the program: it may loop without ever allocating. The
virtual machine has no liveness property.

Every property of a passing run comes with a mutant, a definition changed the way a
slip in the code would change it, under which TLC finds the property violated. Those
definitions stand before the originals in the modules and are used nowhere else.

## What the violated runs show

* `call()` makes references from `local_reference_indices`, which only the
  compiler fills in. A function read with `-b` that has `local_ref_vars` gets none, and
  its first `push_ref` throws.
* `findReturn` counts a return inside a `while` body, so the compiler leaves out the
  final `return None`; if the loop does not run, `call()` finds no value and throws
  `InsufficientStackException`. The specification says the call evaluates to `None`.
* A variable that nobody defines becomes a free variable of main, whose instruction keeps a name in place
  of an index. Executing it throws `std::bad_optional_access`, which `main()` does not catch; a test expects
  `UninitializedVariableException`.
* `<` and `<=` are compiled as `>` and `>=` with the operands swapped, their evaluation included. The
  specification and the tree interpreter evaluate the left one first.
* Every global is `None` until it is assigned, and nothing remembers whether it was. A function that calls a
  global too early ends with `IllegalCastException`; two tests expect `UninitializedVariableException`, which is how the
  tree interpreter ends.
* `size_` of `LinkedList` is `uint16_t` and `dump()` prints it as the number of objects (`gc.h:290-301`): it is that number
  modulo 65536. `gc/main.cpp` alone registers more. Nothing else reads it, so no collection goes wrong.

Other disagreements the models show, for which there is no run of their own:

* A file without statements is parsed to `Program(nullptr)` and `compiler.cpp:332` dereferences the null
  main block, where the tree interpreter checks it (`interpreter.h:265`); the specification (page 10) allows such a program, and
  `tests/a1/for_testing/good8.mit` is one. `NotLoaded` makes it undefined behaviour, with which `Agrees` is violated.
* `initializeNativeFunctions` overwrites places 0 to 2 of main's table of functions. The compiler, and all but one
  of the bytecode tests, leave them room; `vm/tests/test1.mitbc` has its own function in place 0 and none in places 1
  and 2, which are written all the same. `vm` runs it: `Boot` ends it as `undefined`.
* `instructions.h:65-67` documents `store_ref` with the value on top of the
  reference; the machine wants the reference on top (`interpreter.cpp:51`), and the compiler puts it there. `Agrees` says that the two
  fit each other, not which of them is as documented.
* A program with a variable or field called `add`, `eq`, `names` or another of the 45 keywords of bytecode
  compiles to a text that `mitscript -b` rejects. The script `tests/a3/run-tests.sh` runs every test that way, and one
  of the tests beside it calls a function `eq`. `RoundTrip`, which passes, says that this and the stack of bison are the only ways to fail.
* A function of roughly 9950 instructions or more exhausts bison's stack. `bcparse` then returns 2,
  `bytecode-interpreter.cpp:106` checks for 1 only, and the machine runs the function reduced last, or an
  uninitialized pointer (the second case of `RoundTrip`; `out` in `BytecodeText`).
* An integer constant beyond 32 bits in a source file ends the program with `std::out_of_range`, which nobody catches
  (`terminated` in `ParsesGrammar`).

## Proofs

Every theorem holds for all values of the constants that satisfy the named
assumptions; TLC evaluates these assumptions on the instances it checks.

| module | theorems | assumptions |
|---|---|---|
| `CollectedHeapProofs` | `IInv`, `NoDangling`, `SweepExact`, `MarksCleared`, `NoReentry`; `CollectedHeap` implements `AbstractHeap` (`Collector`) | addresses of objects and of static collectables differ, static collectables point to static ones only, sizes are natural numbers |
| `HeapAccountProofs` | `MemoryBalanced`, `TypeOK` | the same |
| `HeapListProofs` | `IInv`, `TypeOK`, `ListHoldsHeap`, `IteratorStandsOnList`; `HeapList` implements `ObjectRegistry` (`Registers`) | `Null` is not a node, `UINT16_MAX` is a natural number |
| `InterpreterTheorems` | `IInv`, `TypeOK`, `PointersLead`, `CallersUntouched`, `DefinedBehaviour` | at least one address, a positive `INT_MAX`, `atoi` gives an int, field names are strings, programs are typed (`ProgramsAssumption`) |
| `CollectionTransparentProofs` | `Indistinguishable` | the same |

A program is typed when what the C++ declarations say of it holds: its constants and operands have
their types and its functions are found. It may still be any bytecode: wrong operands, indices
outside tables, jumps anywhere, frames without references. `DefinedBehaviour` alone is about fewer
programs, those with consistent tables (`ConsistentTable`): parameters are among the local variables, `store_loc` and the variables that become
references stay in range, `alloc_closure` follows a `load_func` and one `push_ref` for each free
variable of that function, no jump leads in between, and main has a name, room for the three native functions and no references. Everything else
may still be wrong. `CompiledProgram` has TLC check that the compiler's tables are typed and consistent
(`TablesConsistent`), and `vm` that five of its seven shapes are.

### The collector

The properties are not inductive by themselves. The invariant is `IInv`, the conjunction of

* `GraphTyped`: the types of everything but the account;
* `Phases`: what is empty in which phase (outside an instruction no C++ local holds an
  object, outside the mark loop no root is left to do and no `follow()` is in progress,
  outside the sweep nothing is unswept);
* `HeapClosed`: the survivors (every registered object, or, during the sweep, those it will
  keep) hold all roots and locals and point only to survivors and static collectables. This is
  stronger than `NoDangling`: between collections even garbage never points to a freed object;
* `Marks`: no object is marked between collections, and during the sweep only those ahead of the iterator;
* `Recursion`: the calls of `follow()` in progress are distinct marked
  collectables, and only they have anything pending;
* `Tricolour`: during the mark phase a marked object's successors are marked or still pending in its
  `follow()`, and the roots are marked or still to do. It says nothing of static
  collectables, whose marks may be old;
* `Precise`: every marked object, and then every survivor, is reachable from the roots.

`Tricolour` at the end of the mark phase, when nothing is pending, says the marked objects are a closed
set that contains the roots, hence contain `Reach(roots)`; `Precise` is
the converse. Both together give `SweepExact`, and that gives `NoDangling` across the sweep
and the one step of the refinement that is not a stutter, the end of
the mark phase.

The memory account is a sum over the registered objects, which are finitely many at any moment, and three numbers that
belong to no object. The invariant `AccountInv` adds to
`IInv` and `MemoryBalanced` that nothing is charged to an address without an object, so that
the next object there starts from its base size, and the types of the account; that the bytes in use are not negative
(`TypeOK`) follows from the balance. A step changes the charge of one object
at most, or registers or deletes one, and `SumAny` of `SetInduction` says that a sum may be taken
with any object last.

### The list

`ListHoldsHeap` speaks of the nodes that can be walked to from `head_` along `next_`. It is not
inductive: were two nodes to have the same successor, unlinking one would lose or resurrect
a part of the list. `Linear` excludes that, and with it the list is a chain: the walk from a node is the node
and the walk from its successor, `push_back` puts a node in front of a walk and `erase`
takes exactly one node out of those that pass it. `made` is finite, which is what
makes a walk end. In the refinement, the objects still to be visited (`unvisited` of `ObjectRegistry`) are the walk from
`current_`, and each step of the list is a step of the registry or a stutter.

### The machine

`PointersLead` speaks of what the machine can reach. It cannot be proved from itself: a collection
keeps what is reachable *then*, and an instruction that stores a pointer changes what is
reachable afterwards. `SoundHeap` is therefore about every object that exists, reachable or not: whatever
an operand, a variable, a field, a closure or a reference points to exists and has a kind
its user expects. This is closed under every instruction, because an instruction
finds its pointers in objects, and under collection, because the objects that are kept are
closed under `Pointers`. `SoundFrames` says the frames of the calls in progress exist and are
distinct; the latter is what `CallersUntouched` rests on, since an instruction writes to the
operand stack of the innermost frame only.

Undefined behaviour is a matter of slots that nothing fills. `Value` and `Slot` contain the
uninitialised pointer only for tables that are not consistent, so that `SoundHeap` says of the others that no
object holds one. What keeps it so is `Fits`: a closure has as many references as its function has free
variables, and a reference is to a variable its frame has. The number of references is decided by the operand of `alloc_closure`, the
function by a `load_func` some instructions before, and `Capturing` connects the two: at each `push_ref` of a capture and at its
`alloc_closure`, the function lies on the operand stack as deep as `alloc_closure` will look for it. No
other instruction, no return and no jump leads there. `Activations` gives each frame the variables of its function, which is
why writing them unchecked is safe, and puts each caller at a `call`, which is why no return leads into a capture.

The argument has four layers.

* *What allocation gives.* `Fresh(k)` is the k-th free address. That it exists, is free and
  differs for each k is `RankExists` of `SetInduction`.
* *What an instruction does to the heap.* `Keeps` says that no object changes its kind, so pointers that
  led somewhere still do (`KeepsSound`). Each instruction has a lemma that it takes sound operands to
  a sound result, by the exception it throws or the way it ends (`Continue`, `Jump`, `Enter`, `Answer`).
* *What a collection keeps.* `Reach` goes from object to object `MaxAddress` times. That this is enough
  to arrive at a closed set is a pigeonhole argument (`RoundsExist`, `ReachWithin`, `ReachClosed`): a round that adds
  nothing is the last one that can, and there are no more rounds that add something than
  addresses.
* *Where a step leads* (`InterpreterTheorems`). With consistent tables an instruction ends with an exception other
  than undefined behaviour or before the next instruction (`GoesOn`), outside every capture unless it is a `load_func` or a
  `push_ref`; these two, jumps, calls and returns have lemmas of their own. Printing goes from level to level
  of nested records (`ShownRounds`), and on every level it fails as a value may, never with undefined behaviour
  (`PrintingDefined`).

### The two machines

`Indistinguishable` compares what the two machines hold, at different addresses. It is not inductive: two operands may
be alike, both records with the same fields, and lead to fields that differ. `Twins` says more: there is a one-to-one
relation `m` between some addresses of the first heap and addresses of the second under which
each object is a `Copy` of the other (equal once `m` has moved its pointers), whatever an object of the relation points to
is in it as well, and the frames of the calls in progress are related. `TwinInv` is this, the invariant of the first machine and that both are at
the same place and have printed the same, as long as nothing undefined happened.

* An instruction looks at related operands only. Each has a lemma that it fails in both machines or in neither, with the
  same exception, and otherwise leaves copies behind. The objects it makes lie at addresses the two
  heaps chose independently; `m` grows by them (`GrownRelation`, `GrownTwins`). `==` on records compares addresses, which is why `m` must be one to one.
* Printing a record is the same on each level of nested records, by induction on the level (`SameShown`).
* A collection changes the first heap alone. `m` is restricted to what is live (`Live`); its domain stays closed because nothing
  live points to anything that is not (`SameCollect`). This is the step an incomplete root set or an
  incomplete `follow()` would break.

In a program whose tables are not consistent the collector may follow a slot nothing filled. Only the first
machine does this, and it ends with undefined behaviour there: the property does not speak of what follows. By
`DefinedBehaviourCorrect` programs with consistent tables never come to that.

The theorem is about two runs that both have memory for the next instruction: a machine without a free address
waits, and the other one with it.

Induction is stated with sets throughout (`NatSetInduction`: a set of numbers that contains 0 and the
successor of each of its members is `Nat`), because the library's induction theorems take an operator as
parameter, which the provers cannot instantiate.

TLC checks the inductive invariants as well (`heap_graphs`, `heap_list`, `vm`), except
`AccountInv`, whose part beyond `IInv` and `MemoryBalanced` only the proof needs, and `TwinInv`, which quantifies over relations between addresses.

### Only model-checked

* Termination and liveness (`CollectionEnds`, `GarbageFreed`, `SweepEnds`): the prover does not reason
  about fairness.
* Everything about `Parser`, `TreeConverter`, `Compiler`, `TreeInterpreter` and `BytecodeText`, which are recursive
  over tokens and trees and therefore out of the prover's reach. So what `DefinedBehaviourCorrect` asks of a program's tables is proved of
  no compiler output; TLC checks it for the 2174 programs of `compiled`.

## Not modelled

* The memory of syntax trees. In the tree interpreter `globals()` and `assigns()` copy nodes, and the
  destructors of `AST.cpp`, written for the compiler, free what the copies point to: `TreeInterpreter` is the
  interpreter without those destructors.
* The depth of the C++ stack (recursive loops of the tree interpreter, deep nesting in the parsers, long chains in the
  mark phase); failure of `new`; the time the parser takes, which doubles with each level of
  nested left sides. A record that contains itself ends a run when it is printed.
* The conversion of the `-mem` argument (see the hazards in `PROJECT.json`).
* `dump()`, the usage figures of the process, debug output, the text of error messages.
* The lexers, ANTLR's and flex's, beyond the tokens they deliver, and so the escapes in string constants of a source
  file; layout, line numbers and the wording of errors; the debug printing of trees (`to_string` in `CST.cpp`, the
  `PrettyPrinter` of the tree interpreter); files and arguments.
* Tests, benchmarks and the vendored benchmark library.

## Plan

1. *Done*: `CollectedHeap` with its abstraction and proofs, `HeapList`,
   `Interpreter`, `CollectionTransparent`.
2. *Done*: `Syntax`, `Compiler`, `TreeInterpreter` and their composition with the machine in
   `CompiledProgram`.
3. *Done*: `Interpreter` and `TreeInterpreter` with integers of a fixed width.
4. *Done*: `Parser`, `TreeConverter` and `Grammar`, compared in `SourceParser` and composed with the
   compiler; `BytecodeText`, composed with the compiler's output.
5. *Done*: proofs about `CollectedHeap`, its memory account, `HeapList` and `Interpreter`.
6. *Done*: `DefinedBehaviour` as a theorem, for programs whose tables satisfy `ConsistentTable`.
7. *Done*: `Indistinguishable` as a theorem. For this the machine's step takes the typed word as a parameter, and
   both machines are given the same one.

Left out on purpose: the `-mem` argument. It decides when `isFull()` holds; `CollectedHeap` takes any limit and
`Interpreter` leaves the moment of a collection open, so the theorems hold whichever limit the conversion gives.
