# Verification of the Bery compiler and runtime

Bery is a small compiled language: a C++ front end (lexer, parser, importer,
semantic analyser) writes LLVM IR, and the compiled program links against a
runtime, BRE (`src/bre`), with a mark and sweep garbage collector. This
directory holds TLA+ models of its parts, TLC configurations that check them on
small instances, and TLAPS proofs of the main results for every value of the
constants. Paths below are relative to `src/` of the repository, whose compiler
sources are themselves under `src/src`; `bre` stands for `src/bre/src` and
`irgen` for `src/codegen/irgen`.

## 1. Inventory

| Component | State it keeps | Operations | What is hard | What makes it correct |
|---|---|---|---|---|
| Managed heap and collector (`bre/bery_alloc.cpp`, `bery_gc.cpp`, `bery_runtime.cpp`) | object list `heapHead`, mark bits, counters, `gcEnabled` | `bery_alloc`, `bery_gc_collect` (mark, sweep), `bery_object_destroy`, startup, shutdown | destructors called from the sweep call back into `bery_alloc`; stale mark bits; unlinking from the list being walked; thresholds | nothing reachable is freed; a collection leaves nothing unreachable; counters equal the list; collections end |
| Root stack (`bre/bery_gc_roots.cpp`) | list `rootStackHead` | push, pop | a pop of an empty list is silent, so imbalance shows late | the list is what the emitted code thinks it is |
| Root discipline of emitted code (`irgen/gc.cpp`, `controlflow.cpp`, `declarations.cpp`) | `gcRootScopeStack`, `breakTracker`, `continueTracker` at compile time; the root list at run time | scopes, loops, switch, break, continue, declarations, calls, return | jumps out of scopes, nesting of calls, order of rooting and initialising | every live variable is rooted; no caller's root is popped; no dead slot is rooted |
| Type registry (`bre/bery_type_registry.cpp`) | growing table of `BeryTypeInfo` | register, get | the table moves when it grows | an id keeps its meaning |
| Dynamic arrays (`bre/bery_array.cpp`) | length, capacity, buffer | new, push, pop, insert, remove, get, set, length | growth, index boundaries, an allocation (and so a collection) in the middle of an operation, words beyond the length | it behaves as a list |
| Strings (`bre/bery_string.cpp`) | immutable bytes | concat, substring, convert | allocation of results | only the allocations touch shared state |
| Console I/O (`bre/bery_native.cpp`) | output buffer and position | print, flush, input | output longer than the buffer, input while output is pending, exit | every byte is written once, in order |
| Native standard library (`bre/bery_stdlib_*.cpp`) | none, or the C library's | numeric functions, files, time | - | out of scope |
| Importer and mangler (`src/importer`) | `importedFiles` | resolve, load, mangle | recursion, files reached twice, names mangled at each level | each module is loaded once; its names are what its importers expect |
| Lexer (`src/lexer`) | cursor, line, column | `tokanize` and a scan function per kind of token | literals and comments that the end of the file cuts off; operators that begin alike | nothing is read past the end or dropped; operators are as long as can be |
| Parser (`src/parser`) | cursor, error and run-block flags | recursive descent, panic mode | an error thrown deep inside unwinds to a statement loop; `synchronize` counts braces | ends on every input; recovery stays inside the construct that failed; what is accepted is balanced |
| Semantic analyser (`src/sema`) | scope stack, loop and switch depth, current class and function | traversal | scopes balanced on every path; the generator repeats the walk | what it accepts the generator can generate |
| Type checker (`src/sema/check_*.cpp`, `typechecker*.cpp`) | none of its own | resolution of names, overloads, members; typing rules | promotion, overriding, access | a call means the function the generator will call |
| Code generation (`src/codegen/codegen.cpp`, `irgen`) | the same symbol table, class layouts, functions by emitted name, jump targets | text of LLVM IR | it resolves every name, call and jump again, in another order; temporaries that no root covers | it agrees with the analyser |
| LLVM helpers (`src/llvm`) | output text | formatting | - | out of scope |
| Diagnostics (`src/diagnostic`) | messages, two counters | report, print | - | an error stops the pipeline |
| Driver (`cli/commands`) | files on disk | compile, run | a stage that fails after earlier ones wrote files; files of earlier invocations | exit code and files left agree; what runs was built from this source |

How they interact. The driver runs lexer, parser, importer, analyser and code
generator in turn, sharing one diagnostic engine; the importer runs a lexer and
a parser of its own for each module. The emitted program calls the runtime:
`bery_alloc` for every object, `bery_gc_push_root`/`pop_root` around every
scope, the array, string and print functions, `bery_object_destroy` for
`delete`. The runtime calls back only through a type's destructor, from the
sweep, from `bery_object_destroy` and from `bery_runtime_shutdown`. There are
no threads: what makes interleavings here are these callbacks and the fact that
any allocation may run a collection.

## 2. The modules

### ManagedHeap: what the runtime promises

A set of live objects, the part the program can reach, and collections that
happen in one step and leave exactly what is reachable. Between two collections
at most `AllocThreshold` objects are made while the collector is on. A program
that deletes an object may keep other references to it; what happens when it
follows one is not promised, and ends the abstract run. There are no marks,
lists or cursors.

### BeryHeap: the runtime's heap, step by step

One variable per piece of the runtime's state: `heap` is the list from
`heapHead` (newest first), `marked`, `typeId` and `ptr` are the header fields
and the payload's words, `rootStack` and `slotVal` the roots, the three counters
are the globals of `bery_gc.cpp`. `phase` says where the single thread is,
`rootCur`, `list` and `cur` are the local variables of `markPhase` and
`sweepPhase`, `want` is the argument of the pending `bery_alloc`, and `susp` the
stack of sweeps and destroys that wait for a destructor to return.

| Actions | Code |
|---|---|
| `BeryAlloc`, `Malloc`, `MallocFails` | `bery_alloc.cpp:9-27`: the collection it may begin with, then the header |
| `MarkRoot`, `EndRoots`, `TraceObject`, `EndTrace` | `bery_gc.cpp:22-53`, one step per iteration of its loops |
| `SweepKeep`, `SweepFree`, `EndSweep`, `Resume` | `bery_gc.cpp:56-83`; `SweepFree` unlinks, then either releases the object or enters its allocating destructor, and `Resume` is that destructor's return |
| `PushRoot`, `PopRoot` | `bery_gc_roots.cpp` |
| `StoreSlot`, `StoreWord` | stores of the emitted code and `bery_array_set` |
| `Delete`, `DeleteAgain` | `bery_alloc.cpp:29-50`, called by `delete x` (`expressions.cpp:253-263`) for an object on the list and for one that no longer is |
| `UseDangling` | a load, store or call of the emitted code through a pointer to a deleted object |
| `Shutdown` | `bery_runtime.cpp:28-51` |

A collection is broken into the steps of its loops because a destructor that
allocates starts a second collection in the middle of the first: `DtorAllocs`
is the set of types that have one (a destructor that builds a string, as
`examples/classes/delete.bry` does). `phase = "uaf"` is the state after freed
memory has been read: undefined behaviour, after which nothing is claimed.
`deleted` is history: what the program's own `delete` freed and `malloc` has not
handed out again.

The program is the environment. A fresh object is stored before the next
allocation; whether the emitted code does that, and roots what it should, is
what ShadowStack examines. Otherwise it does as it likes: class values are
copied (`cloneClassInstance`) unless `ref` shares them (`genClassCopyValue`), so
two slots may hold one object, and `delete` checks nothing. After a `delete`
through one of them the other dangles. The program may copy the dangling
pointer, lose it, use it (`UseDangling`) or delete it again (`DeleteAgain`: the
search of the list falls through, the counters are taken down once more,
wrapping below zero, and the memory is freed twice); a collection may follow it
(`MarkRoot`, `TraceObject`), or `malloc` may hand the address out again, and
then it means the new object. `delete` of an array element or a field
(`expressions.cpp:180-252`) is not modelled apart from that of a variable.

Abstractions: the worklist is a set (any order of taking from a stack marks the
same objects); a payload is its pointer-sized words; freed memory is blanked,
since the steps that read it go to `uaf` whatever they find; `bery_gc_collect` called by hand is not a step
of its own, because the emitted code never calls it.

### ShadowStack: the roots that emitted code pushes and pops

The module runs the emitted code. A step is a statement of the program; `scopes`
are the open scopes of all activations, each with the number of roots the
generator had counted for it (`gcRootScopeStack`), the sum of the counts of its
activation (what `return` pops) and the index of its activation. `rootStack` is
the runtime's list, `alloc` says which activation a stack slot belongs to and
`written` which slots hold a value. `vars` and `base` of a scope and `leaked`
are history, read by no guard: they let the properties speak of the variables a
scope declared, of the list it was entered with, and of programs in which no
jump has left roots behind.

| Actions | Code |
|---|---|
| `VarDecl`, `Store` | `genVarDecl` (`declarations.cpp:196-215`): root first, then the initialiser's value |
| `StoredDecl` | parameters (`305-307`), `genArrayDecl` (`217-277`), the container of a for-in: stored first |
| `EnterBlock`, `EnterCase`, `EnterFor`, `EnterBody`, `PopGCScope` | `controlflow.cpp`: block, if, switch, for, for-in, while, do-while |
| `Break`, `Continue` | `controlflow.cpp:158-166`: a bare branch, no pops |
| `Call`, `Return`, `MainEnds` | `genFuncDef`, `genReturnStmt`, the end of `main` |

A counter at compile time and a list at run time agree in this model because a
declaration is executed whenever a later point of its scope is; the language
has no `goto`. Values held only in registers while an expression is evaluated
are not in the model.

### ElementList and BeryArray: dynamic arrays

`ElementList` is what a program expects of an array: a numbered list that each
operation changes in one step. It leaves open only what an insertion past the
end does. `BeryArray` is `bery_array.cpp`: `length`, `capacity` and `data` are
the fields of the array, `pc` says which loop the call in progress is in,
`index`, `element` and `i` are its arguments and loop variable, `result` is what
the last call that returns something returned.

| Actions | Code |
|---|---|
| `New` | `bery_array_new`, `allocateDataBuffer` (18-32) |
| `Push`, `Pop`, `Get`, `Length` | one step each (44-57, 76-79, 90-92); `Exhausted` and `Grown` are `growIfNeeded` (34-42) |
| `Insert`, `ShiftUp`, `InsertStore` | `bery_array_insert`, an iteration of its loop per step (59-64) |
| `Remove`, `ShiftDown`, `RemoveEnd` | `bery_array_remove` (66-74) |
| `Set`, `Fill`, `SetStore` | `bery_array_set` (81-88) |

Indices are the program's: `AsSize` is the sign extension to 64 bits followed by
the reading as `size_t` (`expressions.cpp:962-976`). `pc = "oom"` is the death of
the process in an allocation, `"corrupt"` the state after a store outside the
buffer, after which nothing is claimed. One array is modelled; which objects a
collection started by `growIfNeeded` may free is not part of this module.

### Importer: loading and renaming modules

`stack` holds the calls of `loadModule` in progress, the program's own at the
bottom; a call has the file, the module name, whether the import is open
(prelude), the imports still to do (`todo`) and the globals collected. `imports`
and `malformed` are the input: what each file imports and which do not parse.

| Actions | Code |
|---|---|
| `LoadPrelude` | `importer.cpp:45-50`, one prelude module per step |
| `ImportStmt` | 52-61 for the program, 98-107 for a module; both call `LoadModule` (68-97) |
| `ModuleLoaded` | 113-133: collect names, `Mangle` unless open, hand over |
| `ImportsResolved` | 66 |

Every module defines one global, by the same name in all of them, referring to
itself and to the globals of what its file imports; a qualified name is the
sequence of module names in front. A mangler that forgets something therefore
makes two names collide or leaves a reference dangling. Left out: several
globals in a module, classes (which are not among the names collected), locals
that share a global's name.

### Lexer, Parser, Console and CompileDriver: one invocation

`CompileDriver` is `bery compile` and `bery run`. `stage` says which pass is at
work; the lexer and the parser run inside it step by step and share `errors`,
the engine's count as a Boolean, with it. `ll`, `obj` and `exe` are the files
beside the source: what was there `"before"`, what this invocation made
(`"new"`), or `"none"`.

| Actions | Code |
|---|---|
| `Open` | the toolchain, the library, the source: exit codes 10, 11, 3 (`cmd_compile.cpp:124-135`, `83-88`) |
| `Lex`, `Parse`, `SyntaxChecked` | 98-107 |
| `SyntaxAborted` | 101-102, when a conversion of the parser throws what nothing catches |
| `ResolveImports` | 109-110 and the exits of `importer.cpp:52-109`: ERROR501 is counted by the driver's engine, what is wrong in a module only by the module's |
| `Analyze` | 112-118, with `Counted` for `DiagnosticEngine::report`; `AfterErrors` and `FollowAncestors` are the ways the analyser comes to grief: asking for what it has just reported missing (`typechecker_unary.cpp:33-46`), and walking the ancestors of a class that inherits from itself (`check_access.cpp:246-256`, `typechecker_oop.cpp`) |
| `Generate` | 120-121; it may abort or crash, in ways `SemaCodegen` goes into |
| `CompileIR`, `Link` | 142-159 |
| `Run`, `RunBinary` | `cmd_run.cpp`; `Run` is a step of the program, as far as its output goes (`Console`) |

`Lexer` has an action per scan function and a step per turn of its loops. `next`
holds the characters looked at and not consumed, which the lexer chooses when it
looks (`Look`), so that a source is no longer than what is read of it; `scan` is
the function in progress, `past` how far the cursor is behind the end. Characters
are classes: those that some branch tells apart. `last` is history: whether the
last `scanToken` made a token, a comment or an error.

`Parser` writes a parse function as a rule: the sequence of tokens it consumes
and functions it calls, chosen by the tokens ahead. A rule with a number in it
may also end the compiler (`Convert`): `stoi`, `stoll` and `stod` throw what no
`catch` of the parser takes. Braces, the semicolon and the comma have names of
letters (`"lbrace"`); `Symbol` is all that a rule may put on the work. `work` is
what the functions in progress have still to do, `tries` the try blocks of the statement loops with
the height of `work` they unwind to; `synchronize` is an action per token it
skips, with its local `depth`. `nest` and `lax` are history: the balance of
braces, and that a brace was taken for something else (the parser's `advance`
consumes whatever follows a type, and a stray `else` opens a block without its
brace).

`Console` numbers the bytes a program prints; `bufferWrite` is a turn of that
function's loop and `after` what its caller goes on to do. A crash may happen
between any two steps.

### SemaCodegen: two walks over one program

The analyser and the generator walk the same tree with the same symbol table,
one after the other, and the generator resolves every name, call and jump a
second time. The module does both walks. A program is its definitions (chosen
from `Programs`) and, for each body, a flat sequence of items, one of which may
open a construct that a later one closes; the analyser's walk chooses the items,
keeping with each what it resolved, and the generator's reads them again.
`scopes` is `SymbolTable::scopes`, `loopDepth` and `loopOrSwitchDepth` are the
analyser's, `breakTracker` and `continueTracker` the generator's, `functions` and
`layouts` what it has registered so far. `made` is history: what the last step
of the generator resolved, beside what the analyser had.

| Actions | Code |
|---|---|
| `CollectGlobals`, `SemaVar`, `SemaClass`, `SemaEnter`, `SemaLeave` | `sema.cpp`, `sema_declarations.cpp` |
| `SemaIf`, `SemaWhile`, `SemaFor`, `SemaForIn`, `SemaSwitch`, `SemaCase`, `SemaClose`, `SemaJump`, `SemaReturn` | `sema_controlflow.cpp` |
| `SemaUse`, `SemaDecl`, `SemaCall`, `SemaField`, `SemaBuiltin` | `check_access.cpp`, `check_calls.cpp`, `typechecker_oop.cpp`: `ResolveOverload`, `CheckCall`, `CheckSuper`, `CheckNew`, `CheckField` |
| `GenClass`, `GenGlobal`, `GenEnter`, `GenLeave` | `codegen.cpp:40-174`, `declarations.cpp`: classes in the order of inheritance, then functions, then globals, then the run block |
| `GenUse`, ..., `GenCallOrNew`, `GenField`, `GenBuiltin` | `expressions.cpp`, `controlflow.cpp`, `helpers.cpp` |

The analyser reports as many errors as it finds; the model stops at the first,
since after one nothing is generated. Types other than those overloads depend on
are left out; a chain of fields is one field of an object, `super.field` is left
out, and so are calls and fields in what the analyser does not look at.

### Proof modules

`BeryHeapProofs`, `ShadowStackProofs`, `BeryArrayProofs`, `ImporterProofs`,
`CompileDriverProofs`, `ConsoleProofs`, `ParserProofs` and `SemaCodegenProofs`
hold the theorems about the modules they are named after; the lexer's are in
`CompileDriverProofs`, and the parser's speak of the parser as the driver runs
it. The `MC` modules give TLC its instances.

## 3. What the runs check

All runs are exhaustive on their instance. Deadlock is not checked because each
system really stops: a program or the importer ends (`done`, `over`), reports an
error (`ERROR501`, `syntax`), runs out of memory (`oom`), or is in undefined
behaviour (`uaf`, `corrupt`).

| Run | Shows |
|---|---|
| `heap_invariants` | nothing reachable is freed but by the program's own `delete`; the tri-colour invariant of marking; the split of the list during the sweep; no mark bit survives; a collection is never late; every step of the sweep frees only unreachable objects and a finished collection has freed all of them; BeryHeap implements ManagedHeap |
| `heap_destructors` | with allocating destructors, nested collections and `delete`, the counters equal the list, an object whose destructor runs is neither found again by a collection nor reused, and every collection ends, cyclic data included |
| `heap_reentrant` (violated) | an allocating destructor run by the sweep breaks the collector |
| `heap_untraced` (violated) | fields no type lists as pointers are not traced |
| `roots` | until a jump leaves roots behind, the root list is exactly the variables in scope; whatever jumps leave, live variables stay rooted and callers' roots stay put |
| `roots_leak` (violated) | a jump out of a scope leaves roots of dead frames |
| `roots_unwritten` (violated) | a variable is rooted before it holds a value |
| `array` | the array, grown, shifted and filled a step at a time, is a list; every operation ends, with negative indices too |
| `importer` | each file is loaded once, none is lost, names do not collide, references of modules with one importer resolve; resolving ends, with cyclic imports, missing and malformed modules, and `io` shadowed by a file of the program |
| `frontend` | one invocation: the lexer takes operators at their longest, drops nothing and stays inside the source; the parser recovers inside the construct that failed, accepts only balanced files and ends; an error of any pass keeps every file from being written and shows in an exit code that is not 0; the compiler ends unless a class inherits from itself; a program that is run was built from this source; exit codes agree with the files left; output keeps its order, and what was printed before a println, a prompt or an exit is shown whatever follows |
| `names` | the generator reads the declarations the analyser checked, calls the functions it chose and jumps to the constructs it found, with balanced scopes, registers known and no abort but at enum members, at what the analyser does not look at and at fields of later classes; the exceptions in the properties are listed below |
| `importer_names` (violated) | a module gets the name of its first importer's place only |

Bounds. Three cells, and a word traced per array-like object, are enough for a
chain, a cycle and garbage beside a live object; `AllocThreshold = 2` and
`HeapThreshold = 5` let either threshold start a collection, before memory is
full and after a survivor. One slot suffices for the marking invariants (objects
hang on one another), two let a root be missed: `heap_invariants` has two and
takes them as symmetric.
`CountBound` caps the allocations of a run with the collector off, where the
count never returns to 0; `SizeMax = 15` is where unsigned counters wrap. In ShadowStack three slots, four scopes and a list of
three let a loop in a called function hold a block with a variable; a jump out
of it, a declaration after it and a return follow.
For BeryArray a buffer of four (`MaxCapacity`) is reached from one and two by
growing, and the indices go past it on both sides; `SizeModulus = 9` stands for
2^64: all that matters is that -1 becomes larger than any buffer. Two elements
and null are enough: the code never looks at an element, so a word that ends in
the wrong place shows for some assignment of two values to the places. For
Importer the program, the prelude's `io`, `a` and `b` give chains, diamonds and
cycles of three files; `c` is imported but has no file, and `MaxImports = 2` is
the most imports in one file.

For the front end, four characters behind one another hold every operator with
what follows it and every literal cut off by the end; four tokens behind each of
the beginnings of `MCStarts` (nothing, a parameter list, the methods of a class,
a switch, the head of a for) end in an error inside each kind of construct with
tokens left to recover on. A buffer of two bytes and strings of up to three fill
it, pass it and leave a rest; five bytes are printed in all. In `names`, the
program `Nested` has three items, so a jump lies in two constructs, and the
others two beside definitions chosen to shadow, inherit, overload and share
emitted names, or full of what the analyser does not look at.

Fairness. `CollectionTerminates`, `CallsEnd` and `ImportsEnd` assume weak
fairness of the steps inside the runtime, inside an array operation and of the
importer; `CompileEnds` weak fairness of the driver's next step, whichever it is.
Each is ordinary sequential code, so once entered it runs; nothing is assumed of
the program's own steps (`CompileEnds` asks only that the compiler gets to the
program's start or to an exit).

### The five violations

- `heap_reentrant`. `allocationCount` is reset only after the sweep
  (`bery_gc.cpp:82`), so an allocation made by a destructor inside the sweep
  finds the threshold still reached and collects again. The nested sweep clears
  every mark, and the outer one frees the reachable objects it had not passed.
- `heap_untraced`. Class types are registered with no pointer fields, and of an
  array the collector follows one word. An object that only an untraced field
  points to is freed while the program can still get to it. `ReachableIsAllocated`
  therefore speaks of what the collector traces; this run says what is missing.
- `roots_leak`. `break` and `continue` are bare branches (`controlflow.cpp:158-166`).
- `roots_unwritten`. `genVarDecl` pushes the root before it evaluates the
  initialiser (`declarations.cpp:210`).
- `importer_names`. A file is loaded once, under the first import that reaches
  it, and renamed at each level of that path (`importer.cpp:71`): if `b` is
  first imported by `a`, its function is `a.b.add`, and the program's own
  `import b` adds no `b.add`. `RefsResolve` states what remains true: names are
  right when no module is imported from two places.

### What the passing properties leave out, and why

Some properties carry exceptions, each a place where the code does less than one
would expect and no document promises more.

- `ReachableIsAllocated`, `ManagedSpec`: what the program deleted may stay
  reachable through `ref`. `Accounting`: a second delete of an object takes the
  counters down twice. Nothing in the language or the runtime prevents either.
- `AcceptedIsBalanced`: a stray `else` opens a block that has no brace of its own
  (`parser.cpp:158-161`), and `advance` after a type takes any token.
- `NothingDropped`: characters no case knows (`@`, `$`, bytes beyond ASCII)
  vanish, and so does a string that the file ends in behind a backslash
  (`lexer.cpp:536`).
- `ErrorsStop`: ERROR407, reported for the bounds of a `for` over a range
  (`sema_controlflow.cpp:337`), is not in `diagnostic_codes.h`; `report` prints a
  message about the compiler and does not count it, so compilation goes on. The
  exit code after an error need not be that of the pass (5, 6, or 1 for the
  importer): a literal or an array size out of range ends the parser by an
  exception (134, `parser_statements.cpp:55-58, 89`), and the analyser, which
  goes on after an error, aborts on `delete nosuch;` (134) or follows a null
  pointer (139).
- `CompileEnds`: a class that inherits from itself (ERROR335, ERROR337) leaves
  the analyser in a loop without end once a protected member is looked for in
  its lineage; other walks of the lineage recurse until the stack is full. Both
  may happen before the cycle is reported, if what uses the class comes first.
- `BuiltFromSource`: `generate` does not check its stream (`codegen.cpp:216`); if
  the file cannot be written, the IR left by an earlier failure is compiled.
- `FlushPoints`: `bery_runtime_shutdown` flushes before it runs the destructors.
- `NamesAgree`: `int x = x;` is the outer `x` for the analyser and the new
  one for the generator; inherited fields are in scope only in the generator;
  field initialisers are generated at each `new`, in the caller's scopes
  (`expressions.cpp:1069-1119`). Functions and methods are generated before the
  globals (`codegen.cpp:87-94`), which have no register then.
- `CallsMeetTarget`: a call of a method generated later, or a `new` of a later
  class, finds nothing and becomes `0` or `null`. All array types share an
  emitted name (`llvm/emit/struct.cpp:70-84`): of two overloads that differ only
  in what their arrays hold, the later one is called for both, or the one of a
  class nearer by.
- `AbortsUnseen`: `genFieldChainAddressing` aborts on enum members
  (`expressions.cpp:1188`). The analyser looks neither at the arguments of the
  methods of arrays and strings (`check_calls.cpp:26-51`) nor at the initialisers
  of arrays that are fields (`sema_declarations.cpp:274-281`), and the generator
  aborts on an unknown name in either: `int a[]; run { a.push(nosuch); }` is
  accepted. `classLayouts.at` (`expressions.cpp:1198`) throws for a field of an
  object whose class is generated later.

`bery run` returns what `system` returns; the shell sees its low byte, so a
program that exits with 1 reports success (`cmd_run.cpp:14`): `RunBinary` has
this, and `FilesTellExit` says nothing about the program's own code.

## 4. What is proved

For every number of cells, slots, types, words and thresholds:

- `TypeCorrect`: the types, allocating destructors included.
- `CollectionInTime`, `UnlinkedWhileDestroyed`, `CountersAgree`: with any
  destructors, those included that allocate and start collections of their own.
  `InTime` adds to `CollectsInTime` that an allocation which was let past the
  threshold test found the count below it. `OnceInv` adds that the list has no
  duplicate and no suspended object on it, and that a `delete` is only ever the
  outermost call: `Release` then takes out exactly one object, of which the two
  counters forget exactly one and its size. The sum in `Accounting` is a fold
  over the types; that it changes by one term when one object comes or goes is
  proved for any finite set of types. The counters are claimed until `uaf`.
- `HeapInvariant`, `ReachableStaysAllocated`, `MarkSweepInvariants`, `SweepSafe`,
  `SweepComplete`, `SweepIsExact`: the collector is safe and complete. These assume
  `NoAllocDtors`, that no destructor allocates; `heap_reentrant` shows that the
  assumption cannot be dropped. The invariant `IInv` joins to the checked
  properties what makes them inductive: the list has no duplicate, no cell off
  the list has a mark bit, an unrooted slot is null, no call is suspended, and
  what a collection has marked is on the list (`OnList`), since a dangling
  pointer it meets ends it in `uaf`.
  `ReachableIsAllocated` alone is not inductive: that the sweep may free an
  unmarked object needs `SweepSplit`, which needs at its start that marking was
  complete (`TriColour` with an empty worklist), which needs clean bits before
  (`MarksClear`). `Reach` is defined as a least closed set, so that proofs
  reason with "every closed set contains it" and no induction on paths is needed.
- `Refinement`: `Spec => ManagedSpec`. During a collection the abstract heap is
  already the reachable objects on the list, so the abstract `Collect` happens
  when marking starts and the rest of the collection stutters. A dangling
  pointer stays in `reach` and is not in `live`; a collection that follows it is
  the abstract `Exit`, as is the program's own use of it.
- `RootInvariant`, `LiveVariablesRooted`, `CallersRootsKept`: the root list is
  made of one segment per open scope, from `base(i)` to `base(i + 1)`, each at
  least as long as the scope's count and holding the scope's variables. Jumps
  leave surplus in the segment of the scope they land in, always on top, and
  pops take from the top of a segment no more than was counted.
- `ScopesTypeCorrect`: the types of ShadowStack, and that the scopes of an
  activation lie together.
- `RootsAreScopes`: as long as `leaked` is false, `RootsMatchScopes`. Its
  invariant `MInv` says that each segment is exactly as long as the count of its
  scope, that the slots in it are distinct and belong to the scope's activation,
  and that a slot on the list is on it once.
- `ArrayTypeCorrect`, `ArrayIsList`: BeryArray implements ElementList for any
  elements, indices and memory. An insertion takes effect at its end, a removal
  and a set at their beginning; while a loop runs, the list the array stands for
  has a hole at `i`, so that each turn of the loop is a stutter. The type
  invariant is inductive because it ties `i` to `index` and `length`.
- `ImporterInvariant`, `ImporterTypeCorrect`, `FilesLoadedOnce`, `NoFileLost`:
  for any modules and imports, a file in `importedFiles` is in exactly one
  place, a call in progress or one global held by one call. `LoadedOnce` alone
  is not inductive, since it does not say that a file not in `importedFiles` is
  nowhere; the lemma `MangleKeepsFiles` carries the invariant over the renaming.
- `RenamedApart`: names of different files differ. What makes it inductive is
  that the first module of a name is an import its call has already taken off
  and is not waiting for (`HeldNames`): the globals a module hands over all
  begin with that module's name, and nothing held before does.
- `ReferencesResolve`: `RefsKept` says of every call in progress, and not only of
  the finished program, that each import taken off has brought its global and
  that the globals refer to one another by their present names. It holds while
  no file in hand has been imported from two places; `Accounted` traces every
  file to the import it came by, so that the hypothesis, which speaks of the
  end, holds on the way there.
- `DriverInvariant`, `ErrorsStopCompilation`, `ProgramIsOfSource`,
  `FilesMatchExit`: whatever the lexer, the parser and the program do, an error
  keeps files and programs from being made, what runs was built from this
  source, and the exit code agrees with the files. The three properties speak of
  the exit; the invariant `DInv` adds where each file is at every stage, and that
  a stage behind the front end is only reached without errors. Nothing is assumed
  of the passes but that they leave the driver's variables alone.
- `ConsoleInvariant`, `OutputKeepsOrder`, `FlushedWhenDue`: for a buffer of any
  size and strings of any length. `CInv` adds to the two properties the types and
  that what is due was printed: a flush then shows all that is due because at
  that moment everything printed has left `text`, which only the order says.
- `SourceReadInside`, `OperatorsWhole`, `EverythingAnswered`: for sources of any
  length. `LInv` says that once `current` is past the null, nothing is left to
  look at and no function that advances before it asks is in progress.
  `MInv` says of the last token that enough was looked at to tell whether a
  longer operator stood there: only then is it final that `MaximalMunch` holds
  while more of the source is looked at. `EverythingAnswered` is an action
  property, shown action by action.
- `ParserInvariant`, `TriesNested`, `AcceptedBalanced`, `RecoveryInside`: for any
  tokens and files of any length, whatever the other passes do. The invariant
  `IInv` of ParserProofs has these parts, none inductive alone:
  - `WorkOK`: what is left to do ends with the loop of the program and the end
    of the parse, and has them nowhere else;
  - `Nested`: the heights of the try blocks rise, within the work, from the
    program's own; so an error always finds one to catch it, and unwinding
    leaves a work of the same form;
  - `Guarded`: a loop that has not moved since it went on still looks at a token
    that does not end it. `synchronize` stops at a closing brace without
    consuming it, and `parse` then skips a token by hand: this part says that
    the brace is no block's (`StuckAtBrace`), so that no block is broken open;
  - `Balanced`: a level for each height of the work, counting the braces its
    parts still close. Without an error so far the open braces are those of the
    whole work. With one, no try's work goes below the level it stands on, and
    the braces open now are at least those open when it began and those opened
    above it since: what an unwinding forgets, recovery may leave open but never
    closes twice.
  Each step changes the top of the work only, so levels are counted from the
  bottom. That a rule puts no brace on the work or one pair of them, with
  nothing but flat rules around it, is proved rule by rule (`RuleShape`).
- `TypeCorrect`, `ScopesFollow`, `JumpsReach` of SemaCodegen: for any programs
  whose definitions and words are what the parser can hand over, with bodies of
  any length, constructs nested to any depth and any lineage of classes. The
  analyser leaves of each body a *trace*: the constructs and the scopes before
  each statement, from the first scope of the body, each following from the one
  before, with all constructs closed at the end (`Complete`). While the
  generator is in a body its constructs are those of the trace at `at`
  (`Followed`), the number of its scopes follows from them (`LevelInv`) and its
  trackers hold where the open loops and switches began, in order
  (`TrackInv`, `Tracks`). The two passes share only the tree, so that a trace is
  all that the first can tell the second. In a stray block the analyser has
  fewer scopes than the generator: what it counts is what is in its `Sight`.
- `NamesResolve`, `AbortsOnlyUnseen`: `NamesInv` adds how the scopes correspond
  (`Corr`): scope by scope the generator holds what the analyser held, with the
  same declarations, and in the first scope of a method the inherited fields
  beside; the variable of each open loop is where it was declared (`LoopVars`,
  for the update behind a `for`'s body); what is in the scopes of a body has
  its register, and a global without one is still to be visited, the run block
  last of all (`RegistersDue`, `RunLast`). For fields, a class of the program
  is laid out or its visit is still to come (`LaterInv`).
- `CallsReach`: `CallsInv` says of each call written what the analyser may have
  resolved it to (`Called`), that every method the generator has passed is
  emitted under its name and its class laid out (`MethodsDue`), and that the
  work left is in order (`Led`): a class comes behind its parent and a method
  behind its class. That `ClassOrder` is such an order rests on `Sound`: the
  analyser rejects a cycle of parents, so a lineage does not return
  (`NoReturn`) and ends with a class without a parent (`LineageEnds`). What the
  generator then finds first, going up by emitted names, is the method the
  analyser chose or shares its emitted name with it (`MethodReached`).

Induction over data is out of the prover's reach, so sums over sets, levels of
the work and the like are not shown by the library's induction theorems: where
one is needed, the least counterexample is taken, by size or position, from the
well-ordering of the naturals, and the step to the one below it contradicts it.

Assumed of the constants: the named `ASSUME`s of BeryHeap (null is no cell or
slot, types are finite in number and consistent, the allocation threshold is
positive, as `BERY_GC_ALLOC_THRESHHOLD` is), Parser (the beginnings of files are
tokens, the bound is a natural), ShadowStack (bounds are
naturals), BeryArray (null is no element; a buffer twice the largest is still a
`size_t`), CompileDriver (its bounds are naturals, the output buffer is not
empty), Importer (the prelude and the files are of modules) and SemaCodegen (the
definitions have the types of the parser's nodes, and the receiver of a call is
a class of the program, `super` or none; that of a constructor, which stands for
`new`, and that of a field is a class).

Only model-checked: `CollectionTerminates`, `CallsEnd`, `ImportsEnd` and `CompileEnds`,
since liveness under fairness is beyond the prover, as is ENABLED.

## 5. Plan

Done: ManagedHeap, BeryHeap, ShadowStack, ElementList, BeryArray, Importer and
their proofs; Lexer, Parser, Console and CompileDriver with theirs; SemaCodegen
with its. Next, in this order:

1. **ArrayOnHeap**: BeryArray over BeryHeap: the header in a register during
   `bery_array_new`, the boxed element during `bery_array_push`, and the other
   values that only an expression holds (composition with ShadowStack).
2. **Importer** with kinds of globals (classes, locals that hide a global).
3. What the input functions leave in stdin (`bery_native.cpp:67-162`).

Not modelled, and why: the rules that type operators (a table without state),
strings of the runtime (byte copies; their allocations are steps of BeryHeap),
LLVM text helpers (formatting), the native standard library (numeric functions and C
library wrappers), the version and usage commands (printing).
