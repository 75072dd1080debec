# A TLA+ verification of the cilly virtual machine

cilly is a small object-oriented scripting language. A lexer and a parser build a
syntax tree, a generator compiles it to bytecode, and a stack machine runs the
bytecode on a heap that a mark-and-sweep collector manages; the collector marks
with several threads and leaves the deletion of garbage to detached ones. Paths
below are relative to the repository, whose own code is under `src/`.

Contents: 1 the system, 2 the modules, 3 what is checked, 4 what is proved,
5 disagreements between code and documentation, 6 what is not modelled, 7 the plan.

## 1. The system

### Components

| Component | State it keeps | Operations | Interacts with |
|---|---|---|---|
| Lexer (`frontend/lexer.cc`) | position in the source | `ScanAll` | gives tokens to the parser |
| Parser (`frontend/parser.cc`) | position in the tokens | `ParseProgram`, one method per construct | gives a tree (`ast.h`) to the generator |
| Generator (`frontend/generator.cc`) | names in scope, open scopes, open loops, class tables, the function being filled | `Generate`, one `Emit...` per construct | fills `Function`/`Chunk`; makes the class objects on the collector's heap; its functions are registered with the VM |
| Chunk, Function, byte streams (`chunk.cc`, `function.cc`, `bytecode_stream.h`) | code, constants, lines, arity, local count | `Emit`, `PatchI32`, `AddConst`, `Save`, `Load` | read by the VM |
| Value (`value.cc`) | one tagged value | comparison, text, `Save`, `Load` | everywhere |
| VM (`vm.cc`, `call_frame.h`) | frames, operand stack, callables, globals, last returned value, two collection thresholds | `Run`, one case of `Step_` per opcode, `DoCallByIndex`, `TraceRoots`, `GcSafePoint_` | runs chunks; allocates with and roots for the collector; calls natives |
| Builtins (`builtins.cc`) | none | nine natives | called by the VM; two of them collect |
| Stack (`stack_stats.cc`) | the values and three counters | `Push`, `Pop`, `values` | the VM's operand stack |
| Objects (`object.cc`) | lists, dictionaries, classes, instances, bound methods | element access, method lookup, `Trace`, `SizeBytes` | traced by the collector |
| Program (`main.cc`) | none | hand-made functions and scripts, each on a VM of its own | drives all of the above |
| Collector (`gc/`) | `all_objects_`, mark bits, work stack, task count, temporary roots, statistics, `heap_bytes_` | `New`, `PushRoot`/`PopRoot`, `CollectWithRoots`, `CollectParallel`, `FreeAll` | calls the VM's `TraceRoots` and each object's `Trace` |

### What is hard

* **Parallel marking.** `MarkParallel` wins a mark bit by compare-and-swap outside
  the lock, then pushes the object and counts a task inside it; `ProcessWorkStack`
  pops inside the lock, traces outside it and takes the task off the count by an
  atomic decrement. A thread leaves when the stack is empty and the count is 0; it
  does not come back. Leaving early loses objects, not leaving hangs the join.
* **Deletion nobody waits for.** `Sweep` hands garbage to a detached thread, which
  runs beside the program and beside later collections.
* **Mark bits outlive collections.** The sweep clears the bits of the objects it
  visits, and only those; an object it does not visit keeps its bit.
* **Roots.** A safepoint may collect after almost every instruction. Anything the
  program can still use has to be in a place that `TraceRoots` reports, or pinned:
  operands, locals, constants, globals, the receiver of a constructor, a native's
  arguments.
* **Counting what nobody sees grow.** `heap_bytes_` is a running sum: `New` adds, the
  opcodes that make a container grow report a difference, the sweep subtracts each
  dead object's size. Two thresholds follow from it and from the object count; both
  move after a collection.
* **Lookahead.** The parser tells assignments from expressions by looking ahead, over
  matched brackets in one case; precedence and `else` are decided by which method
  calls which. The lexer keeps line and column in three places.
* **State that outlives its use.** A VM may run several functions and a generator
  compile several scripts; some members are cleared in between and some are not.
* **Lowering.** `break`, `continue` and `return` leave several blocks at once and
  have to clear exactly their slots; jumps are patched later, per loop; statements
  have to be neutral on the operand stack.

### What makes each component correct

| Component | Property |
|---|---|
| Collector | nothing reachable is swept; collections are invisible to the program (they implement an atomic collection); termination detection is sound and complete; what is unreachable is unlinked and deleted, while no thread looks at it; counts agree with lists |
| Objects | `Trace` reports everything an object holds |
| VM | what the program can use is allocated, at any choice of collections; asserts do not fail; the output is what the language means |
| Generator | the bytecode does what the tree means; slots of ended blocks are null; the operand stack is balanced; frames are large enough |
| Thresholds | the byte count is exact and never wraps; the heap stays within a multiple of what the program holds; collections are amortised |
| Files | what is loaded equals what was saved |
| Lexer | the longest token at each place, at its line and column; an end |
| Parser | the tree is the text's, for exactly the texts of the grammar |
| Program | each function and script shows what it announces, whatever ran before on the same VM |

`PROJECT.json` lists each hazard at its line, with the properties that cover it.

## 2. The modules

    Heap <---- Collector <---- CollectorInv <---- CollectorProofs
    (abstract) (threads)            ^---- MCCollector
    Budget (counts and thresholds) <---- BudgetProofs, MCBudget

    Value <---- VM <---- VMProperties <---- Verifier <---- MCVM ----> Generator, Lang
                              ^---- VMProofs <---- VerifierProofs <---- SessionProofs
                              ^---- Session --+             (and Verifier)    (and Session)
                              ^---- Pipeline -+--- MCMain ----> Suite, Scripts, Verifier
                                       |
    Syntax <---- Lexer <---------------+        Lexer <---- LexerProofs, MCLexer
       ^-------- Parser <--------------+        Parser, Grammar <---- MCParser
    Generator <---- Generations <---- MCGenerations
    Value <-------- Files <---- FilesProofs, MCFiles
    DataLemmas <---- VMProofs, LexerProofs, FilesProofs

**Heap** is what a collector promises: objects, references, roots, and a
collection as one atomic step that keeps what the roots reach.

**Collector** is `gc/gc.h` and `gc/gc.cc` at the grain of its threads. A critical
section of `work_mutex_` is one step (`PopTask`, `PushTask`, `Exit`, `Yield`); so
are the compare-and-swap (`TryMark`) and the decrement (`FinishTask`). `Main`
mutates the heap between collections, seeds the roots, spawns the workers, traces
with them, joins and sweeps; `Delete(o)` is the detached thread, free to run at any
time. `CollectWithRoots` shares the actions that both entry points share
(`parallelMode` tells them apart). The state is the code's: `workStack` is
`global_work_stack_` or `gray_stack_`, `marked` the set of objects whose bit is set,
`claimed[t]` the object `t` has won and not pushed. Order of children and roots is
left open: `Trace` and `TraceRoots` report sets. `Embedded` objects exist without
`Collector::New`: the fields dictionary that `ObjInstance`'s one-argument
constructor makes is traced and never swept. Addresses are reused after a delete.
The program itself is arbitrary: it links, unlinks, loads, drops and pins whatever
it can get hold of.

**CollectorInv** is the inductive invariant, **CollectorProofs** has the proofs (section 4).

**Budget** is what decides when a collection starts: `heap_bytes_`, `object_count_`,
`SizeBytes` of containers whose capacity doubles, `AddHeapBytesDelta` with its recount,
and `MaybeCollectGarbage_`'s two thresholds. An opcode that makes a container grow is
one action with its report; the sweep goes object by object. References are left out:
the program holds a set of objects, and a collection keeps those, which is what
`Collector` shows. `hosted` says whether C++ code outside the VM takes part, which
fills containers without reporting it and sets thresholds, as the tests do.

**Value** is `value.cc`: values as tuples that begin with their kind, equality, text
of scalars, and the order of the natives that generator and VM agree on.

**Syntax** is `ast.h` and the tokens. **Lexer** is `frontend/lexer.cc`, one action per
character and loop: `mode` says which loop is running. Its reference is `Form`, what a piece of text
is by itself, and `Parts`, a text cut into its longest pieces; what a number is, it takes from `lexer.h`. **Parser** is
`frontend/parser.cc`, a function per method, each of which takes and gives the parser's
state (tokens, place, and a list of the trees built so far); `ok` turns false where an
assert fails. One step of its state machine is one declaration of `ParseProgram`.
**Grammar** is its reference and models no code: the set of trees that a sequence
of tokens derives, by splitting it in every possible way, with no lookahead, no place
and no loops. An ambiguity would make the set larger than one. Where the comments and asserts of the
parser say what the language is, `Grammar` follows them and not the code: functions and classes stand at the top
(`Local`, `Body`), and the first clause of a `for` loop assigns to a name (`ForInit`).

**Generator** is `frontend/generator.cc`, a function from trees to code: each
`Emit...` takes and gives a generator state whose fields are the class's members.
Alongside each word it notes how many slots were in use (`live`), for the property
`NoStaleLocals`; nothing else reads it. **Generations** is one generator that compiles
several scripts: what `Generate` clears and what it keeps.

**VM** is `vm.cc`: an action per opcode, split where the opcode branches on what it
finds; calls, constructors and each native are actions of their own. A failed
assert, an index out of bounds or a pop of an empty stack has no step, and shows up
as a deadlock. Collections are the atomic step of `Heap`, with one exception: the
fields dictionary is traced by its instance's first collection only
(`fieldsMarked`), the defect of section 5. `Program`, a constant, is a set of
compiled programs.

**VMProperties** states what is true of running programs. **Verifier** is a verifier of
bytecode such as the repository does not have: from one pass over a function's code it computes
how many operands the function has on the stack at every instruction and how many of its slots
may hold something (`Flow`), and accepts the code (`Verified`) when every instruction is whole, names what is
there, finds its operands, and agrees with the flow of every place that control can go to from there.
`Takes` and `Leaves` say of opcodes what the actions of `VM` do. **Lang** is the reference:
an evaluator of trees by recursion on their structure, with environments instead of
slots and no stack, jumps, frames or collector. It models no code; the generator and
the VM together are compared with it. **MCVM** makes programs, compiles them with
`Generator` and gives them to `VM` with the output `Lang` expects.

**Session** is one VM that runs functions one after the other and registers others in
between (`VM::Run`, `RegisterFunction`). `main.cc` gives each of its functions a new VM; a first run
in a session is that, and the later runs are more than `main.cc` does. **Suite** has the hand-made functions of
`main.cc`, word by word, with what they announce, which in one case is not true (`OddEvenTest`, section 5). **Pipeline** composes `Lexer`,
`Parser`, `Generator` and `VM`, each begun when the one before has ended; **Scripts**
has the scripts of `main.cc` as texts, with the output their comments announce.
**MCMain** puts both together. `MCVM` runs `OddEvenTest` too, with the output that is right for it.

**Files** is `BytecodeWriter`/`BytecodeReader`, `Save` and `Load` of values, chunks and
functions: a file is a sequence of bytes, each known by the value it is part of, so
that a field read at the wrong width or in the wrong order is garbage. A reader is its place in the file:
a loop that reads `n` things (`ReadMany`) gives its place behind them, and the things.

**DataLemmas** has what several proofs need of data: that a set of naturals has a least element, that a
set which has 0 and with every number the next has them all (`Induction`), and what `Append`, `\o` and `SubSeq` do
to sequences whose elements nothing is known of (`IsSeq`).

## 3. What is checked

A run has all the properties that one instance can carry. In the order of the modules:

| Run | Instance | Checks | Shows |
|---|---|---|---|
| `MCCollector` | 3 objects, 1 worker beside the main thread, a temporary root, 3 allocations | `TypeOK`, `ReachableAllocated`, `CountAgrees`, `NoStaleMarks`, `AbstractHeap` | a collection by threads, sequential or parallel, implements the atomic one |
| `MCCollectorThreads` | an instance, its unlinked fields dictionary, a string; 2 workers; fairness | `IInv`, `LinkedRefsAllocated`, `NoTracingOfGarbage`, `TasksCounted`, `ExitOnlyWhenDone`, `OneTracerPerObject`, `CollectionEnds`, `UnreachableReclaimed` | termination detection and the claim protocol among three marking threads; the inductive invariant, and what remains true although an embedded object keeps its mark; every collection ends, and what was unreachable when it ran is unlinked and deleted |
| `MCBudget` | 5 objects, up to 2 elements each, 1 held between instructions, with and without C++ code beside the program | `TypeOK`, `BytesExact`, `BytesNeverWrap`, `HeapBounded`, `Amortised` | the byte count, its recount, and what the thresholds achieve |
| `MCLexer` | every text of up to 5 of 11 characters in which no number has a fraction | `TypeOK`, `PositionsTrue`, `LongestMatch`, `Ends` | the lexer against a reference that takes the longest token |
| `MCParser` | every sequence of up to 5 to 7 fragments, of eight kinds | `GrammarAgrees` | the parser accepts what the grammar derives and builds its one tree |
| `MCGenerations` | up to 3 of 5 scripts that declare the same names differently | `FunctionsAfresh` | code and functions of a script do not depend on earlier scripts |
| `MCVM` | 5 programs after the repository's tests, two of bytecode made by hand, 216 nestings of expressions, 64 pairs of loops; fairness | `TypeOK`, `CodeVerified`, `OperandsThere`, `FieldsTraced`, `NoDangling`, `StackBalanced`, `OutputAgrees`, `NoStaleLocals`, `Terminates` | every opcode and native, compiled and run, agrees with the reference, at any choice of collections; the verifier accepts all of it |
| `MCMain` | any 3 of 11 hand-made functions on one VM; or one of 9 scripts, from its characters on | `CodeVerified`, `NoDangling`, `StackBalanced`, `AsAnnounced`, `EndToEnd` | what `main.cc` announces of itself; the verifier accepts their code, compiled or made by hand |
| `MCFiles` | two functions in a file, constants of every kind | `RoundTrip` | `Load` gives back what `Save` was given, callables apart |
| `MCVMFieldsLost` | an object held by a field only, two collections | `NoDangling` violated | section 5 |
| `MCVMMethodTwice` | a class that declares a method twice | `SlotsExist` violated | section 5 |
| `MCGenerationsClasses` | as `MCGenerations` | `CleanStart` violated | section 5 |

Four more configurations stand beside these runs and are not listed in `PROJECT.json`. Each gives TLC the inputs that
a run above leaves out, because there the code does not do what its documentation says, and ends with the property violated
(section 5):

| Configuration of | Instance | Violates |
|---|---|---|
| `MCParserNested.cfg` of `MCParser` | blocks with up to 3 fragments of functions and classes | `GrammarAgrees` |
| `MCParserForTarget.cfg` of `MCParser` | headers of `for` loops that begin with a literal or a name | `GrammarAgrees` |
| `MCLexerDecimals.cfg` of `MCLexer` | texts of up to 5 digits, points and blanks | `LongestMatch` |
| `MCMainOddEven.cfg` of `MCMain` | `OddEvenTest` on a new VM | `AsAnnounced` |

### Collector

*Bounds.* Three objects give every shape that matters to marking: a chain longer
than a queue with one element, sharing, a cycle, and garbage beside live objects.
Two threads contend for one compare-and-swap, one pop and one count; the run with
three shows that no third party breaks the count, and the proofs cover any number.
`MaxAllocs` bounds the counters: at most that many objects are allocated since
`FreeAll` reset the total and since the last reset of `last_swept_count_`; the
program, which may free everything and start anew, still runs through any number of
collections. `MaxTempRoots` bounds the depth of `temp_roots_`. Objects that own
nothing, and workers, are symmetric; the run with liveness uses no symmetry.

*Fairness.* The scheduler runs each thread that can run: weak fairness of
`ThreadStep(t)` per thread, of the main thread's own steps and of each object's
deleter. A lock acquisition that spins is the step `Yield`, which leaves the
state as it is: weak fairness of the other threads is what lets it end. Nothing is
assumed of the program: it may never allocate, drop or collect.

### Budget

*Bounds.* The constants are small so that the thresholds bite: the floors are 2
objects and 6 words where the code has 256 and 16K. `HeapBounded` is stated for any:
the bound is computed from the floors, from twice what the program may hold, and from
what one instruction makes between two safepoints. Growth that C++ code kept to itself
comes back when a sweep counts anew, so that with such code the bytes are bounded
between collections only: section 4. Five objects are what that bound
allows with one held. Two elements make a container double twice. Bytes are words, and
an object's own size is one. `Memory` is what a `size_t` counts up to; all objects together
have fewer bytes (`MemoryAssumption`), here by far. At this size the bound on bytes in `HeapBounded` is met because the one on
objects is; that it holds by itself, for any floors, is `Boundedness` (section 4).

### Lexer and parser

*Bounds.* `LongestMatch` compares with a definition of its own of what a token is (`Form`, `Parts`): the
eleven characters are two letters that make a keyword, a digit, the two
two-character operators' first characters, `/`, `"`, `.`, a blank, a new line and a
character no token begins with. `MCSources` leaves out the texts in which a point stands between digits
(`HasDecimal`): `MCNumerals` has those, for `MCLexerDecimals.cfg`. Five characters are a comment and its new line with a
token on either side, or a string cut off in a line's middle. The parser's fragments
are chosen per question (operators, parentheses and calls; lists and dictionaries; the
lookaheads; `if`, `else`, `while` and blocks; the first two clauses of `for` headers, with assignments to names
only, and the last with anything; functions and classes at the top; function bodies), and
every sequence of them is tried, nearly all of which are no programs: the parser must
fail on exactly those. What the documentation excludes and the parser takes are two more kinds
(`nested`, `targets`), each with its configuration.

*Fairness* of the lexer: one thread runs on (weak fairness of `Next`).
*Deadlock* is not checked in `MCLexer`, `MCParser`, `MCFiles` and `MCGenerations`, whose
systems end: a text is scanned, the tokens are used up, the bounds on files or scripts
are reached.

### Generator and VM

*Bounds.* A program's behaviours differ only in when it collects (and in `clock`),
so its state space is as large as its run is long times the heaps that different
collections leave. At every safepoint the model may collect or not. The code decides
by thresholds, which tests set at will and which every allocation moves: each of its
behaviours is one of the model's. The nestings are all those, three deep, of six
expressions that allocate or collect while their operands are held by the operand
stack, a native's pins or a constructor's frame. The loops are every pair of nested
`for`/`while` loops, with none, `break`, `continue` or `return` from the inner loop's inner
block and from the outer loop. Numbers are integers, and division is used
where it is exact. `clock` is 0 or 1. Text of objects is their type's name; the
programs show scalars, or `type(x)` of objects. The programs of the passing runs hold an
object in a field only beside another reference to it: the rest is `MCVMFieldsLost`.

*Deadlock* is checked: a program that met a failed assert or ran out of operands
would be reported. A program that has ended stutters (`Halted`).

*Fairness.* `Run` is a loop that does nothing but `Step_`: weak fairness of `Step`. It is
written as its definition, `[]<>(~Running) \/ []<><<Step>>_vars`, with `Running` for what
enables a step, because TLC takes long to decide `ENABLED` of so many actions; that the
two agree is what the absence of deadlocks says.

### Program and files

A session has three runs: a second function meets what the first left (globals,
callables, registered functions, an operand stack), a third what two left. `MaxIndex` is the highest
index that three runs get to: nine natives and what the first two registered.
`OddEvenTest`, whose announcement is not true, has a configuration of its own.
`Scripts` leaves out what the models cannot say: Chinese comments, `clock()` printed,
and a division that is not exact. A file has two functions so that the second is read
where the first ended; the constants include strings whose length and characters look
like tags.

### What breaks each property

For each property of a passing run, a variant of some definition, named `...Bug` and
placed next to it, makes TLC find the property violated: a dropped guard, a missing
reset, a scope not unwound. `PROJECT.json` pairs them. They are not used by any
specification.

## 4. What is proved

`CollectorProofs` proves, for any set of objects (finite or not), any embedding, any
finite number of workers and any bounds, of `Spec`:

| Theorem | States |
|---|---|
| `Invariance` | `[]IInv` |
| `TypeCorrect` | `[]TypeOK`: in particular `active_tasks_` and `object_count_` never wrap below 0 |
| `TaskCount` | `[]TasksCounted` |
| `MarkBits`, `ObjectCount` | `[]NoStaleMarks`, `[]CountAgrees` |
| `Termination` | `[]ExitOnlyWhenDone`: a thread that leaves leaves nothing behind |
| `Safety` | `[]LinkedRefsAllocated`: no linked object refers to a swept one |
| `TracingSafety` | `[]NoTracingOfGarbage`: no race between marking and the deleters of earlier collections |
| `ReachableSafety` | `Embedded = {} => []ReachableAllocated`: the promise of `Heap`, if every object is made by `Collector::New` |

Assumptions: what is embedded belongs to an object that is not
(`EmbeddedAssumption`), the main thread is no worker and workers are finitely many
(`ThreadAssumption`), the bounds are naturals (`BoundAssumption`).

*The argument.* None of the safety properties is inductive. `Scanned` is the
tri-colour invariant: during a collection, what a marked linked object refers to is
marked, or the object is queued, or a thread is tracing it and has the reference in
`todo`. `RootsSeen` says the same of roots. `TasksCounted` makes an observed count of
0 mean that nobody traces, and `Control` that nobody has claimed an object without
pushing it (a claim happens inside a trace or while seeding); so when one
thread leaves, `NothingLeft` holds, and stays. At the sweep the three together give
`MarkingComplete`: marked linked objects are closed under references and contain the
roots. `RefsAllocated` is what the sweep must preserve; it excepts embedded objects
that carry a stale mark, which is why `ReachableSafety` needs `Embedded = {}`: with
embedded objects it is false (section 5). `NoStaleMarks` makes the
argument start anew at the next collection. `GarbageApart` keeps deleters from
interfering. `HeapFinite` and `CountAgrees` are there for the counts.

The proof has a lemma per action, with one step per conjunct the action can disturb;
frame lemmas (`ProgramFrame`, `MarkingFrame`, `ControlStepInv`) take the others.

Two more build on `Invariance`, for the same constants:

| Theorem | States |
|---|---|
| `SingleTracer` | `[]OneTracerPerObject`: no object is queued, claimed or traced at two places |
| `Refinement` | `Embedded = {} => (Spec => H!Spec)`: the collector implements `Heap` |

`SingleTracer` adds `Claims`: whatever is in anybody's hand is marked and in one hand only,
so that no compare-and-swap can win it again; a deleter takes only marks of objects that
nobody holds (`GarbageApart`, `RefsAllocated`). `Refinement` adds `Precise`: during a
collection, what is marked, queued or about to be marked is reachable. With `MarkingComplete`
this makes the marked linked objects at the sweep exactly the reachable ones, and
`Sweep` the abstract `Collect`. A deleter changes references that no reachable object
has (`ReachesSame`), which is an abstract `Mutate`; every other step of a collection
leaves the abstract state alone. With embedded objects the theorem is false (section 5).

`LexerProofs` proves, for any characters, any letters and digits among them, and any
sources of any length, of `Lexer!Spec`:

| Theorem | States |
|---|---|
| `Invariance` | `[]IInv`: where the lexer is, where the token in hand began, and where the tokens are |
| `TypeCorrect` | `[]TypeOK`: nothing is read beyond the end |
| `Positions` | `[]PositionsTrue`: every token has the line and column of its first character |
| `LongestTokens` | `[]LongestMatch`, if no source has a number with a fraction: the tokens are the text cut into its longest pieces, and the lexer stops nowhere else |

*The argument.* `TruePosition(at, l, c)` counts the new lines before a place; two lemmas
say what one more character does to it (`NextPosition`: a new line begins a line, any
other character a column). Every loop reads one character by `Advance`; the three
places that keep line and column (`Advance`, the second character of an operator, the
end of a comment) preserve `Here`; `Began` and `TokensPlaced` hold since a source does
not change.

`LongestTokens` compares the loops with `Parts`, a recursive function that knows nothing of loops. Its invariant
says of each mode what is known of the text that has been read (`Left`): between tokens, that the tokens made so
far, with the parts of the text from here on, are the parts of the whole text (`Rest`); in the loop of a
token or comment, the same of the place where it began, and that all characters since are ones it may have. Two things
make a step keep it. `Parts` can be unfolded at a place (`PartsAt`), once it is known that a function that
satisfies its equation exists (`PartsExist`), by `Induction` on the distance from the end. And what a loop made is a token's form, and
no longer piece of the text is one: `FormWord`, `FormNumber` and so on say what `Form` is for each first
character, since these exclude each other, and `WordRest`, `StringRest` and so on that what ended the loop
ends every longer piece. A lexer that stops has shown that no piece from there on is a token (`NoLonger(s, a, a)`): that
is what an unclosed string amounts to. The hypothesis is needed where a number ends (`NumberRest`, `EndNumberLongest`): the
loop stops at a point, and only a text without fractions (`~HasDecimal`) has no longer number there. That a source
of this kind remains one is `SourceStays`. With fractions the theorem is false (section 5).

`LexerAssumption` is that letters and digits are characters of the sources
and are not each other, `AlphaNumericAssumption` that none of them is a blank, a quote or an operator's
first character (`lexer.cc` `IsAlpha`, `IsDigit`).

`BudgetProofs` proves, for any finite memory, any kinds of objects, any size of containers,
any number of held objects and any floors and thresholds, of `Budget!Spec`:

| Theorem | States |
|---|---|
| `Invariance` | `[]IInv` |
| `TypeCorrect` | `[]TypeOK`: a sweep visits linked objects, the program holds linked objects |
| `ExactBytes` | `[]BytesExact`: every report is exact, at every object of a sweep |
| `NoWrap` | `[]BytesNeverWrap`: the unsigned count stays at or below the true sum |
| `Boundedness` | `[]HeapBounded` |
| `FewCollections` | `Amortised`, an action property |

*The argument.* The sum of sizes is written as a number of words, the cardinality of
a union of disjoint sets `{o} \X 1 .. SizeBytes(o)`, so that the laws of finite sets
give those of the sum: what one object more, one object less and one object grown do to it
(the lemmas on `Bytes`). `BytesNeverWrap` is inductive: when a dead object's
size exceeds the count, the recount is the rest of the sum. `HeapBounded` needs three
facts more. `Swept`: what a sweep has passed is held, so at its end all that is linked
is, and `FewHeld` bounds it. `ThresholdsSet`: no threshold exceeds the limits, since a
collection sets it from what it left and a test from its own set. `BelowLimits`: a safepoint
that did not collect left both counts below the thresholds, hence what is there at the next
one is less than a limit and what one instruction makes. A first version of
`HeapBounded` bounded the bytes at any time; the proof did not go through, and for good
reason: ten objects of five words, each counted as one because nobody reported their growth,
are taken off a count of 10 until it is 0, and then counted anew: it rises to 30.
`FewCollections` uses `ThresholdsSet`, which holds at the start because the slack is no
more than the floor (64 and 256).

Assumptions: `MemoryAssumption` (objects fit in memory, so that the sum itself does not
wrap) and `BudgetAssumption` (bounds are naturals, the sets of test thresholds are finite,
the slack is at least 1 and at most the floor).

`VMProofs` proves, for any well-formed programs (any code, any constants, any number of
functions and classes), of `VM!Spec`:

| Theorem | States |
|---|---|
| `Invariance` | `[]FieldsTraced => []Inv` |
| `Safety` | `[]FieldsTraced => []NoDangling`: whatever the program can still come to use is allocated, whichever safepoints and natives collect |

*The hypothesis.* Without it `NoDangling` is false: the defect of section 5. `FieldsTraced`
is exactly what that defect can break, that an object is held by nothing but fields that a
collection has marked. It does not speak of what is allocated: a root that `TraceRoots` forgets,
an argument that a native does not pin or an object that does not trace what it holds breaks
`NoDangling` and the proof. `MCVM` checks that its programs keep it; the program of `MCVMFieldsLost` does not.

*The argument.* `Held` is what roots reach along all references, `Kept` what they reach along
those that a collection follows. `Closure` is a bounded iteration; `ClosureLeast` and its
companions show that it is the least set that contains the roots and is closed, by
`Induction` on the number of rounds. One step, whatever the instruction, establishes `Marked'`: the roots after it
reach only allocated objects. Three lemmas carry all actions: `StepMoves` (values move between
places that are roots: every new root was one, or was held by one), `StepAllocates` (objects
appear, refer to what is held, and perhaps a collection runs), `StepStores` (an object comes to
hold something held). A collection with the roots of the new state keeps what they reach
(`CollectedSafe`); natives collect with the old roots, which is where `Pinned` is needed: the arguments are no longer on the stack.
`FieldsTraced'` then gives `NoDangling'`. `Shape` is what the steps need of types: sequences are
sequences, objects have their kind's fields, and identities grow.

Assumption: `ProgramAssumption`, that a program's objects are the classes made by the generator,
numbered in order, that superclasses and constants are among them, and that code is finite.

`VerifierProofs` proves, under the same assumption, what the verifier is worth: of any program that
it accepts,

| Theorem | States |
|---|---|
| `FlowInvariance` | `CodeVerified => []FlowInv` |
| `Balance` | `CodeVerified => []StackBalanced`: nothing is left on the stack when `Run` returns |
| `OperandsAreThere` | `CodeVerified => []OperandsThere`: no pop of an empty stack, no index that does not exist |
| `NothingStale` | `CodeVerified => []NoStaleLocals`, in suspended frames as well |
| `TypesHold` | `CodeVerified /\ []FieldsTraced => []TypeOK`, with `VMProofs!Invariance` |

*The hypothesis* speaks of the code before it runs, and is what divides the work between prover and model checker: TLC
evaluates `CodeVerified` on what `Generator` compiles (`MCVM`), so that what it shows of the
generator is a fact about code, whatever runs; that accepted code keeps the asserts of
`vm.cc`, however long it runs, whatever it calls and whenever it collects, is the theorem. Not one
of the four properties follows from the programs being well-formed: a jump patched to the wrong place,
a statement that leaves a value or a block whose slots are not cleared are each refused.

*The argument.* `StackBalanced` says nothing while the VM runs; the invariant has to say where every
operand belongs. The operand stack is shared by all frames, and a call takes its arguments from the caller's
part of it. `Piled` divides it: `base[i]` is what lies below frame `i`'s operands, and a
suspended frame has one operand less than its flow says, since the flow counts the value that
the call will have left (`TopGoesOn`, `FramePushed`, `FramePopped`). `FrameFits` says
of each frame that its place is one that the flow knows and that its slots are null from the flow's
count on. An instruction that goes on keeps both because `Accepted` compares its effect with the
flow at each successor (`GoesOn`, `StepOn`); one lemma per kind of instruction then says that the VM's action takes and
leaves what `Takes` and `Leaves` say (`Does`, `CallTakes`). `OP_RETURN` is accepted only with one
operand, so the frame below finds its own operands and the result. The end of the code is accepted for the
script only, and with no operands: hence `StackBalanced`. What the flow is computed by does not
matter: the proof uses only that it agrees with itself, so `Flow`, a recursive function, is never expanded.

`SessionProofs` proves of `Session!SessionSpec`, for any functions made by hand, any number of runs on one VM and of
functions registered in between:

| Theorem | States |
|---|---|
| `SessionInvariance` | `[]SessionInv`: between runs and during them, `Inv` of `VMProofs`, and only lists and dictionaries on the heap |
| `SessionSafety` | `[]NoDangling`, without hypothesis |
| `SessionFlows` | `[]CodeVerified => []SessionFlow` |
| `SessionBalance`, `SessionOperands` | `[]CodeVerified => []StackBalanced`, `[]OperandsThere` |
| `SessionTypes` | `[]CodeVerified => []TypeOK` |

*The argument.* A step of a run is a step of the VM, about which the lemmas of `VMProofs` and
`VerifierProofs` say all there is to say; what is new is the start of a run. `RunTest` clears frames and stack and keeps globals and
callables: what was held still is or is no longer, so `Inv` goes on (`RunInv`), and appending functions keeps every index that code,
globals or objects already have (`JoinFunctions`). Such functions have no objects among their constants (`HandMade`), hence no
class, hence no instance: only containers are ever made (`StepContainers`), a collection traces all
they hold (`ContainersTraced`), and the hypothesis of `Safety`, `FieldsTraced`, is a fact here. `Unused` is the VM before its
first run, which has no frame for the invariant to speak of. `CodeVerified` speaks of the function that begins to run; `MCMain` and,
for `OddEvenTest`, `MCVM` check it of what `main.cc` makes by hand.

Assumption: `TestsAssumption`, that the functions given to a VM are well-formed for the index that their
callables get, up to any bound.

`FilesProofs` proves, for any names, any words of code, any constants but objects, any
length and any number of functions, of `Files!Spec`:

| Theorem | States |
|---|---|
| `RoundTrips` | `[]RoundTrip`: functions come back as they were saved, callables apart, and the reader stands where the writer stood |

*The argument.* `Holds(p, b)` says that the file has the bytes `b` behind place `p`. Each part has a lemma of
one form: if the file holds what `Save` writes, then `Load` gives the value back and stands behind it (`ReadWritten`,
`StringWritten`, `ValueWritten`, `ChunkWritten`, `FunctionWritten`). A join is held if both parts are, one behind the other
(`HoldsJoin`), so these compose in the order of the code. The loops are where it is not obvious: what a loop wrote is
`FlattenSeq`, a recursive function of the community modules, what a loop reads is `ReadMany`; both are unfolded by
`Induction` (`FlatExists`, `ReadManyReads`), and `ManyWritten` says that a loop over anything that comes back
comes back. `RoundTrip` is not inductive by itself: `FilesInv` adds that the file is what the saved functions
make (`FileIsSaved`), that functions are sequences of savable constants and as many lines as words (`IsFn`), and that no
more has been loaded than saved. That lengths fit in 32 bits and doubles survive is not part of it: a byte
is known by the value it belongs to.

Assumption: `FilesAssumption`, that constants are no objects (which `Load` asserts), that strings and names
are sequences of characters, and that garbage is no number.

*Model-checked only.* Liveness (`CollectionEnds`, `UnreachableReclaimed`, `Terminates`, `Ends`): fairness is beyond the prover. What
the parser and the generator do: `Parser`, `Grammar`, `Generator` and `Lang` recurse on trees with
RECURSIVE operators, of which the prover can say nothing, nor of the modules that use them. So
`GrammarAgrees`, `FunctionsAfresh`, `OutputAgrees`, which compares with `Lang`, and `EndToEnd`
stay with TLC. `AsAnnounced` speaks of a dozen functions, which TLC can simply run. `CodeVerified` and `FieldsTraced` are
hypotheses of theorems: the first is false of some code, the second of some programs (section 5), and TLC checks
both of what the repository has.

## 5. Disagreements between the code and its documentation

Shown by runs:

* **Objects held by a field only are freed** (`MCVMFieldsLost`). `OP_CALLV` makes a
  collected dictionary for the fields and drops it (`vm.cc:349-358`): the instance is made
  with the constructor that makes its own with `make_shared`. That one is in no list, so
  the mark that the first collection sets on it is never cleared, and from the second on
  `Mark` returns at once. `object.h:164` says the VM passes the collected dictionary in,
  and `GC.md:44` that marking an instance marks its fields.
  `p.l = [7]; __gc_collect(); __gc_collect();` leaves `p.l` dangling.
* **A method declared twice** (`MCVMMethodTwice`). `generator.cc:232` forbids two functions
  of one name, `219-227` lets two methods pass: both bodies are compiled into one
  function with the second's slots; the first runs, and stores beyond them
  (`vm.cc:304` asserts that it does not).
* **A generator remembers classes** (`MCGenerationsClasses`). `generator.cc:41` says that every
  script is compiled from a clean state; `class_map_` and `super_name_map_` are not
  cleared, and a class declared anew keeps its old methods and superclass.

Shown by the configurations beside the runs:

* **Functions and classes in blocks** (`MCParserNested.cfg`). `parser.h:148` says that functions are
  declared at the top only, and `parser.cc:558` and `562` assert it of both; they read `block_depth_`, which
  nothing changes. `{ class A { } }` is parsed, and a function in a block is too, and compiled to
  nothing (`generator.cc:166-168`).
* **A loop that assigns to a literal** (`MCParserForTarget.cfg`). `parser.h:108` describes an assignment as
  `x = expr;`. `AssignStatement` takes any token for the name (`parser.cc:404`), and the initializer of
  a `for` loop calls it without the lookahead (`479`): `for (true = 1; ; )` is parsed.
* **Numbers with a fraction** (`MCLexerDecimals.cfg`). `3.14`, an example of a number in `lexer.h:18`, is three
  tokens: `ScanNumber` reads digits only (`lexer.cc:134-138`).
* **An announcement that is not true** (`MCMainOddEven.cfg`). `main.cc:523` announces `true, true` of code that
  prints `even(3)` and `odd(3)`: it prints `false, true`.

Met while modelling, and not the subject of a run or configuration:

* `last_swept_count_` accumulates: `CollectWithRoots` resets it, `CollectParallel` does not,
  and the VM uses the latter. `GC.md:78` calls it the number that the last sweep reclaimed.
* `heap_bytes_` leaves out the fields of instances, which `object.h:164-167` says it counts.
* The recount of `AddHeapBytesDelta` in mid-sweep (`gc.cc:57`) no longer includes the object
  whose size is then taken off again; `gc.h:204` calls its result accurate. It takes
  unreported growth to get there (`Budget`, `hosted`), and the count, which a sweep
  otherwise only lowers, then rises in mid-sweep (section 4, `Boundedness`).
* A callable among a chunk's constants is null once loaded (`value.cc:289`), though
  `chunk.h:37` says that the whole chunk is written. `RoundTrip` says so (`AsLoaded`).

## 6. What is not modelled, and why

* `ToRepr` of objects, line numbers of instructions at run time, the disassembler, the three
  counters of `StackStats`: text and statistics that nothing acts on.
* The VM without a collector: it differs in that nothing is ever swept.
* Programs on which the generator's asserts fail: no translation, hence no behaviour.
  Undefined behaviour after a dangling reference: no step.
* Files that are cut short: `Read` then leaves its result uninitialized, and the length of
  a string is whatever memory held. Saving a function that has been moved from.
* Constants that are objects: they are written as nothing, and `Load` asserts.
* A superclass cycle (`class A : A`), in which `GetMethodIndex` recurses for ever.
* `VarValueSemanticsTest` (`main.cc:837-878`) returns from an empty stack; nothing calls it.
  The tests of values and of stacks in `main.cc` make neither a function nor a script.
* Numbers that are not integers, overflow of doubles.
* `util/io.cc`, `debug_log.h`: no state a property is about.
* Memory order: marks and counts are sequentially consistent. `TryMark`'s compare-and-swap, `fetch_add` and
  `fetch_sub` have the default order, which is that, and the work stack has its mutex. `marked()` and
  `set_marked()` are relaxed (`gc_object.h:28-29`), and are called where no other thread
  touches the bits: by sequential marking (`gc.cc:94-97`) and by the sweep (`gc.cc:133-134`), which runs after the
  workers are joined.

## 7. Plan

Done: the collector with its invariant, proof and refinement; its budget with proof; generator, VM and
reference evaluator; the VM's proofs, by the heap and by the verifier, for one program and for sessions;
generations; the lexer and the files with their proofs; the parser with its grammar; the whole way from a
script's text to its output.

Left: a parser and a generator written as recursive functions, which could be proved about; the first things to state of
them are that the parser's tree derives its tokens, and that the verifier accepts whatever the generator compiles.
