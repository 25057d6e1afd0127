# Simple-Executor: verification project

TLA+ models, TLC runs and TLAPS proofs for the program in `src/`. Paths below
are relative to `src/SimpleExecutor/Executor/` unless they start with
`Injector/`, which stands for `src/SimpleExecutorInjector/`.

## 1. The system

A Windows Forms program (`Injector/`) sends the text of a script through a
named pipe to a library (`main/`, `execution/`, `module/`) that queues it,
compiles it and runs it on a Lua state. The library carries a complete Luau
runtime (`luau/`, about 38,000 lines): compiler, bytecode loader, interpreter,
incremental garbage collector and standard libraries.

| Part | State it keeps | Operations | What is hard | Modules |
|---|---|---|---|---|
| Script pipeline (`Injector/Form1.cs`, `Functions.cs`, `NamePipes.cs`, `main/main.cpp`, `execution/execution.cpp`, `module/*`) | the pipe instance, `WholeScript`, `waiting_scripts` | attach, click, connect, write, read, queue, run, pop | four kinds of threads, a `std::queue` without a lock, partial reads, one pipe instance for all clients | `ScriptPipeline` |
| Parser and lexer (`Parser.cpp`, `Lexer.cpp`) | position, scopes, recovery tokens, counters | parse, recover, report | recovery and limits on paths that correct texts never take | `LuauParser`, `LuauSource`, `LuauFrontEnd` |
| Compiler (`Compiler.cpp`, `CostModel.cpp`, `ConstantFolding.cpp`, `ValueTracking.cpp`) | registers, constants known, inline and loop frames | compile, inline, unroll, fold | registers read after they are overwritten, upvalues left open | `LuauAst`, `LuauCompiler` |
| Bytecode builder (`BytecodeBuilder.cpp`) | instructions, jumps | emit, patch, fold, expand | distances that move while they are fixed | `LuauBytecode` |
| Interpreter and loader (`lvmexecute.cpp`, `lvmload.cpp`, `lfunc.cpp`) | stack, frames, upvalues | one instruction each | `top`, open upvalues, shared closures | `LuauVM`, `LuauMeaning` |
| Calls and coroutines (`ldo.cpp`, `lcorolib.cpp`, `lbaselib.cpp`) | status, `nCcalls`, `CallInfo`, the native stack | resume, yield, pcall, error, close | unwinding through nested resumes, yields across `pcall` | `LuauCoroutine`, `Coroutines` |
| Tables (`ltable.cpp`, `ltablib.cpp`) | array part, node part, `lastfree` and the boundary hint | get, set, rehash, next, length, list functions | collision chains, boundary search, loops over a table that changes | `LuauTable`, `LuauTableLib`, `LuauDictionary` |
| Collector (`lgc.cpp`, barriers in `lgc.h`, `lapi.cpp`, `lvmexecute.cpp`, `lfunc.cpp`, `lstring.cpp`) | colour of each object, `gcstate`, `gray`, `grayagain`, `weak`, sweep position, sleeping bits | `gcstep`, `luaC_fullgc`, barriers, `luaF_close`, `luaF_findupval` | the program changes the heap between any two collector steps | `LuauGC` |
| Collector pacing, stack growth, interned strings, page allocator, registry references, standard library algorithms, custom functions, task scheduler lookup, patches of the host process, injection, forms | | | | section 8 |

How they interact: the click handler starts a client thread; the pipe connects
it to the listener thread; `execute` hands the text to the scheduler thread
through the queue; the scheduler creates a coroutine on the Lua state, compiles
and resumes it; the interpreter allocates, which calls the collector; every
store of the interpreter and of the C API that could hide an object from the
collector calls one of its barriers. The composition follows that path:
`LuauFrontEnd` is text to tree, `LuauVM` is tree to bytecode to behaviour, and
both share the trees of `LuauAst`; `LuauVM` leaves to `LuauTable`,
`LuauCoroutine` and `LuauGC` what each of them looks at on its own, and holds
tables as the dictionaries that `LuauTable` is shown to implement.

## 2. Modules

| Module | What it is |
|---|---|
| `ScriptPipeline`, `MCScriptPipeline` | the pipeline from the button to the queue and the scheduler; scripts for its runs |
| `LuauGC`, `MCLuauGC` | the collector and all heap stores it depends on; object names and sets |
| `Coroutines` | what coroutines and protected calls promise to a script (abstract) |
| `LuauCoroutine`, `MCLuauCoroutine` | how `ldo.cpp` and the libraries keep the promise; two coroutines |
| `LuauDictionary` | what a table promises (abstract) |
| `LuauTable`, `LuauTableLib`, `MCLuauTable` | how `ltable.cpp` keeps it; the list functions of `ltablib.cpp`; colliding keys |
| `LuauAst` | trees and the passes before code generation |
| `LuauParser`, `LuauSource`, `LuauFrontEnd`, `MCLuauFrontEnd` | the parser; how trees are written and which texts the grammar derives; from text to tree or error; texts |
| `LuauCompiler`, `LuauBytecode` | code generation; jumps of finished code |
| `LuauMeaning` | what a tree means, by evaluation (reference) |
| `LuauVM`, `MCLuauVM` | the interpreter on the compiled code; chunks |
| `LeastNumber`, `ScriptPipelineProofs`, `LuauGCProofs`, `LuauCoroutineProofs`, `LuauCoroutineLinks`, `LuauCoroutineRefinement`, `LuauTableProofs`, `LuauDictionaryProofs` | proofs (section 6) |

### ScriptPipeline

One action per step of a thread that another thread can observe. The UI thread
(`Inject`, `Poll`, `LuaPipe`) follows `Functions.Inject` and
`NamePipes.LuaPipe`. A click's thread connects, writes in pieces of any size,
closes, or finds the pipe broken. The listener follows `executor_main` line by
line from the start of the scheduler to `DisconnectNamedPipe`. The scheduler
polls the queue, takes `front()` and pops. `push()` and `pop()` of the
`std::deque` under the queue are external code; because no lock guards them
they are split at the load and the store of the size, which gives all the
outcomes that the two threads can produce on that field. `raced` records
whether a push and a pop have ever overlapped. Nothing in the code says what the
queue is worth after that, so `FifoUnlessRaced` and `QueuedScriptsRun` are about
what holds until then: they do not catch the overlap, which the code permits.

Named pipes are external too and modelled by the documented results that the
code relies on: `ConnectNamedPipe` returns FALSE for a client that came before
the call, `ReadFile` fails after the client has closed and the data is used up,
`DisconnectNamedPipe` discards what was not read.

The compile and resume step of `execution.cpp` is one action: whichever part of
it fails, the `catch` leads to the same `pop()`.

### LuauGC

Objects are members of the constants `Tables`, `Closures`, `UpVals`, `Threads`,
`Strings` and `Udatas`; an object is an address, "free" when it holds nothing.
Colours are relative to `currentwhite`, so that the flip at the end of the
atomic step turns white into dead and dead into white.

| In the code | In the model |
|---|---|
| `gco->gch.marked` | `mark[o]` |
| metatable, `cl->env`, `L->gt` | `tab[o]` |
| array and hash part | `entries[t]`, pairs; array entries have the key `NoObj` |
| `uv->v` | `open[u]` (a stack cell) or `value[u]` |
| `L->stack`, `L->top` | `stack[<<th, i>>]`, `top[th]` |
| nested resumes | `chain`, the running thread is its last member |
| `THREAD_SLEEPINGBIT` | `sleeping` |
| `gcstate` | `gcstate`, with the step `GCSatomic` split in its three loops, between which nothing else runs |
| `sweepgcopage` | `unswept`, in any order of the pages |
| `luaC_fullgc` | `full`, during which nothing else runs |

`Collect` is `gcstep`, one unit of work per action. `Mutate` is what the
running thread may do between two of them. Every barrier is one operator named
after its function in `lgc.cpp`; every store uses the barrier that its code
calls, and the stores without a barrier (registers, basic metatables,
`lua_replace` of the globals, `lua_xmove` from a suspended thread) have none.
`DupClosure` is the first use of a closure that the loader made: it is not new,
may be black by then, and takes its upvalues with a barrier for each.

### LuauCoroutine implements Coroutines

`Coroutines` is the promise: each coroutine is a stack of activations, one runs
at a time and knows who resumed it, an error goes to the innermost protected call
of its own coroutine, else to the resumer, and a coroutine yields from any depth
except inside a metamethod or an error handler. A handler runs on top of the
activations that the error left, and what it returns ends its `xpcall` with them. `LuauCoroutine` is the code: `native` is the C++
stack with its `try` blocks (a resume, a call of `luau_execute`, a pcall, a
pcall's handler, a continuation), `th[t]` has the `CallInfo` array with the
`LUA_CALLINFO_HANDLE` flags and the counters `nCcalls`, `baseCcalls` of each
thread, and `signal` is the exception that is being thrown. The refinement mapping
(`ImplementsCoroutines`) reads activations from `CallInfo`, life from `status` and
the resumer from the records of `lua_resume`; everything else about the native
stack, that is, which `pcall` is a C++ frame and which only a flag since a yield
took its frame away, is hidden by it. That is what makes it worth checking: an
abstract error has one destination, the code finds it in two different ways.

`MaxC` and `HardC` are `LUAI_MAXCCALLS` and the limit of an error handler. Their
one assumption is that the second is the greater: `luaD_checkCstack` allows a
handler an eighth more (`LUAI_MAXCCALLS + (LUAI_MAXCCALLS >> 3)`).

### LuauTable implements LuauDictionary

A table is a value: `array`, `node` (functions over positions with relative
`next` offsets) and `last`, the word shared by `lastfree` (positive) and the
negated boundary hint. Every function of `ltable.cpp` that changes a table is an
operator from tables to tables, named after it; the actions are the calls that
scripts and the collector make (store, read, length, loop steps, `table.insert`,
`remove`, `move`, `unpack`, `find`, `create`, `clear`, `clone`, freezing, the
collector's dead keys and shrinking). `MaxHash` bounds the sizes scripts ask for, not those a rehash
chooses. A call that stores a row of elements, `{...}` (`SetList`, nils of a
multiple result included) or `table.move` from another table (`TMoveFrom`, where
what the other table holds is any list), replies with the row and its first key,
so that the dictionary can compare what it should hold with what the table
holds; a move within the table (`TMove`) may overlap itself and goes up or down
for that reason. `LuauDictionary` is a mapping with a length that may be any border and a
loop that answers each entry once; `ImplementsLists` is the refinement. Loops
over `ipairs(t)` may go on after any store only where `Stubborn` says so: the
run `table_ipairs` shows what happens then.

The keys of a table are `IntKeys`, an interval of the integers that reaches to
every size a script may ask the array part to have (a number between two keys is
a key as well, and `table.create(n, v)` makes `n` entries), and `ObjKeys`, which
are no integers. `Hash` is any function: nothing may depend on how well it
spreads the keys.

The variable `reply` is read by no action, and the properties read only its
next value, so the run `tables` leaves it out of the fingerprint (`VIEW`). The
two values differ in nothing but their names, and the run has no liveness
property, so it may exchange them (`SYMMETRY`).

### From text to behaviour

`LuauParser` passes the parser's state from operator to operator, as the
methods of `Parser` do with their object; a thrown `ParseError` puts the state at
the end of the text, where every loop ends. `LuauSource` knows nothing of the
parser: it writes trees down, in a plain and in a short style, and decides by a
recogniser of the grammar in the comments of `Parser.cpp` which texts are
grammatical. `LuauFrontEnd` parses one text per behaviour: a written tree, or a
text with a token lost, the rest lost, one too many or one for another.

Types are read and dropped: the compiler looks at none. Where the parser takes
more than the comments of its grammar say, the recogniser has a rule for what it
takes and says so: a pack whose default is missing after `=`, a list of one type
and a pack that an operator follows in a return type, a type in parentheses that
is given a name. It is stricter in one place: in `A<(T)?>` the parentheses end a
pack and the `?` is an error. `parseTypeAnnotation` puts the recursion counter
back before it looks for operators and counts them once more, so that a row of
types counts until the expression or statement it is in ends: a flat type can meet the
limit that is meant for nested ones.

`LuauCompiler` has one operator for each method of `Compiler` that emits code;
what the object holds is a context passed down, so that leaving a `RegScope` or a
block is going back to the context before. Jumps carry labels until
`LuauBytecode` gives them distances and folds or expands them, at the end of a
function, like `BytecodeBuilder::endFunction`'s callers. `FoldJumps` follows
chains to their end in one go; the builder does it in the order of the patches
and stops at jumps it has replaced by returns, which comes to the same end. A
jump whose distance to the end of its chain does not fit (`Fits`) stays as it
is; no chunk of the runs is long enough for that after folding.

`LuauVM` runs the result, an action per instruction. `LuauMeaning` evaluates the
tree directly over a store of variables; both record what the host function
`emit` is given, and they must agree. The meaning evaluates from left to right
and looks a method up after the arguments, as `NAMECALL` does. Compiled code
reads an operand that is a local, or the object of a method call, only when the
operation runs; the language leaves that order open, so no chunk of the run
changes such a local in between.

All chunks and texts are compiled, evaluated and parsed once, in the definitions
`LanguageChunks` and `SyntaxSources` of the MC modules, so that Init only chooses.

## 3. Properties

Each property is broken by at least one plausible bug of the code, listed as a
mutant in `PROJECT.json`.

ScriptPipeline: `ScriptsArrive` (what reaches the scheduler is a whole script,
or what zero bytes leave of it, each at most once), `FifoUnlessRaced` (the queue
is a FIFO as long as push and pop have not overlapped), `OneLossAtMost` (only the
first connection can be dropped unread), `FunctionsFirst`, `QueuedScriptsRun`,
`ClientsFinish`, and `InjectReturns`, which fails.

LuauGC: `NoDanglingRefs` (no use after free: nothing live refers to memory that
is free or about to be freed, stale stack slots included), `BlackNotToWhite`
(the tri-colour invariant of `validateobjref`, extended to sleeping stacks),
`GrayLists` (each gray object with a `gclist` is on one list exactly),
`SleepingThreads`, `OpenUpvals`, `DeadOnlyUnswept`, `ChainAnchored`,
`FreesOnlyGarbage`, `ClearsOnlyWeak`, `GarbageIsFreed`, `MarkingEnds`.

LuauCoroutine: `CountsNativeCalls` (`nCcalls` is the depth of the native stack
across all the threads on it), `NativeStackBounded`, `ActiveIffOnStack` (the bit
the collector trusts, across calls, resumes, yields and deaths; the bit that a
failed `pcall` puts back was always set), `LinkInv` (each protected call, handler and metamethod has
its record or continuation, and the handle flag is set on just the frames that may
still catch), `ImplementsCoroutines`.

LuauTable: `NoNestedRehash`, `BoundaryInvariant` (what `luaH_getn` relies on),
`EveryEntryIsFound` (chains end, and each entry, dead keys included, is found
from its main position), `ImplementsLists`, and `IpairsIsGenerator`, which fails.

LuauFrontEnd: `ParsesBack`, `CompilesExactlyTheGrammar` (error recovery never
turns into acceptance), `ScopesAreLeft` (after any damage every scope, function,
loop and recovery token has been given back), `ReportsTheDamage`.

LuauVM: `RunsAsMeant`, `TopIsSetWhenRead` (`L->top` is right just where an
instruction reads it), `ClosedBeforeReturn` (`RETURN` closes no upvalue, so the
compiled code must), `Halts`, and `JumpsFit`, which fails at one distance.

## 4. Runs

| Run | Instance | Question |
|---|---|---|
| `pipeline` | 3 clicks, scripts of at most 3 symbols, one with a zero byte; fairness | mixing, order, losses, zero bytes, progress of scripts and clients |
| `pipeline_inject` | 1 click, limit of 2 tries | the polling loop: violated |
| `gc_threads` | main thread, coroutine, closure, upvalue; 2 slots per stack, coroutine and closure as values | stacks, sleeping, closing, nested resumes |
| `gc_closures` | closure, upvalue, the registry as a shelf, full collections at any step; fairness | what is freed, what a cycle leaves, that garbage goes, that marking ends |
| `gc_tables` | 2 tables and the registry, a string, a userdata, weak modes, metatables of the globals and of basic types; 1 slot | barriers of tables, gray lists, weak entries, strings that come back |
| `coroutines` | 2 threads of at most 5 frames, limits 4 and 6 for 200 and 225 | counters, limits, frames and their records, refinement |
| `tables` | integer keys 1 to 3, an object key that collides, 2 values | chains, rehash, border, refinement of the list functions |
| `table_ipairs` | keys 1 and 2, an object key; loops that go on after any store | the fast path of `ipairs`: violated |
| `language` | 1,515 chunks, `MaxJump` 7 | compiled code means what its tree means |
| `language_inline` | 6 chunks, `MaxJump` 31 | inlined calls whose result reads their target: violated |
| `language_jumps` | 12 chunks, `MaxJump` 31 | the longest unexpanded jump: violated |
| `syntax` | trees with every statement and expression, in two styles, types in every place, some 15,000 damaged texts; limits 14 and 3 | the parser against the grammar |

Bounds of the pipeline. `Clicks`, `Script` and `TriesLimit`: three clicks make a
client that waits, one that writes and one that has gone possible at once;
`MayDie` lets the library fail before it has
a pipe (`set_state` throws).

Bounds of the heap. The runs have at most one object of each kind that the run
is about, beside the main thread, the registry and the globals: a barrier
relates two objects, and the third party, a root or a stack, is always there.
`StackSize` is 2 where a coroutine is resumed or a captured slot lies under
another one. `Cap`, `Shelves`, `Keys`, `Modes`, `Loads`, `Metatables`,
`BasicMetatables`, `Environments` and `ForceGC` choose which of the mutator's
operations a run uses, `Stores` which values they store, capture or hand over,
so that each run looks at one group of operations closely; each operation occurs
in some run. In `gc_tables` a stack has one slot, so the table with a metatable is
its own: metatables and environments of other objects take the same barrier
(`BarrierF`) that `gc_closures` and the theorems cover. `NoDanglingRefs`,
`BlackNotToWhite` and `GrayLists` are run on the heap of `gc_tables`, which has no
closures and upvalues and no coroutine; that they hold with those as well is
shown by the theorems `NothingDangles`, `BlackNeverToWhite` and `GrayAreListed`
only. The theorems hold for all values of these bounds.

Bounds of tables. With three integer keys and one object key a table goes
through every size from none to four nodes, its array part grows and shrinks, and
`Colliding` makes chains meet and a node in the way move (`key1` and 2 share a
main position in any table of at most four nodes, as do 1 and 3 in one of two).
`MaxArray` and `MaxHash` are sizes scripts may ask for, not the sizes a rehash
may reach.

Bounds of coroutines. Two threads resume each other in either order; five frames
hold a protected call in a handler in a protected call. The limits only have to
leave room below and above them: 4 lets a resume, a pcall and a call run, and the
hard limit leaves the handler two.

Bounds of the language. The chunks are families over expressions, targets,
loops, ways to leave them, bodies of inlined functions and places of calls, in
combination rather than in depth: a hazard of this compiler is one feature
inside another. `MaxJump` stands for 32767. Its conservative third is 10922 for
16 bits, and 2 or 10 here; like 32767, 7 and 31 leave 1 when divided by 3, on
which the rounding of the comparison depends. With 7, all but the shortest
branches of the run are expanded; chunks whose jumps all fit are folded.

Bounds of the syntax. The recursion limit is met and passed by the nested trees
of depth up to 16, the error limit by damaged texts. The typed statements that
are damaged are short enough to stay below it.

Deadlock is not checked in the pipeline, which may be idle for ever, nor in
`language` and `syntax`, whose behaviours end. It is checked in all other runs.

## 5. Fairness

`ScriptPipeline!Fairness`: the threads belong to the operating system, which
schedules all of them, and none waits for a lock; users need not click.
`LuauGC!FairSpec`: weak fairness of `Collect`. The collector runs whenever the
allocation debt reaches its threshold; a program that never allocates again
never collects, and the liveness properties say nothing about it.
`LuauVM!Spec`: weak fairness of the interpreter's next instruction, which only
its thread's caller could withhold. `Coroutines`, `LuauCoroutine` and the tables
are about safety and state none: a script may do nothing for ever.

## 6. Proofs

All theorems hold for every value of the constants that the module's named
assumption admits: `KindsAssumption` and `BoundsAssumption` of `LuauGC`,
`LimitsAssumption` of `LuauCoroutine`, `TableAssumption` of `LuauTable`, or that of
`ScriptPipeline`. Each inductive invariant was checked by TLC on the runs'
instances before it was proved.

`LeastNumber` derives from the library's well-founded orders that a non-empty set
of naturals has a least element. It stands in for induction over numbers: the
first zero byte of a chunk, the first resumed thread that is not marked, the
first step of a chain or of a loop of the code that fails to do what it should.

### ScriptPipelineProofs

`PipelineInv` is inductive (`PipelineInvariant`). Its parts, and why they are
needed:

- `TypeOK` with `Popping`: a pop that is under way found a string, or the
  subtraction could make the size negative;
- `Stages`: where the listener is tells in which state the pipe is and what
  `WholeScript` holds; `Ends`: one client at most is connected;
- `Whole`: received, buffered and unsent parts of the connected client make up
  its script; `Queuing`: each queued text is the script of a client that is done.
  Both only for scripts without a zero byte;
- `NothingEarly`: before the listener has created the pipe nothing is queued;
- `Fifo`: between the load and the store of a push or pop, the deque is as if
  the operation had not started, unless the two overlapped.

Theorems: `TypeCorrect`, `ScriptsStayWhole` (`WholeScriptsOnly`: the
part of `ScriptsArrive` about scripts without zero bytes),
`FunctionsAreFirst` (`FunctionsFirst`), `QueueIsFifo` (`FifoUnlessRaced`).

The second half is about scripts that may hold zero bytes, for any cutting of the
bytes into chunks. `ArrivalInv` (`ArrivalInvariant`) says:

- `Carried`: what has been read, what is in the pipe and what is unsent are
  together one script, and `WholeScript` is what may arrive of the part that was
  read (`Arrives`): at least what `strlen` keeps of the whole, nothing that is not
  in the script, and all of it if no zero byte was met. It is stated of parts of
  scripts because a chunk is cut at its own first zero byte, while later chunks
  are appended again;
- `Arrived`: the same of each text in the queue;
- `Budget`: each text queued or underway has used up a client that is done, so
  that no script is queued twice;
- `Losses`: all clients but one are `Secure`: theirs is a listener that will read
  everything, and once they are done the script is queued or underway. The one
  is the client that connected before `ConnectNamedPipe` was called for the first
  time (`Unserved` says that there is none yet).

Theorems: `EveryTextArrives` (`ScriptsArrive`) and `AtMostOneIsLost`
(`OneLossAtMost`).

### LuauCoroutineProofs

Any number of threads, any limits, any depth of frames. `CoroutineInv`
(`CoroutineInvariant`) is about the native stack as a whole, because
`CountsNativeCalls` is not inductive: what `nCcalls` will be is written down in
records below the top, and comes back when the stack unwinds. Its parts:

- `Good`: the records of the native stack form one segment for each resumed
  thread, standing on more and more of that thread's frames; a handler follows
  its `pcall`, a continuation its resume, and no thread has more `pcall`s than
  calls, but for one that runs now;
- `FrameAt`: the frame that a native call waits for is still there;
- `SavedAt`: at each record the count that the code saved, or will compute from
  `baseCcalls`, is the depth of the native stack there. Below a running error
  handler it may be more, since `luaD_pcall` puts `nCcalls` back only when the
  handler has run; `NoHandler` is that exception, and it is the one
  `CountsNativeCalls` makes;
- `Waiting`: a thread that resumed another keeps its count and has the frame of
  `resume` on top; `Now`: the running one has the count of its depth;
- `Actives`: exactly the threads on the native stack have the active bit, and
  `baseCcalls` of each started in bounds.

`PushRest` and `PopRest` say what pushing and popping a record need, and each
action has a lemma that uses them; throwing is popping, one record at a time.
Theorems: `CountersInBounds` (`TypeOK`: no counter passes the hard limit or falls
below zero), `CallsAreCounted` (`CountsNativeCalls`), `NativeStackIsBounded`
(`NativeStackBounded`), `ActiveThreadsAreOnStack` (`ActiveIffOnStack`).

### LuauCoroutineLinks, LuauCoroutineRefinement

`CoroutinesAreImplemented`: `Spec => ImplementsCoroutines`, for any number of
threads, any limits and any depth of frames. `CoroutineInv` counts records; to
know what an error, a yield or a return does to a script's activations one has to
know which record each frame of `CallInfo` belongs to. `LinkInv`
(`FramesMatchRecords`) says so. The run `coroutines` checks it too. Its parts:

- `Shaped`: which frame may stand on which; a library function runs on top only,
  and its caller is a function;
- `Owner`: the frame that each record put there: `luaD_call` below `luaD_pcall` has
  the body, below an error function or continuation the handler, else a
  metamethod;
- `Ran`: between two records there are only frames that one `luau_execute` or one
  `resume_continue` runs. It is why `LUA_CALLINFO_RETURN` is met by the record on
  top, and why a `wrap`, `resume` or `yield` is never in the middle;
- `Placed`: the converse. A frame of `pcall` or `xpcall` has a native `luaD_pcall`,
  a continuation that handles its error, or is below every record of its
  coroutine but the resume, which is the case after a yield. The handle flag is
  set in all cases but the second. A metamethod or handler has a `luaD_call`, or
  an error left it under the handler that runs now (`Buried`);
- `Stretched`: once the coroutine is inside a call that `baseCcalls` does not allow
  for (`Strange`: a metamethod or a continuation's handler), or inside an error
  function that `luaD_pcall` runs (`Over`), `nCcalls` is above `baseCcalls` and stays
  so until that call is over; outside of them the two are equal. So `lua_yield`
  refuses just what the abstract module refuses;
- `Resting`: a coroutine off the native stack has frames only if it yielded, and
  then all of its flags are set and none is a metamethod;
- `Busy`: while no error is underway a function is on top.

The innermost abstract catcher is then the native record that `Catcher` finds, if
there is one, and `resume_findhandler`'s frame if not: a frame above the one that catches has lost its flag or its protected
call. There is one lemma for each action, and for each way in which `Return`, `Unwind`
and `Resume` may go: those for calls, and for returns to `luaD_call` and from
`luaD_pcall`, are in `LuauCoroutineLinks`, with what pushing and cutting does to
`LinkInv`; those for error functions, continuations, errors, yields, resumes and
deaths are in `LuauCoroutineRefinement`. `Linked...` lemmas say that pushing and cutting frames and
records keeps a coroutine linked, `MovingLinks`, `EnteringLinks` and
`LeavingLinks` that the others are not disturbed.

### LuauTableProofs

One table, any keys, any hash function, all calls of `LuauTable` and
`LuauTableLib`. `TableInv` (`TableInvariant`) is `TableOK` of the table and, of a
loop, that its position is a key or a number (`CursorOK`). The parts of
`TableOK`, and why they are needed:

- `NodesType`, `Untouched`: a node that was never used is as it was made, so that
  `getfreepos` may take it; no chain leads to it;
- `Unjoined`, `AtHome`: chains do not join, and the main position of a key in the
  table holds a key of that main position: the case distinction of `newkey`
  between a colliding node at home, behind which the new key goes, and one that
  is not, which is moved away;
- `Ending`: a rank falls along each chain. Stated by a rank, not by the chain's
  length, it survives the insertion of a node in the middle;
- `Found`: the chain from a key's main position leads to it. This is wanted;
- `LastOK`: all nodes from `lastfree` on are taken. `getfreepos` only goes down,
  so a free node above it would never be found again;
- `Apart`: no node has a key of the array part or the one right after it, without
  which a rehash could leave two entries of one key, and a border would be wrong;
- `ArrayKeys`: entries of the array part have keys.

A rehash does not call itself, because `resize` has room for everything it puts
back: as long as not all nodes are taken, `getfreepos` finds one (`LastOK`, and the
library's pigeonhole principle), and the sizes that `rehash` and `adjustasize`
choose are counted to be enough. Then there is one lemma for each function of
`ltable.cpp` and each call. Theorems: `TableKeepsTypes` (`TypeOK`),
`RehashIsFlat` (`NoNestedRehash`), `BorderIsOutside` (`BoundaryInvariant`),
`EntriesAreFound` (`EveryEntryIsFound`).

### LuauDictionaryProofs

`ListsAreImplemented`: `LibSpec => ImplementsLists`. The table under the calls of
scripts, table library and collector is a dictionary, for any keys, values, hash
function and sizes. Its hypothesis `~Stubborn` is about the scripts, not the
table: they give up a loop over `ipairs(t)` once an element it has passed is
gone. `table_ipairs` is the other case, where the loop is no longer one over a
list. The invariant `DictInv` is `TableInv`, that `dict` is what the table holds,
and `LoopOK`: a loop by keys finds the key where it stopped, a loop by keys or
positions has as `todo` exactly the entries ahead of it, and a loop by numbers
has not left the array part.

- `Updated`, `Alike`: a function of `ltable.cpp` changes the entry of one key,
  or of none. `Set` updates, whether it finds the key, places it (`PlaceKey`,
  also when a colliding node moves away) or rehashes first; resizing, cloning,
  killing dead keys and asking for the length leave the entries alike;
- `Regained`: after `i` steps of `resize`, the new table holds what was in the
  array part that stays or in the `i` entries put back so far;
- `Ahead`, `Fewer`: which entries a traversal has still to answer, and that
  changes and removals, and dead keys, leave every key at its position;
- `MovedBy`: what `moveelements` has moved after each step, in an order in which
  no element is overwritten before it is read;
- `Holding`: what `table.move` from another table has stored after each step;
- `EndsIsBorder`: hint, binary search and the number of elements give a border,
  because the key after the array part is in no node (`Apart`);
- `SetCovers`: a list that was in the array part is still there after a store:
  the size that `rehash` chooses covers every full prefix (`ArraySizeCovers`).

Each call then has a lemma that names the action of the dictionary it is;
`Collect` is a stutter.

### LuauGCProofs

`TypeCorrect` has one lemma for each group of actions, on top of `MarkingTypes`,
`BarrierTypes` and `ClosingTypes` about the operators they share. The lower
bound of `top` is no part of `TypeOK`: that a `Yield` finds the coroutine's
argument on the stack of its resumer follows from `ChainAnchored` only.

`ColourInv` speaks of colours and lists alone. The operation that closes a slot,
stores a value or wakes a thread matters only through `Recoloured`: what the
barriers and `luaF_close` may do to colours and lists together
(`RecolouringKeepsColours`). `GrayKinds`, `SweepFacts` and `MainFacts` strengthen
`DeadOnlyUnswept`, `GrayLists` and `SleepingThreads`: without them the flip could
leave a gray object outside the sweep, or free the main thread. Theorems:
`DeadAreUnswept`, `GrayAreListed`, `SleepersAreBlack`.

The second half of the module is about what is reachable. `Points(o, x)` is the
relation of references; the invariant `HeapInv` says of it:

- `HeapClosed`, `LiveRoots`: live objects refer to live ones only. This is what
  is wanted;
- `BlackClosed`: while marking, black objects refer to no white one. At the flip
  white becomes dead, so that `HeapClosed` after the flip needs it before;
- `FreeEmpty`: free memory refers to nothing, so that an allocation starts clean;
- `AtomicFacts`: what each loop of the atomic step has achieved: values of gray
  open upvalues, the running thread, basic metatables, weak tables, the threads
  of `grayagain`. The flip happens with these objects still gray, so that
  `BlackClosed` does not speak of them;
- `OpenLinks`: an open upvalue belongs to one slot of a stack that is there, or
  closing a slot would leave an upvalue behind;
- `ChainAnchored`: each resumed thread lies on the stack of its resumer.

For the mutator, `NewEdges` states what every barrier promises about the
references that a step adds, and `MutatorKeepsHeap` that the promise is enough;
each barrier and each operation has its lemma. For the collector there is one
lemma for each step. `ResumedAreMarked` is the argument for coroutines that are
being resumed: the least member of the chain that were white would lie on the
stack of a marked one before it, which is gray, hence on `grayagain`, hence
scanned.

Theorems: `HeapHolds` (the invariant), `NothingDangles` (`NoDanglingRefs`),
`BlackNeverToWhite` (`BlackNotToWhite`), `UpvaluesAreLinked` (`OpenUpvals`),
`ResumedAreAnchored` (`ChainAnchored`), `OnlyGarbageIsFreed`
(`FreesOnlyGarbage`: the live objects are a closed set without the freed one) and
`OnlyWeakIsCleared` (`ClearsOnlyWeak`: the marked ones are closed under strong
references when marking ends).

### Only model-checked

- `LuauVM` and `LuauFrontEnd` altogether: parser, compiler and reference meaning
  are recursive operators over trees, which the proof system does not take, and
  their agreement is an induction over programs;
- what depends on fairness (`QueuedScriptsRun`, `ClientsFinish`,
  `GarbageIsFreed`, `MarkingEnds`, `Halts`): out of the prover's reach;
- `InjectReturns`, `IpairsIsGenerator` and `JumpsFit`, which fail.

## 7. Findings

`pipeline_inject`: the loop of `Functions.Inject` runs while the pipe does not
exist *or* the number of tries has passed ten, so once it has passed ten the
loop never ends, even when the pipe appears; the message behind the loop is meant
for exactly that case.

`table_ipairs`: `LOP_FORGLOOP_INEXT` ends a loop over `ipairs(t)` at the end of
the array part. A store in the body may rehash the table and leave the next
element in the hash part, where `luaB_inext`, which `Luau/Bytecode.h` says the
instruction stands for, would find it.

`language_inline`: `a = f()` with `f` inlined compiles the returned expression
straight into the register of `a`, also when that expression reads `a` after its
first part was written (`return a == 2 or a`). The comment at
`Compiler.cpp:1386` describes the hazard for the expressions it guards.

`language_jumps`: `expandJumps` compares with `>` where its comment says `>=`. A
jump of exactly the conservative distance over nothing but long jumps, to a long
jump, ends up one past what 16 bits hold. In the run, ten long breaks in a branch
make it so; nine or eleven do not.

## 8. Not modelled

- Code that patches or inspects another program (`roblox/checks`,
  `roblox/offsets`, `utilities/memory`, `utilities/pattern_scan`,
  `utilities/hooks`, `RACBW`, `Injector/Injector.cs`) makes no claim that a model
  could state. Forms are layout.
- `ScriptPipeline`: the compile and resume step is one action; what it leaves on
  the global state's stack and in the registry is not in the state.
- `LuauGC`: pacing (a step may run at any time, which covers every choice of
  it), pages (swept in any order), prototypes (written only while they are
  loaded), shrinking of stacks and of the string table.
- `LuauCoroutine`: values, memory errors, `lua_break` and the debugger's hooks.
- `LuauTable`: metatables and `tmcache`, memory errors in the middle of a
  resize, the limits of 2^26, `sort`, `concat`, `pack`.
- `LuauParser`: declarations (off), characters (numbers, escapes, interpolation),
  comments and hot comments, operators of other languages (`&&`, `!=`) and
  confusable characters. The depth of the tree that a chain of suffixes builds
  without recursion, and the recursion of later passes over it, are not bounded
  by a property.
- `LuauCompiler`: fast calls and folding of builtins, limits on registers,
  constants and upvalues, table shapes and size hints, imports of three names,
  line information and the flags that are off by default. The check that refuses
  `continue` in a repeat loop whose condition reads a local declared after it is
  in the model as the code has it: a constant local of an outer scope has no
  register either and is refused as well. No chunk of `language` has that.
- `LuauBytecode`: the bytes of instructions and constants, the 24 bits of
  `JUMPX`.
- `LuauVM`: metatables, fast calls, interrupts, breakpoints, inline caches,
  garbage collection, coroutines, stack growth. An import is resolved with the
  globals of the host when the chunk is loaded, and no chunk changes a field that
  it imports.
- Standard library functions of values (`lstrlib.cpp`, `lutf8lib.cpp`,
  `lbitlib.cpp`, `loslib.cpp`, `lmathlib.cpp`, `lbuiltins.cpp`), the page
  allocator, the string table, registry references and the growth of stacks keep
  little state across calls that the other modules do not already allow for.

## 9. Plan

1. Prove: that a jump of `LuauBytecode` below the conservative distance still fits
   after `ExpandJumps`. It needs what recursive functions over code compute for
   every code, so first a library of such facts by way of `LeastNumber`.
2. Extend: registry references and the scheduler's stack, composed with
   `ScriptPipeline`; the encoding of bytecode and the loader's integers.
