# libVersioningCompiler in TLA+

libVersioningCompiler compiles C/C++ functions while a program runs, loads the
result, and keeps several *Versions* of a function side by side. These modules
model the parts of it that keep state other parts depend on: the log files that
compilers share and their mutexes, the Versions with their files and libraries,
the Builder that configures them, the calls that run clang and opt as libraries
and the pipeline they make of their options, the JIT with its tables, and the
manager of LLVM's global state. TLC checks them on small
instances; TLAPS proves the main safety properties for every value of the
constants.

Line numbers refer to `src/` (`Compiler.cpp` is `src/lib/Compiler.cpp`, and so on).

## 1. The system

### Components

| Component | State | Operations | Modelled in |
|---|---|---|---|
| `Compiler` (log) | static map path -> (count, mutex), `mtx_map_mtx`; the log file | constructor, destructor, `addReferenceToLogFile`, `removeReferenceToLogFile`, `lockMutex`, `unlockMutex`, `log_string`, `log_exec` | `CompilerLog` |
| `Compiler` (loading) | none of its own; the dynamic loader's | `loadSymbols`, `releaseSymbol` | `Version` |
| `Version` | three file names, symbol vector, library handle, function names and their index, autoremove flag | `prepareIR`, `compile`, `fold`, `reload`, `getSymbol`, queries, destructor | `Version` |
| `Version::Builder` | lists of options, flags, sources, functions; the last Version built | `build`, clone from a Version, `createFromSO`, setters | `Builder`; `createFromSO` in `Version` |
| `SystemCompiler` | command names, `supportsIR` | `generateIR`, `generateBin` | `Version` |
| `SystemCompilerOptimizer` | command name | `runOptimizer` | `Version` |
| `ClangLibCompiler` | static `opt_parse_mtx`; diagnostics engine | `generateIR`, `runOptimizer`, `generateBin` | `ClangLib`, `PassPipeline` |
| `JITCompiler` | maps of modules, layers, resource trackers; its own `opt_parse_mtx` | as above, `addModule`, `loadSymbols`, `releaseSymbol`, destructor | `JIT`, `JITCalls`, `PassPipeline` |
| `LLVMInstanceManager` | a lazily built singleton | `getInstance`, constructor, destructor | `LLVMInstance` |
| `FileLogDiagnosticConsumer` | pending diagnostics, an open log stream | `HandleDiagnostic`, `EndSourceFile` | no: see §6 |
| `Option` | three strings, immutable | - | no: no state to go wrong |
| `Utils`, `JITUtils` | a default compiler and builder | `vc_utils_init`, `createVersion`, `compileVersion` | `createVersion` in `Builder` |
| `OptUtils`, `NewPMDriver` | LLVM option tables copied from `opt` | `resetOptOptions`, `addPass`, `GetCodeGenOptLevel` | `ClangLib`, `PassPipeline`; not the other options |

### How they interact

A program builds Versions with a Builder. Each holds a shared pointer to a
Compiler, and many Versions may hold one. A Version's calls are forwarded:
`prepareIR` to `generateIR` and `runOptimizer`, `compile` to `generateBin` and
`loadSymbols`, `fold` to `releaseSymbol`. Compilers communicate with each other
only through three shared things:

- **the log**: compilers with the same log path share a mutex, found by the path
  in a static map with its own mutex and reference counts;
- **files and libraries**: a clone starts with the IR *name* of its original,
  `createFromSO` opens any library, and the loader counts how often one is open;
- **LLVM's command line options**, process-wide, guarded by `opt_parse_mtx`;
- **LLVM itself**: compilers keep copies of one shared pointer, and the last to
  let go of it shuts LLVM down.

Versions of one `JITCompiler` share more: its tables, and one JITDylib in which all
of them define their functions by name.

### What is hard here

- `lockMutex` and `unlockMutex` search the map *without* its mutex while other
  compilers insert and erase entries (Compiler.cpp:272, 286).
- `log_exec` writes a command, what its child prints and an end while it holds
  the log (59-81): a record is many writes.
- A Version keeps names of files others may delete and handles of libraries
  others may hold; any order of calls must keep names, pointers, handles and the
  loader's counts together (Version.cpp:50-193).
- Commands fail, and `log_exec` drops their exit status: what counts is whether
  the output exists afterwards.
- Errors are reported *inside* locked sections: `log_string` locks the log that
  `generateIR` has locked (ClangLibCompiler.cpp:160-172), and `runOptimizer` has
  returns between `lock()` and `unlock()` (249-553).
- LLVM's options are global variables that are set by a parser, taken back in part
  by the loop that reads them, and reset by one compiler class and not by the
  other; the order of passes and levels is rebuilt from positions.
- A Version of the JIT has state in five places, its own `symbol` and `lib_handle`
  and the compiler's tables, and its functions in a namespace shared with others.
- A builder goes on living after `build`: it keeps flags and the Version, and a
  clone starts from lists into which the flags have gone.
- `getInstance` tests and fills a static pointer without a lock.

`PROJECT.json` lists every such hazard at its line, with the properties that would
catch it, and a note where they catch it in part or not at all.

## 2. Modules

### CompilerLog (with AtomicLog, CompilerLogRefinement, CompilerLogProofs)

Threads build, use and destroy compilers. `phase` and `logFile` are a compiler
object's, `refs` the map's counts, `mapOwner` and `mutexOwner` who holds
`mtx_map_mtx` and the mutex of a path, `pc`, `op` and `arg` where a thread is in a
call, and `content` the log files.

| Code | Actions |
|---|---|
| constructor, destructor | `Construct`, `Destroy`, then `LockMap`, `FindEntry`, `WriteEntry`, `UnlockMap`; `ConstructSilent`, `DestroySilent` for the empty path, which returns early |
| `lockMutex` | `LockFind` (the search begins), `LockMutex` (it ends, then `lock()`) |
| `log_string`, `log_exec` | `Log`, then the above, `WriteFirst`, `CopyOutput`, `WriteTail` |
| `unlockMutex` | `UnlockMutex` (its search and `unlock()`) |

A search that overlaps an insertion or erasure in the map is undefined behaviour.
`WriteEntry` records the threads whose search it overlapped (`torn`), and such a
search may find its entry or miss it (`FindReturns`); `raced` remembers that it
happened once. Properties about exclusion assume `~raced`, and `NoRace` says when
that holds: when all compilers log to one path, the map changes only while no
compiler of that path can be in use. The auxiliary `calls` numbers a thread's calls,
so that a record in `content` can be told from another; it also bounds the runs.

`AtomicLog` is what a reader of a log file may rely on: every call appends its
record at once. `CompilerLogRefinement` maps the detailed file to it: the reader sees
the file up to the first piece of a record in progress (`SettledPart`).
`ImplementsAtomicLog` is checked by TLC and proved.

### Version (with VersionProofs)

One action per call: `Build`, `Clone`, `CreateFromSO`, `PrepareIR`, `Compile`,
`Fold`, `Reload`, `Destroy`; the queries are operators. `CallSymbol` is the
program calling a loaded function, which may write the library's globals
(`dirty`). The file system is `disk`, the loader is `opens` (how often a library
is open) and `exports` (what it defines, chosen anew at each compilation).

A call is one step: Versions have no locks, and two threads may not call one
Version at once. Within the step the code's order is kept: `LoadSymbols` follows
the test of Compiler.cpp:114-142, `PrepareIR` clears the optimized name only on
the path that does. A command (`CommandRuns`) may write, remove or leave its
output whether or not it succeeds, and cannot succeed without its inputs. Three
kinds of compilers are covered: without IR, with IR, and with an optimizer.
`ret` remembers the last call, its result and the commands that ran.

An id is never used twice: it is a fresh uuid (Version.cpp:31-45).

### ClangLib (with ClangLibProofs, which also proves JITCalls)

Threads call `generateIR`, `runOptimizer` and `generateBin` of compilers that live
throughout. `logOwner` and `parseOwner` are the mutexes, `options` names the calls
whose options LLVM's globals hold; `back` is where a `log_string` returns to. Each
lock, unlock, report and return of the three functions is a step. `Reject`,
`Leave` and `Diverge` are the returns that leave `opt_parse_mtx` locked;
`BuildFails` in `generateIR` is the report inside the log's own lock. A thread
writes to its log in a `log_string` and while it is at `drive`, where both drivers may
print (`Writes`); that of `generateBin` holds no mutex then (`DrivesUnlocked`). One report
stands for the several that choosing passes may write: nothing is locked or
unlocked between them. Options that do not parse end the process
(`ParseCommandLineOptions` has no error stream), so the model has no such step.

A program has either this class or `JITCompiler`: both translation units include
OptUtils.hpp, which defines options such as `PGOKindFlag` (272) with external
linkage, so that the two do not link together.

### Selection (with SelectionProofs)

Some elements of a sequence in their order, told by position: what `remove_if` leaves
of a list (`Version.cpp:439`) and what a list of LLVM's parser has of a command line.
`Picked` takes the elements at a set of positions and `Only` those in a set of values.
They are defined by counting and not by recursion over the sequence, which is what
makes them provable; `Builder` and `PassPipeline` use them.

### Builder (with BuilderReference, BuilderProofs)

One action per constructor, configuring call, `reset`, `build` and destruction of
builders; `conf` holds a builder's fields, `kept` is its `_version_ptr`, `built`
what each Version was given, and `held` the Versions the program has pointers to.
An option is its tag and value. The constructors from the mandatory parameters
leave `_autoremoveFilesEnable` uninitialised (Version.cpp:313, 324): its value is
any Boolean. The field is public, and `SetAutoremove` is the program assigning it, which
is how one asks for files to stay (Version.hpp:383, Test.cpp:199). The history variable
`removal` is what was last said about it, by an assignment, a `reset` or default
constructor, or the Version cloned from; `"unset"` if nothing was. The other public
fields are assigned in `createVersion` only, or as `setCompiler` does.
`asked` and `base` are history too: the calls since a builder was constructed or
reset, with what they returned, and the fields it had then. `createVersion` of the
two Utils headers is an action of its own, a builder that lives for one call.

`BuilderReference` says what the option lists of a Version are, of the *calls* and
not of the lists a builder edits step by step: a call contributes options
(`Contribution`), those survive that no later call replaces or removes (`Remaining`),
and the flags come in front. Every option that survives has a turn, the number of
those asked for before it, and stands there (`AsAsked`). `BuiltAsAsked` states that
`build` agrees with it.

### JIT (with JITProofs)

One `JITCompiler` and its Versions. `modules`, `layers`, `trackers` and `loaded` are
the compiler's tables, `jd` says whose definition a name has in the JITDylib,
`ready` which modules have been compiled; `irs`, `disk`, `bin`, `symbol` and
`handle` are the Versions'. What the sources define (`defines`) and the lists the
Versions ask for (`asks`) are arbitrary and fixed at the start.

| Code | Actions |
|---|---|
| `prepareIR` | `PrepareIR`: both commands may fail and leave the file, or remove it (`Written`) |
| `compile` | `GenerateBin`, then `LoadSymbols` and a `FindSymbol` per function; `CompileAgain` for a Version that has its binary |
| `generateBin` | `GenerateBin`: a layer, a tracker, and the module if it parses; the IR is generated first when no file of it exists |
| `loadSymbols`, `addModule`, `findSymbol` | `LoadSymbols` with `AddModule`, then `FindSymbol` |
| `fold`, `reload`, destructor, `releaseSymbol` | `Fold`, `Reload`, `Destroy`, all with `ReleaseSymbol` |
| `~JITCompiler` | `DestroyCompiler` |

Taken from ORC, because the code relies on it: a module one of whose names is
defined already is refused as a whole, a lookup compiles the module that defines
the name, the process answers for what no module defines, and a failed lookup,
whose error is consumed (JITCompiler.cpp:668), reads as a null pointer.
`generateBin` moves `_JTMB` into the layer (747): later layers have an empty
target (`LayerFor`), and the first compilation in one ends the process
(`up = "crashed"`).

### JITCalls (proofs in ClangLibProofs)

`JITCalls` extends `ClangLib` by what differs in `JITCompiler.cpp`: the report when
there is no clang, after which `generateIR` goes on (136), an optimizer that parses
without a reset (`LockJIT`), and `generateBin`, which runs no driver but a whole
`generateIR` when there is no IR (`Nest`, `Unnest`; `nested` names the threads
inside one). The other steps are those of `ClangLib` (`AsClangLib`): the two files
have them in the same order.

### PassPipeline (with PassPipelineReference, PassPipelineProofs)

How `runOptimizer` orders passes and levels. `on` and `position` are the level
options, `list` is `PassList`, `next` the loop's index, `pipeline` what has been
added. `class` is the compiler class: `ClangLibCompiler` resets the options before
it parses, `JITCompiler` does not (`AfterReset`). The loop of 384-427 adds, before
each pass, the levels given before it (`Due`, in the order of the code's seven tests,
`InOrder`), and switches their options off; the code after it adds the rest and leaves
them on.

`PassPipelineReference` defines the pipeline of a command line without a loop: all
its passes and levels (`Added`), each once and each at its turn, the number of those
that precede it. They precede each other in the order of the line, except that levels
with no pass between them have the fixed order of the code (`Precedes`, `Rank`). Of a
level that is given twice the last place counts (`IsLast`), as an option that is no list
keeps its last position; the parsers of older LLVM end the process instead, which leaves
nothing to say of such a line.

### LLVMInstance (with LLVMInstanceProofs)

Threads construct and destroy compilers: `Enter`, `Test`, `Make`, `Assign`, `Copy`
are the accesses of `getInstance` to the static pointer, one step each. `LetGo` is
what a shared pointer does when it is overwritten or destroyed: a manager nobody
owns is destroyed, and LLVM with it. The unsynchronised accesses are a data race;
the model has the outcomes in which a pointer is read and written whole.

### MC modules

`MCCompilerLog`, `MCVersion`, `MCClangLib`, `MCBuilder`, `MCJIT`, `MCJITCalls`,
`MCPassPipeline` and `MCLLVMInstance` give names to the sets the configurations use.
Operators such as `FoldKeepsSymbols`, defined before the operator they vary, are
plausible bugs of the code; for every property there is one that breaks it, so no
property holds whatever the code does.

## 3. Runs

| Run | Question | Answer |
|---|---|---|
| `log_one_path` | Two threads, two compilers, one path: is the log as good as atomic? | Yes: `NoRace`, `CallsReturn`, `ImplementsAtomicLog`. |
| `log_two_paths` | Two paths: are counts exact, do mutexes outlive their users, do writers exclude each other? | Yes, exclusion as long as no search raced: `RefCountExact`, `MutexOutlivesUsers`, `ExclusiveWriters`, `RecordsWhole`, `OnlyHolderReleases`. |
| `log_race` | Does `lockMutex` always acquire? | No: a search that misses returns without the lock. |
| `version_files` | Do names and files agree, over clones and failing commands? | `NoOrphanFiles`, `UnsharedFilesExist`, `PreparedIsCompiled` hold. |
| `version_loader` | Do handles, pointers and the loader agree, over shared libraries? | `HandlesCounted`, `SymbolsValid`, `LookupByName`, `SiblingsUndisturbed` hold. |
| `clang_lib` | Do calls on clang and opt keep to their options and logs, and return? | `OwnOptions`, `NoMutualWait` hold; lines and `generateIR`'s driver have a log to themselves, but for drivers of `generateBin` (`LogWritersExclusive`); `CallsReturn` as long as no error is reported between a lock and its unlock; `DriversIsolated`: a driver call hangs at most with its own log. |
| `clang_optimizer` | Does `runOptimizer` always return (ClangLibCompiler.cpp:207)? | No: after an error the next call waits for ever. |
| `builder` | Does a Version have what its builder was asked for, and what does the builder hold on to? | `BuiltAsAsked`, `IndexNamesFunction`; a dropped Version lives on only in a builder that was not reset since (`LingersOnlyInBuilder`), and its files are removed or kept as was last said (`RemovalAsConfigured`). |
| `jit` | Do the JIT's tables, its JITDylib and the Versions agree? | Yes: `TablesAgree`, `DefinitionsLoaded`. One Version runs for ever (`OneVersionRuns`), a second one does not; with names of their own Versions get their own code (`OwnCodeWhenApart`), otherwise they may not (§5). |
| `jit_calls` | Do JIT calls keep to their options and logs, and return? | `OptionsSettled`, `NestedNoMutualWait` hold; `JITCallsReturn` as long as no error is reported between a lock and its unlock; a failed optimizer stops no other kind of call (`CompilesIsolated`). |
| `pass_pipeline` | Is the pipeline that of the command line? | With its own options only, yes (`PipelineAsAsked`); over those of earlier calls a JIT's optimizer still runs its own passes last and its levels once (`OwnPassesRun`), after more of what came before. No pass that is named goes unverified (`PassesVerified`). |
| `llvm_instance` | Is LLVM up while it is used, and shut down once? | Yes unless the first calls of `getInstance` overlap: `UpWhileUsed`, `ShutAtTheEnd`. |

### Bounds

- Log: two threads and two compilers, three calls for one thread and two for the
  other (`MaxCalls`): enough for a thread to build, use and destroy a compiler
  while the other builds and uses one of the same or another path. Two paths are
  enough to race, since a race needs one to search and one to change the map.
- Versions: two, and each may be cloned from or open the library of the other, so
  every kind of sharing occurs. There is no bound on the number of calls: names,
  handles and files are finite and all orders of calls are explored.
  `version_loader` asks for two functions, one of them twice, so that order and
  duplicates matter; `version_files` needs one function and all three kinds;
  the two Versions are symmetric there.
- `ClangLib`: two threads, two logs and the empty path, two calls each: a call can
  meet what an earlier one left behind, in its own thread and in the other. The
  violations need one log only.

- `Builder`: one builder, two Versions, two function names, so that an index that shifts
  is another function's, and two configuring calls in all, an assignment counting as one: the builder is
  reset, cloned from a Version, assigned over and used again any number of times,
  so flags meet lists that hold flags already. Two calls are enough for each to
  undo or shift the other; `base` carries the fields on from one life of the
  builder to the next.
- `JIT`: two Versions, two functions, one of which the process defines too, and all
  combinations of what is defined and asked for, no function included. Three runs
  of `generateBin`, so a Version fails and compiles again beside another.
- `JITCalls`: two threads, one log and the empty path, two calls each.
- `PassPipeline`: all command lines of up to three items, twice: a level before, between
  and after passes, or given more than once, and every leftover of one call in the next. The levels and
  passes of MCPassPipeline include one without a constructor.
- `LLVMInstance`: three threads, so that a third meets the managers two have made.

Deadlock checking is off where the system really stops: threads end after
`MaxCalls` calls, and all Versions may be dead.

### Fairness

`FairSpec`, and `FairJITSpec` in the same way, adds weak fairness of `Continue(t)` for each thread: a thread inside a
call is scheduled again, and children, drivers and passes end. Nothing makes a
program begin a call. Weak fairness is enough although `std::mutex` is not fair,
since a finite number of calls competes for it; with unbounded calls one thread
could be overtaken for ever, and the properties do not speak about that.

## 4. Proofs

TLAPS checks every theorem. Assumptions are those named in the modules
(`ClangLibAssumption` and so on): the distinguished values differ from ordinary
ones, `Versions` is finite, bounds are natural numbers.

**CompilerLogProofs**, any threads, compilers, paths and files. `RefCountExact`
is not inductive by itself: a count is exact only if the read and the write of an
entry are one critical section, and a destructor runs only on an object no call
uses. `IInv` adds what `op`, `pc` and `arg` say together (`CallOK`), that one
thread builds or destroys an object (`OneBuilder`), the section of `mtx_map_mtx`
(`MapOK`) and, unless a search raced, those of the log mutexes (`LockInv`).
Results: `TypeCorrect`, `CountsExact`, `MutexLives`, `Exclusion`,
`HolderReleases`, and `OneLogNeverRaces`, which needs all of it: with one path,
a thread that searches uses a live compiler, so the count is positive and an
insertion or erasure of the only entry impossible.

The second half is about the files. `ContentInv` says that a thread in the middle of
a record has its pieces at the *end* of the file (`OpenAtEnd`), and that nobody who
has not reached the file in its present call has a piece of that call in it
(`CallsKept`); without the second a new record could look like part of an old one.
It needs that no two paths name one file (`OneName`, two spellings have two mutexes)
and `~raced`. `RecordsStayWhole` follows. For the refinement, `AtomicUnlessRaced`
shows in such states that the end of a record is the step that appends it for the
reader, that the beginning of another one and the pieces between leave what the
reader sees alone, and that every other step does too: `ImplementsAtomicLog` holds of
every behaviour that never races, for any number of paths. `LogIsAtomic` is the
theorem without that condition: where there is one path, `OneLogNeverRaces` says that
no behaviour races.

**VersionProofs**, any finite set of Versions, kinds and function lists.
`LoaderInv` joins the types with `HandlesCounted` and `SymbolsValid`: a count
cannot go below zero, since who closes a handle is among those counted, and
pointers are dropped exactly when the handle is. The theorems assume
`NamesAsked`: every Version asks for at least one function. Without it they are
false: with no names `symbol` stays
empty although the library is open, and the next `compile` overwrites the
handle. `NoCallDisturbsSiblings` proves the action property `SiblingsUndisturbed`
from the same invariant: what a sibling holds is counted, so closing one
reference leaves the library loaded.

`FilesInv` is about names and files and needs no assumption on function names.
`UnsharedFilesExist` says that a file only its maker names exists; it is not
inductive: by itself it allows a shared file that is missing, and a sharer that then
takes another name. The strengthening is `LostToTheDead`: a file that a Version made and names
exists, or a *dead* Version still names it, since the destructor deletes the file
and never clears the names. With it go that a Version not built yet has names nobody
uses (`UnbornIsUnnamed`) and that only optimizers name optimized files. Results:
`NoFileIsOrphaned`, `FilesOfOneExist`, `PreparedIRIsCompiled`.

`LookupInv` adds to `LoaderInv` that the pointers of a Version are those of its
library *now* (`LookedUp`), though a compilation chooses anew what a library defines.
That is so because a library is written once: who names it, by `createFromSO`
included, has it from its maker, whose name is then never empty again
(`BinariesOwned`), and `generateBin` runs only for an empty name.
`NamesAreLookedUp` gets from there to the first index of a name.

**ClangLibProofs**, any threads, logs and number of calls. `Inv` says who holds
which mutex where: being in the section of `opt_parse_mtx` implies owning it
(`ParseOwned`), not conversely, since an error leaves it locked; for a log the
owner is known exactly (`LogOwned`), which rests on the report of `generateIR`
inside its own lock never getting any further. `Cleared` is what `OwnOptions`
needs before the options are parsed. Results: `TypeCorrect`,
`OptimizersKeepTheirOptions`, `WritersExcludeEachOther` and `NoCircularWait`. The second
follows from `LogOwned`: all writers own the log but for the drivers of `generateBin`,
which the theorem leaves out, because they take no lock.

The second half of the module is about `JITCalls`. The steps that both
compiler classes have use the same lemmas, which are stated from the
parts of `Inv` they need (`LogTypes`, `LogOwned`, `ParseOwned`). What is different is
the options: nothing clears them, so `OwnOptions` fails, and `OptionsOK` says instead
that a call whose options LLVM holds is past its parser or about to return, and that
no call to come has any (`OptionsPast`: calls are numbered). `CallOK` ties a place to
the call that has it, so that a nested `generateIR` returns into `generateBin`.
Results: `OptionsAreSettled`, `NestedCallsDoNotWait`, `JITWritersExcludeEachOther`. The
last is stronger than its counterpart for the other class (`JITLogWritersExclusive`, no
exception): a JIT's `generateBin` has no driver but that of `generateIR`.

**PassPipelineProofs**, any levels, passes, command lines and number of calls. A level
of the present call is on until it is in the pipeline, and in it exactly once from then
on (`LevelsAdded`): a leftover option cannot add it again, because parsing makes them
one option. `Verified` holds at every turn of the loop where each pass has its own
verifier, and at the end only where there is one for all. The lemmas on sequences
(`Joined`, `OnceJoined`, `ListsJoined`) say where the elements of a concatenation come
from; `LevelsInOrder` applies them to the seven tests. Results: `PassesAreVerified`,
`LevelsAreAddedOnce` and `CodeGenFollows`.

The order of a pipeline needs to know where the loop is. A sequence is `Arranged` as a
line asks at a set of positions if there is a numbering of these along which each
precedes every later one and none precedes an earlier one. `OrderInv` says that, for a
call with fresh options, the pipeline without its verifiers is arranged at what the line
adds up to the last pass reached, and that the levels given last behind that pass, and
no others, are on (one there always is: `GivenLast`). A turn appends the levels of the `Stretch` to the next pass: there is no pass
among them (`LevelsBetween`), so the code's fixed order is the right one
(`InOrderArranged`); the pass before the stretch keeps all of it behind what is there
(`ReachedBefore`, `PassSeparates`). Two numberings one after the other are one
(`ArrangedJoined`), and along a numbering the n-th has n-1 before it
(`ArrangedAsGiven`): `PipelineIsAsAsked`. `OwnInv` holds with leftovers too: `PassList`
ends with the passes of this call, and those of the pipeline are those of `PassList`
up to the one reached, so `OwnPassesRunLast`.

**SelectionProofs** has the facts that this and BuilderProofs use: a set of positions
can be counted in order (`Enumerable`; no induction: how many positions are not above
a given one is an injection of the set into 1..m, hence onto), `Picked` follows any such count
(`PickedAlong`), and `Only` of a concatenation or of another `Only` is what one expects
(`OnlyJoined`, `OnlyOfOnly`).

**BuilderProofs**, any builders, Versions, names, lists and number of calls. A
builder's and a Version's fields are tied to the calls on record: every index
returned for a name is where the name is, and names are only appended, so it stays
there in each Version built later (`IndexesStay`). A Version in `_version_ptr` was
built from the calls its builder has on record, or fewer (`DroppedVersionsEnd`).
A builder's names are also those it started with and perhaps more, so a clone's
functions keep their indexes. `RemovalIsKnown` carries what was last said about the flag
through assignments, builders, Versions and clones.

`OptionsAreAsAsked` is about the lists. The invariant `ListsInv` says of every builder
and Version that each list is `Traced`: its elements can be numbered by what remains of
the contributions, in the order of the calls and within a call of its list; and that the
flags are those asked for, in reverse. One more call changes what remains in one of four ways:
a set leaves its own contribution (`SetTraced`), a removal a selection
(`RemovalTraced`), an addition one element more (`AdditionTraced`), any other call
nothing new (`NothingTraced`); a clone starts a new trace at the list it was given
(`StartTraced`). The calls are dispatched to these by `Effect`. That a traced list has
each option at its turn is again a matter of counting (`TracedTurns`).

**JITProofs**, any Versions, functions and lists, and any number of `generateBin`.
The invariant adds to `TablesAgree` and `DefinitionsLoaded` what a call in progress
has done so far: between `LoadSymbols` and the last `FindSymbol` the Version is
loaded, and its vector is a prefix of what was asked for. `OwnCodeOfEach` needs
that the definitions of Versions with names apart never refuse each other.

**LLVMInstanceProofs**, any threads. `Alone` says whom a thread inside `getInstance`
can meet as long as no call overlapped the first, `NoLeak` that the live managers
are those somebody owns, `Shutdown` what that means for LLVM.

**Model-checked only.** Liveness (`CallsReturn` of both modules, `JITCallsReturn`,
`DriversIsolated`, `CompilesIsolated`), which is out of the prover's reach. Every
safety property, action property and refinement that a passing run checks is proved.
The type invariants of `Builder`, `JIT` and `LLVMInstance`, and `JITLogWritersExclusive`,
are proved and have no run.

## 5. Divergences without a run

Seen while modelling. Where nothing else is said the models have the behaviour, and
no configuration shows it.

Log and Versions:

- The map's key is the text of a path (Compiler.cpp:272): two spellings of one
  file have two mutexes, and records mix.
- `hasLoadedSymbol` (Version.cpp:90) is true for a vector of null pointers, against
  "correctly loaded and ... currently available" (Version.hpp:78).
- `getSymbol(name)` finds nothing after `createFromSO`, which does not fill
  `mapFnToIndex` (Version.cpp:512; Version.hpp:111).
- A Version of `createFromSO` deletes the library it opened, even another
  Version's, unless autoremove is off (Version.cpp:56).
- `prepareIR` always runs the compiler (Version.cpp:159), against "only if a
  LLVM-IR file is not yet available" (Version.hpp:136).
- Folding one of two holders does not reset the library's globals (Test.cpp:433
  expects the initial state, with one holder).
- `reload` of a Version whose library cannot be opened ends in the exception of
  `symbol.at(0)` (Version.cpp:122, 128), against "nullptr on failure"
  (Version.hpp:130).
- A clone names the IR file of its original, which the destructor of either deletes:
  `hasGeneratedIR` stays true, against "is available" (Version.hpp:63).
- A failed command over an old file counts as a success (SystemCompiler.cpp:80):
  the exit status is dropped, against "filename on success" (Compiler.hpp:71).
- A Version without function names opens its library again at each `compile`, and
  `fold` closes it once, against "Closes the shared object" (Version.hpp:120).

ClangLibCompiler and the optimizer:

- `generateIR` waits for itself when it reports that there is no Compilation: the
  report locks the log that the call has locked (ClangLibCompiler.cpp:160-170).
  The properties of `ClangLib` and `JITCalls` name this state, `ReportsLocked`.
- The driver of `generateBin` may print into the log beside other writers: it has the
  log file as `CCPrintOptionsFilename` and, with `VC_DEBUG`, prints its commands there
  (ClangLibCompiler.cpp:627-632), but runs at 641 without the mutex that `generateIR`
  takes at 160. `CMakeLists.txt` defines `VC_DEBUG` for the test programs only; the
  library prints when it is compiled with it too. `LogWritersExclusive` leaves out
  exactly these writers.
- Several levels with no pass between them are added in the code's fixed order and
  not in the order of the command line (PassPipelineReference, `Precedes`).
- A JIT's optimizer never resets options: passes accumulate in `PassList`, and levels
  that were added after the loop are added again by the next call
  (JITCompiler.cpp:265, 423-440).
- With `-verify-each` the levels after the last pass, or a line of levels only, have
  no verifier behind them, against "Check that the module is well formed on
  completion of optimization" (ClangLibCompiler.cpp:462).
- From LLVM 17 on `AddOptimizationPasses` builds pipelines, drops them, and adds only
  a verifier (OptUtils.hpp:456-463): a level optimises nothing. Not modelled.
- The first argument the optimizer parses points into a temporary path
  (ClangLibCompiler.cpp:241, JITCompiler.cpp:255). Not modelled.

JIT and LLVM:

- Only the first layer has a target machine builder, since `generateBin` moves
  `_JTMB` (JITCompiler.cpp:747): the first lookup in a second Version ends the
  process, although the tables are there "to keep a state of the various versions"
  (JITCompiler.hpp:86).
- A second Version that defines a function of the first one gets the first one's
  pointer, without an error it could see (JITCompiler.cpp:566-572), against "looks
  for the version saved module" (594).
- `generateBin` of a Version whose second `prepareIR` failed finds the IR file of the
  first, generates none, and parses the C source as IR (JITCompiler.cpp:757, 779).
- IR that `generateBin` makes for itself is in no Version's names and is never removed.
- When the first calls of `getInstance` overlap there are two managers, and dropping
  one shuts LLVM down under the other's compilers, against "at the end of the
  program" (LLVMInstanceManager.hpp:60).

## 6. Not modelled

- The text of commands and options (`getOptionString`, `getArgV`), log wording and
  diagnostics layout: no property is about them.
- LLVM, clang and the programs run: external, they may fail where the code asks.
- `popen` returning NULL (Compiler.cpp:70): undefined behaviour of `fgets`.
- Concurrent calls on *one* Version: it has no lock and the documentation does
  not offer it.
- `FileLogDiagnosticConsumer`: nothing in the library calls `EndSourceFile`, the only
  method that writes (FileLogDiagnosticConsumer.cpp:178), so it keeps diagnostics
  that nobody sees. What it does with one is formatting.
- Two threads in the tables of one `JITCompiler`, or a builder used by two threads:
  neither has a lock.
- Copies of a builder, which the compiler generates and which share `_version_ptr`, and
  assignments to its public fields other than `_autoremoveFilesEnable` and `_compiler`:
  the program may write any list it likes there.
- `Option`, and the remaining options of `OptUtils.hpp`: values without a protocol.
- Tests, build files and packaging: read for what they claim.

## 7. Open

Every safety property that a run checks is proved. Within reach and not done:
`createFromSO` with any library of the program instead of one (`UserLib`).
