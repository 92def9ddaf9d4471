------------------------------ MODULE Version ------------------------------
(***************************************************************************)
(* The life of Version objects (lib/Version.cpp) over a compiler that runs *)
(* system commands (lib/CompilerImpl/SystemCompiler.cpp, and               *)
(* SystemCompilerOptimizer.cpp), the file system and the dynamic loader.   *)
(*                                                                         *)
(* A step is one call on one Version.  A Version keeps three file names    *)
(* (IR, optimized IR, binary), the handle of its open library and the      *)
(* pointers it looked up.  Files and libraries are shared: a clone starts  *)
(* with the IR name of the Version it was cloned from, createFromSO opens  *)
(* any library, and the loader counts how often a library is open.         *)
(*                                                                         *)
(* External, modelled by what the code relies on: the commands (they may   *)
(* fail and leave, remove or write their output whatever their exit code,  *)
(* which log_exec ignores) and dlopen, dlsym, dlclose.                     *)
(***************************************************************************)
EXTENDS Integers, Sequences, FiniteSets

CONSTANTS
    Versions,    \* Version ids; an id (a uuid) is never used twice
    Fns,         \* names of functions
    Kinds,       \* which compilers its Versions hold
    FnLists,     \* the lists of function names a program asks for
    NoFile,      \* the empty path, and the null handle
    NullPtr,     \* nullptr, as an element of Version::symbol
    Throws       \* a call that ends in std::out_of_range

ASSUME VersionAssumption ==
    /\ FnLists \subseteq Seq(Fns)
    /\ IsFiniteSet(Versions)

\* A compiler without LLVM-IR, one with IR but no optimizer (SystemCompiler with
\* supportsIR), or SystemCompilerOptimizer.
ASSUME KindsAssumption == Kinds \subseteq {"plain", "ir", "opt"} /\ Kinds # {}

HasIRSupport(k) == k # "plain"
HasOptimizer(k) == k = "opt"

\* getBitcodeFileName, getOptBitcodeFileName, getSharedObjectFileName, and the
\* library a user brings to createFromSO.
BitcodeName(v) == <<"IR", v>>
OptBitcodeName(v) == <<"opt_IR", v>>
SharedObjectName(v) == <<"lib", v>>
UserLib == <<"user">>

Libs == {SharedObjectName(v) : v \in Versions} \cup {UserLib}
Names == {BitcodeName(v) : v \in Versions}
            \cup {OptBitcodeName(v) : v \in Versions} \cup Libs

Pointers == (Libs \X Fns) \cup {NullPtr}

ASSUME NamesAssumption == NoFile \notin Names /\ NullPtr \notin Libs \X Fns

VARIABLES
    life,        \* "none", "alive" or "dead"
    kind,        \* Version::compiler
    fns,         \* Version::functionName
    named,       \* Version::mapFnToIndex is filled
    auto,        \* Version::autoremoveFilesEnable
    ir,          \* Version::fileName_IR
    opt,         \* Version::fileName_IR_opt
    bin,         \* Version::fileName_bin
    symbol,      \* Version::symbol
    handle,      \* Version::lib_handle
    disk,        \* the files that exist
    exports,     \* the functions a library defines
    opens,       \* how often the loader has a library open
    dirty,       \* loaded libraries whose global variables were written
    ret          \* the last call: name, Version, result, commands that ran

config == <<life, kind, fns, named, auto>>
files  == <<disk, exports>>
loads  == <<symbol, handle, opens, dirty>>
vars   == <<config, ir, opt, bin, loads, files, ret>>

Alive(v) == life[v] = "alive"

\* What a call returned, and the outputs it ran commands for, with their success.
Returns(call, v, value, ran) ==
    ret' = [call |-> call, of |-> v, value |-> value, ran |-> ran]

-----------------------------------------------------------------------------
(* The queries.                                                            *)

HasGeneratedIR(v) == ir[v] # NoFile
HasOptimizedIR(v) == opt[v] # NoFile
HasGeneratedBin(v) == bin[v] # NoFile
HasLoadedSymbol(v) == symbol[v] # <<>>

\* vector::at of getSymbol(i); C++ counts from 0, a sequence from 1.
At(s, i) == IF i \in DOMAIN s THEN s[i] ELSE Throws

GetSymbol(v) == At(symbol[v], 1)

\* getSymbol(name): the last index build() stored for the name.
GetSymbolOf(v, f) ==
    LET index == {i \in DOMAIN fns[v] : fns[v][i] = f}
    IN  IF named[v] /\ index # {}
        THEN At(symbol[v], CHOOSE i \in index : \A j \in index : j <= i)
        ELSE NullPtr

-----------------------------------------------------------------------------
(* Commands: log_exec runs one, then the caller asks whether the output    *)
(* exists.  A command without its input cannot succeed.                    *)

CommandRuns(d, inputs, out) ==
    (IF inputs \subseteq d THEN {[ok |-> TRUE, disk |-> d \cup {out}]} ELSE {})
        \cup {[ok |-> FALSE, disk |-> e] : e \in {d, d \ {out}, d \cup {out}}}

\* The name, whether or not the command left the file.
IfExistsUnasked(name, d) == name

\* The name generateIR, runOptimizer and generateBin return.
IfExists(name, d) == IF name \in d THEN name ELSE NoFile

-----------------------------------------------------------------------------
(* The loader.                                                             *)

\* Unloads the library, whoever else has it open.
ClosedForAll(o, lib) == IF lib = NoFile THEN o ELSE [o EXCEPT ![lib] = 0]

\* dlclose on a handle that is not null.
Closed(o, lib) == IF lib = NoFile THEN o ELSE [o EXCEPT ![lib] = @ - 1]

\* Global variables live as long as their library stays open.
StillLoaded(o) == {lib \in dirty : o[lib] > 0}

\* Skips the names the library does not define.
SymbolsInFound(lib, names, ex) ==
    LET found == SelectSeq(names, LAMBDA n : n \in ex[lib])
    IN  [i \in DOMAIN found |-> <<lib, found[i]>>]

\* dlsym of every name asked for; nullptr for one the library does not define.
SymbolsIn(lib, names, ex) ==
    [i \in DOMAIN names |->
        IF names[i] \in ex[lib] THEN <<lib, names[i]>> ELSE NullPtr]

\* Compiler::loadSymbols into v, whose handle is h, in a file system d with
\* libraries ex and loader counts o: not found, not loadable, or loaded.
LoadSymbols(v, h, lib, names, d, ex, o) ==
    \/ /\ lib \notin d
       /\ symbol' = [symbol EXCEPT ![v] = <<>>]
       /\ handle' = [handle EXCEPT ![v] = h]
       /\ opens' = o
    \/ /\ lib \in d
       /\ symbol' = [symbol EXCEPT ![v] = <<>>]
       /\ handle' = [handle EXCEPT ![v] = NoFile]
       /\ opens' = o
    \/ /\ lib \in d
       /\ symbol' = [symbol EXCEPT ![v] = SymbolsIn(lib, names, ex)]
       /\ handle' = [handle EXCEPT ![v] = lib]
       /\ opens' = [o EXCEPT ![lib] = @ + 1]

\* Version::loadSymbol, when the Version's pointers are s.
LoadSymbol(v, s, h, lib, names, d, ex, o) ==
    IF s = <<>> /\ lib # NoFile
    THEN LoadSymbols(v, h, lib, names, d, ex, o)
    ELSE /\ symbol' = [symbol EXCEPT ![v] = s]
         /\ handle' = [handle EXCEPT ![v] = h]
         /\ opens' = o

-----------------------------------------------------------------------------
Init ==
    /\ life = [v \in Versions |-> "none"]
    /\ kind = [v \in Versions |-> CHOOSE k \in Kinds : TRUE]
    /\ fns = [v \in Versions |-> <<>>]
    /\ named = [v \in Versions |-> FALSE]
    /\ auto = [v \in Versions |-> TRUE]
    /\ ir = [v \in Versions |-> NoFile]
    /\ opt = [v \in Versions |-> NoFile]
    /\ bin = [v \in Versions |-> NoFile]
    /\ symbol = [v \in Versions |-> <<>>]
    /\ handle = [v \in Versions |-> NoFile]
    /\ disk = {UserLib}
    /\ exports \in {[l \in Libs |-> IF l = UserLib THEN e ELSE {}] : e \in SUBSET Fns}
    /\ opens = [l \in Libs |-> 0]
    /\ dirty = {}
    /\ ret = [call |-> "none", of |-> NoFile, value |-> NoFile, ran |-> {}]

\* A new Version object with its configuration and its IR name.
New(v, k, names, byName, remove, irName) ==
    /\ life[v] = "none"
    /\ life' = [life EXCEPT ![v] = "alive"]
    /\ kind' = [kind EXCEPT ![v] = k]
    /\ fns' = [fns EXCEPT ![v] = names]
    /\ named' = [named EXCEPT ![v] = byName]
    /\ auto' = [auto EXCEPT ![v] = remove]
    /\ ir' = [ir EXCEPT ![v] = irName]
    /\ UNCHANGED opt

\* Builder::build of a builder filled from scratch.
Build(v, k, names, remove) ==
    /\ New(v, k, names, TRUE, remove, NoFile)
    /\ Returns("build", v, v, {})
    /\ UNCHANGED <<bin, loads, files>>

\* Builder(w), perhaps another compiler, then build: the clone has w's IR name.
Clone(v, w, k) ==
    /\ Alive(w)
    /\ New(v, k, fns[w], TRUE, auto[w], ir[w])
    /\ Returns("build", v, v, {})
    /\ UNCHANGED <<bin, loads, files>>

\* Libraries whose path a program knows: its own, and getFileName_bin of a Version.
KnownLibs == {UserLib} \cup ({bin[w] : w \in Versions} \ {NoFile})

\* createFromSO: no reverse index, and compile() on the spot, which here is a
\* plain load because the binary's name is set.
CreateFromSO(v, lib, k, names, remove) ==
    /\ New(v, k, names, FALSE, remove, NoFile)
    /\ bin' = [bin EXCEPT ![v] = lib]
    /\ LoadSymbol(v, <<>>, NoFile, lib, names, disk, exports, opens)
    /\ Returns("createFromSO", v, v, {})
    /\ UNCHANGED <<dirty, files>>

-----------------------------------------------------------------------------
(* prepareIR.                                                              *)

\* generateIR came back without a file: the optimized name is not touched.
PrepareFails(v, g) ==
    /\ BitcodeName(v) \notin g.disk
    /\ ir' = [ir EXCEPT ![v] = NoFile]
    /\ disk' = g.disk
    /\ UNCHANGED opt
    /\ Returns("prepareIR", v, FALSE, {<<BitcodeName(v), g.ok>>})

PrepareOnly(v, g) ==
    /\ BitcodeName(v) \in g.disk
    /\ ~HasOptimizer(kind[v])
    /\ ir' = [ir EXCEPT ![v] = BitcodeName(v)]
    /\ disk' = g.disk
    /\ UNCHANGED opt
    /\ Returns("prepareIR", v, TRUE, {<<BitcodeName(v), g.ok>>})

PrepareAndOptimize(v, g) ==
    /\ BitcodeName(v) \in g.disk
    /\ HasOptimizer(kind[v])
    /\ ir' = [ir EXCEPT ![v] = BitcodeName(v)]
    /\ \E r \in CommandRuns(g.disk, {BitcodeName(v)}, OptBitcodeName(v)) :
        LET name == IfExists(OptBitcodeName(v), r.disk)
        IN  /\ opt' = [opt EXCEPT ![v] = name]
            /\ disk' = r.disk
            /\ Returns("prepareIR", v, name # NoFile,
                       {<<BitcodeName(v), g.ok>>, <<OptBitcodeName(v), r.ok>>})

PrepareIR(v) ==
    /\ Alive(v)
    /\ IF HasIRSupport(kind[v])
       THEN \E g \in CommandRuns(disk, {}, BitcodeName(v)) :
                PrepareFails(v, g) \/ PrepareOnly(v, g) \/ PrepareAndOptimize(v, g)
       ELSE /\ Returns("prepareIR", v, FALSE, {})
            /\ UNCHANGED <<ir, opt, disk>>
    /\ UNCHANGED <<config, bin, loads, exports>>

-----------------------------------------------------------------------------
(* compile, fold, reload.                                                  *)

\* Looks at the plain IR first.
CompileInputSwapped(v) ==
    IF ir[v] # NoFile THEN {ir[v]}
    ELSE IF opt[v] # NoFile THEN {opt[v]} ELSE {}

\* What generateBin compiles: the best IR the Version names, or its sources.
CompileInput(v) ==
    IF opt[v] # NoFile THEN {opt[v]}
    ELSE IF ir[v] # NoFile THEN {ir[v]} ELSE {}

CompileAgain(v) ==
    /\ HasGeneratedBin(v) /\ HasLoadedSymbol(v)
    /\ Returns("compile", v, TRUE, {})
    /\ UNCHANGED <<bin, loads, files>>

CompileLoads(v) ==
    /\ HasGeneratedBin(v) /\ ~HasLoadedSymbol(v)
    /\ LoadSymbol(v, symbol[v], handle[v], bin[v], fns[v], disk, exports, opens)
    /\ Returns("compile", v, symbol'[v] # <<>>, {})
    /\ UNCHANGED <<bin, dirty, files>>

CompileGenerates(v) ==
    LET out == SharedObjectName(v)
    IN  /\ ~HasGeneratedBin(v)
        /\ \E r \in CommandRuns(disk, CompileInput(v), out), e \in SUBSET Fns :
            /\ bin' = [bin EXCEPT ![v] = IfExists(out, r.disk)]
            /\ disk' = r.disk
            /\ exports' = [exports EXCEPT ![out] = IF out \in r.disk THEN e ELSE {}]
            /\ LoadSymbol(v, symbol[v], handle[v], bin'[v], fns[v], r.disk,
                          exports', opens)
            /\ Returns("compile", v, symbol'[v] # <<>>, {<<out, r.ok>>})
        /\ UNCHANGED dirty

Compile(v) ==
    /\ Alive(v)
    /\ CompileAgain(v) \/ CompileLoads(v) \/ CompileGenerates(v)
    /\ UNCHANGED <<config, ir, opt>>

\* Without symbol.clear().
FoldKeepsSymbols(v) ==
    /\ Alive(v)
    /\ opens' = Closed(opens, handle[v])
    /\ dirty' = StillLoaded(opens')
    /\ handle' = [handle EXCEPT ![v] = NoFile]
    /\ Returns("fold", v, NoFile, {})
    /\ UNCHANGED <<config, ir, opt, bin, symbol, files>>

\* releaseSymbol leaves the handle as it is.
FoldKeepsHandle(v) ==
    /\ Alive(v)
    /\ opens' = Closed(opens, handle[v])
    /\ dirty' = StillLoaded(opens')
    /\ symbol' = [symbol EXCEPT ![v] = <<>>]
    /\ Returns("fold", v, NoFile, {})
    /\ UNCHANGED <<config, ir, opt, bin, handle, files>>

Fold(v) ==
    /\ Alive(v)
    /\ opens' = Closed(opens, handle[v])
    /\ dirty' = StillLoaded(opens')
    /\ symbol' = [symbol EXCEPT ![v] = IF handle[v] # NoFile THEN <<>> ELSE @]
    /\ handle' = [handle EXCEPT ![v] = NoFile]
    /\ Returns("fold", v, NoFile, {})
    /\ UNCHANGED <<config, ir, opt, bin, files>>

\* Opens the library without folding first.
ReloadUnfolded(v) ==
    /\ Alive(v)
    /\ LoadSymbol(v, <<>>, NoFile, bin[v], fns[v], disk, exports, opens)
    /\ Returns("reload", v, GetSymbol(v)', {})
    /\ UNCHANGED <<config, ir, opt, bin, dirty, files>>

Reload(v) ==
    /\ Alive(v)
    /\ dirty' = StillLoaded(Closed(opens, handle[v]))
    /\ LoadSymbol(v, <<>>, NoFile, bin[v], fns[v], disk, exports,
                  Closed(opens, handle[v]))
    /\ Returns("reload", v, GetSymbol(v)', {})
    /\ UNCHANGED <<config, ir, opt, bin, files>>

\* The program calls a function of v's library that writes a global variable.
CallSymbol(v) ==
    /\ Alive(v)
    /\ \E p \in {symbol[v][i] : i \in DOMAIN symbol[v]} \ {NullPtr} :
            dirty' = dirty \cup {p[1]}
    /\ Returns("call", v, NoFile, {})
    /\ UNCHANGED <<config, ir, opt, bin, symbol, handle, opens, files>>

\* Forgets the optimized IR.
DestroyLeavesOpt(v) ==
    /\ Alive(v)
    /\ life' = [life EXCEPT ![v] = "dead"]
    /\ opens' = Closed(opens, handle[v])
    /\ dirty' = StillLoaded(opens')
    /\ symbol' = [symbol EXCEPT ![v] = <<>>]
    /\ handle' = [handle EXCEPT ![v] = NoFile]
    /\ disk' = IF auto[v] THEN disk \ {bin[v], ir[v]} ELSE disk
    /\ Returns("destroy", v, NoFile, {})
    /\ UNCHANGED <<kind, fns, named, auto, ir, opt, bin, exports>>

\* The last reference to v goes away.
Destroy(v) ==
    /\ Alive(v)
    /\ life' = [life EXCEPT ![v] = "dead"]
    /\ opens' = Closed(opens, handle[v])
    /\ dirty' = StillLoaded(opens')
    /\ symbol' = [symbol EXCEPT ![v] = <<>>]
    /\ handle' = [handle EXCEPT ![v] = NoFile]
    /\ disk' = IF auto[v] THEN disk \ {bin[v], opt[v], ir[v]} ELSE disk
    /\ Returns("destroy", v, NoFile, {})
    /\ UNCHANGED <<kind, fns, named, auto, ir, opt, bin, exports>>

Next ==
    \E v \in Versions :
        \/ \E k \in Kinds, l \in FnLists, a \in BOOLEAN : Build(v, k, l, a)
        \/ \E w \in Versions, k \in Kinds : Clone(v, w, k)
        \/ \E lib \in KnownLibs, k \in Kinds, l \in FnLists, a \in BOOLEAN :
                CreateFromSO(v, lib, k, l, a)
        \/ PrepareIR(v) \/ Compile(v) \/ Fold(v) \/ Reload(v) \/ CallSymbol(v)
        \/ Destroy(v)

Spec == Init /\ [][Next]_vars

-----------------------------------------------------------------------------
OwnNames(v) == {BitcodeName(v), OptBitcodeName(v), SharedObjectName(v)}

\* The files a Version names, and Versions that name a file, dead ones included.
Named(v) == {ir[v], opt[v], bin[v]} \ {NoFile}
Sharers(f) == {v \in Versions : f \in Named(v)}

Holders(lib) == {v \in Versions : handle[v] = lib}

(***************************************************************************)
(* Type invariant.                                                         *)
(***************************************************************************)
TypeOK ==
    /\ life \in [Versions -> {"none", "alive", "dead"}]
    /\ kind \in [Versions -> Kinds]
    /\ fns \in [Versions -> FnLists \cup {<<>>}]
    /\ named \in [Versions -> BOOLEAN]
    /\ auto \in [Versions -> BOOLEAN]
    /\ ir \in [Versions -> {BitcodeName(v) : v \in Versions} \cup {NoFile}]
    /\ opt \in [Versions -> {OptBitcodeName(v) : v \in Versions} \cup {NoFile}]
    /\ bin \in [Versions -> Libs \cup {NoFile}]
    /\ symbol \in [Versions -> Seq(Pointers)]
    /\ handle \in [Versions -> Libs \cup {NoFile}]
    /\ disk \subseteq Names
    /\ exports \in [Libs -> SUBSET Fns]
    /\ opens \in [Libs -> Nat]
    /\ dirty \subseteq Libs

(***************************************************************************)
(* The loader's count of a library is the number of Versions that hold it  *)
(* open: no call leaks a handle and none closes one twice, even when       *)
(* several Versions have the same library (createFromSO).                  *)
(***************************************************************************)
HandlesCounted == \A lib \in Libs : opens[lib] = Cardinality(Holders(lib))

SymbolsOK(v) ==
    /\ symbol[v] # <<>> <=> handle[v] # NoFile
    /\ handle[v] # NoFile =>
        /\ Alive(v) /\ handle[v] = bin[v] /\ opens[handle[v]] > 0
        /\ DOMAIN symbol[v] = DOMAIN fns[v]
        /\ \A i \in DOMAIN symbol[v] :
             symbol[v][i] \in {<<handle[v], fns[v][i]>>, NullPtr}

(***************************************************************************)
(* The pointers of a Version belong to the library it names and holds      *)
(* open, one for each function asked for, in the order they were asked     *)
(* for; a Version that holds no library has none ("this symbol will stay   *)
(* valid only as long as the Version object is still alive").              *)
(***************************************************************************)
SymbolsValid == \A v \in Versions : SymbolsOK(v)

(***************************************************************************)
(* getSymbol(name) of a Version that build made finds the library's        *)
(* function of that name, and nullptr for a name the library lacks, also   *)
(* when a name was asked for twice or the library was loaded again after   *)
(* other calls ("Return symbol corresponding to functionName").            *)
(***************************************************************************)
LookupByName ==
    \A v \in Versions : named[v] /\ HasLoadedSymbol(v) =>
        \A i \in DOMAIN fns[v] :
            GetSymbolOf(v, fns[v][i]) =
                IF fns[v][i] \in exports[bin[v]] THEN <<bin[v], fns[v][i]>>
                                                 ELSE NullPtr

(***************************************************************************)
(* Every file made for a Version is one it still names, so its destructor  *)
(* finds it: after the Version's death none is left, unless automatic      *)
(* removal was off.                                                        *)
(***************************************************************************)
NoOrphanFiles ==
    \A v \in Versions : \A f \in OwnNames(v) \cap disk :
        \/ Alive(v) /\ f \in Named(v)
        \/ life[v] = "dead" /\ ~auto[v]

(***************************************************************************)
(* hasGeneratedIR, hasOptimizedIR and hasGeneratedBin only look at a name. *)
(* The file is there as long as no other Version ever named it.            *)
(***************************************************************************)
UnsharedFilesExist ==
    \A v \in Versions : Alive(v) =>
        \A f \in Named(v) \cap OwnNames(v) : Sharers(f) = {v} => f \in disk

(***************************************************************************)
(* When prepareIR returns true, compile will take the IR it just prepared: *)
(* the optimized one if there is an optimizer ("compile the optimized      *)
(* IR"), and the file exists.                                              *)
(***************************************************************************)
PreparedIsCompiled ==
    ret.call = "prepareIR" /\ ret.value = TRUE =>
        LET v == ret.of
            f == IF HasOptimizer(kind[v]) THEN OptBitcodeName(v)
                                          ELSE BitcodeName(v)
        IN  CompileInput(v) = {f} /\ f \in disk

(***************************************************************************)
(* No call on one Version takes the pointers of another, unloads its       *)
(* library or resets that library's global variables, whatever files and   *)
(* libraries the two share.                                                *)
(***************************************************************************)
SiblingsUndisturbed ==
    [][ \A v \in Versions : v # ret'.of /\ handle[v] # NoFile =>
            /\ symbol'[v] = symbol[v]
            /\ opens'[handle[v]] > 0
            /\ handle[v] \in dirty => handle[v] \in dirty' ]_vars
=============================================================================
