-------------------------------- MODULE JIT --------------------------------
(***************************************************************************)
(* One JITCompiler (lib/CompilerImpl/JITCompiler.cpp, JITCompiler.hpp) and *)
(* the Versions that share it.  A binary is here the Version's id, the key *)
(* of the compiler's tables: the parsed module, the layer that compiles it *)
(* and the resource tracker its code is released by.  All Versions define  *)
(* their functions in one JITDylib, which the process's own symbols back.  *)
(*                                                                         *)
(* One call on one Version runs at a time; a step is one method of the     *)
(* compiler, and one function looked up by loadSymbols.                    *)
(*                                                                         *)
(* External, modelled by what the code relies on: clang and opt, whose     *)
(* files may be there or not; parseIRFile; ORC, where a module one of      *)
(* whose functions is already defined is not added at all, and a module is *)
(* compiled when a function of it is first looked up.                      *)
(***************************************************************************)
EXTENDS Integers, Sequences, FiniteSets

CONSTANTS
    Versions,    \* Version ids
    Fns,         \* names of functions
    HostFns,     \* those the process itself defines
    FnLists,     \* the lists of functions a Version may ask for
    NoOne,       \* no definition
    Host,        \* the process, as the definer of a function
    NullPtr,     \* nullptr
    MaxBins      \* bound: how often generateBin runs

ASSUME JITAssumption ==
    /\ HostFns \subseteq Fns
    /\ FnLists \subseteq Seq(Fns)
    /\ NoOne # Host /\ {NoOne, Host} \cap Versions = {}
    /\ NullPtr \notin (Versions \cup {Host}) \X Fns
    /\ MaxBins \in Nat

VARIABLES
    asks,        \* Version::functionName
    defines,     \* the functions the source of a Version defines
    alive,       \* the Versions that exist
    irs,         \* which of fileName_IR, fileName_IR_opt are not empty
    disk,        \* which of these files exist
    bin,         \* Version::fileName_bin is the id, not empty
    symbol,      \* Version::symbol
    handle,      \* Version::lib_handle is not null
    modules,     \* _modules_map: "absent", "null" or "module"
    layers,      \* _layer_map: "absent", "empty" or "target", see LayerFor
    trackers,    \* the keys of _resource_tracker_map
    loaded,      \* the keys of _isloaded_map
    jd,          \* who defines each function in _mainJD
    ready,       \* the Versions whose module has been compiled
    bins,        \* how often generateBin ran
    doing,       \* what remains of the call that runs
    up           \* "up"; "crashed", the process; "gone", the compiler

version  == <<alive, irs, disk, bin>>
program  == <<asks, defines>>
pointers == <<symbol, handle>>
tables   == <<modules, layers, bins>>
loads    == <<trackers, loaded, jd, ready>>
vars == <<program, version, pointers, tables, loads, doing, up>>

\* Between two calls.
Idle == [call |-> "none"]
Calling(call, v) == [call |-> call, of |-> v]

Init ==
    /\ asks \in [Versions -> FnLists]
    /\ defines \in [Versions -> SUBSET Fns]
    /\ alive = Versions
    /\ irs = [v \in Versions |-> {}]
    /\ disk = [v \in Versions |-> {}]
    /\ bin = [v \in Versions |-> FALSE]
    /\ symbol = [v \in Versions |-> <<>>]
    /\ handle = [v \in Versions |-> FALSE]
    /\ modules = [v \in Versions |-> "absent"]
    /\ layers = [v \in Versions |-> "absent"]
    /\ trackers = {}
    /\ loaded = {}
    /\ jd = [f \in Fns |-> NoOne]
    /\ ready = {}
    /\ bins = 0
    /\ doing = Idle
    /\ up = "up"

Call(v) == up = "up" /\ doing = Idle /\ v \in alive

-----------------------------------------------------------------------------
(* The files.  generateIR and runOptimizer return the name of a file that  *)
(* is there; on an error none, and the file is what it was or is gone.     *)

Written(d, file) ==
    {[name |-> file, disk |-> d \cup {file}]}
        \cup {[name |-> "", disk |-> e] : e \in {d, d \ {file}}}

\* Version::prepareIR; without an IR it keeps the name of the optimized one.
PrepareIR(v) ==
    /\ Call(v)
    /\ \E g \in Written(disk[v], "IR") :
         IF g.name = ""
         THEN /\ irs' = [irs EXCEPT ![v] = @ \ {"IR"}]
              /\ disk' = [disk EXCEPT ![v] = g.disk]
         ELSE \E o \in Written(g.disk, "opt") :
              /\ irs' = [irs EXCEPT ![v] =
                           IF o.name = "" THEN {"IR"} ELSE {"IR", "opt"}]
              /\ disk' = [disk EXCEPT ![v] = o.disk]
    /\ UNCHANGED <<program, alive, bin, pointers, tables, loads, doing, up>>

-----------------------------------------------------------------------------
(* compile, and loadSymbol of compile and reload.                          *)

\* Only the first layer gets the target of the machine: the builder of target
\* machines is moved into it, and what is left has none.
LayerWithoutTarget(earlier) == "empty"
LayerFor(earlier) == IF earlier = 0 THEN "target" ELSE "empty"

\* The file Version::compile passes: the optimized IR, the IR, or the source.
Source(v) ==
    IF "opt" \in irs[v] THEN "opt" ELSE IF "IR" \in irs[v] THEN "IR" ELSE "src"

\* Without a file of IR of its own the source is compiled to IR first.
Sources(v) ==
    IF disk[v] # {} THEN {[name |-> Source(v), disk |-> disk[v]]}
    ELSE Written({}, "IR")

GenerateBin(v) ==
    /\ Call(v) /\ ~bin[v] /\ bins < MaxBins
    /\ layers' = [layers EXCEPT ![v] = LayerFor(bins)]
    /\ bins' = bins + 1
    /\ trackers' = trackers \cup {v}
    /\ \E s \in Sources(v), parsed \in BOOLEAN :
         /\ parsed => s.name \in s.disk
         /\ disk' = [disk EXCEPT ![v] = s.disk]
         /\ modules' = [modules EXCEPT ![v] = IF parsed THEN "module" ELSE "null"]
         /\ bin' = [bin EXCEPT ![v] = parsed]
         /\ doing' = IF parsed THEN Calling("loadSymbol", v) ELSE Idle
    /\ UNCHANGED <<program, alive, irs, pointers, loaded, jd, ready, up>>

\* compile of a Version that has its binary loads it unless it is loaded.
CompileAgain(v) ==
    /\ Call(v) /\ bin[v] /\ symbol[v] = <<>>
    /\ doing' = Calling("loadSymbol", v)
    /\ UNCHANGED <<program, version, pointers, tables, loads, up>>

\* A module with a function that is already defined is not added.
AddModule(v) ==
    IF layers[v] = "absent"
    THEN UNCHANGED <<trackers, jd>>
    ELSE /\ trackers' = trackers \cup {v}
         /\ jd' = IF \E f \in defines[v] : jd[f] # NoOne
                  THEN jd
                  ELSE [f \in Fns |-> IF f \in defines[v] THEN v ELSE jd[f]]

\* A clone of a null module is undefined.
LoadSymbols(v) ==
    /\ doing = Calling("loadSymbol", v)
    /\ IF modules[v] = "absent"
       THEN doing' = Idle /\ UNCHANGED <<handle, trackers, loaded, jd, up>>
       ELSE /\ up' = IF modules[v] = "null" THEN "crashed" ELSE up
            /\ handle' = [handle EXCEPT ![v] = TRUE]
            /\ AddModule(v)
            /\ loaded' = loaded \cup (trackers' \cap {v})
            /\ doing' = IF v \in trackers' /\ asks[v] # <<>>
                        THEN Calling("findSymbol", v) ELSE Idle
    /\ UNCHANGED <<program, version, symbol, tables, ready>>

ResolveHostFirst(f) == IF f \in HostFns THEN Host ELSE jd[f]

\* The process is asked for what no module defines, and then defines it.
Resolve(f) ==
    IF jd[f] # NoOne THEN jd[f] ELSE IF f \in HostFns THEN Host ELSE NoOne

\* An error of the lookup reads as the null address.
Found(d, f) == IF d = NoOne THEN NullPtr ELSE <<d, f>>

\* The next function.  Looking it up compiles the module that defines it; a
\* layer without a target ends the process (cantFail).
FindSymbol(v) ==
    /\ doing = Calling("findSymbol", v)
    /\ LET f == asks[v][Len(symbol[v]) + 1]
           d == Resolve(f)
           crash == d \in Versions /\ d \notin ready /\ layers[d] = "empty"
       IN  /\ up' = IF crash THEN "crashed" ELSE "up"
           /\ jd' = [jd EXCEPT ![f] = d]
           /\ ready' = IF d \in Versions THEN ready \cup {d} ELSE ready
           /\ symbol' = [symbol EXCEPT ![v] = Append(@, Found(d, f))]
           /\ doing' = IF Len(symbol[v]) + 1 = Len(asks[v])
                       THEN Idle ELSE doing
    /\ UNCHANGED <<program, version, handle, tables, trackers, loaded>>

-----------------------------------------------------------------------------
(* fold, reload, and the destructors.                                      *)

\* The tracker's code and definitions go; the Version's handle is null.
ReleaseKeepingCode(v) ==
    /\ v \in loaded
    /\ trackers' = trackers \ {v}
    /\ loaded' = loaded \ {v}
    /\ handle' = [handle EXCEPT ![v] = FALSE]
    /\ UNCHANGED <<jd, ready>>

ReleaseStillLoaded(v) ==
    /\ v \in loaded
    /\ jd' = [f \in Fns |-> IF jd[f] = v THEN NoOne ELSE jd[f]]
    /\ ready' = ready \ {v}
    /\ trackers' = trackers \ {v}
    /\ handle' = [handle EXCEPT ![v] = FALSE]
    /\ UNCHANGED loaded

ReleaseSymbol(v) ==
    IF v \notin loaded
    THEN UNCHANGED <<handle, loads>>
    ELSE /\ jd' = [f \in Fns |-> IF jd[f] = v THEN NoOne ELSE jd[f]]
         /\ ready' = ready \ {v}
         /\ trackers' = trackers \ {v}
         /\ loaded' = loaded \ {v}
         /\ handle' = [handle EXCEPT ![v] = FALSE]

Fold(v) ==
    /\ Call(v) /\ handle[v]
    /\ ReleaseSymbol(v)
    /\ symbol' = [symbol EXCEPT ![v] = <<>>]
    /\ UNCHANGED <<program, version, tables, doing, up>>

\* fold() when loaded, then loadSymbol().  Without a binary nothing is loaded
\* and getSymbol throws.
Reload(v) ==
    /\ Call(v)
    /\ IF handle[v] THEN ReleaseSymbol(v) ELSE UNCHANGED <<handle, loads>>
    /\ symbol' = [symbol EXCEPT ![v] = <<>>]
    /\ doing' = IF bin[v] THEN Calling("loadSymbol", v) ELSE Idle
    /\ UNCHANGED <<program, version, tables, up>>

\* The files the Version has the name of are removed, and not the IR that
\* generateBin made for itself.
Destroy(v) ==
    /\ Call(v)
    /\ alive' = alive \ {v}
    /\ IF handle[v] THEN ReleaseSymbol(v) ELSE UNCHANGED <<handle, loads>>
    /\ symbol' = [symbol EXCEPT ![v] = <<>>]
    /\ disk' = [disk EXCEPT ![v] = @ \ irs[v]]
    /\ UNCHANGED <<program, irs, bin, tables, doing, up>>

\* ~JITCompiler, after the last Version that shares it: every tracker that is
\* left is removed, then the JITDylib.
DestroyCompiler ==
    /\ up = "up" /\ alive = {}
    /\ jd' = [f \in Fns |-> NoOne]
    /\ ready' = {}
    /\ up' = "gone"
    /\ UNCHANGED <<program, version, pointers, tables, trackers, loaded, doing>>

Next ==
    \/ \E v \in Versions :
         \/ PrepareIR(v) \/ GenerateBin(v) \/ CompileAgain(v)
         \/ LoadSymbols(v) \/ FindSymbol(v)
         \/ Fold(v) \/ Reload(v) \/ Destroy(v)
    \/ DestroyCompiler

Spec == Init /\ [][Next]_vars

-----------------------------------------------------------------------------
(* Properties.                                                             *)

TypeOK ==
    /\ alive \subseteq Versions
    /\ irs \in [Versions -> SUBSET {"IR", "opt"}]
    /\ disk \in [Versions -> SUBSET {"IR", "opt"}]
    /\ bin \in [Versions -> BOOLEAN]
    /\ handle \in [Versions -> BOOLEAN]
    /\ \A v \in Versions :
         /\ Len(symbol[v]) <= Len(asks[v])
         /\ \A i \in DOMAIN symbol[v] :
              symbol[v][i] \in ((Versions \cup {Host}) \X Fns) \cup {NullPtr}
    /\ modules \in [Versions -> {"absent", "null", "module"}]
    /\ layers \in [Versions -> {"absent", "empty", "target"}]
    /\ trackers \subseteq Versions /\ loaded \subseteq Versions
    /\ jd \in [Fns -> Versions \cup {Host, NoOne}]
    /\ ready \subseteq Versions
    /\ bins \in 0 .. MaxBins

(***************************************************************************)
(* The compiler's tables agree with the handles of the Versions: a Version *)
(* has a handle exactly while it is in _isloaded_map, and then it has its  *)
(* tracker, its layer and a module that was parsed.  So no path of         *)
(* loadSymbols, addModule and releaseSymbol clones a null module, removes  *)
(* a null tracker, or leaves a handle behind (JITCompiler.cpp:654,699).    *)
(***************************************************************************)
TablesAgree ==
    \A v \in Versions :
        /\ handle[v] <=> v \in loaded
        /\ v \in loaded =>
             /\ v \in alive /\ v \in trackers
             /\ modules[v] = "module" /\ layers[v] # "absent"
        /\ bin[v] => modules[v] = "module"

(***************************************************************************)
(* A function that a Version defines in the JITDylib belongs to a Version  *)
(* that is loaded, with all its other functions, and code that was         *)
(* compiled is defined: what a fold releases is released completely.       *)
(***************************************************************************)
DefinitionsLoaded ==
    /\ \A f \in Fns : jd[f] \in Versions =>
         /\ jd[f] \in loaded /\ f \in defines[jd[f]]
         /\ \A g \in defines[jd[f]] : jd[g] = jd[f]
    /\ \A v \in ready : \E f \in Fns : jd[f] = v

(***************************************************************************)
(* The process only ends when generateBin had run before: one Version may  *)
(* be compiled, folded and reloaded as TestJit.cpp does, for ever          *)
(* (JITCompiler.cpp:747).                                                  *)
(***************************************************************************)
OneVersionRuns == up = "crashed" => bins > 1

\* No Version asks for or defines what another one does.
Names(v) == defines[v] \cup {asks[v][i] : i \in DOMAIN asks[v]}
Apart == \A v, w \in Versions : v # w => Names(v) \cap Names(w) = {}

(***************************************************************************)
(* Versions whose function names are apart have their own code: each       *)
(* pointer is to the Version's own definition, which is still there, or,   *)
(* for a function its source does not define, to the process's or null.    *)
(***************************************************************************)
OwnCodeWhenApart ==
    Apart /\ up = "up" => \A v \in alive : \A i \in DOMAIN symbol[v] :
        LET f == asks[v][i]
        IN  IF f \in defines[v]
            THEN symbol[v][i] = <<v, f>> /\ jd[f] = v
            ELSE symbol[v][i] \in {<<Host, f>>, NullPtr}
=============================================================================
