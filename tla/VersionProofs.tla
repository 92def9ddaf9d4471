--------------------------- MODULE VersionProofs ---------------------------
(***************************************************************************)
(* Theorems about Version, for any Versions, functions and compilers.      *)
(*                                                                         *)
(* Those about the loader assume NamesAsked: no Version is configured      *)
(* without a function.  Without a name to look up, loadSymbols leaves      *)
(* Version::symbol empty and the next compile opens the library again, so  *)
(* the claims are false.  Those about the files need no such assumption.   *)
(*                                                                         *)
(* LoaderInv: SymbolsValid needs the counts.  A fold lowers a count, and   *)
(* another Version's pointers stay valid because that Version was counted. *)
(* FilesInv: a file that is gone was named by a Version that died, and a   *)
(* Version that is not built yet has no file that anyone names.            *)
(* LookupInv: no compile writes a library that somebody has open.          *)
(***************************************************************************)
EXTENDS Version, FiniteSetTheorems, WellFoundedInduction, TLAPS

NamesAsked == <<>> \notin FnLists

\* A Version that was built has the list of names it was built with.
Configured == \A v \in Versions : life[v] # "none" => fns[v] \in FnLists

LoaderInv == TypeOK /\ Configured /\ SymbolsValid /\ HandlesCounted

\* The counts o are those of the handles h.
Counted(o, h) ==
    \A lib \in Libs : o[lib] = Cardinality({v \in Versions : h[v] = lib})

Handles == [Versions -> Libs \cup {NoFile}]

-----------------------------------------------------------------------------
LEMMA NoFileIsNoLib == NoFile \notin Libs
  BY NamesAssumption DEF Names

\* dlopen for a Version that holds nothing.
LEMMA OpenOne ==
    ASSUME NEW h \in Handles, NEW o \in [Libs -> Nat], Counted(o, h),
           NEW v \in Versions, h[v] = NoFile, NEW lib \in Libs
    PROVE  Counted([o EXCEPT ![lib] = @ + 1], [h EXCEPT ![v] = lib])
<1> DEFINE g == [h EXCEPT ![v] = lib]
<1> SUFFICES ASSUME NEW k \in Libs
             PROVE  [o EXCEPT ![lib] = @ + 1][k]
                      = Cardinality({w \in Versions : g[w] = k})
  BY DEF Counted
<1> DEFINE before == {w \in Versions : h[w] = k}
           after == {w \in Versions : g[w] = k}
<1>1. IsFiniteSet(before) /\ o[k] = Cardinality(before)
  BY VersionAssumption, FS_Subset DEF Counted
<1>2. CASE k = lib
  <2>1. v \notin before /\ after = before \cup {v}
    BY <1>2, NoFileIsNoLib DEF Handles
  <2>2. Cardinality(after) = Cardinality(before) + 1
    BY <1>1, <2>1, FS_AddElement
  <2>3. QED
    BY <1>1, <1>2, <2>2
<1>3. CASE k # lib
  <2>1. after = before
    BY <1>3, NoFileIsNoLib DEF Handles
  <2>2. QED
    BY <1>1, <1>3, <2>1
<1>4. QED
  BY <1>2, <1>3

\* dlclose of the library a Version holds, if it holds one.
LEMMA CloseOne ==
    ASSUME NEW h \in Handles, NEW o \in [Libs -> Nat], Counted(o, h),
           NEW v \in Versions
    PROVE  /\ Closed(o, h[v]) \in [Libs -> Nat]
           /\ Counted(Closed(o, h[v]), [h EXCEPT ![v] = NoFile])
<1> DEFINE g == [h EXCEPT ![v] = NoFile]
<1>1. CASE h[v] = NoFile
  <2>1. g = h
    BY <1>1 DEF Handles
  <2>2. QED
    BY <1>1, <2>1 DEF Closed
<1>2. CASE h[v] # NoFile
  <2>1. h[v] \in Libs /\ Closed(o, h[v]) = [o EXCEPT ![h[v]] = @ - 1]
    BY <1>2 DEF Handles, Closed
  <2>2. ASSUME NEW k \in Libs
        PROVE  /\ Closed(o, h[v])[k] \in Nat
               /\ Closed(o, h[v])[k] = Cardinality({w \in Versions : g[w] = k})
    <3> DEFINE before == {w \in Versions : h[w] = k}
               after == {w \in Versions : g[w] = k}
    <3>1. IsFiniteSet(before) /\ o[k] = Cardinality(before)
      BY VersionAssumption, FS_Subset DEF Counted
    <3>2. CASE k = h[v]
      <4>1. v \in before /\ after = before \ {v}
        BY <3>2, NoFileIsNoLib DEF Handles
      <4>2. IsFiniteSet(after) /\ Cardinality(after) = Cardinality(before) - 1
        <5> HIDE DEF before, after
        <5>1. QED
          BY <3>1, <4>1, FS_RemoveElement
      <4>3. Cardinality(after) \in Nat
        BY <4>2, FS_CardinalityType
      <4>4. Closed(o, h[v])[k] = o[k] - 1
        <5>1. k \in DOMAIN o
          OBVIOUS
        <5>2. QED
          BY <2>1, <3>2, <5>1
      <4>5. QED
        BY <3>1, <4>2, <4>3, <4>4
    <3>3. CASE k # h[v]
      <4>1. after = before
        BY <3>3, NoFileIsNoLib DEF Handles
      <4>2. Closed(o, h[v])[k] = o[k]
        BY <2>1, <3>3
      <4>3. QED
        BY <3>1, <4>1, <4>2
    <3>4. QED
      BY <3>2, <3>3
  <2>3. QED
    BY <2>1, <2>2 DEF Counted
<1>3. QED
  BY <1>1, <1>2

\* A library that a Version holds is counted.
LEMMA HeldIsCounted ==
    ASSUME NEW h \in Handles, NEW o \in [Libs -> Nat], Counted(o, h),
           NEW v \in Versions, h[v] # NoFile
    PROVE  o[h[v]] > 0
<1> DEFINE held == {w \in Versions : h[w] = h[v]}
<1>1. h[v] \in Libs /\ o[h[v]] = Cardinality(held)
  BY DEF Handles, Counted
<1>2. IsFiniteSet(held) /\ held # {}
  BY VersionAssumption, FS_Subset
<1>3. Cardinality(held) \in Nat /\ Cardinality(held) # 0
  BY <1>2, FS_CardinalityType, FS_EmptySet
<1>4. QED
  BY <1>1, <1>3

-----------------------------------------------------------------------------
LEMMA SymbolsInLib ==
    ASSUME NEW lib \in Libs, NEW names \in Seq(Fns), names # <<>>, NEW ex
    PROVE  /\ SymbolsIn(lib, names, ex) \in Seq(Pointers)
           /\ SymbolsIn(lib, names, ex) # <<>>
           /\ DOMAIN SymbolsIn(lib, names, ex) = DOMAIN names
           /\ \A i \in DOMAIN names :
                SymbolsIn(lib, names, ex)[i] \in {<<lib, names[i]>>, NullPtr}
<1>1. DOMAIN names = 1 .. Len(names) /\ Len(names) \in Nat \ {0}
  OBVIOUS
<1>2. \A i \in DOMAIN names : names[i] \in Fns
  OBVIOUS
<1>3. SymbolsIn(lib, names, ex) \in [1 .. Len(names) -> Pointers]
  BY <1>1, <1>2 DEF SymbolsIn, Pointers
<1>4. SymbolsIn(lib, names, ex) \in Seq(Pointers)
  BY <1>1, <1>3
<1>5. 1 \in DOMAIN SymbolsIn(lib, names, ex)
  BY <1>1 DEF SymbolsIn
<1>6. QED
  BY <1>4, <1>5 DEF SymbolsIn

LoadsTyped ==
    /\ opens \in [Libs -> Nat] /\ handle \in Handles
    /\ symbol \in [Versions -> Seq(Pointers)]
    /\ Counted(opens, handle)

OthersKeepLoads(v) ==
    \A w \in Versions \ {v} : symbol'[w] = symbol[w] /\ handle'[w] = handle[w]

\* v has the pointers of the names in lib, or nothing at all.
LoadedOrEmpty(v, lib, names) ==
    /\ symbol[v] # <<>> <=> handle[v] # NoFile
    /\ handle[v] # NoFile =>
        /\ handle[v] = lib /\ DOMAIN symbol[v] = DOMAIN names
        /\ \A i \in DOMAIN names :
             symbol[v][i] \in {<<lib, names[i]>>, NullPtr}

\* loadSymbol into a Version that holds nothing, whatever the loader answers.
LEMMA LoadSymbolStep ==
    ASSUME TypeOK, NEW v \in Versions, NEW o \in [Libs -> Nat],
           Counted(o, [handle EXCEPT ![v] = NoFile]),
           NEW lib \in Libs \cup {NoFile}, NEW names \in Seq(Fns), names # <<>>,
           NEW d, NEW ex,
           LoadSymbol(v, <<>>, NoFile, lib, names, d, ex, o)
    PROVE  /\ LoadsTyped' /\ OthersKeepLoads(v)
           /\ LoadedOrEmpty(v, lib, names)'
<1> DEFINE h == [handle EXCEPT ![v] = NoFile]
<1>1. /\ h \in Handles /\ h[v] = NoFile /\ Counted(o, h)
      /\ <<>> \in Seq(Pointers)
  BY DEF TypeOK, Handles
<1>2. CASE /\ symbol' = [symbol EXCEPT ![v] = <<>>]
           /\ handle' = h /\ opens' = o
  BY <1>1, <1>2 DEF TypeOK, LoadsTyped, OthersKeepLoads, LoadedOrEmpty
<1>3. CASE /\ lib # NoFile
           /\ symbol' = [symbol EXCEPT ![v] = SymbolsIn(lib, names, ex)]
           /\ handle' = [handle EXCEPT ![v] = lib]
           /\ opens' = [o EXCEPT ![lib] = @ + 1]
  <2> DEFINE s == SymbolsIn(lib, names, ex)
  <2>1. /\ lib \in Libs /\ s \in Seq(Pointers) /\ s # <<>>
        /\ DOMAIN s = DOMAIN names
        /\ \A i \in DOMAIN names : s[i] \in {<<lib, names[i]>>, NullPtr}
    BY <1>3, SymbolsInLib
  <2> HIDE DEF s
  <2>2. handle' = [h EXCEPT ![v] = lib]
    BY <1>3 DEF TypeOK
  <2>3. Counted(opens', handle')
    <3> HIDE DEF h
    <3>1. Counted([o EXCEPT ![lib] = @ + 1], [h EXCEPT ![v] = lib])
      BY <1>1, <2>1, OpenOne
    <3>2. QED
      BY <1>3, <2>2, <3>1
  <2>4. symbol' = [symbol EXCEPT ![v] = s]
    BY <1>3 DEF s
  <2>5. /\ opens' \in [Libs -> Nat] /\ handle' \in Handles
        /\ symbol' \in [Versions -> Seq(Pointers)]
    BY <1>1, <1>3, <2>1, <2>2, <2>4 DEF TypeOK, Handles
  <2>6. \A w \in Versions \ {v} :
           symbol'[w] = symbol[w] /\ handle'[w] = handle[w]
    BY <1>3 DEF TypeOK
  <2>7. symbol'[v] = s /\ handle'[v] = lib
    BY <1>3, <2>4 DEF TypeOK
  <2>8. QED
    BY <1>3, <2>1, <2>3, <2>5, <2>6, <2>7
       DEF LoadsTyped, OthersKeepLoads, LoadedOrEmpty
<1>4. QED
  BY <1>2, <1>3 DEF LoadSymbol, LoadSymbols

\* The names a command leaves behind are names the library knows.
LEMMA CommandDisk ==
    ASSUME NEW d \in SUBSET Names, NEW inputs, NEW out \in Names,
           NEW r \in CommandRuns(d, inputs, out)
    PROVE  r.disk \subseteq Names
<1>1. r.disk \in {d, d \ {out}, d \cup {out}}
  BY DEF CommandRuns
<1>2. QED
  BY <1>1

\* A step that leaves the loader and every binary's name alone.
LEMMA LoaderUntouched ==
    ASSUME LoaderInv, TypeOK', Configured', symbol' = symbol, handle' = handle,
           opens' = opens,
           \A v \in Versions : handle[v] # NoFile =>
                life'[v] = life[v] /\ fns'[v] = fns[v] /\ bin'[v] = bin[v]
    PROVE  LoaderInv'
  BY DEF LoaderInv, SymbolsValid, SymbolsOK, HandlesCounted, Holders, Alive

\* A step that changes the loader for v only.
LEMMA LoaderChanged ==
    ASSUME LoaderInv, TypeOK', Configured',
           NEW v \in Versions, Counted(opens', handle'),
           \A w \in Versions \ {v} :
              /\ symbol'[w] = symbol[w] /\ handle'[w] = handle[w]
              /\ life'[w] = life[w] /\ fns'[w] = fns[w] /\ bin'[w] = bin[w],
           symbol'[v] # <<>> <=> handle'[v] # NoFile,
           handle'[v] # NoFile =>
              /\ life'[v] = "alive" /\ handle'[v] = bin'[v]
              /\ DOMAIN symbol'[v] = DOMAIN fns'[v]
              /\ \A i \in DOMAIN symbol'[v] :
                   symbol'[v][i] \in {<<handle'[v], fns'[v][i]>>, NullPtr}
    PROVE  LoaderInv'
<1>1. HandlesCounted'
  BY DEF Counted, HandlesCounted, Holders
<1>2. \A w \in Versions : handle'[w] # NoFile => opens'[handle'[w]] > 0
  <2>1. handle' \in Handles /\ opens' \in [Libs -> Nat]
    BY DEF TypeOK, Handles
  <2>2. QED
    BY <2>1, HeldIsCounted
<1>3. ASSUME NEW w \in Versions \ {v} PROVE SymbolsOK(w)'
  BY <1>2 DEF LoaderInv, SymbolsValid, SymbolsOK, Alive
<1>4. SymbolsOK(v)'
  BY <1>2 DEF SymbolsOK, Alive
<1>5. QED
  BY <1>1, <1>3, <1>4 DEF LoaderInv, SymbolsValid

-----------------------------------------------------------------------------
LEMMA OwnNamesTyped ==
    ASSUME NEW v \in Versions
    PROVE  /\ BitcodeName(v) \in Names /\ OptBitcodeName(v) \in Names
           /\ SharedObjectName(v) \in Libs /\ SharedObjectName(v) \in Names
  BY DEF Names, Libs

\* The part of TypeOK that New touches, and what it says of the other Versions.
ConfigTyped ==
    /\ life \in [Versions -> {"none", "alive", "dead"}]
    /\ kind \in [Versions -> Kinds]
    /\ fns \in [Versions -> FnLists \cup {<<>>}]
    /\ named \in [Versions -> BOOLEAN]
    /\ auto \in [Versions -> BOOLEAN]
    /\ ir \in [Versions -> {BitcodeName(v) : v \in Versions} \cup {NoFile}]
    /\ opt \in [Versions -> {OptBitcodeName(v) : v \in Versions} \cup {NoFile}]

OthersKeepConfig(v) ==
    \A w \in Versions \ {v} : life'[w] = life[w] /\ fns'[w] = fns[w]

LEMMA NewStep ==
    ASSUME LoaderInv, NEW v \in Versions, NEW k \in Kinds, NEW names \in FnLists,
           NEW byName \in BOOLEAN, NEW remove \in BOOLEAN,
           NEW irName \in {BitcodeName(w) : w \in Versions} \cup {NoFile},
           New(v, k, names, byName, remove, irName)
    PROVE  /\ ConfigTyped' /\ Configured' /\ OthersKeepConfig(v)
           /\ life'[v] = "alive" /\ fns'[v] = names
           /\ handle[v] = NoFile /\ symbol[v] = <<>>
<1>1. handle[v] = NoFile /\ symbol[v] = <<>>
  BY DEF New, LoaderInv, SymbolsValid, SymbolsOK, Alive
<1>2. Configured'
  BY DEF New, LoaderInv, TypeOK, Configured
<1>3. ConfigTyped'
  BY DEF New, LoaderInv, TypeOK, ConfigTyped
<1>4. OthersKeepConfig(v) /\ life'[v] = "alive" /\ fns'[v] = names
  BY DEF New, LoaderInv, TypeOK, OthersKeepConfig
<1>5. QED
  BY <1>1, <1>2, <1>3, <1>4

\* build, from scratch or for a clone.
LEMMA BuiltStep ==
    ASSUME LoaderInv, NEW v \in Versions, NEW k \in Kinds, NEW names \in FnLists,
           NEW remove \in BOOLEAN,
           NEW irName \in {BitcodeName(w) : w \in Versions} \cup {NoFile},
           New(v, k, names, TRUE, remove, irName),
           UNCHANGED <<bin, loads, files>>
    PROVE  LoaderInv'
<1>1. /\ ConfigTyped' /\ Configured' /\ OthersKeepConfig(v)
      /\ handle[v] = NoFile
  BY NewStep
<1>2. TypeOK /\ UNCHANGED <<bin, symbol, handle, opens, dirty, disk, exports>>
  BY DEF LoaderInv, loads, files
<1>3. TypeOK'
  BY <1>1, <1>2 DEF TypeOK, ConfigTyped
<1>4. QED
  BY <1>1, <1>2, <1>3, LoaderUntouched DEF OthersKeepConfig

LEMMA BuildStep ==
    ASSUME LoaderInv, NEW v \in Versions, NEW k \in Kinds, NEW names \in FnLists,
           NEW remove \in BOOLEAN, Build(v, k, names, remove)
    PROVE  LoaderInv'
  BY BuiltStep DEF Build

LEMMA CloneStep ==
    ASSUME LoaderInv, NEW v \in Versions, NEW w \in Versions, NEW k \in Kinds,
           Clone(v, w, k)
    PROVE  LoaderInv'
<1>1. /\ New(v, k, fns[w], TRUE, auto[w], ir[w])
      /\ UNCHANGED <<bin, loads, files>>
  BY DEF Clone
<1>2. /\ fns[w] \in FnLists /\ auto[w] \in BOOLEAN
      /\ ir[w] \in {BitcodeName(u) : u \in Versions} \cup {NoFile}
  BY DEF Clone, Alive, LoaderInv, TypeOK, Configured
<1>3. QED
  BY <1>1, <1>2, BuiltStep

-----------------------------------------------------------------------------
\* What LoaderInv says of v once its handle is gone.
LEMMA Emptied ==
    ASSUME LoaderInv, NEW v \in Versions
    PROVE  /\ Closed(opens, handle[v]) \in [Libs -> Nat]
           /\ Counted(Closed(opens, handle[v]), [handle EXCEPT ![v] = NoFile])
           /\ handle[v] = NoFile =>
                /\ Closed(opens, handle[v]) = opens
                /\ [handle EXCEPT ![v] = NoFile] = handle
                /\ symbol[v] = <<>>
<1>1. handle \in Handles /\ opens \in [Libs -> Nat] /\ Counted(opens, handle)
  BY DEF LoaderInv, TypeOK, Handles, HandlesCounted, Holders, Counted
<1>2. handle[v] = NoFile => symbol[v] = <<>>
  BY DEF LoaderInv, SymbolsValid, SymbolsOK
<1>3. handle[v] = NoFile => [handle EXCEPT ![v] = NoFile] = handle
  BY <1>1 DEF Handles
<1>4. handle[v] = NoFile => Closed(opens, handle[v]) = opens
  BY DEF Closed
<1>5. QED
  BY <1>1, <1>2, <1>3, <1>4, CloseOne

\* A call that loads v's library lib into an emptied v keeps the invariant.
LEMMA LoadingStep ==
    ASSUME LoaderInv, NEW v \in Versions, NEW o \in [Libs -> Nat],
           Counted(o, [handle EXCEPT ![v] = NoFile]),
           NEW lib \in Libs \cup {NoFile}, NEW names \in Seq(Fns), names # <<>>,
           NEW d, NEW ex,
           LoadSymbol(v, <<>>, NoFile, lib, names, d, ex, o),
           ConfigTyped', Configured', OthersKeepConfig(v),
           life'[v] = "alive", fns'[v] = names,
           bin' = [bin EXCEPT ![v] = lib],
           disk' \subseteq Names, exports' \in [Libs -> SUBSET Fns],
           dirty' \subseteq Libs
    PROVE  LoaderInv'
<1>1. TypeOK
  BY DEF LoaderInv
<1>2. /\ LoadsTyped' /\ OthersKeepLoads(v)
      /\ LoadedOrEmpty(v, lib, names)'
  BY <1>1, LoadSymbolStep
<1>3. /\ bin' \in [Versions -> Libs \cup {NoFile}] /\ bin'[v] = lib
      /\ \A w \in Versions \ {v} : bin'[w] = bin[w]
  BY <1>1 DEF TypeOK
<1>4. TypeOK'
  BY <1>1, <1>2, <1>3 DEF TypeOK, ConfigTyped, LoadsTyped, Handles
<1>5. QED
  BY <1>2, <1>3, <1>4, LoaderChanged
     DEF OthersKeepConfig, OthersKeepLoads, LoadedOrEmpty, LoadsTyped

LEMMA CreateFromSOStep ==
    ASSUME LoaderInv, NamesAsked, NEW v \in Versions, NEW lib \in KnownLibs,
           NEW k \in Kinds, NEW names \in FnLists, NEW remove \in BOOLEAN,
           CreateFromSO(v, lib, k, names, remove)
    PROVE  LoaderInv'
<1>1. /\ New(v, k, names, FALSE, remove, NoFile)
      /\ bin' = [bin EXCEPT ![v] = lib]
      /\ LoadSymbol(v, <<>>, NoFile, lib, names, disk, exports, opens)
      /\ UNCHANGED <<dirty, disk, exports>>
  BY DEF CreateFromSO, files
<1>2. TypeOK
  BY DEF LoaderInv
<1>3. lib \in Libs \cup {NoFile}
  BY <1>2 DEF KnownLibs, Libs, TypeOK
<1>4. names \in Seq(Fns) /\ names # <<>>
  BY VersionAssumption DEF NamesAsked
<1>5. /\ ConfigTyped' /\ Configured' /\ OthersKeepConfig(v)
      /\ life'[v] = "alive" /\ fns'[v] = names /\ handle[v] = NoFile
  BY <1>1, NewStep
<1>6. opens \in [Libs -> Nat] /\ Counted(opens, [handle EXCEPT ![v] = NoFile])
  BY <1>5, Emptied
<1>7. /\ disk' \subseteq Names /\ exports' \in [Libs -> SUBSET Fns]
      /\ dirty' \subseteq Libs
  BY <1>1, <1>2 DEF TypeOK
<1>8. QED
  BY <1>1, <1>3, <1>4, <1>5, <1>6, <1>7, LoadingStep

-----------------------------------------------------------------------------
LEMMA PrepareIRStep ==
    ASSUME LoaderInv, NEW v \in Versions, PrepareIR(v)
    PROVE  LoaderInv'
<1>1. TypeOK /\ UNCHANGED <<life, kind, fns, named, auto, bin, symbol, handle,
                            opens, dirty, exports>>
  BY DEF PrepareIR, config, loads, LoaderInv
<1>2. /\ ir' \in [Versions -> {BitcodeName(w) : w \in Versions} \cup {NoFile}]
      /\ opt' \in [Versions -> {OptBitcodeName(w) : w \in Versions} \cup {NoFile}]
      /\ disk' \subseteq Names
  <2>1. CASE UNCHANGED <<ir, opt, disk>>
    BY <1>1, <2>1 DEF TypeOK
  <2>2. ASSUME NEW g \in CommandRuns(disk, {}, BitcodeName(v)),
               PrepareFails(v, g) \/ PrepareOnly(v, g)
        PROVE  /\ ir' \in [Versions -> {BitcodeName(w) : w \in Versions} \cup {NoFile}]
               /\ opt' \in [Versions -> {OptBitcodeName(w) : w \in Versions} \cup {NoFile}]
               /\ disk' \subseteq Names
    <3>1. g.disk \subseteq Names
      BY <1>1, OwnNamesTyped, CommandDisk DEF TypeOK
    <3>2. /\ ir' = [ir EXCEPT ![v] = NoFile] \/ ir' = [ir EXCEPT ![v] = BitcodeName(v)]
          /\ opt' = opt /\ disk' = g.disk
      BY <2>2 DEF PrepareFails, PrepareOnly
    <3>3. QED
      BY <1>1, <3>1, <3>2 DEF TypeOK
  <2>3. ASSUME NEW g \in CommandRuns(disk, {}, BitcodeName(v)),
               PrepareAndOptimize(v, g)
        PROVE  /\ ir' \in [Versions -> {BitcodeName(w) : w \in Versions} \cup {NoFile}]
               /\ opt' \in [Versions -> {OptBitcodeName(w) : w \in Versions} \cup {NoFile}]
               /\ disk' \subseteq Names
    <3>1. g.disk \in SUBSET Names
      BY <1>1, OwnNamesTyped, CommandDisk DEF TypeOK
    <3>2. PICK r \in CommandRuns(g.disk, {BitcodeName(v)}, OptBitcodeName(v)) :
            /\ opt' = [opt EXCEPT ![v] = IfExists(OptBitcodeName(v), r.disk)]
            /\ disk' = r.disk
      BY <2>3 DEF PrepareAndOptimize
    <3>3. disk' \subseteq Names
      BY <3>1, <3>2, OwnNamesTyped, CommandDisk
    <3>4. ir' = [ir EXCEPT ![v] = BitcodeName(v)]
      BY <2>3 DEF PrepareAndOptimize
    <3>5. QED
      BY <1>1, <3>2, <3>3, <3>4 DEF TypeOK, IfExists
  <2>4. QED
    BY <2>1, <2>2, <2>3 DEF PrepareIR
<1>3. TypeOK' /\ Configured'
  BY <1>1, <1>2 DEF TypeOK, LoaderInv, Configured
<1>4. QED
  BY <1>1, <1>3, LoaderUntouched

\* What the calls that leave the configuration alone say of it.
LEMMA ConfigKept ==
    ASSUME LoaderInv, NamesAsked, UNCHANGED <<config, ir, opt>>
    PROVE  /\ ConfigTyped' /\ Configured'
           /\ \A v \in Versions : OthersKeepConfig(v)
           /\ \A v \in Versions : Alive(v) =>
                /\ life'[v] = "alive" /\ fns'[v] = fns[v]
                /\ fns[v] \in Seq(Fns) /\ fns[v] # <<>>
<1>1. UNCHANGED <<life, kind, fns, named, auto, ir, opt>>
  BY DEF config
<1>2. ConfigTyped' /\ Configured'
  BY <1>1 DEF ConfigTyped, Configured, LoaderInv, TypeOK
<1>3. \A v \in Versions : Alive(v) => fns[v] \in FnLists
  BY DEF Alive, LoaderInv, Configured
<1>4. QED
  BY <1>1, <1>2, <1>3, VersionAssumption
     DEF NamesAsked, Alive, OthersKeepConfig

LEMMA CompileStep ==
    ASSUME LoaderInv, NamesAsked, NEW v \in Versions, Compile(v)
    PROVE  LoaderInv'
<1>1. Alive(v) /\ UNCHANGED <<config, ir, opt>> /\ TypeOK
  BY DEF Compile, LoaderInv
<1>2. /\ ConfigTyped' /\ Configured' /\ OthersKeepConfig(v)
      /\ life'[v] = "alive" /\ fns'[v] = fns[v]
      /\ fns[v] \in Seq(Fns) /\ fns[v] # <<>>
  BY <1>1, ConfigKept
<1>3. CASE CompileAgain(v)
  <2>1. UNCHANGED <<life, kind, fns, named, auto, ir, opt, bin, symbol, handle,
                    opens, dirty, disk, exports>>
    BY <1>1, <1>3 DEF CompileAgain, config, loads, files
  <2>2. TypeOK'
    BY <1>1, <2>1 DEF TypeOK
  <2>3. QED
    BY <1>2, <2>1, <2>2, LoaderUntouched
<1>4. CASE CompileLoads(v)
  <2>1. /\ LoadSymbol(v, symbol[v], handle[v], bin[v], fns[v], disk, exports, opens)
        /\ symbol[v] = <<>> /\ UNCHANGED <<bin, dirty, disk, exports>>
    BY <1>4 DEF CompileLoads, HasLoadedSymbol, files
  <2>2. handle[v] = NoFile
    BY <2>1 DEF LoaderInv, SymbolsValid, SymbolsOK
  <2>3. opens \in [Libs -> Nat] /\ Counted(opens, [handle EXCEPT ![v] = NoFile])
    BY <2>2, Emptied
  <2>4. bin[v] \in Libs \cup {NoFile} /\ bin' = [bin EXCEPT ![v] = bin[v]]
    BY <1>1, <2>1 DEF TypeOK
  <2>5. /\ disk' \subseteq Names /\ exports' \in [Libs -> SUBSET Fns]
        /\ dirty' \subseteq Libs
    BY <1>1, <2>1 DEF TypeOK
  <2>6. LoadSymbol(v, <<>>, NoFile, bin[v], fns[v], disk, exports, opens)
    BY <2>1, <2>2
  <2>7. QED
    BY <1>2, <2>3, <2>4, <2>5, <2>6, LoadingStep
<1>5. CASE CompileGenerates(v)
  <2> DEFINE out == SharedObjectName(v)
  <2>1. bin[v] = NoFile /\ dirty' = dirty
    BY <1>5 DEF CompileGenerates, HasGeneratedBin
  <2>2. PICK r \in CommandRuns(disk, CompileInput(v), out), e \in SUBSET Fns :
          /\ bin' = [bin EXCEPT ![v] = IfExists(out, r.disk)]
          /\ disk' = r.disk
          /\ exports' = [exports EXCEPT ![out] = IF out \in r.disk THEN e ELSE {}]
          /\ LoadSymbol(v, symbol[v], handle[v], bin'[v], fns[v], r.disk,
                        exports', opens)
    BY <1>5 DEF CompileGenerates
  <2>3. handle[v] = NoFile /\ symbol[v] = <<>>
    BY <1>1, <2>1 DEF LoaderInv, SymbolsValid, SymbolsOK
  <2>4. opens \in [Libs -> Nat] /\ Counted(opens, [handle EXCEPT ![v] = NoFile])
    BY <2>3, Emptied
  <2>5. /\ IfExists(out, r.disk) \in Libs \cup {NoFile}
        /\ bin'[v] = IfExists(out, r.disk)
    BY <1>1, <2>2, OwnNamesTyped DEF IfExists, TypeOK
  <2>6. /\ disk' \subseteq Names /\ exports' \in [Libs -> SUBSET Fns]
        /\ dirty' \subseteq Libs
    BY <1>1, <2>1, <2>2, OwnNamesTyped, CommandDisk DEF TypeOK
  <2>7. LoadSymbol(v, <<>>, NoFile, IfExists(out, r.disk), fns[v], r.disk,
                   exports', opens)
    BY <2>2, <2>3, <2>5
  <2>8. QED
    BY <1>2, <2>2, <2>4, <2>5, <2>6, <2>7, LoadingStep
<1>6. QED
  BY <1>3, <1>4, <1>5 DEF Compile

LEMMA ReloadStep ==
    ASSUME LoaderInv, NamesAsked, NEW v \in Versions, Reload(v)
    PROVE  LoaderInv'
<1> DEFINE o == Closed(opens, handle[v])
<1>1. /\ Alive(v) /\ UNCHANGED <<config, ir, opt>> /\ TypeOK
      /\ UNCHANGED <<bin, disk, exports>>
      /\ LoadSymbol(v, <<>>, NoFile, bin[v], fns[v], disk, exports, o)
      /\ dirty' \subseteq dirty
  BY DEF Reload, LoaderInv, StillLoaded, files
<1>2. /\ ConfigTyped' /\ Configured' /\ OthersKeepConfig(v)
      /\ life'[v] = "alive" /\ fns'[v] = fns[v]
      /\ fns[v] \in Seq(Fns) /\ fns[v] # <<>>
  BY <1>1, ConfigKept
<1>3. o \in [Libs -> Nat] /\ Counted(o, [handle EXCEPT ![v] = NoFile])
  BY Emptied
<1>4. bin[v] \in Libs \cup {NoFile} /\ bin' = [bin EXCEPT ![v] = bin[v]]
  BY <1>1 DEF TypeOK
<1>5. /\ disk' \subseteq Names /\ exports' \in [Libs -> SUBSET Fns]
      /\ dirty' \subseteq Libs
  BY <1>1 DEF TypeOK
<1> HIDE DEF o
<1>6. QED
  BY <1>1, <1>2, <1>3, <1>4, <1>5, LoadingStep

\* v lets go of its library: fold and the destructor.
LEMMA ClosingStep ==
    ASSUME LoaderInv, NEW v \in Versions, TypeOK', Configured',
           opens' = Closed(opens, handle[v]),
           handle' = [handle EXCEPT ![v] = NoFile],
           symbol' = [symbol EXCEPT ![v] = <<>>],
           bin' = bin, OthersKeepConfig(v)
    PROVE  LoaderInv'
<1>1. Counted(opens', handle')
  BY Emptied
<1>2. /\ symbol'[v] = <<>> /\ handle'[v] = NoFile
      /\ \A w \in Versions \ {v} :
           symbol'[w] = symbol[w] /\ handle'[w] = handle[w]
  BY DEF LoaderInv, TypeOK
<1>3. QED
  BY <1>1, <1>2, LoaderChanged DEF OthersKeepConfig

LEMMA FoldStep ==
    ASSUME LoaderInv, NEW v \in Versions, Fold(v)
    PROVE  LoaderInv'
<1>1. /\ UNCHANGED <<life, kind, fns, named, auto, ir, opt, bin, disk, exports>>
      /\ opens' = Closed(opens, handle[v])
      /\ handle' = [handle EXCEPT ![v] = NoFile]
      /\ dirty' \subseteq dirty /\ TypeOK
  BY DEF Fold, config, files, StillLoaded, LoaderInv
<1>2. symbol' = [symbol EXCEPT ![v] = <<>>]
  <2>1. handle[v] = NoFile => symbol[v] = <<>>
    BY Emptied
  <2>2. QED
    BY <2>1 DEF Fold
<1>3. opens' \in [Libs -> Nat]
  BY <1>1, Emptied
<1>4. TypeOK' /\ Configured' /\ OthersKeepConfig(v)
  BY <1>1, <1>2, <1>3 DEF TypeOK, LoaderInv, Configured, OthersKeepConfig
<1>5. QED
  BY <1>1, <1>2, <1>4, ClosingStep

LEMMA DestroyStep ==
    ASSUME LoaderInv, NEW v \in Versions, Destroy(v)
    PROVE  LoaderInv'
<1>1. /\ life' = [life EXCEPT ![v] = "dead"]
      /\ UNCHANGED <<kind, fns, named, auto, ir, opt, bin, exports>>
      /\ opens' = Closed(opens, handle[v])
      /\ handle' = [handle EXCEPT ![v] = NoFile]
      /\ symbol' = [symbol EXCEPT ![v] = <<>>]
      /\ dirty' \subseteq dirty /\ disk' \subseteq disk /\ TypeOK /\ Alive(v)
  BY DEF Destroy, StillLoaded, LoaderInv
<1>2. opens' \in [Libs -> Nat]
  BY <1>1, Emptied
<1>3. TypeOK'
  BY <1>1, <1>2 DEF TypeOK
<1>4. Configured' /\ OthersKeepConfig(v)
  BY <1>1 DEF TypeOK, LoaderInv, Configured, OthersKeepConfig, Alive
<1>5. QED
  BY <1>1, <1>3, <1>4, ClosingStep

LEMMA CallStep ==
    ASSUME LoaderInv, NEW v \in Versions, CallSymbol(v)
    PROVE  LoaderInv'
<1>1. UNCHANGED <<life, kind, fns, named, auto, ir, opt, bin, symbol, handle,
                  opens, disk, exports>>
  BY DEF CallSymbol, config, files
<1>2. PICK p \in {symbol[v][i] : i \in DOMAIN symbol[v]} \ {NullPtr} :
          dirty' = dirty \cup {p[1]}
  BY DEF CallSymbol
<1>3. PICK i \in DOMAIN symbol[v] : p = symbol[v][i] /\ p # NullPtr
  BY <1>2
<1>4. p \in Libs \X Fns
  <2>1. symbol[v] \in Seq(Pointers)
    BY DEF LoaderInv, TypeOK
  <2>2. symbol[v][i] \in Pointers
    BY <1>3, <2>1
  <2>3. QED
    BY <1>3, <2>2 DEF Pointers
<1>5. TypeOK' /\ Configured'
  BY <1>1, <1>2, <1>4 DEF TypeOK, LoaderInv, Configured
<1>6. QED
  BY <1>1, <1>5, LoaderUntouched

-----------------------------------------------------------------------------
LEMMA Initially == Init => LoaderInv
<1> SUFFICES ASSUME Init PROVE LoaderInv
  OBVIOUS
<1>1. TypeOK
  <2>1. (CHOOSE k \in Kinds : TRUE) \in Kinds
    BY KindsAssumption
  <2>2. UserLib \in Libs /\ UserLib \in Names
    BY DEF Libs, Names
  <2>3. exports \in [Libs -> SUBSET Fns]
    BY DEF Init
  <2>4. QED
    BY <2>1, <2>2, <2>3 DEF Init, TypeOK
<1>2. Configured /\ SymbolsValid
  BY DEF Init, Configured, SymbolsValid, SymbolsOK
<1>3. HandlesCounted
  <2>1. ASSUME NEW lib \in Libs PROVE Holders(lib) = {}
    BY NoFileIsNoLib DEF Init, Holders
  <2>2. QED
    BY <2>1, FS_EmptySet DEF Init, HandlesCounted
<1>4. QED
  BY <1>1, <1>2, <1>3 DEF LoaderInv

LEMMA Step ==
    ASSUME LoaderInv, NamesAsked, [Next]_vars
    PROVE  LoaderInv'
<1>1. CASE UNCHANGED vars
  <2>1. UNCHANGED <<life, kind, fns, named, auto, ir, opt, bin, symbol, handle,
                    opens, dirty, disk, exports>>
    BY <1>1 DEF vars, config, loads, files
  <2>2. TypeOK' /\ Configured'
    BY <2>1 DEF LoaderInv, TypeOK, Configured
  <2>3. QED
    BY <2>1, <2>2, LoaderUntouched
<1>2. ASSUME NEW v \in Versions,
             NEW k \in Kinds, NEW l \in FnLists, NEW a \in BOOLEAN, Build(v, k, l, a)
      PROVE  LoaderInv'
  BY <1>2, BuildStep
<1>3. ASSUME NEW v \in Versions, NEW w \in Versions, NEW k \in Kinds, Clone(v, w, k)
      PROVE  LoaderInv'
  BY <1>3, CloneStep
<1>4. ASSUME NEW v \in Versions, NEW lib \in KnownLibs, NEW k \in Kinds,
             NEW l \in FnLists, NEW a \in BOOLEAN, CreateFromSO(v, lib, k, l, a)
      PROVE  LoaderInv'
  BY <1>4, CreateFromSOStep
<1>5. ASSUME NEW v \in Versions,
             \/ PrepareIR(v) \/ Compile(v) \/ Fold(v) \/ Reload(v)
             \/ CallSymbol(v) \/ Destroy(v)
      PROVE  LoaderInv'
  BY <1>5, PrepareIRStep, CompileStep, FoldStep, ReloadStep, CallStep, DestroyStep
<1>6. QED
  BY <1>1, <1>2, <1>3, <1>4, <1>5 DEF Next

(***************************************************************************)
(* LoaderInv is an invariant of every Version, when functions are named.   *)
(***************************************************************************)
THEOREM Invariance == ASSUME NamesAsked PROVE Spec => []LoaderInv
<1>1. LoaderInv /\ [Next]_vars => LoaderInv'
  BY Step
<1>2. QED
  BY <1>1, Initially, PTL DEF Spec

(***************************************************************************)
(* The variables keep their types: the loader's counts never go below 0.   *)
(***************************************************************************)
THEOREM TypeCorrect == ASSUME NamesAsked PROVE Spec => []TypeOK
<1>1. LoaderInv => TypeOK
  BY DEF LoaderInv
<1>2. QED
  BY <1>1, Invariance, PTL

(***************************************************************************)
(* The loader's count of a library is the number of Versions that hold it, *)
(* whatever build, createFromSO, compile, fold, reload and destruction do. *)
(***************************************************************************)
THEOREM HandlesAreCounted == ASSUME NamesAsked PROVE Spec => []HandlesCounted
<1>1. LoaderInv => HandlesCounted
  BY DEF LoaderInv
<1>2. QED
  BY <1>1, Invariance, PTL

(***************************************************************************)
(* A Version's pointers belong to the library it names and holds open, in  *)
(* the order of its function names; without a library it has none.         *)
(***************************************************************************)
THEOREM SymbolsAreValid == ASSUME NamesAsked PROVE Spec => []SymbolsValid
<1>1. LoaderInv => SymbolsValid
  BY DEF LoaderInv
<1>2. QED
  BY <1>1, Invariance, PTL

-----------------------------------------------------------------------------
\* What a call on w does to the loader's state of the others.
Undisturbing(w) ==
    /\ ret'.of = w /\ OthersKeepLoads(w)
    /\ \/ dirty \subseteq dirty'
       \/ dirty' = StillLoaded(Closed(opens, handle[w]))

LEMMA LoadSymbolOthers ==
    ASSUME TypeOK, NEW v \in Versions, NEW s, NEW h, NEW lib, NEW names, NEW d,
           NEW ex, NEW o, LoadSymbol(v, s, h, lib, names, d, ex, o)
    PROVE  OthersKeepLoads(v)
<1>1. \E x, y : /\ symbol' = [symbol EXCEPT ![v] = x]
                /\ handle' = [handle EXCEPT ![v] = y]
  BY DEF LoadSymbol, LoadSymbols
<1>2. QED
  BY <1>1 DEF TypeOK, OthersKeepLoads

LEMMA NextUndisturbing ==
    ASSUME TypeOK, Next
    PROVE  \E w \in Versions : Undisturbing(w)
<1> USE DEF Undisturbing, Returns
<1>1. ASSUME NEW v \in Versions, NEW k \in Kinds, NEW l \in FnLists,
             NEW a \in BOOLEAN, Build(v, k, l, a)
      PROVE  Undisturbing(v)
  BY <1>1 DEF Build, loads, OthersKeepLoads
<1>2. ASSUME NEW v \in Versions, NEW w \in Versions, NEW k \in Kinds, Clone(v, w, k)
      PROVE  Undisturbing(v)
  BY <1>2 DEF Clone, loads, OthersKeepLoads
<1>3. ASSUME NEW v \in Versions, NEW lib \in KnownLibs, NEW k \in Kinds,
             NEW l \in FnLists, NEW a \in BOOLEAN, CreateFromSO(v, lib, k, l, a)
      PROVE  Undisturbing(v)
  <2>1. OthersKeepLoads(v)
    BY <1>3, LoadSymbolOthers DEF CreateFromSO
  <2>2. QED
    BY <1>3, <2>1 DEF CreateFromSO
<1>4. ASSUME NEW v \in Versions, PrepareIR(v)
      PROVE  Undisturbing(v)
  <2>1. ret'.of = v
    BY <1>4 DEF PrepareIR, PrepareFails, PrepareOnly, PrepareAndOptimize
  <2>2. QED
    BY <1>4, <2>1 DEF PrepareIR, loads, OthersKeepLoads
<1>5. ASSUME NEW v \in Versions, Compile(v)
      PROVE  Undisturbing(v)
  <2>1. CASE CompileAgain(v)
    BY <2>1 DEF CompileAgain, loads, OthersKeepLoads
  <2>2. CASE CompileLoads(v)
    <3>1. OthersKeepLoads(v)
      BY <2>2, LoadSymbolOthers DEF CompileLoads
    <3>2. QED
      BY <2>2, <3>1 DEF CompileLoads
  <2>3. CASE CompileGenerates(v)
    <3>1. OthersKeepLoads(v)
      BY <2>3, LoadSymbolOthers DEF CompileGenerates
    <3>2. QED
      BY <2>3, <3>1 DEF CompileGenerates
  <2>4. QED
    BY <1>5, <2>1, <2>2, <2>3 DEF Compile
<1>6. ASSUME NEW v \in Versions, Fold(v)
      PROVE  Undisturbing(v)
  BY <1>6 DEF Fold, TypeOK, OthersKeepLoads
<1>7. ASSUME NEW v \in Versions, Reload(v)
      PROVE  Undisturbing(v)
  <2>1. OthersKeepLoads(v)
    BY <1>7, LoadSymbolOthers DEF Reload
  <2>2. QED
    BY <1>7, <2>1 DEF Reload
<1>8. ASSUME NEW v \in Versions, CallSymbol(v)
      PROVE  Undisturbing(v)
  BY <1>8 DEF CallSymbol, OthersKeepLoads
<1>9. ASSUME NEW v \in Versions, Destroy(v)
      PROVE  Undisturbing(v)
  BY <1>9 DEF Destroy, TypeOK, OthersKeepLoads
<1>10. QED
  BY <1>1, <1>2, <1>3, <1>4, <1>5, <1>6, <1>7, <1>8, <1>9 DEF Next

(***************************************************************************)
(* A call on one Version leaves every other Version's pointers, library    *)
(* and global variables alone.  Closing a shared library only lowers its   *)
(* count, and what another Version holds stays counted (HeldIsCounted).    *)
(***************************************************************************)
THEOREM NoCallDisturbsSiblings ==
    ASSUME NamesAsked PROVE Spec => SiblingsUndisturbed
<1>1. ASSUME LoaderInv, LoaderInv', [Next]_vars
      PROVE  [ \A v \in Versions : v # ret'.of /\ handle[v] # NoFile =>
                /\ symbol'[v] = symbol[v]
                /\ opens'[handle[v]] > 0
                /\ handle[v] \in dirty => handle[v] \in dirty' ]_vars
  <2> SUFFICES ASSUME Next, NEW v \in Versions, v # ret'.of, handle[v] # NoFile
               PROVE  /\ symbol'[v] = symbol[v]
                      /\ opens'[handle[v]] > 0
                      /\ handle[v] \in dirty => handle[v] \in dirty'
    BY <1>1
  <2>1. PICK w \in Versions : Undisturbing(w)
    BY <1>1, NextUndisturbing DEF LoaderInv
  <2>2. v # w /\ symbol'[v] = symbol[v] /\ handle'[v] = handle[v]
    BY <2>1 DEF Undisturbing, OthersKeepLoads
  <2>3. opens'[handle[v]] > 0
    BY <1>1, <2>2 DEF LoaderInv, SymbolsValid, SymbolsOK
  <2>4. CASE dirty' = StillLoaded(Closed(opens, handle[w]))
    <3> DEFINE h == [handle EXCEPT ![w] = NoFile]
               o == Closed(opens, handle[w])
    <3>1. h \in Handles /\ h[v] = handle[v]
      BY <1>1, <2>2 DEF LoaderInv, TypeOK, Handles
    <3>2. o \in [Libs -> Nat] /\ Counted(o, h)
      BY <1>1, Emptied
    <3>3. o[h[v]] > 0
      <4> HIDE DEF h, o
      <4>1. QED
        BY <3>1, <3>2, HeldIsCounted
    <3>4. QED
      BY <2>2, <2>3, <2>4, <3>1, <3>3 DEF StillLoaded
  <2>5. QED
    BY <2>1, <2>2, <2>3, <2>4 DEF Undisturbing
<1>2. QED
  BY <1>1, Invariance, PTL DEF Spec, SiblingsUndisturbed

-----------------------------------------------------------------------------
\* The types of what the file invariants are about; no assumption on the names
\* a Version asks for is needed.
FilesTyped ==
    /\ life \in [Versions -> {"none", "alive", "dead"}]
    /\ kind \in [Versions -> Kinds]
    /\ auto \in [Versions -> BOOLEAN]
    /\ ir \in [Versions -> {BitcodeName(v) : v \in Versions} \cup {NoFile}]
    /\ opt \in [Versions -> {OptBitcodeName(v) : v \in Versions} \cup {NoFile}]
    /\ bin \in [Versions -> Libs \cup {NoFile}]

\* A Version that is not built yet names no file, and no Version names its files.
UnbornIsUnnamed ==
    \A v \in Versions : life[v] = "none" =>
        /\ ir[v] = NoFile /\ opt[v] = NoFile /\ bin[v] = NoFile
        /\ \A f \in OwnNames(v) : Sharers(f) = {}

\* Only an optimizer's Version names an optimized file.
OptimizedByKind ==
    \A v \in Versions : opt[v] # NoFile => HasOptimizer(kind[v])

\* A file that a Version names and made is lost only to a Version that named it
\* and died.
LostToTheDead ==
    \A v \in Versions : Alive(v) =>
        \A f \in Named(v) \cap OwnNames(v) :
            \/ f \in disk
            \/ \E w \in Versions \ {v} : life[w] = "dead" /\ f \in Named(w)

FilesInv ==
    /\ FilesTyped /\ UnbornIsUnnamed /\ OptimizedByKind
    /\ NoOrphanFiles /\ LostToTheDead /\ PreparedIsCompiled

\* The files made for two Versions, or for two purposes, have different names.
LEMMA OwnNamesApart ==
    /\ \A v, w \in Versions :
         /\ BitcodeName(v) # OptBitcodeName(w)
         /\ BitcodeName(v) # SharedObjectName(w)
         /\ OptBitcodeName(v) # SharedObjectName(w)
         /\ BitcodeName(v) = BitcodeName(w) => v = w
         /\ OptBitcodeName(v) = OptBitcodeName(w) => v = w
         /\ SharedObjectName(v) = SharedObjectName(w) => v = w
    /\ \A v \in Versions : UserLib \notin OwnNames(v) /\ NoFile \notin OwnNames(v)
<1>1. \A v, w \in Versions :
         /\ BitcodeName(v) # OptBitcodeName(w)
         /\ BitcodeName(v) # SharedObjectName(w)
         /\ OptBitcodeName(v) # SharedObjectName(w)
         /\ BitcodeName(v) = BitcodeName(w) => v = w
         /\ OptBitcodeName(v) = OptBitcodeName(w) => v = w
         /\ SharedObjectName(v) = SharedObjectName(w) => v = w
  BY DEF BitcodeName, OptBitcodeName, SharedObjectName
<1>2. \A v \in Versions : NoFile \notin OwnNames(v)
  BY NamesAssumption DEF OwnNames, Names, Libs
<1>3. \A v \in Versions : UserLib \notin OwnNames(v)
  BY DEF OwnNames, UserLib, BitcodeName, OptBitcodeName, SharedObjectName
<1>4. QED
  BY <1>1, <1>2, <1>3

\* A call that touches no file, no name and no lifetime.
LEMMA FilesUntouched ==
    ASSUME FilesInv, UNCHANGED <<life, kind, auto, ir, opt, bin, disk>>,
           ret' = ret \/ ret'.call # "prepareIR"
    PROVE  FilesInv'
<1>1. (FilesTyped /\ UnbornIsUnnamed /\ OptimizedByKind)'
  BY DEF FilesInv, FilesTyped, UnbornIsUnnamed, OptimizedByKind, Sharers, Named
<1>2. (NoOrphanFiles /\ LostToTheDead)'
  BY DEF FilesInv, NoOrphanFiles, LostToTheDead, Named, Alive
<1>3. PreparedIsCompiled'
  BY DEF FilesInv, PreparedIsCompiled, CompileInput
<1>4. QED
  BY <1>1, <1>2, <1>3 DEF FilesInv

\* A Version is built: its names are NoFile or those of Versions there are.
LEMMA FilesBorn ==
    ASSUME FilesInv, NEW v \in Versions, NEW k \in Kinds, NEW remove \in BOOLEAN,
           NEW irName \in {NoFile} \cup {ir[w] : w \in Versions},
           NEW lib \in {NoFile} \cup KnownLibs,
           life[v] = "none",
           life' = [life EXCEPT ![v] = "alive"],
           kind' = [kind EXCEPT ![v] = k],
           auto' = [auto EXCEPT ![v] = remove],
           ir' = [ir EXCEPT ![v] = irName],
           bin' = [bin EXCEPT ![v] = lib],
           opt' = opt, disk' = disk, ret'.call # "prepareIR"
    PROVE  FilesInv'
<1>1. /\ FilesTyped /\ irName \in {NoFile} \cup {BitcodeName(w) : w \in Versions}
      /\ lib \in {NoFile} \cup Libs /\ opt[v] = NoFile
  BY DEF FilesInv, FilesTyped, KnownLibs, Libs, UnbornIsUnnamed
<1>2. FilesTyped'
  BY <1>1 DEF FilesTyped
<1>3. \A w \in Versions \ {v} : /\ life'[w] = life[w] /\ kind'[w] = kind[w]
                                /\ auto'[w] = auto[w] /\ Named(w)' = Named(w)
                                /\ ir'[w] = ir[w] /\ bin'[w] = bin[w]
  BY <1>1 DEF FilesTyped, Named
<1>4. life'[v] = "alive" /\ Named(v)' = {irName, lib} \ {NoFile}
  BY <1>1 DEF FilesTyped, Named
<1>5. ASSUME NEW u \in Versions, NEW f \in OwnNames(u) \cap Named(v)'
      PROVE  \E w \in Versions : f \in Named(w) /\ life[u] # "none"
  <2>1. f # NoFile /\ f # UserLib
    BY <1>5, OwnNamesApart
  <2>2. f \in {ir[w] : w \in Versions} \cup {bin[w] : w \in Versions}
    BY <1>4, <1>5, <2>1 DEF KnownLibs
  <2>3. \E w \in Versions : f \in Named(w)
    BY <2>1, <2>2 DEF Named
  <2>4. QED
    BY <1>5, <2>3 DEF FilesInv, UnbornIsUnnamed, Sharers
<1>6. UnbornIsUnnamed'
  <2>1. ASSUME NEW u \in Versions, life'[u] = "none"
        PROVE  /\ ir'[u] = NoFile /\ opt'[u] = NoFile /\ bin'[u] = NoFile
               /\ \A f \in OwnNames(u) : Sharers(f)' = {}
    <3>1. u # v /\ life[u] = "none"
      BY <1>3, <1>4, <2>1
    <3>2. \A f \in OwnNames(u), w \in Versions : f \notin Named(w)
      BY <3>1 DEF FilesInv, UnbornIsUnnamed, Sharers
    <3>3. \A f \in OwnNames(u), w \in Versions : f \notin Named(w)'
      BY <1>3, <1>5, <3>1, <3>2
    <3>4. QED
      BY <1>3, <3>1, <3>3 DEF FilesInv, UnbornIsUnnamed, Sharers
  <2>2. QED
    BY <2>1 DEF UnbornIsUnnamed, OwnNames
<1>7. OptimizedByKind'
  BY <1>1, <1>3 DEF FilesInv, OptimizedByKind
<1>8. NoOrphanFiles'
  BY <1>3, <1>4 DEF FilesInv, NoOrphanFiles, Alive, OwnNames
<1>9. LostToTheDead'
  <2>1. ASSUME NEW u \in Versions, Alive(u)', NEW f \in Named(u)' \cap OwnNames(u)
        PROVE  \/ f \in disk'
               \/ \E w \in Versions \ {u} : life'[w] = "dead" /\ f \in Named(w)'
    <3>1. u # v
      BY <1>5, <2>1
    <3>2. \/ f \in disk
          \/ \E w \in Versions \ {u} : life[w] = "dead" /\ f \in Named(w)
      BY <1>3, <2>1, <3>1 DEF FilesInv, LostToTheDead, Alive
    <3>3. QED
      BY <1>3, <3>2
  <2>2. QED
    BY <2>1 DEF LostToTheDead, OwnNames
<1>10. PreparedIsCompiled'
  BY DEF PreparedIsCompiled
<1>11. QED
  BY <1>2, <1>6, <1>7, <1>8, <1>9, <1>10 DEF FilesInv

\* A living Version makes or loses files of its own, and names them or not.
LEMMA FilesRemade ==
    ASSUME FilesInv, NEW v \in Versions, Alive(v),
           UNCHANGED <<life, kind, auto>>, FilesTyped', OptimizedByKind',
           \A w \in Versions \ {v} :
              ir'[w] = ir[w] /\ opt'[w] = opt[w] /\ bin'[w] = bin[w],
           Named(v)' \subseteq Named(v) \cup OwnNames(v),
           \A f \in OwnNames(v) \cap disk' : f \in Named(v)',
           \A f \in OwnNames(v) \cap Named(v)' :
              f \in disk' \/ (f \in Named(v) /\ f \notin disk),
           \A f : f \notin OwnNames(v) => (f \in disk' <=> f \in disk),
           PreparedIsCompiled'
    PROVE  FilesInv'
<1>1. \A w \in Versions \ {v} : Named(w)' = Named(w)
  BY DEF Named
<1>2. \A u \in Versions \ {v} : OwnNames(u) \cap OwnNames(v) = {}
  BY OwnNamesApart DEF OwnNames
<1>3. UnbornIsUnnamed'
  <2>1. ASSUME NEW u \in Versions, life'[u] = "none"
        PROVE  /\ ir'[u] = NoFile /\ opt'[u] = NoFile /\ bin'[u] = NoFile
               /\ \A f \in OwnNames(u) : Sharers(f)' = {}
    <3>1. u # v /\ life[u] = "none"
      BY <2>1 DEF Alive
    <3>2. \A f \in OwnNames(u), w \in Versions : f \notin Named(w)'
      BY <1>1, <1>2, <3>1 DEF FilesInv, UnbornIsUnnamed, Sharers
    <3>3. QED
      BY <3>1, <3>2 DEF FilesInv, UnbornIsUnnamed, Sharers
  <2>2. QED
    BY <2>1 DEF UnbornIsUnnamed, OwnNames
<1>4. NoOrphanFiles'
  <2>1. ASSUME NEW u \in Versions, NEW f \in OwnNames(u) \cap disk'
        PROVE  \/ Alive(u)' /\ f \in Named(u)'
               \/ life'[u] = "dead" /\ ~auto'[u]
    BY <1>1, <1>2, <2>1 DEF FilesInv, NoOrphanFiles, Alive
  <2>2. QED
    BY <2>1 DEF NoOrphanFiles, OwnNames
<1>5. LostToTheDead'
  <2>1. ASSUME NEW u \in Versions, Alive(u)', NEW f \in Named(u)' \cap OwnNames(u)
        PROVE  \/ f \in disk'
               \/ \E w \in Versions \ {u} : life'[w] = "dead" /\ f \in Named(w)'
    <3>1. CASE f \in disk \/ u # v \/ f \notin disk'
      <4>1. \/ f \in disk'
            \/ f \in disk /\ f \in Named(u)
            \/ \E w \in Versions \ {u} : life[w] = "dead" /\ f \in Named(w)
        BY <1>1, <1>2, <2>1 DEF FilesInv, LostToTheDead, Alive
      <4>2. \A w \in Versions : life[w] = "dead" => Named(w)' = Named(w)
        BY <1>1 DEF Alive
      <4>3. QED
        BY <1>1, <1>2, <2>1, <4>1, <4>2
    <3>2. QED
      BY <3>1
  <2>2. QED
    BY <2>1 DEF LostToTheDead, OwnNames
<1>6. QED
  BY <1>3, <1>4, <1>5 DEF FilesInv

\* A command changes its output and no other file.
LEMMA CommandOutput ==
    ASSUME NEW d, NEW inputs, NEW out, NEW r \in CommandRuns(d, inputs, out)
    PROVE  \A f : f # out => (f \in r.disk <=> f \in d)
<1>1. r.disk \in {d, d \ {out}, d \cup {out}}
  BY DEF CommandRuns
<1>2. QED
  BY <1>1

LEMMA PrepareIRFiles ==
    ASSUME FilesInv, NEW v \in Versions, PrepareIR(v)
    PROVE  FilesInv'
<1> DEFINE irFile == BitcodeName(v)
           optFile == OptBitcodeName(v)
<1>1. /\ Alive(v) /\ FilesTyped /\ UNCHANGED <<life, kind, auto, bin>>
      /\ irFile \in OwnNames(v) /\ optFile \in OwnNames(v) /\ irFile # optFile
  BY OwnNamesApart DEF PrepareIR, config, FilesInv, OwnNames
<1>2. CASE ~HasIRSupport(kind[v])
  <2>1. UNCHANGED <<ir, opt, disk>> /\ ret'.value = FALSE
    BY <1>2 DEF PrepareIR, Returns
  <2>2. (FilesTyped /\ UnbornIsUnnamed /\ OptimizedByKind)'
    BY <1>1, <2>1 DEF FilesInv, FilesTyped, UnbornIsUnnamed, OptimizedByKind, Sharers, Named
  <2>3. (NoOrphanFiles /\ LostToTheDead)'
    BY <1>1, <2>1 DEF FilesInv, NoOrphanFiles, LostToTheDead, Named, Alive
  <2>4. PreparedIsCompiled'
    BY <2>1 DEF PreparedIsCompiled
  <2>5. QED
    BY <2>2, <2>3, <2>4 DEF FilesInv
<1>3. ASSUME NEW g \in CommandRuns(disk, {}, irFile), PrepareFails(v, g)
      PROVE  FilesInv'
  <2>1. /\ irFile \notin disk' /\ opt' = opt /\ disk' = g.disk
        /\ ir' = [ir EXCEPT ![v] = NoFile] /\ ret'.value = FALSE
    BY <1>3 DEF PrepareFails, Returns
  <2>2. \A f : f # irFile => (f \in disk' <=> f \in disk)
    BY <2>1, CommandOutput
  <2>3. FilesTyped' /\ OptimizedByKind' /\ PreparedIsCompiled'
    BY <1>1, <2>1 DEF FilesInv, FilesTyped, OptimizedByKind, PreparedIsCompiled
  <2>4. Named(v)' = {opt[v], bin[v]} \ {NoFile}
    BY <1>1, <2>1 DEF FilesTyped, Named
  <2>5. \A f \in OwnNames(v) \cap disk' : f \in Named(v)'
    <3>1. \A f \in OwnNames(v) \cap disk' : f \in Named(v) /\ f # irFile
      BY <1>1, <2>1, <2>2 DEF FilesInv, NoOrphanFiles, Alive
    <3>2. ir[v] \in OwnNames(v) => ir[v] = irFile
      BY <1>1, OwnNamesApart DEF FilesTyped, OwnNames
    <3>3. QED
      BY <2>4, <3>1, <3>2 DEF Named
  <2>6. \A f \in OwnNames(v) \cap Named(v)' :
              f \in disk' \/ (f \in Named(v) /\ f \notin disk)
    <3>1. irFile \notin Named(v)'
      BY <1>1, <2>4, OwnNamesApart DEF FilesTyped, Libs, OwnNames
    <3>2. QED
      BY <2>2, <2>4, <3>1 DEF Named
  <2>7. Named(v)' \subseteq Named(v) \cup OwnNames(v)
    BY <2>4 DEF Named
  <2>8. \A w \in Versions \ {v} :
           ir'[w] = ir[w] /\ opt'[w] = opt[w] /\ bin'[w] = bin[w]
    BY <1>1, <2>1 DEF FilesTyped
  <2>9. \A f : f \notin OwnNames(v) => (f \in disk' <=> f \in disk)
    BY <1>1, <2>2
  <2>10. QED
    BY <1>1, <2>3, <2>5, <2>6, <2>7, <2>8, <2>9, FilesRemade
<1>4. ASSUME NEW g \in CommandRuns(disk, {}, irFile), PrepareOnly(v, g)
      PROVE  FilesInv'
  <2>1. /\ irFile \in disk' /\ opt' = opt /\ disk' = g.disk
        /\ ir' = [ir EXCEPT ![v] = irFile] /\ ~HasOptimizer(kind[v])
        /\ ret'.of = v
    BY <1>4 DEF PrepareOnly, Returns
  <2>2. \A f : f # irFile => (f \in disk' <=> f \in disk)
    BY <2>1, CommandOutput
  <2>3. FilesTyped' /\ OptimizedByKind' /\ ir'[v] = irFile /\ opt[v] = NoFile
    BY <1>1, <2>1 DEF FilesInv, FilesTyped, OptimizedByKind
  <2>4. PreparedIsCompiled'
    <3>1. irFile # NoFile
      BY <1>1, OwnNamesApart
    <3>2. QED
      BY <1>1, <2>1, <2>3, <3>1 DEF PreparedIsCompiled, CompileInput
  <2>5. Named(v)' = {irFile, bin[v]} \ {NoFile}
    BY <1>1, <2>1, <2>3 DEF Named
  <2>6. irFile \in Named(v)'
    BY <1>1, <2>5, OwnNamesApart
  <2>7. \A f \in OwnNames(v) \cap disk' : f \in Named(v)'
    <3>1. ASSUME NEW f \in OwnNames(v) \cap disk', f # irFile
          PROVE  f = bin[v] /\ f # NoFile
      <4>1. f \in Named(v)
        BY <1>1, <2>2, <3>1 DEF FilesInv, NoOrphanFiles, Alive
      <4>2. f # ir[v]
        BY <1>1, <3>1, OwnNamesApart DEF FilesTyped, OwnNames
      <4>3. QED
        BY <2>3, <4>1, <4>2 DEF Named
    <3>2. QED
      BY <2>5, <2>6, <3>1
  <2>8. \A f \in OwnNames(v) \cap Named(v)' :
              f \in disk' \/ (f \in Named(v) /\ f \notin disk)
    BY <2>1, <2>2, <2>5 DEF Named
  <2>9. Named(v)' \subseteq Named(v) \cup OwnNames(v)
    BY <1>1, <2>5 DEF Named
  <2>10. \A w \in Versions \ {v} :
           ir'[w] = ir[w] /\ opt'[w] = opt[w] /\ bin'[w] = bin[w]
    BY <1>1, <2>1 DEF FilesTyped
  <2>11. \A f : f \notin OwnNames(v) => (f \in disk' <=> f \in disk)
    BY <1>1, <2>2
  <2>12. QED
    BY <1>1, <2>3, <2>4, <2>7, <2>8, <2>9, <2>10, <2>11, FilesRemade
<1>5. ASSUME NEW g \in CommandRuns(disk, {}, irFile), PrepareAndOptimize(v, g)
      PROVE  FilesInv'
  <2>1. PICK r \in CommandRuns(g.disk, {irFile}, optFile) :
           /\ opt' = [opt EXCEPT ![v] = IfExists(optFile, r.disk)]
           /\ disk' = r.disk
           /\ ret'.of = v /\ ret'.value = (IfExists(optFile, r.disk) # NoFile)
    <3>1. PICK r \in CommandRuns(g.disk, {irFile}, optFile) :
             /\ opt' = [opt EXCEPT ![v] = IfExists(optFile, r.disk)]
             /\ disk' = r.disk
             /\ Returns("prepareIR", v, IfExists(optFile, r.disk) # NoFile,
                        {<<irFile, g.ok>>, <<optFile, r.ok>>})
      BY <1>5 DEF PrepareAndOptimize
    <3> DEFINE ok == IfExists(optFile, r.disk) # NoFile
    <3>2. ret'.of = v /\ ret'.value = ok
      <4> HIDE DEF ok
      <4>1. Returns("prepareIR", v, ok, {<<irFile, g.ok>>, <<optFile, r.ok>>})
        BY <3>1 DEF ok
      <4>2. QED
        BY <4>1 DEF Returns
    <3>3. QED
      BY <3>1, <3>2
  <2> DEFINE name == IfExists(optFile, r.disk)
  <2>2. /\ irFile \in g.disk /\ ir' = [ir EXCEPT ![v] = irFile]
        /\ HasOptimizer(kind[v])
    BY <1>5 DEF PrepareAndOptimize
  <2>3. /\ \A f : f # irFile => (f \in g.disk <=> f \in disk)
        /\ \A f : f # optFile => (f \in disk' <=> f \in g.disk)
    BY <2>1, CommandOutput
  <2>4. /\ irFile # NoFile /\ optFile # NoFile /\ irFile \in disk'
        /\ name = IF optFile \in disk' THEN optFile ELSE NoFile
    BY <1>1, <2>1, <2>2, <2>3, OwnNamesApart DEF IfExists
  <2> HIDE DEF name
  <2>5. /\ opt' = [opt EXCEPT ![v] = name] /\ ir'[v] = irFile /\ opt'[v] = name
        /\ ret'.of = v /\ ret'.value = (name # NoFile)
    BY <1>1, <2>1, <2>2 DEF FilesTyped, name
  <2>6. FilesTyped' /\ OptimizedByKind'
    <3>1. name \in {OptBitcodeName(w) : w \in Versions} \cup {NoFile}
      BY <2>4
    <3>2. QED
      BY <1>1, <2>2, <2>5, <3>1 DEF FilesInv, FilesTyped, OptimizedByKind
  <2>7. PreparedIsCompiled'
    <3>1. ASSUME ret'.value = TRUE PROVE name = optFile /\ optFile \in disk'
      BY <2>4, <2>5, <3>1
    <3>2. QED
      BY <1>1, <2>2, <2>4, <2>5, <3>1 DEF PreparedIsCompiled, CompileInput
  <2>8. Named(v)' = {irFile, name, bin[v]} \ {NoFile}
    BY <1>1, <2>5 DEF Named
  <2>9. \A f \in OwnNames(v) \cap disk' : f \in Named(v)'
    <3>1. ASSUME NEW f \in OwnNames(v) \cap disk', f # irFile, f # optFile
          PROVE  f = bin[v] /\ f # NoFile
      <4>1. f \in Named(v)
        BY <1>1, <2>3, <3>1 DEF FilesInv, NoOrphanFiles, Alive
      <4>2. f # ir[v] /\ f # opt[v]
        BY <1>1, <3>1, OwnNamesApart DEF FilesTyped, OwnNames
      <4>3. QED
        BY <4>1, <4>2 DEF Named
    <3>2. QED
      BY <2>4, <2>8, <3>1
  <2>10. \A f \in OwnNames(v) \cap Named(v)' :
              f \in disk' \/ (f \in Named(v) /\ f \notin disk)
    <3>1. \A f : f \in {irFile, name} /\ f # NoFile => f \in disk'
      BY <2>4
    <3>2. ASSUME bin[v] # NoFile
          PROVE  bin[v] \in Named(v) /\ bin[v] # irFile /\ bin[v] # optFile
      BY <1>1, <3>2, OwnNamesApart
         DEF Named, FilesTyped, Libs, UserLib, BitcodeName, OptBitcodeName,
             SharedObjectName
    <3>3. QED
      BY <2>3, <2>8, <3>1, <3>2
  <2>11. Named(v)' \subseteq Named(v) \cup OwnNames(v)
    BY <1>1, <2>4, <2>8 DEF Named
  <2>12. \A w \in Versions \ {v} :
           ir'[w] = ir[w] /\ opt'[w] = opt[w] /\ bin'[w] = bin[w]
    BY <1>1, <2>2, <2>5 DEF FilesTyped
  <2>13. \A f : f \notin OwnNames(v) => (f \in disk' <=> f \in disk)
    BY <1>1, <2>3
  <2>14. QED
    BY <1>1, <2>6, <2>7, <2>9, <2>10, <2>11, <2>12, <2>13, FilesRemade
<1>6. QED
  BY <1>2, <1>3, <1>4, <1>5 DEF PrepareIR

LEMMA CompileFiles ==
    ASSUME FilesInv, NEW v \in Versions, Compile(v)
    PROVE  FilesInv'
<1>1. Alive(v) /\ FilesTyped /\ UNCHANGED <<life, kind, auto, ir, opt>>
  BY DEF Compile, config, FilesInv
<1>2. CASE CompileAgain(v) \/ CompileLoads(v)
  <2>1. UNCHANGED <<bin, disk>> /\ ret'.call # "prepareIR"
    BY <1>2 DEF CompileAgain, CompileLoads, files, Returns
  <2>2. QED
    BY <1>1, <2>1, FilesUntouched
<1>3. CASE CompileGenerates(v)
  <2> DEFINE out == SharedObjectName(v)
  <2>1. PICK r \in CommandRuns(disk, CompileInput(v), out) :
          /\ bin' = [bin EXCEPT ![v] = IfExists(out, r.disk)]
          /\ disk' = r.disk /\ bin[v] = NoFile /\ ret'.call # "prepareIR"
    <3>1. PICK r \in CommandRuns(disk, CompileInput(v), out), e \in SUBSET Fns :
            /\ bin' = [bin EXCEPT ![v] = IfExists(out, r.disk)]
            /\ disk' = r.disk
            /\ Returns("compile", v, symbol'[v] # <<>>, {<<out, r.ok>>})
      BY <1>3 DEF CompileGenerates
    <3>2. ret'.call # "prepareIR" /\ bin[v] = NoFile
      BY <1>3, <3>1 DEF CompileGenerates, Returns, HasGeneratedBin
    <3>3. QED
      BY <3>1, <3>2
  <2>2. \A f : f # out => (f \in disk' <=> f \in disk)
    BY <2>1, CommandOutput
  <2>3. /\ bin'[v] = (IF out \in disk' THEN out ELSE NoFile)
        /\ out \in OwnNames(v) /\ out # NoFile /\ out \in Libs
        /\ bin' = [bin EXCEPT ![v] = IF out \in disk' THEN out ELSE NoFile]
    BY <1>1, <2>1, OwnNamesApart DEF FilesTyped, IfExists, OwnNames, Libs
  <2>4. FilesTyped' /\ OptimizedByKind' /\ PreparedIsCompiled'
    BY <1>1, <2>1, <2>3
       DEF FilesInv, FilesTyped, OptimizedByKind, PreparedIsCompiled
  <2>5. Named(v)' = {ir[v], opt[v], bin'[v]} \ {NoFile}
    BY <1>1 DEF Named
  <2>6. \A f \in OwnNames(v) \cap disk' : f \in Named(v)'
    <3>1. \A f \in OwnNames(v) \cap disk' : f # out => f \in Named(v)
      BY <1>1, <2>2 DEF FilesInv, NoOrphanFiles, Alive
    <3>2. QED
      BY <2>1, <2>3, <2>5, <3>1 DEF Named
  <2>7. \A f \in OwnNames(v) \cap Named(v)' :
              f \in disk' \/ (f \in Named(v) /\ f \notin disk)
    <3>1. out \in Named(v)' => out \in disk'
      BY <1>1, <2>3, <2>5, OwnNamesApart DEF FilesTyped
    <3>2. \A f : f \in Named(v)' /\ f # out => f \in Named(v)
      BY <2>3, <2>5 DEF Named
    <3>3. QED
      BY <2>2, <3>1, <3>2
  <2>8. Named(v)' \subseteq Named(v) \cup OwnNames(v)
    BY <2>3, <2>5 DEF Named
  <2>9. \A w \in Versions \ {v} :
           ir'[w] = ir[w] /\ opt'[w] = opt[w] /\ bin'[w] = bin[w]
    BY <1>1, <2>1 DEF FilesTyped
  <2>10. \A f : f \notin OwnNames(v) => (f \in disk' <=> f \in disk)
    BY <2>2, <2>3
  <2>11. QED
    BY <1>1, <2>4, <2>6, <2>7, <2>8, <2>9, <2>10, FilesRemade
<1>4. QED
  BY <1>2, <1>3 DEF Compile

\* The destructor removes what the dying Version names.
LEMMA DestroyFiles ==
    ASSUME FilesInv, NEW v \in Versions, Destroy(v)
    PROVE  FilesInv'
<1>1. /\ Alive(v) /\ FilesTyped /\ UNCHANGED <<kind, auto, ir, opt, bin>>
      /\ life' = [life EXCEPT ![v] = "dead"] /\ ret'.call # "prepareIR"
      /\ disk' = IF auto[v] THEN disk \ {bin[v], opt[v], ir[v]} ELSE disk
  BY DEF Destroy, FilesInv, Returns
<1>2. \A w \in Versions : Named(w)' = Named(w)
  BY <1>1 DEF Named
<1>3. life'[v] = "dead" /\ \A w \in Versions \ {v} : life'[w] = life[w]
  BY <1>1 DEF FilesTyped
<1>4. FilesTyped' /\ OptimizedByKind' /\ PreparedIsCompiled'
  BY <1>1 DEF FilesInv, FilesTyped, OptimizedByKind, PreparedIsCompiled
<1>5. UnbornIsUnnamed'
  BY <1>1, <1>2, <1>3 DEF FilesInv, UnbornIsUnnamed, Sharers
<1>6. \A f : f \in disk' => f \in disk /\ (auto[v] => f \notin Named(v))
  BY <1>1 DEF Named
<1>7. NoOrphanFiles'
  <2>1. ASSUME NEW u \in Versions, NEW f \in OwnNames(u) \cap disk'
        PROVE  \/ Alive(u)' /\ f \in Named(u)'
               \/ life'[u] = "dead" /\ ~auto'[u]
    <3>1. \/ Alive(u) /\ f \in Named(u)
          \/ life[u] = "dead" /\ ~auto[u]
      BY <1>6, <2>1 DEF FilesInv, NoOrphanFiles
    <3>2. QED
      BY <1>1, <1>2, <1>3, <1>6, <2>1, <3>1 DEF Alive
  <2>2. QED
    BY <2>1 DEF NoOrphanFiles, OwnNames
<1>8. LostToTheDead'
  <2>1. ASSUME NEW u \in Versions, Alive(u)', NEW f \in Named(u)' \cap OwnNames(u)
        PROVE  \/ f \in disk'
               \/ \E w \in Versions \ {u} : life'[w] = "dead" /\ f \in Named(w)'
    <3>1. u # v /\ f \in Named(u) /\ Alive(u) /\ f # NoFile
      BY <1>2, <1>3, <2>1 DEF Alive, Named
    <3>2. CASE f \in disk /\ f \notin disk'
      <4>1. f \in Named(v)
        BY <1>1, <3>1, <3>2 DEF Named
      <4>2. QED
        BY <1>2, <1>3, <3>1, <4>1
    <3>3. CASE f \notin disk
      <4>1. PICK w \in Versions \ {u} : life[w] = "dead" /\ f \in Named(w)
        BY <2>1, <3>1, <3>3 DEF FilesInv, LostToTheDead
      <4>2. QED
        BY <1>2, <1>3, <4>1
    <3>4. QED
      BY <3>2, <3>3
  <2>2. QED
    BY <2>1 DEF LostToTheDead, OwnNames
<1>9. QED
  BY <1>4, <1>5, <1>7, <1>8 DEF FilesInv

LEMMA FilesInitially == Init => FilesInv
<1> SUFFICES ASSUME Init PROVE FilesInv
  OBVIOUS
<1>1. \A v \in Versions : Named(v) = {} /\ life[v] = "none"
  BY DEF Init, Named
<1>2. FilesTyped
  <2>1. (CHOOSE k \in Kinds : TRUE) \in Kinds
    BY KindsAssumption
  <2>2. QED
    BY <2>1 DEF Init, FilesTyped
<1>3. UnbornIsUnnamed /\ OptimizedByKind
  BY <1>1 DEF Init, UnbornIsUnnamed, OptimizedByKind, Sharers
<1>4. NoOrphanFiles
  BY OwnNamesApart DEF Init, NoOrphanFiles
<1>5. LostToTheDead /\ PreparedIsCompiled
  BY <1>1 DEF Init, LostToTheDead, PreparedIsCompiled
<1>6. QED
  BY <1>2, <1>3, <1>4, <1>5 DEF FilesInv

LEMMA FilesStep ==
    ASSUME FilesInv, [Next]_vars
    PROVE  FilesInv'
<1>1. CASE UNCHANGED vars
  BY <1>1, FilesUntouched DEF vars, config, files
<1>2. ASSUME NEW v \in Versions, NEW k \in Kinds, NEW l \in FnLists,
             NEW a \in BOOLEAN, Build(v, k, l, a)
      PROVE  FilesInv'
  <2>1. NoFile \in {NoFile} \cup {ir[w] : w \in Versions}
    OBVIOUS
  <2>2. bin[v] \in {NoFile} \cup KnownLibs
    BY DEF KnownLibs
  <2>3. bin' = [bin EXCEPT ![v] = bin[v]]
    BY <1>2 DEF Build, FilesInv, FilesTyped
  <2>4. QED
    BY <1>2, <2>1, <2>2, <2>3, FilesBorn DEF Build, New, Returns, files
<1>3. ASSUME NEW v \in Versions, NEW w \in Versions, NEW k \in Kinds, Clone(v, w, k)
      PROVE  FilesInv'
  <2>1. ir[w] \in {NoFile} \cup {ir[u] : u \in Versions} /\ auto[w] \in BOOLEAN
    BY DEF FilesInv, FilesTyped
  <2>2. bin[v] \in {NoFile} \cup KnownLibs
    BY DEF KnownLibs
  <2>3. bin' = [bin EXCEPT ![v] = bin[v]]
    BY <1>3 DEF Clone, FilesInv, FilesTyped
  <2>4. QED
    BY <1>3, <2>1, <2>2, <2>3, FilesBorn DEF Clone, New, Returns, files
<1>4. ASSUME NEW v \in Versions, NEW lib \in KnownLibs, NEW k \in Kinds,
             NEW l \in FnLists, NEW a \in BOOLEAN, CreateFromSO(v, lib, k, l, a)
      PROVE  FilesInv'
  <2>1. NoFile \in {NoFile} \cup {ir[w] : w \in Versions}
    OBVIOUS
  <2>2. lib \in {NoFile} \cup KnownLibs
    OBVIOUS
  <2>3. QED
    BY <1>4, <2>1, <2>2, FilesBorn DEF CreateFromSO, New, Returns, files
<1>5. ASSUME NEW v \in Versions, Fold(v) \/ Reload(v) \/ CallSymbol(v)
      PROVE  FilesInv'
  BY <1>5, FilesUntouched DEF Fold, Reload, CallSymbol, config, files, Returns
<1>6. ASSUME NEW v \in Versions, PrepareIR(v) \/ Compile(v) \/ Destroy(v)
      PROVE  FilesInv'
  BY <1>6, PrepareIRFiles, CompileFiles, DestroyFiles
<1>7. QED
  BY <1>1, <1>2, <1>3, <1>4, <1>5, <1>6 DEF Next

(***************************************************************************)
(* FilesInv is an invariant of every Version, whatever names it asks for.  *)
(***************************************************************************)
THEOREM FilesInvariance == Spec => []FilesInv
<1>1. FilesInv /\ [Next]_vars => FilesInv'
  BY FilesStep
<1>2. QED
  BY <1>1, FilesInitially, PTL DEF Spec

(***************************************************************************)
(* A file made for a Version is one it still names, so its destructor      *)
(* removes it; a dead Version leaves one only if automatic removal was off.*)
(***************************************************************************)
THEOREM NoFileIsOrphaned == Spec => []NoOrphanFiles
<1>1. FilesInv => NoOrphanFiles
  BY DEF FilesInv
<1>2. QED
  BY <1>1, FilesInvariance, PTL

(***************************************************************************)
(* What hasGeneratedIR, hasOptimizedIR and hasGeneratedBin tell of a file  *)
(* only its maker ever named is true: the file is there.  A file is lost   *)
(* only to the destructor of another Version that named it, and that one   *)
(* keeps the name (LostToTheDead).                                         *)
(***************************************************************************)
THEOREM FilesOfOneExist == Spec => []UnsharedFilesExist
<1>1. FilesInv => UnsharedFilesExist
  BY DEF FilesInv, LostToTheDead, UnsharedFilesExist, Sharers
<1>2. QED
  BY <1>1, FilesInvariance, PTL

(***************************************************************************)
(* When prepareIR returns true, compile takes the IR it prepared, the      *)
(* optimized one if the compiler has an optimizer, and the file exists.    *)
(***************************************************************************)
THEOREM PreparedIRIsCompiled == Spec => []PreparedIsCompiled
<1>1. FilesInv => PreparedIsCompiled
  BY DEF FilesInv
<1>2. QED
  BY <1>1, FilesInvariance, PTL

-----------------------------------------------------------------------------
\* Who names a library that compile made has it from its maker, which still
\* names it: generateBin never writes that file again.
BinariesOwned ==
    \A v, w \in Versions : bin[w] = SharedObjectName(v) => bin[v] # NoFile

\* The pointers of a Version are what its library defines now.
LookedUp ==
    \A v \in Versions : handle[v] # NoFile =>
        symbol[v] = SymbolsIn(handle[v], fns[v], exports)

LookupInv == LoaderInv /\ BinariesOwned /\ LookedUp

\* A nonempty set of natural numbers has a least element.
LEMMA LeastNumber ==
    ASSUME NEW S \in SUBSET Nat, S # {}
    PROVE  \E x \in S : \A y \in S : x <= y
<1>1. PICK x \in S : \A y \in S : ~(<<y, x>> \in OpToRel(<, Nat))
  BY NatLessThanWellFounded, WFMin
<1>2. ASSUME NEW y \in S PROVE x <= y
  <2> SUFFICES ASSUME y < x PROVE FALSE
    <3>1. x \in Nat /\ y \in Nat
      OBVIOUS
    <3>2. QED
      BY <3>1
  <2>1. <<y, x>> \in {p \in Nat \X Nat : p[1] < p[2]}
    OBVIOUS
  <2>2. <<y, x>> \in OpToRel(<, Nat)
    BY <2>1 DEF OpToRel
  <2>3. QED
    BY <1>1, <2>2
<1>3. QED
  BY <1>2

\* A nonempty set of indices has a last one.
LEMMA LastIndex ==
    ASSUME NEW n \in Nat, NEW I \in SUBSET (1 .. n), I # {}
    PROVE  \E i \in I : \A j \in I : j <= i
<1> DEFINE S == {n - i : i \in I}
<1>1. S \in SUBSET Nat /\ S # {}
  OBVIOUS
<1>2. PICK x \in S : \A y \in S : x <= y
  <2> HIDE DEF S
  <2>1. QED
    BY <1>1, LeastNumber
<1>3. PICK i \in I : x = n - i
  OBVIOUS
<1>4. \A j \in I : n - i <= n - j
  BY <1>2, <1>3
<1>5. \A j \in I : j <= i
  BY <1>4
<1>6. QED
  BY <1>5

\* A call that loads nothing and leaves every binary and library alone.
LEMMA LookupUntouched ==
    ASSUME LookupInv, LoaderInv', UNCHANGED <<bin, exports>>,
           \A v \in Versions : handle'[v] # NoFile =>
              handle'[v] = handle[v] /\ symbol'[v] = symbol[v] /\ fns'[v] = fns[v]
    PROVE  LookupInv'
<1>1. BinariesOwned'
  BY DEF LookupInv, BinariesOwned
<1>2. LookedUp'
  BY DEF LookupInv, LookedUp, SymbolsIn
<1>3. QED
  BY <1>1, <1>2 DEF LookupInv

\* loadSymbol leaves v with the pointers of the library it opened, if any.
LEMMA LoadSymbolLooks ==
    ASSUME TypeOK, NEW v \in Versions, NEW o, NEW lib, NEW names, NEW d, NEW ex,
           LoadSymbol(v, <<>>, NoFile, lib, names, d, ex, o)
    PROVE  /\ OthersKeepLoads(v)
           /\ handle'[v] # NoFile => symbol'[v] = SymbolsIn(handle'[v], names, ex)
<1>1. OthersKeepLoads(v)
  BY LoadSymbolOthers
<1>2. CASE handle' = [handle EXCEPT ![v] = NoFile]
  BY <1>1, <1>2 DEF TypeOK
<1>3. CASE /\ symbol' = [symbol EXCEPT ![v] = SymbolsIn(lib, names, ex)]
           /\ handle' = [handle EXCEPT ![v] = lib]
  <2>1. handle'[v] = lib
    BY <1>3 DEF TypeOK
  <2>2. symbol'[v] = SymbolsIn(lib, names, ex)
    BY <1>3 DEF TypeOK
  <2>3. QED
    BY <1>1, <2>1, <2>2
<1>4. QED
  BY <1>2, <1>3 DEF LoadSymbol, LoadSymbols

\* A call that loads v: the libraries the others hold stay as they are.
LEMMA LookupLoaded ==
    ASSUME LookupInv, LoaderInv', NEW v \in Versions, NEW names, NEW o, NEW lib,
           NEW d, LoadSymbol(v, <<>>, NoFile, lib, names, d, exports', o),
           OthersKeepConfig(v), fns'[v] = names, BinariesOwned',
           \A w \in Versions \ {v} : handle[w] # NoFile =>
              exports'[handle[w]] = exports[handle[w]]
    PROVE  LookupInv'
<1>1. TypeOK
  BY DEF LookupInv, LoaderInv
<1>2. /\ OthersKeepLoads(v)
      /\ handle'[v] # NoFile => symbol'[v] = SymbolsIn(handle'[v], names, exports')
  BY <1>1, LoadSymbolLooks
<1>3. ASSUME NEW w \in Versions \ {v}, handle'[w] # NoFile
      PROVE  symbol'[w] = SymbolsIn(handle'[w], fns'[w], exports')
  <2>1. /\ handle'[w] = handle[w] /\ symbol'[w] = symbol[w] /\ fns'[w] = fns[w]
        /\ exports'[handle[w]] = exports[handle[w]]
    BY <1>2, <1>3 DEF OthersKeepLoads, OthersKeepConfig
  <2>2. symbol[w] = SymbolsIn(handle[w], fns[w], exports)
    BY <1>3, <2>1 DEF LookupInv, LookedUp
  <2>3. QED
    BY <2>1, <2>2 DEF SymbolsIn
<1>4. LookedUp'
  <2>1. \A w \in Versions : handle'[w] # NoFile =>
           symbol'[w] = SymbolsIn(handle'[w], fns'[w], exports')
    BY <1>2, <1>3
  <2>2. QED
    BY <2>1 DEF LookedUp, SymbolsIn
<1>5. QED
  BY <1>4 DEF LookupInv

LEMMA CompileLooks ==
    ASSUME LookupInv, LoaderInv', NEW v \in Versions, Compile(v)
    PROVE  LookupInv'
<1>1. /\ UNCHANGED <<life, fns>> /\ OthersKeepConfig(v) /\ fns'[v] = fns[v]
      /\ LoaderInv /\ TypeOK
  BY DEF Compile, config, OthersKeepConfig, LookupInv, LoaderInv
<1>2. CASE CompileAgain(v)
  BY <1>1, <1>2, LookupUntouched DEF CompileAgain, loads, files
<1>3. CASE CompileLoads(v)
  <2>1. /\ LoadSymbol(v, symbol[v], handle[v], bin[v], fns[v], disk, exports', opens)
        /\ symbol[v] = <<>> /\ UNCHANGED <<bin, exports>>
    BY <1>3 DEF CompileLoads, HasLoadedSymbol, files
  <2>2. handle[v] = NoFile
    BY <1>1, <2>1 DEF LoaderInv, SymbolsValid, SymbolsOK
  <2>3. LoadSymbol(v, <<>>, NoFile, bin[v], fns[v], disk, exports', opens)
    BY <2>1, <2>2
  <2>4. BinariesOwned'
    BY <2>1 DEF LookupInv, BinariesOwned
  <2>5. QED
    BY <1>1, <2>1, <2>3, <2>4, LookupLoaded
<1>4. CASE CompileGenerates(v)
  <2> DEFINE out == SharedObjectName(v)
  <2>1. bin[v] = NoFile
    BY <1>4 DEF CompileGenerates, HasGeneratedBin
  <2>2. PICK r \in CommandRuns(disk, CompileInput(v), out), e \in SUBSET Fns :
          /\ bin' = [bin EXCEPT ![v] = IfExists(out, r.disk)]
          /\ exports' = [exports EXCEPT ![out] = IF out \in r.disk THEN e ELSE {}]
          /\ LoadSymbol(v, symbol[v], handle[v], bin'[v], fns[v], r.disk,
                        exports', opens)
    BY <1>4 DEF CompileGenerates
  <2>3. handle[v] = NoFile /\ symbol[v] = <<>>
    BY <1>1, <2>1 DEF LoaderInv, SymbolsValid, SymbolsOK
  <2>4. LoadSymbol(v, <<>>, NoFile, bin'[v], fns[v], r.disk, exports', opens)
    BY <2>2, <2>3
  <2>5. \A w \in Versions : bin[w] # out
    BY <2>1 DEF LookupInv, BinariesOwned
  <2>6. \A w \in Versions : handle[w] # NoFile =>
           exports'[handle[w]] = exports[handle[w]]
    <3>1. \A w \in Versions : handle[w] # NoFile => handle[w] # out
      BY <1>1, <2>5 DEF LoaderInv, SymbolsValid, SymbolsOK
    <3>2. QED
      BY <1>1, <2>2, <3>1 DEF TypeOK
  <2>7. BinariesOwned'
    <3>1. /\ bin'[v] \in {out, NoFile} /\ out # NoFile
          /\ \A w \in Versions \ {v} : bin'[w] = bin[w]
      BY <1>1, <2>2, OwnNamesApart DEF TypeOK, IfExists, OwnNames
    <3>2. ASSUME NEW u \in Versions, NEW w \in Versions,
                 bin'[w] = SharedObjectName(u)
          PROVE  bin'[u] # NoFile
      <4>1. SharedObjectName(u) # NoFile
        BY OwnNamesApart DEF OwnNames
      <4>2. CASE w = v
        BY <3>1, <3>2, <4>1, <4>2, OwnNamesApart
      <4>3. CASE w # v
        BY <2>1, <3>1, <3>2, <4>3 DEF LookupInv, BinariesOwned
      <4>4. QED
        BY <4>2, <4>3
    <3>3. QED
      BY <3>2 DEF BinariesOwned, SharedObjectName
  <2>8. QED
    BY <1>1, <2>4, <2>6, <2>7, LookupLoaded
<1>5. QED
  BY <1>2, <1>3, <1>4 DEF Compile

LEMMA CreateFromSOLooks ==
    ASSUME LookupInv, LoaderInv', NEW v \in Versions, NEW lib \in KnownLibs,
           NEW k \in Kinds, NEW names \in FnLists, NEW remove \in BOOLEAN,
           CreateFromSO(v, lib, k, names, remove)
    PROVE  LookupInv'
<1>1. /\ New(v, k, names, FALSE, remove, NoFile)
      /\ bin' = [bin EXCEPT ![v] = lib] /\ exports' = exports
      /\ LoadSymbol(v, <<>>, NoFile, lib, names, disk, exports', opens)
  BY DEF CreateFromSO, files
<1>2. TypeOK /\ LoaderInv
  BY DEF LookupInv, LoaderInv
<1>3. OthersKeepConfig(v) /\ fns'[v] = names
  BY <1>1, <1>2, NewStep
<1>4. BinariesOwned'
  <2>1. lib # NoFile /\ (lib # UserLib => \E w \in Versions : bin[w] = lib)
    BY NamesAssumption DEF KnownLibs, Names, Libs
  <2>2. bin'[v] = lib /\ \A w \in Versions \ {v} : bin'[w] = bin[w]
    BY <1>1, <1>2 DEF TypeOK
  <2>3. ASSUME NEW u \in Versions, NEW w \in Versions,
               bin'[w] = SharedObjectName(u)
        PROVE  bin'[u] # NoFile
    <3>1. SharedObjectName(u) # UserLib
      BY DEF SharedObjectName, UserLib
    <3>2. \E x \in Versions : bin[x] = SharedObjectName(u)
      BY <2>1, <2>2, <2>3, <3>1
    <3>3. bin[u] # NoFile
      BY <3>2 DEF LookupInv, BinariesOwned
    <3>4. QED
      BY <2>1, <2>2, <3>3
  <2>4. QED
    BY <2>3 DEF BinariesOwned, SharedObjectName
<1>5. QED
  BY <1>1, <1>3, <1>4, LookupLoaded

LEMMA ReloadLooks ==
    ASSUME LookupInv, LoaderInv', NEW v \in Versions, Reload(v)
    PROVE  LookupInv'
<1>1. /\ UNCHANGED <<life, fns, bin, exports>>
      /\ LoadSymbol(v, <<>>, NoFile, bin[v], fns[v], disk, exports',
                    Closed(opens, handle[v]))
  BY DEF Reload, config, files
<1>2. OthersKeepConfig(v) /\ BinariesOwned'
  BY <1>1 DEF OthersKeepConfig, LookupInv, BinariesOwned
<1>3. QED
  BY <1>1, <1>2, LookupLoaded

\* Calls after which a Version holds what it held, or nothing.
LEMMA OthersLook ==
    ASSUME LookupInv, LoaderInv', NEW v \in Versions,
           PrepareIR(v) \/ Fold(v) \/ CallSymbol(v) \/ Destroy(v)
    PROVE  LookupInv'
<1>1. TypeOK /\ UNCHANGED <<bin, exports, fns>>
  BY DEF PrepareIR, Fold, CallSymbol, Destroy, config, files, LookupInv, LoaderInv
<1>2. /\ \A w \in Versions \ {v} : handle'[w] = handle[w] /\ symbol'[w] = symbol[w]
      /\ handle'[v] # NoFile => handle'[v] = handle[v] /\ symbol'[v] = symbol[v]
  <2>1. CASE PrepareIR(v) \/ CallSymbol(v)
    BY <2>1 DEF PrepareIR, CallSymbol, loads
  <2>2. CASE Fold(v)
    BY <1>1, <2>2 DEF Fold, TypeOK
  <2>3. CASE Destroy(v)
    BY <1>1, <2>3 DEF Destroy, TypeOK
  <2>4. QED
    BY <2>1, <2>2, <2>3
<1>3. QED
  BY <1>1, <1>2, LookupUntouched

LEMMA BuiltLooks ==
    ASSUME LookupInv, LoaderInv', NEW v \in Versions, NEW k, NEW names, NEW byName,
           NEW remove, NEW irName, New(v, k, names, byName, remove, irName),
           UNCHANGED <<bin, loads, files>>
    PROVE  LookupInv'
<1>1. LoaderInv /\ TypeOK /\ UNCHANGED <<bin, exports, handle, symbol>>
  BY DEF LookupInv, LoaderInv, loads, files
<1>2. handle[v] = NoFile /\ \A w \in Versions \ {v} : fns'[w] = fns[w]
  BY <1>1 DEF New, LoaderInv, TypeOK, SymbolsValid, SymbolsOK, Alive
<1>3. QED
  BY <1>1, <1>2, LookupUntouched

LEMMA LookupStep ==
    ASSUME LookupInv, LoaderInv', [Next]_vars
    PROVE  LookupInv'
<1>1. CASE UNCHANGED vars
  BY <1>1, LookupUntouched DEF vars, config, files, loads
<1>2. ASSUME NEW v \in Versions, NEW k \in Kinds, NEW l \in FnLists,
             NEW a \in BOOLEAN, Build(v, k, l, a)
      PROVE  LookupInv'
  BY <1>2, BuiltLooks DEF Build
<1>3. ASSUME NEW v \in Versions, NEW w \in Versions, NEW k \in Kinds, Clone(v, w, k)
      PROVE  LookupInv'
  BY <1>3, BuiltLooks DEF Clone
<1>4. ASSUME NEW v \in Versions, NEW lib \in KnownLibs, NEW k \in Kinds,
             NEW l \in FnLists, NEW a \in BOOLEAN, CreateFromSO(v, lib, k, l, a)
      PROVE  LookupInv'
  BY <1>4, CreateFromSOLooks
<1>5. ASSUME NEW v \in Versions,
             \/ PrepareIR(v) \/ Compile(v) \/ Fold(v) \/ Reload(v)
             \/ CallSymbol(v) \/ Destroy(v)
      PROVE  LookupInv'
  BY <1>5, CompileLooks, ReloadLooks, OthersLook
<1>6. QED
  BY <1>1, <1>2, <1>3, <1>4, <1>5 DEF Next

\* The last index of a name is an index of that name.
LEMMA LookupFinds ==
    ASSUME LookupInv, NEW v \in Versions, named[v], HasLoadedSymbol(v),
           NEW i \in DOMAIN fns[v]
    PROVE  GetSymbolOf(v, fns[v][i]) =
              IF fns[v][i] \in exports[bin[v]] THEN <<bin[v], fns[v][i]>> ELSE NullPtr
<1>1. /\ handle[v] = bin[v] /\ symbol[v] = SymbolsIn(bin[v], fns[v], exports)
      /\ DOMAIN symbol[v] = DOMAIN fns[v]
  BY DEF LookupInv, LoaderInv, LookedUp, SymbolsValid, SymbolsOK, HasLoadedSymbol
<1>2. fns[v] \in Seq(Fns)
  BY VersionAssumption DEF LookupInv, LoaderInv, TypeOK
<1> DEFINE index == {j \in DOMAIN fns[v] : fns[v][j] = fns[v][i]}
           last == CHOOSE j \in index : \A l \in index : l <= j
<1>3. last \in index
  <2>1. index \in SUBSET (1 .. Len(fns[v])) /\ index # {} /\ Len(fns[v]) \in Nat
    BY <1>2
  <2>2. \E j \in index : \A l \in index : l <= j
    <3> HIDE DEF index
    <3>1. QED
      BY <2>1, LastIndex
  <2>3. QED
    BY <2>2
<1>4. GetSymbolOf(v, fns[v][i]) = At(symbol[v], last)
  BY DEF GetSymbolOf
<1> HIDE DEF last
<1>5. last \in DOMAIN fns[v] /\ fns[v][last] = fns[v][i]
  BY <1>3
<1>6. At(symbol[v], last) = SymbolsIn(bin[v], fns[v], exports)[last]
  BY <1>1, <1>5 DEF At
<1>7. QED
  BY <1>4, <1>5, <1>6 DEF SymbolsIn

(***************************************************************************)
(* getSymbol(name) finds the function of that name in the library the      *)
(* Version has loaded now, or nullptr if the library has none, also when a *)
(* name was asked for twice: no other Version's compile replaces a library *)
(* that is loaded, because its name is still somebody's (BinariesOwned).   *)
(***************************************************************************)
THEOREM NamesAreLookedUp == ASSUME NamesAsked PROVE Spec => []LookupByName
<1>1. Init => LookupInv
  BY Initially, OwnNamesApart
     DEF Init, LookupInv, BinariesOwned, LookedUp, OwnNames
<1>2. LookupInv /\ LoaderInv' /\ [Next]_vars => LookupInv'
  BY LookupStep
<1>3. LookupInv => LookupByName
  BY LookupFinds DEF LookupByName
<1>4. QED
  BY <1>1, <1>2, <1>3, Invariance, PTL DEF Spec
=============================================================================
