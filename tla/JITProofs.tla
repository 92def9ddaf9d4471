----------------------------- MODULE JITProofs -----------------------------
(***************************************************************************)
(* Proofs about JIT, for any Versions, functions and lists of functions.   *)
(*                                                                         *)
(* TablesAgree is inductive once it also says what the call that runs may  *)
(* rely on (Running), and OwnCodeWhenApart once it says of every loaded    *)
(* Version what it says of the pointers looked up so far (Own).            *)
(***************************************************************************)
EXTENDS JIT, TLAPS

Ptrs == ((Versions \cup {Host}) \X Fns) \cup {NullPtr}

Types ==
    /\ asks \in [Versions -> FnLists]
    /\ defines \in [Versions -> SUBSET Fns]
    /\ alive \subseteq Versions
    /\ irs \in [Versions -> SUBSET {"IR", "opt"}]
    /\ disk \in [Versions -> SUBSET {"IR", "opt"}]
    /\ bin \in [Versions -> BOOLEAN]
    /\ handle \in [Versions -> BOOLEAN]
    /\ symbol \in [Versions -> Seq(Ptrs)]
    /\ modules \in [Versions -> {"absent", "null", "module"}]
    /\ layers \in [Versions -> {"absent", "empty", "target"}]
    /\ trackers \subseteq Versions /\ loaded \subseteq Versions
    /\ jd \in [Fns -> Versions \cup {Host, NoOne}]
    /\ ready \subseteq Versions
    /\ bins \in 0 .. MaxBins

Running ==
    \A v \in Versions :
        /\ doing = Calling("loadSymbol", v) =>
             v \in alive /\ bin[v] /\ symbol[v] = <<>>
        /\ doing = Calling("findSymbol", v) =>
             /\ v \in alive /\ v \in loaded
             /\ Len(symbol[v]) < Len(asks[v])

Loads ==
    \A v \in Versions :
        /\ handle[v] <=> v \in loaded
        /\ v \in loaded => v \in alive /\ v \in trackers /\ bin[v]
        /\ bin[v] => modules[v] = "module" /\ layers[v] # "absent"
        /\ symbol[v] # <<>> => v \in loaded
        /\ Len(symbol[v]) <= Len(asks[v])

Targets ==
    /\ \A v \in Versions : layers[v] = "empty" => bins > 1
    /\ OneVersionRuns

\* The pointer p that Version v has for the function f.
OwnPointer(v, f, p) ==
    IF f \in defines[v] THEN p = <<v, f>> ELSE p \in {<<Host, f>>, NullPtr}

Own ==
    Apart =>
        /\ \A v \in loaded : \A f \in defines[v] : jd[f] = v
        /\ \A f \in Fns : jd[f] = Host => \A v \in Versions : f \notin defines[v]
        /\ \A v \in Versions : \A i \in DOMAIN symbol[v] :
             OwnPointer(v, asks[v][i], symbol[v][i])

IInv == Types /\ Running /\ Loads /\ Targets /\ DefinitionsLoaded /\ Own

-----------------------------------------------------------------------------

LEMMA InitInv == Init => IInv
<1> SUFFICES ASSUME Init PROVE IInv
    OBVIOUS
<1> USE JITAssumption DEF Init
<1>1. Types
      BY DEF Types
<1>2. Running
      BY DEF Running, Idle, Calling
<1>3. Loads /\ Targets
  <2>1. \A v \in Versions : asks[v] \in Seq(Fns)
        OBVIOUS
  <2> QED BY <2>1 DEF Loads, Targets, OneVersionRuns
<1>4. DefinitionsLoaded /\ Own
      BY DEF DefinitionsLoaded, Own
<1> QED BY <1>1, <1>2, <1>3, <1>4 DEF IInv

\* What DefinitionsLoaded and Own say is only of these variables.
LEMMA LoadsUnchanged ==
    ASSUME IInv, UNCHANGED <<asks, defines, symbol, loaded, jd, ready>>
    PROVE  DefinitionsLoaded' /\ Own'
<1>1. DefinitionsLoaded'
      BY DEF IInv, DefinitionsLoaded
<1>2. Own'
      BY DEF IInv, Own, Apart, Names, OwnPointer
<1> QED BY <1>1, <1>2

LEMMA WrittenDisk ==
    ASSUME NEW d \in SUBSET {"IR", "opt"}, NEW file \in {"IR", "opt"},
           NEW w \in Written(d, file)
    PROVE  w.disk \in SUBSET {"IR", "opt"}
<1>1. CASE w = [name |-> file, disk |-> d \cup {file}]
      BY <1>1
<1>2. ASSUME NEW e \in {d, d \ {file}}, w = [name |-> "", disk |-> e]
      PROVE  w.disk \in SUBSET {"IR", "opt"}
      BY <1>2
<1>3. \/ w \in {[name |-> file, disk |-> d \cup {file}]}
      \/ w \in {[name |-> "", disk |-> e] : e \in {d, d \ {file}}}
      BY Zenon DEF Written
<1>4. w \in {[name |-> "", disk |-> e] : e \in {d, d \ {file}}} =>
        \E e \in {d, d \ {file}} : w = [name |-> "", disk |-> e]
      BY Zenon
<1> QED BY <1>1, <1>2, <1>3, <1>4, Zenon

LEMMA PrepareIRKeepsInv ==
    ASSUME IInv, NEW v \in Versions, PrepareIR(v)
    PROVE  IInv'
<1>1. \E e, d \in SUBSET {"IR", "opt"} :
        /\ irs' = [irs EXCEPT ![v] = e]
        /\ disk' = [disk EXCEPT ![v] = d]
  <2>1. PICK g \in Written(disk[v], "IR") :
          IF g.name = ""
          THEN /\ irs' = [irs EXCEPT ![v] = @ \ {"IR"}]
               /\ disk' = [disk EXCEPT ![v] = g.disk]
          ELSE \E o \in Written(g.disk, "opt") :
               /\ irs' = [irs EXCEPT ![v] =
                            IF o.name = "" THEN {"IR"} ELSE {"IR", "opt"}]
               /\ disk' = [disk EXCEPT ![v] = o.disk]
        BY DEF PrepareIR
  <2>2. disk[v] \in SUBSET {"IR", "opt"} /\ irs[v] \in SUBSET {"IR", "opt"}
        BY DEF IInv, Types
  <2>3. g.disk \in SUBSET {"IR", "opt"}
        BY <2>2, WrittenDisk
  <2>4. \A o \in Written(g.disk, "opt") : o.disk \in SUBSET {"IR", "opt"}
        BY <2>3, WrittenDisk
  <2> QED BY <2>1, <2>2, <2>3, <2>4
<1>2. UNCHANGED <<program, alive, bin, pointers, tables, loads, doing, up>>
      BY DEF PrepareIR
<1>3. UNCHANGED <<asks, defines, alive, bin, symbol, handle, modules, layers,
                  bins, trackers, loaded, jd, ready, doing, up>>
      BY <1>2 DEF program, pointers, tables, loads
<1>4. Types'
      BY <1>1, <1>3 DEF IInv, Types
<1>5. Running' /\ Loads' /\ Targets'
      BY <1>3 DEF IInv, Running, Loads, Targets, OneVersionRuns
<1>6. DefinitionsLoaded' /\ Own'
      BY <1>3, LoadsUnchanged
<1> QED BY <1>4, <1>5, <1>6 DEF IInv

LEMMA GenerateBinKeepsInv ==
    ASSUME IInv, NEW v \in Versions, GenerateBin(v)
    PROVE  IInv'
<1> USE JITAssumption
<1>0. v \notin loaded /\ symbol[v] = <<>> /\ v \in alive /\ doing = Idle
      BY DEF IInv, Loads, Call, GenerateBin
<1>1. PICK d \in SUBSET {"IR", "opt"}, parsed \in BOOLEAN :
        /\ disk' = [disk EXCEPT ![v] = d]
        /\ modules' = [modules EXCEPT ![v] = IF parsed THEN "module" ELSE "null"]
        /\ bin' = [bin EXCEPT ![v] = parsed]
        /\ doing' = IF parsed THEN Calling("loadSymbol", v) ELSE Idle
  <2>1. \A s \in Sources(v) : s.disk \in SUBSET {"IR", "opt"}
    <3>1. \A s \in Written({}, "IR") : s.disk \in SUBSET {"IR", "opt"}
          BY WrittenDisk
    <3>2. disk[v] \in SUBSET {"IR", "opt"}
          BY DEF IInv, Types
    <3> QED BY <3>1, <3>2 DEF Sources
  <2> QED BY <2>1 DEF GenerateBin
<1>2. /\ layers' = [layers EXCEPT ![v] = LayerFor(bins)]
      /\ bins' = bins + 1 /\ bins < MaxBins
      /\ trackers' = trackers \cup {v}
      /\ UNCHANGED <<asks, defines, alive, irs, symbol, handle, loaded, jd,
                     ready, up>>
      BY DEF GenerateBin, program, pointers
<1>3. bins \in Nat /\ LayerFor(bins) \in {"empty", "target"}
      /\ (LayerFor(bins) = "empty" => bins > 0)
      BY DEF LayerFor, IInv, Types
<1>4. Types'
  <2>1. /\ disk' \in [Versions -> SUBSET {"IR", "opt"}]
        /\ bin' \in [Versions -> BOOLEAN]
        BY <1>1 DEF IInv, Types
  <2>2. /\ modules' \in [Versions -> {"absent", "null", "module"}]
        /\ layers' \in [Versions -> {"absent", "empty", "target"}]
        BY <1>1, <1>2, <1>3 DEF IInv, Types
  <2>3. bins' \in 0 .. MaxBins
        BY <1>2, <1>3
  <2> QED BY <1>2, <2>1, <2>2, <2>3 DEF IInv, Types
<1>5. Running'
  <2>1. bin'[v] = parsed
        BY <1>1 DEF IInv, Types
  <2> QED BY <1>0, <1>1, <1>2, <2>1 DEF Running, Idle, Calling
<1>6. Loads'
  <2>1. \A w \in Versions : w # v =>
            bin'[w] = bin[w] /\ modules'[w] = modules[w] /\ layers'[w] = layers[w]
        BY <1>1, <1>2 DEF IInv, Types
  <2>2. /\ bin'[v] => modules'[v] = "module"
        /\ layers'[v] # "absent"
        BY <1>1, <1>2, <1>3 DEF IInv, Types
  <2> QED BY <1>0, <1>2, <2>1, <2>2 DEF IInv, Loads
<1>7. Targets'
      BY <1>3, <1>2 DEF IInv, Types, Targets, OneVersionRuns
<1>8. DefinitionsLoaded' /\ Own'
      BY <1>2, LoadsUnchanged
<1> QED BY <1>4, <1>5, <1>6, <1>7, <1>8 DEF IInv

LEMMA CompileAgainKeepsInv ==
    ASSUME IInv, NEW v \in Versions, CompileAgain(v)
    PROVE  IInv'
<1> USE DEF CompileAgain, program, version, pointers, tables, loads
<1>1. Types' /\ Loads' /\ Targets'
      BY DEF IInv, Types, Loads, Targets, OneVersionRuns
<1>2. Running'
      BY DEF IInv, Running, Calling, Call
<1>3. DefinitionsLoaded' /\ Own'
      BY DEF IInv, DefinitionsLoaded, Own, Apart, Names, OwnPointer
<1> QED BY <1>1, <1>2, <1>3 DEF IInv

LEMMA LoadSymbolsKeepsInv ==
    ASSUME IInv, NEW v \in Versions, LoadSymbols(v)
    PROVE  IInv'
<1> USE DEF program, version, tables
<1>0. /\ v \in alive /\ bin[v] /\ symbol[v] = <<>>
      /\ modules[v] = "module" /\ layers[v] # "absent"
      BY DEF LoadSymbols, IInv, Running, Loads
<1>1. /\ handle' = [handle EXCEPT ![v] = TRUE]
      /\ trackers' = trackers \cup {v}
      /\ loaded' = loaded \cup {v}
      /\ doing' = IF asks[v] # <<>> THEN Calling("findSymbol", v) ELSE Idle
      /\ jd' = IF \E f \in defines[v] : jd[f] # NoOne
               THEN jd
               ELSE [f \in Fns |-> IF f \in defines[v] THEN v ELSE jd[f]]
      /\ UNCHANGED <<asks, defines, alive, irs, disk, bin, symbol, modules,
                     layers, bins, ready, up>>
      BY <1>0 DEF LoadSymbols, AddModule
<1> HIDE DEF program, version, tables
<1>2. Types'
      BY <1>1 DEF IInv, Types
<1>3. Running'
  <2>1. asks[v] \in Seq(Fns)
        BY JITAssumption DEF IInv, Types
  <2>2. asks[v] # <<>> => Len(symbol[v]) < Len(asks[v])
        BY <1>0, <2>1
  <2> QED BY <1>0, <1>1, <2>2 DEF Running, Idle, Calling
<1>4. Loads'
      BY <1>0, <1>1 DEF IInv, Types, Loads
<1>5. Targets'
      BY <1>1 DEF IInv, Targets, OneVersionRuns
<1>6. DefinitionsLoaded'
  <2>1. CASE jd' = jd
        BY <1>1, <2>1 DEF IInv, Types, DefinitionsLoaded
  <2>2. CASE /\ \A f \in defines[v] : jd[f] = NoOne
             /\ jd' = [f \in Fns |-> IF f \in defines[v] THEN v ELSE jd[f]]
    <3>1. \A f \in Fns : jd'[f] \in Versions =>
            /\ jd'[f] \in loaded' /\ f \in defines'[jd'[f]]
            /\ \A g \in defines'[jd'[f]] : jd'[g] = jd'[f]
          BY <1>1, <2>2, JITAssumption DEF IInv, Types, DefinitionsLoaded
    <3>2. \A w \in ready' : \E f \in Fns : jd'[f] = w
          BY <1>1, <2>2, JITAssumption DEF IInv, Types, DefinitionsLoaded
    <3> QED BY <3>1, <3>2 DEF DefinitionsLoaded
  <2> QED BY <1>1, <2>1, <2>2
<1>7. Own'
  <2>0. Apart' <=> Apart
    <3>1. asks' = asks /\ defines' = defines
          BY <1>1
    <3> QED BY <3>1 DEF Apart, Names
  <2> SUFFICES ASSUME Apart PROVE Own'
      BY <2>0 DEF Own
  <2>1. \A f \in defines[v] : jd[f] \in {NoOne, v}
        BY DEF IInv, Types, DefinitionsLoaded, Own, Apart, Names
  <2>2. \A f \in defines[v] : f \in Fns
        BY DEF IInv, Types
  <2>3. \A f \in defines[v] : jd'[f] = v
    <3>1. CASE \A f \in defines[v] : jd[f] = NoOne
          BY <1>1, <2>2, <3>1
    <3>2. CASE \E f \in defines[v] : jd[f] # NoOne
          BY <1>1, <2>1, <2>2, <3>2 DEF IInv, DefinitionsLoaded
    <3> QED BY <3>1, <3>2
  <2>4. \A w \in loaded : \A f \in defines[w] : jd'[f] = w
    <3>1. \A w \in loaded : \A f \in defines[w] :
            f \in Fns /\ (w # v => f \notin defines[v]) /\ jd[f] = w
          BY DEF IInv, Types, Own, Apart, Names
    <3> QED BY <1>1, <2>3, <3>1
  <2>5. \A f \in Fns : jd'[f] = Host => \A w \in Versions : f \notin defines'[w]
        BY <1>1, JITAssumption DEF IInv, Types, Own
  <2>6. \A w \in Versions : \A i \in DOMAIN symbol'[w] :
          OwnPointer(w, asks[w][i], symbol[w][i])'
        BY <1>1 DEF IInv, Own, OwnPointer
  <2> QED BY <1>1, <2>3, <2>4, <2>5, <2>6 DEF Own
<1> QED BY <1>2, <1>3, <1>4, <1>5, <1>6, <1>7 DEF IInv

LEMMA FindSymbolKeepsInv ==
    ASSUME IInv, NEW v \in Versions, FindSymbol(v)
    PROVE  IInv'
<1> DEFINE f == asks[v][Len(symbol[v]) + 1]
           d == Resolve(f)
<1>0. /\ v \in alive /\ v \in loaded /\ doing = Calling("findSymbol", v)
      /\ asks[v] \in Seq(Fns) /\ symbol[v] \in Seq(Ptrs)
      /\ Len(symbol[v]) < Len(asks[v])
      BY JITAssumption DEF FindSymbol, IInv, Types, Running
<1>1. f \in Fns
      BY <1>0
<1>2. /\ jd[f] # NoOne => d = jd[f]
      /\ jd[f] = NoOne => d \in {Host, NoOne}
      /\ d \in Versions \cup {Host, NoOne}
      BY <1>1 DEF Resolve, IInv, Types
<1>3. /\ jd' = [jd EXCEPT ![f] = d]
      /\ ready' = IF d \in Versions THEN ready \cup {d} ELSE ready
      /\ symbol' = [symbol EXCEPT ![v] = Append(symbol[v], Found(d, f))]
      /\ doing' = IF Len(symbol[v]) + 1 = Len(asks[v]) THEN Idle ELSE doing
      /\ up' = "crashed" => d \in Versions /\ layers[d] = "empty"
      BY DEF FindSymbol
<1>4. UNCHANGED <<asks, defines, alive, irs, disk, bin, handle, modules, layers,
                  bins, trackers, loaded>>
      BY DEF FindSymbol, program, version, tables
<1> HIDE DEF f, d
<1>5. Found(d, f) \in Ptrs
      BY <1>1, <1>2 DEF Found, Ptrs
<1>6. /\ symbol' \in [Versions -> Seq(Ptrs)]
      /\ symbol'[v] = Append(symbol[v], Found(d, f))
      /\ Len(symbol'[v]) = Len(symbol[v]) + 1
      /\ \A w \in Versions : w # v => symbol'[w] = symbol[w]
      BY <1>0, <1>3, <1>5 DEF IInv, Types
<1>7. /\ jd' \in [Fns -> Versions \cup {Host, NoOne}]
      /\ \A g \in Fns : jd'[g] = IF g = f THEN d ELSE jd[g]
      BY <1>1, <1>2, <1>3 DEF IInv, Types
<1>8. Types'
      BY <1>3, <1>4, <1>6, <1>7 DEF IInv, Types
<1>9. Running'
      BY <1>0, <1>3, <1>4, <1>6 DEF Running, Calling, Idle
<1>10. Loads'
      BY <1>0, <1>4, <1>6 DEF IInv, Loads
<1>11. Targets'
      BY <1>3, <1>4 DEF IInv, Targets, OneVersionRuns
<1>12. DefinitionsLoaded'
  <2>1. NoOne \notin Versions /\ Host \notin Versions
        BY JITAssumption
  <2>2. \A g \in Fns : jd'[g] \in Versions => jd[g] = jd'[g]
        BY <1>2, <1>7, <2>1
  <2>3. \A g \in Fns : jd[g] \in Versions => jd'[g] = jd[g]
        BY <1>2, <1>7, <2>1
  <2>4. \A w \in Versions : defines[w] \subseteq Fns
        BY DEF IInv, Types
  <2>5. \A g \in Fns : jd'[g] \in Versions =>
          /\ jd'[g] \in loaded' /\ g \in defines'[jd'[g]]
          /\ \A h \in defines'[jd'[g]] : jd'[h] = jd'[g]
        BY <1>4, <2>2, <2>3, <2>4 DEF IInv, DefinitionsLoaded
  <2>6. \A w \in ready' : \E g \in Fns : jd'[g] = w
    <3>1. \A w \in ready : \E g \in Fns : jd'[g] = w
      <4>1. \A w \in ready : w \in Versions /\ \E g \in Fns : jd[g] = w
            BY DEF IInv, Types, DefinitionsLoaded
      <4> QED BY <2>3, <4>1
    <3> QED BY <1>1, <1>3, <1>7, <3>1
  <2> QED BY <2>5, <2>6 DEF DefinitionsLoaded
<1>13. Own'
  <2>0. Apart' <=> Apart
        BY <1>4 DEF Apart, Names
  <2> SUFFICES ASSUME Apart PROVE Own'
      BY <2>0 DEF Own
  <2>1. f \in Names(v)
        BY <1>0 DEF Names, f
  <2>2. \A w \in Versions : f \in defines[w] => w = v
        BY <2>1 DEF Apart, Names
  <2>3. f \in defines[v] => jd[f] = v
        BY <1>0 DEF IInv, Own
  <2>4. \A w \in loaded' : \A g \in defines'[w] : jd'[g] = w
    <3>1. \A w \in loaded : \A g \in defines[w] :
            g \in Fns /\ w \in Versions /\ jd[g] = w
          BY DEF IInv, Types, Own
    <3> QED BY <1>2, <1>4, <1>7, <3>1, JITAssumption
  <2>5. \A g \in Fns : jd'[g] = Host => \A w \in Versions : g \notin defines'[w]
    <3>1. \A g \in Fns : jd[g] = Host => \A w \in Versions : g \notin defines[w]
          BY DEF IInv, Own
    <3>2. jd[f] = NoOne => \A w \in Versions : f \notin defines[w]
          BY <2>2, <2>3, JITAssumption
    <3> QED BY <1>1, <1>2, <1>4, <1>7, <3>1, <3>2
  <2>6. OwnPointer(v, f, Found(d, f))
    <3>1. CASE f \in defines[v]
          BY <1>2, <2>3, <3>1, JITAssumption DEF OwnPointer, Found
    <3>2. CASE f \notin defines[v]
      <4>1. d \notin Versions
            BY <1>1, <1>2, <2>2, <3>2, JITAssumption DEF IInv, DefinitionsLoaded
      <4> QED BY <1>2, <3>2, <4>1 DEF OwnPointer, Found
    <3> QED BY <3>1, <3>2
  <2>7. \A w \in Versions : \A i \in DOMAIN symbol'[w] :
          OwnPointer(w, asks[w][i], symbol'[w][i])
    <3>1. \A w \in Versions : \A i \in DOMAIN symbol[w] :
            OwnPointer(w, asks[w][i], symbol[w][i])
          BY DEF IInv, Own
    <3>2. \A i \in DOMAIN symbol'[v] :
            \/ i \in DOMAIN symbol[v] /\ symbol'[v][i] = symbol[v][i]
            \/ i = Len(symbol[v]) + 1 /\ symbol'[v][i] = Found(d, f)
          BY <1>0, <1>5, <1>6
    <3>3. \A i \in DOMAIN symbol'[v] : OwnPointer(v, asks[v][i], symbol'[v][i])
          BY <2>6, <3>1, <3>2 DEF f
    <3> QED BY <1>6, <3>1, <3>3
  <2>8. \A w \in Versions : \A i \in DOMAIN symbol'[w] :
          OwnPointer(w, asks[w][i], symbol[w][i])'
        BY <1>4, <2>7 DEF OwnPointer
  <2> QED BY <2>4, <2>5, <2>8 DEF Own
<1> QED BY <1>8, <1>9, <1>10, <1>11, <1>12, <1>13 DEF IInv

-----------------------------------------------------------------------------
(* The steps that release what a Version has loaded.                       *)

Released(v) ==
    /\ IF handle[v] THEN ReleaseSymbol(v) ELSE UNCHANGED <<handle, loads>>
    /\ symbol' = [symbol EXCEPT ![v] = <<>>]
    /\ UNCHANGED <<asks, defines, bin, modules, layers, bins>>

LEMMA ReleasedFacts ==
    ASSUME IInv, NEW v \in Versions, Released(v)
    PROVE  /\ loaded' = loaded \ {v} /\ ready' = ready \ {v}
           /\ handle' = [handle EXCEPT ![v] = FALSE]
           /\ trackers' \subseteq trackers /\ trackers \ {v} \subseteq trackers'
           /\ jd' = [f \in Fns |-> IF jd[f] = v THEN NoOne ELSE jd[f]]
<1>1. CASE handle[v]
  <2>1. v \in loaded
        BY <1>1 DEF IInv, Loads
  <2> QED BY <1>1, <2>1 DEF Released, ReleaseSymbol
<1>2. CASE ~handle[v]
  <2>1. v \notin loaded
        BY <1>2 DEF IInv, Loads
  <2>2. \A f \in Fns : jd[f] # v
        BY <2>1 DEF IInv, DefinitionsLoaded
  <2>3. v \notin ready
        BY <2>2 DEF IInv, DefinitionsLoaded
  <2>4. handle' = handle /\ trackers' = trackers /\ loaded' = loaded
        /\ jd' = jd /\ ready' = ready
        BY <1>2 DEF Released, loads
  <2>5. handle = [handle EXCEPT ![v] = FALSE]
        BY <1>2 DEF IInv, Types
  <2>6. jd = [f \in Fns |-> IF jd[f] = v THEN NoOne ELSE jd[f]]
        BY <2>2 DEF IInv, Types
  <2> QED BY <2>1, <2>3, <2>4, <2>5, <2>6
<1> QED BY <1>1, <1>2

LEMMA ReleasedKeepsLoads ==
    ASSUME IInv, NEW v \in Versions, Released(v)
    PROVE  DefinitionsLoaded' /\ Own'
<1>1. /\ loaded' = loaded \ {v} /\ ready' = ready \ {v}
      /\ jd' = [f \in Fns |-> IF jd[f] = v THEN NoOne ELSE jd[f]]
      BY ReleasedFacts
<1>2. /\ symbol' = [symbol EXCEPT ![v] = <<>>]
      /\ asks' = asks /\ defines' = defines
      BY DEF Released
<1>3. NoOne \notin Versions /\ Host \notin Versions /\ NoOne # Host
      BY JITAssumption
<1>4. \A f \in Fns : jd'[f] = IF jd[f] = v THEN NoOne ELSE jd[f]
      BY <1>1
<1>5. \A w \in Versions : defines[w] \subseteq Fns
      BY DEF IInv, Types
<1>6. DefinitionsLoaded'
  <2>1. \A f \in Fns : jd'[f] \in Versions =>
          /\ jd'[f] \in loaded' /\ f \in defines'[jd'[f]]
          /\ \A g \in defines'[jd'[f]] : jd'[g] = jd'[f]
        BY <1>1, <1>2, <1>3, <1>4, <1>5 DEF IInv, DefinitionsLoaded
  <2>2. \A w \in ready' : \E f \in Fns : jd'[f] = w
    <3>1. \A w \in ready : \E f \in Fns : jd[f] = w
          BY DEF IInv, DefinitionsLoaded
    <3> QED BY <1>1, <1>4, <3>1
  <2> QED BY <2>1, <2>2 DEF DefinitionsLoaded
<1>7. Own'
  <2>0. Apart' <=> Apart
        BY <1>2 DEF Apart, Names
  <2> SUFFICES ASSUME Apart PROVE Own'
      BY <2>0 DEF Own
  <2>1. \A w \in loaded' : \A f \in defines'[w] : jd'[f] = w
    <3>1. \A w \in loaded : \A f \in defines[w] : f \in Fns /\ jd[f] = w
          BY DEF IInv, Types, Own
    <3> QED BY <1>1, <1>2, <1>4, <3>1
  <2>2. \A f \in Fns : jd'[f] = Host => \A w \in Versions : f \notin defines'[w]
        BY <1>2, <1>3, <1>4 DEF IInv, Own
  <2>3. \A w \in Versions : \A i \in DOMAIN symbol'[w] :
          OwnPointer(w, asks[w][i], symbol[w][i])'
    <3>1. \A w \in Versions : \A i \in DOMAIN symbol[w] :
            OwnPointer(w, asks[w][i], symbol[w][i])
          BY DEF IInv, Own
    <3>2. \A w \in Versions : symbol'[w] = IF w = v THEN <<>> ELSE symbol[w]
          BY <1>2 DEF IInv, Types
    <3> QED BY <1>2, <3>1, <3>2 DEF OwnPointer
  <2> QED BY <2>1, <2>2, <2>3 DEF Own
<1> QED BY <1>6, <1>7

\* What the three callers add: which Versions live, and which call follows.
StillAlive(v) ==
    /\ alive' \subseteq alive /\ alive \ {v} \subseteq alive'
    /\ irs' = irs /\ disk' \in [Versions -> SUBSET {"IR", "opt"}]
    /\ \/ doing' = Idle
       \/ doing' = Calling("loadSymbol", v) /\ bin[v] /\ v \in alive'

LEMMA ReleasedKeepsInv ==
    ASSUME IInv, NEW v \in Versions, Released(v), up' = up,
           StillAlive(v)
    PROVE  IInv'
<1>1. /\ loaded' = loaded \ {v} /\ ready' = ready \ {v}
      /\ handle' = [handle EXCEPT ![v] = FALSE]
      /\ trackers' \subseteq trackers /\ trackers \ {v} \subseteq trackers'
      /\ jd' = [f \in Fns |-> IF jd[f] = v THEN NoOne ELSE jd[f]]
      BY ReleasedFacts
<1>2. /\ symbol' = [symbol EXCEPT ![v] = <<>>]
      /\ UNCHANGED <<asks, defines, bin, modules, layers, bins>>
      BY DEF Released
<1>3. Types'
  <2>1. jd' \in [Fns -> Versions \cup {Host, NoOne}]
        BY <1>1 DEF IInv, Types
  <2>2. symbol' \in [Versions -> Seq(Ptrs)]
        BY <1>2 DEF IInv, Types
  <2>3. handle' \in [Versions -> BOOLEAN]
        BY <1>1 DEF IInv, Types
  <2> QED BY <1>1, <1>2, <2>1, <2>2, <2>3 DEF IInv, Types, StillAlive
<1>4. /\ \A w \in Versions : symbol'[w] = IF w = v THEN <<>> ELSE symbol[w]
      /\ \A w \in Versions : handle'[w] <=> w # v /\ handle[w]
      BY <1>1, <1>2 DEF IInv, Types
<1>5. Running'
      BY <1>2, <1>4 DEF Running, Calling, Idle, StillAlive
<1>6. Loads'
  <2>1. asks[v] \in Seq(Fns)
        BY JITAssumption DEF IInv, Types
  <2> QED BY <1>1, <1>2, <1>4, <2>1 DEF IInv, Loads, StillAlive
<1>7. Targets'
      BY <1>2 DEF IInv, Targets, OneVersionRuns
<1>8. DefinitionsLoaded' /\ Own'
      BY ReleasedKeepsLoads
<1> QED BY <1>3, <1>5, <1>6, <1>7, <1>8 DEF IInv

LEMMA ReleaseStepsKeepInv ==
    ASSUME IInv, NEW v \in Versions, Fold(v) \/ Reload(v) \/ Destroy(v)
    PROVE  IInv'
<1>1. disk \in [Versions -> SUBSET {"IR", "opt"}]
      BY DEF IInv, Types
<1>2. CASE Fold(v)
  <2>1. Released(v)
        BY <1>2 DEF Fold, Released, program, version, tables
  <2>2. doing' = Idle /\ UNCHANGED <<alive, irs, disk, up>>
        BY <1>2 DEF Fold, Call, version
  <2>3. StillAlive(v)
        BY <1>1, <2>2 DEF StillAlive
  <2> QED BY <2>1, <2>2, <2>3, ReleasedKeepsInv
<1>3. CASE Reload(v)
  <2>1. Released(v)
        BY <1>3 DEF Reload, Released, program, version, tables
  <2>2. v \in alive /\ UNCHANGED <<alive, irs, disk, up>>
        BY <1>3 DEF Reload, Call, version
  <2>3. doing' = Idle \/ (doing' = Calling("loadSymbol", v) /\ bin[v])
        BY <1>3 DEF Reload
  <2>4. StillAlive(v)
        BY <1>1, <2>2, <2>3 DEF StillAlive
  <2> QED BY <2>1, <2>2, <2>4, ReleasedKeepsInv
<1>4. CASE Destroy(v)
  <2>1. Released(v)
        BY <1>4 DEF Destroy, Released, program, tables
  <2>2. /\ doing' = Idle /\ alive' = alive \ {v} /\ irs' = irs /\ up' = up
        /\ disk' = [disk EXCEPT ![v] = disk[v] \ irs[v]]
        BY <1>4 DEF Destroy, Call
  <2>3. disk' \in [Versions -> SUBSET {"IR", "opt"}]
        BY <1>1, <2>2
  <2>4. StillAlive(v)
        BY <2>2, <2>3 DEF StillAlive
  <2> QED BY <2>1, <2>2, <2>4, ReleasedKeepsInv
<1> QED BY <1>2, <1>3, <1>4

LEMMA DestroyCompilerKeepsInv ==
    ASSUME IInv, DestroyCompiler
    PROVE  IInv'
<1>1. /\ jd' = [f \in Fns |-> NoOne] /\ ready' = {} /\ up' = "gone"
      /\ UNCHANGED <<asks, defines, alive, irs, disk, bin, symbol, handle,
                     modules, layers, bins, trackers, loaded, doing>>
      BY DEF DestroyCompiler, program, version, pointers, tables
<1>2. loaded = {} /\ \A v \in Versions : symbol[v] = <<>>
      BY DEF DestroyCompiler, IInv, Types, Loads
<1>3. NoOne \notin Versions /\ NoOne # Host
      BY JITAssumption
<1>4. Types'
      BY <1>1 DEF IInv, Types
<1>5. Running' /\ Loads' /\ Targets'
      BY <1>1 DEF IInv, Running, Loads, Targets, OneVersionRuns
<1>6. DefinitionsLoaded'
      BY <1>1, <1>3 DEF DefinitionsLoaded
<1>7. Own'
      BY <1>1, <1>2, <1>3 DEF Own
<1> QED BY <1>4, <1>5, <1>6, <1>7 DEF IInv

LEMMA NextInv == IInv /\ [Next]_vars => IInv'
<1> SUFFICES ASSUME IInv, [Next]_vars PROVE IInv'
    OBVIOUS
<1>1. ASSUME NEW v \in Versions,
             \/ PrepareIR(v) \/ GenerateBin(v) \/ CompileAgain(v)
             \/ LoadSymbols(v) \/ FindSymbol(v)
             \/ Fold(v) \/ Reload(v) \/ Destroy(v)
      PROVE  IInv'
      BY <1>1, PrepareIRKeepsInv, GenerateBinKeepsInv, CompileAgainKeepsInv,
         LoadSymbolsKeepsInv, FindSymbolKeepsInv, ReleaseStepsKeepInv
<1>2. CASE DestroyCompiler
      BY <1>2, DestroyCompilerKeepsInv
<1>3. CASE UNCHANGED vars
  <2>1. UNCHANGED <<asks, defines, alive, irs, disk, bin, symbol, handle, modules,
                    layers, bins, trackers, loaded, jd, ready, doing, up>>
        BY <1>3 DEF vars, program, version, pointers, tables, loads
  <2>2. Types' /\ Running' /\ Loads' /\ Targets'
        BY <2>1 DEF IInv, Types, Running, Loads, Targets, OneVersionRuns
  <2>3. DefinitionsLoaded' /\ Own'
        BY <2>1, LoadsUnchanged
  <2> QED BY <2>2, <2>3 DEF IInv
<1> QED BY <1>1, <1>2, <1>3 DEF Next

\* The inductive invariant holds of every behaviour.
THEOREM Invariance == Spec => []IInv
<1> QED BY InitInv, NextInv, PTL DEF Spec

-----------------------------------------------------------------------------

\* Every value of the compiler's tables and of the pointers has its type, and
\* no Version has more pointers than it asked for.
THEOREM TypeCorrect == Spec => []TypeOK
<1>1. IInv => TypeOK
  <2> SUFFICES ASSUME IInv PROVE TypeOK
      OBVIOUS
  <2>1. \A v \in Versions : \A i \in DOMAIN symbol[v] : symbol[v][i] \in Ptrs
        BY DEF IInv, Types
  <2> QED BY <2>1 DEF TypeOK, IInv, Types, Loads, Ptrs
<1> QED BY <1>1, Invariance, PTL

\* _isloaded_map, _resource_tracker_map, _modules_map and the handles of the
\* Versions agree, however compile, fold, reload and the destructor follow one
\* another, so that nothing null is cloned or removed.
THEOREM TablesStayInStep == Spec => []TablesAgree
<1>1. IInv => TablesAgree
      BY DEF IInv, Loads, TablesAgree
<1> QED BY <1>1, Invariance, PTL

\* What the JITDylib defines belongs to loaded Versions, whole modules at a time.
THEOREM DefinitionsReleased == Spec => []DefinitionsLoaded
<1>1. IInv => DefinitionsLoaded
      BY DEF IInv
<1> QED BY <1>1, Invariance, PTL

\* The missing target of the second layer is the only way a call ends the
\* process.
THEOREM FirstVersionRuns == Spec => []OneVersionRuns
<1>1. IInv => OneVersionRuns
      BY DEF IInv, Targets
<1> QED BY <1>1, Invariance, PTL

\* With any number of Versions over one compiler: as long as their names are
\* apart, each runs its own code, and that code is there.
THEOREM OwnCodeOfEach == Spec => []OwnCodeWhenApart
<1>1. IInv => OwnCodeWhenApart
  <2> SUFFICES ASSUME IInv, Apart, NEW v \in alive, NEW i \in DOMAIN symbol[v]
               PROVE  IF asks[v][i] \in defines[v]
                      THEN symbol[v][i] = <<v, asks[v][i]>> /\ jd[asks[v][i]] = v
                      ELSE symbol[v][i] \in {<<Host, asks[v][i]>>, NullPtr}
      BY DEF OwnCodeWhenApart
  <2>1. v \in Versions /\ symbol[v] \in Seq(Ptrs)
        BY DEF IInv, Types
  <2>2. v \in loaded
        BY <2>1 DEF IInv, Loads
  <2>3. OwnPointer(v, asks[v][i], symbol[v][i])
        BY <2>1 DEF IInv, Own
  <2>4. asks[v][i] \in defines[v] => jd[asks[v][i]] = v
        BY <2>2 DEF IInv, Own
  <2> QED BY <2>3, <2>4 DEF OwnPointer
<1> QED BY <1>1, Invariance, PTL
=============================================================================
