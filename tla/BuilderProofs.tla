--------------------------- MODULE BuilderProofs ---------------------------
(***************************************************************************)
(* Proofs about Builder, for any number of builders, Versions and calls.   *)
(*                                                                         *)
(* The safety properties of Builder speak of Versions; what makes them     *)
(* inductive is the same said of every builder that lives, whose fields    *)
(* the next Version copies.                                                *)
(***************************************************************************)
EXTENDS BuilderReference, SelectionProofs

FieldNames ==
    {"compiler", "names", "src", "tags", "options", "genIR", "opt", "flags",
     "auto"}

Args ==
    Words \cup (Words \X Words) \cup OptionLists \cup OptionTags \cup FnNames
        \cup {None}

Calls ==
    {"addSourceFile", "addTag", "setCompiler", "addIncludeDir", "addLinkingDir",
     "options", "genIRoptions", "optOptions", "removeOption",
     "removeOptOption", "removeGenIROption", "addFunctionFlag",
     "addFunctionName"}

Requests == [call : Calls, arg : Args, ret : Nat \cup {None}]

\* The fields a builder or a Version may have that started with the fields
\* start, after the calls h and what was said about the removal of files.
GoodFields(c, start, h, given) ==
    /\ DOMAIN c = FieldNames
    /\ given \in Removals
    /\ c.names \in Seq(FnNames)
    /\ c.auto \in BOOLEAN
    /\ given # "unset" => Said(c.auto) = given
    /\ IndexesName(h, c.names)
    /\ start.names \in Seq(FnNames)
    /\ Continues(c.names, start.names)

Shapes ==
    /\ DOMAIN conf = Builders /\ kept \in [Builders -> Versions \cup {None}]
    /\ DOMAIN asked = Builders /\ DOMAIN base = Builders
    /\ DOMAIN removal = Builders /\ DOMAIN built \subseteq Versions
    /\ live \subseteq Builders
    /\ calls \in 0 .. MaxCalls

GoodBuilders ==
    \A b \in Builders :
        /\ asked[b] \in Seq(Requests)
        /\ GoodFields(conf[b], base[b], asked[b], removal[b])

GoodVersions ==
    \A v \in Versions : Exists(v) =>
        /\ built[v].asked \in Seq(Requests)
        /\ GoodFields(built[v].fields, built[v].base, built[v].asked,
                      built[v].removal)

\* _version_ptr points to a Version of the builder as it is configured.
GoodPointers ==
    /\ held \subseteq {v \in Versions : Exists(v)}
    /\ \A b \in Builders :
         /\ kept[b] \in Versions \cup {None}
         /\ kept[b] # None =>
              /\ Live(b) /\ Exists(kept[b])
              /\ built[kept[b]].base = base[b]
              /\ Continues(asked[b], built[kept[b]].asked)

IInv == Shapes /\ GoodBuilders /\ GoodVersions /\ GoodPointers

-----------------------------------------------------------------------------

LEMMA NoneApart ==
    /\ None \notin Versions /\ None \notin FnNames
    /\ None \notin Words /\ None \notin Nat
BY BuilderAssumption

LEMMA ClearedGood ==
    GoodFields(Cleared, Cleared, <<>>, "remove")
BY DEF GoodFields, Cleared, FieldNames, IndexesName, Continues, Said, Removals

\* One more call that leaves the names alone keeps the indexes.
LEMMA OtherCallKeepsIndexes ==
    ASSUME NEW h \in Seq(Requests), NEW r \in Requests,
           NEW names \in Seq(FnNames), IndexesName(h, names),
           r.call = "addFunctionName" => r.ret = None
    PROVE  IndexesName(Append(h, r), names)
<1>1. ASSUME NEW j \in DOMAIN Append(h, r),
             Append(h, r)[j].call = "addFunctionName",
             Append(h, r)[j].ret # None
      PROVE  j \in DOMAIN h /\ Append(h, r)[j] = h[j]
      BY <1>1
<1> QED BY <1>1 DEF IndexesName

\* addFunctionName's own index is right, and the earlier ones stay right.
LEMMA NameKeepsIndexes ==
    ASSUME NEW h \in Seq(Requests), NEW n \in FnNames, NEW call \in Calls,
           NEW names \in Seq(FnNames), IndexesName(h, names)
    PROVE  IndexesName(Append(h, [call |-> call, arg |-> n, ret |-> Len(names)]),
                       Append(names, n))
<1> DEFINE r == [call |-> call, arg |-> n, ret |-> Len(names)]
<1> SUFFICES ASSUME NEW j \in DOMAIN Append(h, r),
                    Append(h, r)[j].call = "addFunctionName",
                    Append(h, r)[j].ret # None
             PROVE  /\ Append(h, r)[j].ret + 1 \in DOMAIN Append(names, n)
                    /\ Append(names, n)[Append(h, r)[j].ret + 1]
                         = Append(h, r)[j].arg
      BY DEF IndexesName
<1>1. r \in Requests
      BY DEF Requests, Args, Calls
<1>2. CASE j = Len(h) + 1
      BY <1>2
<1>3. CASE j \in DOMAIN h
  <2>1. Append(h, r)[j] = h[j]
        BY <1>1, <1>3
  <2>4. h[j] \in Requests
        BY <1>3
  <2>2. h[j].ret \in Nat
        BY <2>4, <2>1 DEF Requests
  <2>3. h[j].ret + 1 \in DOMAIN names /\ names[h[j].ret + 1] = h[j].arg
        BY <1>3, <2>1 DEF IndexesName
  <2> QED BY <2>1, <2>2, <2>3
<1> QED BY <1>1, <1>2, <1>3

LEMMA OneMoreContinues ==
    ASSUME NEW S, NEW t \in Seq(S), NEW s \in Seq(S), NEW r \in S,
           Continues(t, s)
    PROVE  Continues(Append(t, r), s)
BY DEF Continues

LEMMA Continued ==
    ASSUME NEW S, NEW s \in Seq(S)
    PROVE  Continues(s, s)
BY DEF Continues

-----------------------------------------------------------------------------
\* The three ways a step changes a builder or makes a Version.

LEMMA StartKeepsInv ==
    ASSUME IInv, NEW b \in Builders, NEW fields, NEW given \in Removals,
           GoodFields(fields, fields, <<>>, given), Start(b, fields, given), Keep(b, None)
    PROVE  IInv'
<1> USE DEF Start, Keep, versionVars
<1>1. Shapes'
      BY DEF IInv, Shapes
<1>2. GoodBuilders'
  <2> SUFFICES ASSUME NEW c \in Builders
               PROVE  /\ asked'[c] \in Seq(Requests)
                      /\ GoodFields(conf'[c], base'[c], asked'[c], removal'[c])
        BY DEF GoodBuilders
  <2>1. CASE c = b
        BY <2>1 DEF IInv, Shapes
  <2>2. CASE c # b
        BY <2>2 DEF IInv, Shapes, GoodBuilders
  <2> QED BY <2>1, <2>2
<1>3. GoodVersions'
      BY DEF IInv, GoodVersions, Exists
<1>4. GoodPointers'
      BY NoneApart DEF IInv, Shapes, GoodPointers, Live, Exists
<1> QED BY <1>1, <1>2, <1>3, <1>4 DEF IInv

LEMMA AskKeepsInv ==
    ASSUME IInv, NEW b \in Builders, NEW call \in Calls, NEW arg \in Args,
           NEW ret \in Nat \cup {None}, NEW fields,
           Ask(b, call, arg, ret, fields),
           DOMAIN fields = FieldNames, fields.auto = conf[b].auto,
           fields.names \in Seq(FnNames), Continues(fields.names, base[b].names),
           IndexesName(Append(asked[b], [call |-> call, arg |-> arg, ret |-> ret]),
                       fields.names)
    PROVE  IInv'
<1> DEFINE r == [call |-> call, arg |-> arg, ret |-> ret]
<1> USE DEF Ask, versionVars
<1>1. r \in Requests
      BY DEF Requests
<1>2. Shapes'
      BY BuilderAssumption DEF IInv, Shapes
<1>3. GoodBuilders'
  <2> SUFFICES ASSUME NEW c \in Builders
               PROVE  /\ asked'[c] \in Seq(Requests)
                      /\ GoodFields(conf'[c], base'[c], asked'[c], removal'[c])
        BY DEF GoodBuilders
  <2>1. CASE c = b
    <3>1. asked'[b] = Append(asked[b], r) /\ conf'[b] = fields /\ removal' = removal
          BY DEF IInv, Shapes
    <3>2. GoodFields(conf[b], base[b], asked[b], removal[b]) /\ asked[b] \in Seq(Requests)
          BY DEF IInv, GoodBuilders
    <3>3. GoodFields(fields, base[b], Append(asked[b], r), removal[b])
          BY <3>2 DEF GoodFields
    <3> QED BY <2>1, <3>1, <3>2, <3>3, <1>1
  <2>2. CASE c # b
        BY <2>2 DEF IInv, Shapes, GoodBuilders
  <2> QED BY <2>1, <2>2
<1>4. GoodVersions'
      BY DEF IInv, GoodVersions, Exists
<1>5. GoodPointers'
  <2> SUFFICES ASSUME NEW c \in Builders, kept[c] # None
               PROVE  Continues(asked'[c], built[kept[c]].asked)
        BY DEF IInv, Shapes, GoodPointers, Live, Exists
  <2>1. /\ Continues(asked[c], built[kept[c]].asked)
        /\ built[kept[c]].asked \in Seq(Requests)
        /\ asked[c] \in Seq(Requests)
        BY DEF IInv, Shapes, GoodPointers, GoodVersions, GoodBuilders, Exists
  <2>2. CASE c = b
    <3>1. asked'[c] = Append(asked[c], r)
          BY <2>2 DEF IInv, Shapes
    <3> QED BY <3>1, <2>1, <1>1, OneMoreContinues
  <2>3. CASE c # b
        BY <2>1, <2>3 DEF IInv, Shapes
  <2> QED BY <2>2, <2>3
<1> QED BY <1>2, <1>3, <1>4, <1>5 DEF IInv

\* The flags are put in front of option lists, nothing else changes.
LEMMA FlagsKeepFields ==
    ASSUME NEW c, NEW start, NEW h \in Seq(Requests), NEW given \in Removals,
           GoodFields(c, start, h, given)
    PROVE  GoodFields(WithFlags(c), start, h, given)
<1>1. /\ DOMAIN WithFlags(c) = FieldNames
      /\ WithFlags(c).names = c.names /\ WithFlags(c).auto = c.auto
      BY DEF WithFlags, GoodFields, FieldNames
<1> QED BY <1>1 DEF GoodFields

\* Nobody keeps the new Version, or the builder it was built from does.
KeptBy(v, start, h) ==
    \/ kept' = kept
    \/ \E b \in live : /\ kept' = [kept EXCEPT ![b] = v]
                     /\ start = base[b] /\ h = asked[b]

LEMMA NewVersionKeepsInv ==
    ASSUME IInv, NEW v \in Versions, NEW fields, NEW given \in Removals, NEW start,
           NEW h \in Seq(Requests), GoodFields(fields, start, h, given),
           NewVersion(v, fields, given, start, h),
           UNCHANGED <<live, conf, base, asked, removal, calls>>,
           KeptBy(v, start, h)
    PROVE  IInv'
<1> USE DEF NewVersion, Exists, KeptBy
<1>1. Shapes'
      BY DEF IInv, Shapes
<1>2. GoodBuilders'
      BY DEF IInv, GoodBuilders
<1>3. GoodVersions'
  <2> SUFFICES ASSUME NEW w \in Versions, w \in DOMAIN built'
               PROVE  /\ built'[w].asked \in Seq(Requests)
                      /\ GoodFields(built'[w].fields, built'[w].base,
                                    built'[w].asked, built'[w].removal)
        BY DEF GoodVersions
  <2>1. CASE w = v
        BY <2>1, FlagsKeepFields
  <2>2. CASE w # v
        BY <2>2 DEF IInv, GoodVersions
  <2> QED BY <2>1, <2>2
<1>4. ASSUME NEW b \in Builders, kept'[b] # None
      PROVE  /\ b \in live' /\ kept'[b] \in DOMAIN built'
             /\ built'[kept'[b]].base = base'[b]
             /\ Continues(asked'[b], built'[kept'[b]].asked)
  <2>1. CASE kept'[b] = kept[b] /\ kept[b] # v
        BY <2>1, <1>4 DEF IInv, Shapes, GoodPointers, Live
  <2>2. CASE kept'[b] = kept[b] /\ kept[b] = v
        BY <2>2, <1>4 DEF IInv, Shapes, GoodPointers, Live
  <2>3. CASE kept'[b] # kept[b]
    <3>1. b \in live /\ kept'[b] = v /\ start = base[b] /\ h = asked[b]
          BY <2>3 DEF IInv, Shapes
    <3>2. built'[v].base = start /\ built'[v].asked = h
          OBVIOUS
    <3> QED BY <3>1, <3>2, Continued
  <2> QED BY <2>1, <2>2, <2>3
<1>5. GoodPointers'
      BY <1>4 DEF IInv, Shapes, GoodPointers, Live
<1> QED BY <1>1, <1>2, <1>3, <1>5 DEF IInv

\* d has the fields, the names and the flag of c.
Same(c, d) ==
    DOMAIN d = FieldNames /\ d.names = c.names /\ d.auto = c.auto

LEMMA OtherFields ==
    ASSUME NEW c, DOMAIN c = FieldNames, NEW x, NEW y
    PROVE  /\ Same(c, c)
           /\ Same(c, [c EXCEPT !.compiler = x])
           /\ Same(c, [c EXCEPT !.src = x])
           /\ Same(c, [c EXCEPT !.tags = x])
           /\ Same(c, [c EXCEPT !.options = x])
           /\ Same(c, [c EXCEPT !.genIR = x])
           /\ Same(c, [c EXCEPT !.opt = x])
           /\ Same(c, [c EXCEPT !.flags = x])
           /\ Same(c, [c EXCEPT !.genIR = x, !.options = y])
BY DEF Same, FieldNames

\* A configuring call that sets other fields than the names and the flag.
LEMMA OtherCallKeepsInv ==
    ASSUME IInv, NEW b \in Builders, NEW call \in Calls, NEW arg \in Args,
           NEW fields, Ask(b, call, arg, None, fields),
           Same(conf[b], fields)
    PROVE  IInv'
<1> DEFINE r == [call |-> call, arg |-> arg, ret |-> None]
<1>1. GoodFields(conf[b], base[b], asked[b], removal[b]) /\ asked[b] \in Seq(Requests)
      BY DEF IInv, GoodBuilders
<1>2. r \in Requests
      BY DEF Requests
<1>3. /\ conf[b].names \in Seq(FnNames) /\ IndexesName(asked[b], conf[b].names)
      /\ Continues(conf[b].names, base[b].names)
      BY <1>1 DEF GoodFields
<1>4. IndexesName(Append(asked[b], r), conf[b].names)
      BY <1>1, <1>2, <1>3, OtherCallKeepsIndexes
<1> QED BY <1>1, <1>3, <1>4, AskKeepsInv DEF Same

LEMMA AddFunctionNameKeepsInv ==
    ASSUME IInv, NEW b \in Builders, NEW n \in FnNames \cup {None},
           AddFunctionName(b, n)
    PROVE  IInv'
<1>1. CASE n = None
      BY <1>1, OtherCallKeepsInv, OtherFields
      DEF AddFunctionName, Args, Calls, IInv, GoodBuilders, GoodFields
<1>2. CASE n # None
  <2> DEFINE fields == [conf[b] EXCEPT !.names = Append(@, n)]
  <2> DEFINE r == [call |-> "addFunctionName", arg |-> n, ret |-> Len(conf[b].names)]
  <2>1. n \in FnNames
        BY <1>2
  <2>2. Ask(b, "addFunctionName", n, Len(conf[b].names), fields)
        BY <1>2 DEF AddFunctionName
  <2>3. GoodFields(conf[b], base[b], asked[b], removal[b]) /\ asked[b] \in Seq(Requests)
        BY <2>2 DEF Ask, IInv, GoodBuilders, Live
  <2>4. /\ DOMAIN fields = FieldNames /\ fields.auto = conf[b].auto
        /\ fields.names = Append(conf[b].names, n)
        BY <2>3 DEF GoodFields, FieldNames
  <2>5. /\ conf[b].names \in Seq(FnNames) /\ IndexesName(asked[b], conf[b].names)
        /\ base[b].names \in Seq(FnNames) /\ Continues(conf[b].names, base[b].names)
        BY <2>3 DEF GoodFields
  <2>6. IndexesName(Append(asked[b], r), fields.names)
    <3>1. IndexesName(Append(asked[b], r), Append(conf[b].names, n))
          BY <2>1, <2>3, <2>5, NameKeepsIndexes DEF Calls
    <3> HIDE DEF fields
    <3> QED BY <3>1, <2>4
  <2>7. fields.names \in Seq(FnNames) /\ Len(conf[b].names) \in Nat
        BY <2>1, <2>4, <2>5
  <2>8. Continues(fields.names, base[b].names)
    <3>1. Continues(Append(conf[b].names, n), base[b].names)
          BY <2>1, <2>5, OneMoreContinues
    <3> HIDE DEF fields
    <3> QED BY <3>1, <2>4
  <2> HIDE DEF fields
  <2> QED BY <2>1, <2>2, <2>4, <2>6, <2>7, <2>8, AskKeepsInv DEF Args, Calls
<1> QED BY <1>1, <1>2

\* The flag is as the program says, and nothing else changes.
LEMMA SetAutoremoveKeepsInv ==
    ASSUME IInv, NEW b \in Builders, NEW enable \in BOOLEAN,
           SetAutoremove(b, enable)
    PROVE  IInv'
<1> USE DEF SetAutoremove, versionVars
<1>1. Shapes'
      BY BuilderAssumption DEF IInv, Shapes
<1>2. ASSUME NEW c \in Builders
      PROVE  /\ asked'[c] \in Seq(Requests)
             /\ GoodFields(conf'[c], base'[c], asked'[c], removal'[c])
  <2>1. /\ asked'[c] \in Seq(Requests)
        /\ GoodFields(conf[c], base[c], asked[c], removal[c])
        BY DEF IInv, GoodBuilders
  <2>2. CASE c = b
    <3>1. DOMAIN conf[b] = FieldNames
          BY <2>1, <2>2 DEF GoodFields
    <3>2. /\ conf'[b] = [conf[b] EXCEPT !.auto = enable]
          /\ removal'[b] = Said(enable) /\ base' = base /\ asked' = asked
          BY DEF IInv, Shapes
    <3>3. /\ DOMAIN conf'[b] = FieldNames /\ conf'[b].names = conf[b].names
          /\ conf'[b].auto = enable
          BY <3>1, <3>2 DEF FieldNames
    <3>4. Said(enable) \in Removals
          BY DEF Said, Removals
    <3> QED BY <2>1, <2>2, <3>2, <3>3, <3>4 DEF GoodFields
  <2>3. CASE c # b
        BY <2>1, <2>3 DEF IInv, Shapes
  <2> QED BY <2>2, <2>3
<1>3. GoodVersions' /\ GoodPointers'
      BY DEF IInv, GoodVersions, GoodPointers, Exists, Live
<1> QED BY <1>1, <1>2, <1>3 DEF IInv, GoodBuilders

LEMMA ConfigureKeepsInv ==
    ASSUME IInv, NEW b \in Builders, Configure(b)
    PROVE  IInv'
<1>0. DOMAIN conf[b] = FieldNames
      BY DEF IInv, GoodBuilders, GoodFields
<1>1. ASSUME NEW w \in Words, AddSourceFile(b, w)
      PROVE  IInv'
  <2>1. Same(conf[b], [conf[b] EXCEPT !.src = Append(@, w)])
        BY <1>0, OtherFields
  <2> QED BY <1>1, <2>1, OtherCallKeepsInv DEF AddSourceFile, Args, Calls
<1>2. ASSUME NEW w \in Words, AddTag(b, w)
      PROVE  IInv'
  <2>1. Same(conf[b], [conf[b] EXCEPT !.tags = Append(@, w)])
        BY <1>0, OtherFields
  <2> QED BY <1>2, <2>1, OtherCallKeepsInv DEF AddTag, Args, Calls
<1>3. ASSUME NEW w \in Words, SetCompiler(b, w)
      PROVE  IInv'
  <2>1. Same(conf[b], [conf[b] EXCEPT !.compiler = w])
        BY <1>0, OtherFields
  <2> QED BY <1>3, <2>1, OtherCallKeepsInv DEF SetCompiler, Args, Calls
<1>4. ASSUME NEW w \in Words, AddIncludeDir(b, w)
      PROVE  IInv'
  <2>1. Same(conf[b], [conf[b] EXCEPT !.genIR = Append(@, IncludeDir(w)),
                                 !.options = Append(@, IncludeDir(w))])
        BY <1>0, OtherFields
  <2> QED BY <1>4, <2>1, OtherCallKeepsInv DEF AddIncludeDir, Args, Calls
<1>5. ASSUME NEW w \in Words, AddLinkingDir(b, w)
      PROVE  IInv'
  <2>1. Same(conf[b], [conf[b] EXCEPT !.options = Append(@, LinkDir(w))])
        BY <1>0, OtherFields
  <2> QED BY <1>5, <2>1, OtherCallKeepsInv DEF AddLinkingDir, Args, Calls
<1>6. ASSUME NEW l \in OptionLists, SetOptions(b, l)
      PROVE  IInv'
  <2>1. Same(conf[b], [conf[b] EXCEPT !.options = l])
        BY <1>0, OtherFields
  <2> QED BY <1>6, <2>1, OtherCallKeepsInv DEF SetOptions, Args, Calls
<1>7. ASSUME NEW l \in OptionLists, SetGenIROptions(b, l)
      PROVE  IInv'
  <2>1. Same(conf[b], [conf[b] EXCEPT !.genIR = l])
        BY <1>0, OtherFields
  <2> QED BY <1>7, <2>1, OtherCallKeepsInv DEF SetGenIROptions, Args, Calls
<1>8. ASSUME NEW l \in OptionLists, SetOptOptions(b, l)
      PROVE  IInv'
  <2>1. Same(conf[b], [conf[b] EXCEPT !.opt = l])
        BY <1>0, OtherFields
  <2> QED BY <1>8, <2>1, OtherCallKeepsInv DEF SetOptOptions, Args, Calls
<1>9. ASSUME NEW tag \in OptionTags, RemoveOption(b, tag)
      PROVE  IInv'
  <2>1. Same(conf[b], [conf[b] EXCEPT !.options = Without(@, tag)])
        BY <1>0, OtherFields
  <2> QED BY <1>9, <2>1, OtherCallKeepsInv DEF RemoveOption, Args, Calls
<1>10. ASSUME NEW tag \in OptionTags, RemoveGenIROption(b, tag)
      PROVE  IInv'
  <2>1. Same(conf[b], [conf[b] EXCEPT !.genIR = Without(@, tag)])
        BY <1>0, OtherFields
  <2> QED BY <1>10, <2>1, OtherCallKeepsInv DEF RemoveGenIROption, Args, Calls
<1>11. ASSUME NEW tag \in OptionTags, RemoveOptOption(b, tag)
      PROVE  IInv'
  <2>1. Same(conf[b], [conf[b] EXCEPT !.opt = Without(@, tag)])
        BY <1>0, OtherFields
  <2> QED BY <1>11, <2>1, OtherCallKeepsInv DEF RemoveOptOption, Args, Calls
<1>12. ASSUME NEW flag \in Words \cup (Words \X Words) \cup {None},
              AddFunctionFlag(b, flag)
      PROVE  IInv'
  <2>1. /\ Same(conf[b], conf[b])
        /\ Same(conf[b], [conf[b] EXCEPT !.flags = <<flag>> \o @])
        BY <1>0, OtherFields
  <2> QED BY <1>12, <2>1, OtherCallKeepsInv DEF AddFunctionFlag, Args, Calls
<1>13. ASSUME NEW w \in Words, AddDefine(b, w, w)
      PROVE  IInv'
      BY <1>12, <1>13 DEF AddDefine
<1>14. ASSUME NEW n \in FnNames \cup {None}, AddFunctionName(b, n)
      PROVE  IInv'
      BY <1>14, AddFunctionNameKeepsInv
<1>15. ASSUME NEW enable \in BOOLEAN, SetAutoremove(b, enable)
      PROVE  IInv'
      BY <1>15, SetAutoremoveKeepsInv
<1> QED BY <1>15, <1>1, <1>2, <1>3, <1>4, <1>5, <1>6, <1>7, <1>8, <1>9, <1>10, <1>11, <1>12, <1>13, <1>14
        DEF Configure

-----------------------------------------------------------------------------

LEMMA InitInv == Init => IInv
<1> SUFFICES ASSUME Init PROVE IInv
    OBVIOUS
<1>1. Shapes /\ GoodVersions
      BY BuilderAssumption DEF Init, Shapes, GoodVersions, Exists
<1>2. GoodBuilders /\ GoodPointers
  <2>1. GoodPointers
        BY NoneApart DEF Init, GoodPointers, Live, Exists
  <2>2. GoodFields(Cleared, Cleared, <<>>, "remove")
        BY ClearedGood
  <2>3. GoodBuilders
        BY <2>2 DEF Init, GoodBuilders
  <2> QED BY <2>1, <2>3
<1> QED BY <1>1, <1>2 DEF IInv

LEMMA NextInv == IInv /\ [Next]_vars => IInv'
<1> SUFFICES ASSUME IInv, [Next]_vars PROVE IInv'
    OBVIOUS
<1> "remove" \in Removals /\ "unset" \in Removals
    BY DEF Removals
<1>1. ASSUME NEW b \in Builders,
             ConstructDefault(b) \/ ConstructMandatory(b) \/ Reset(b)
      PROVE  IInv'
  <2>1. CASE ConstructDefault(b) \/ ConstructMandatory(b)
    <3>1. ~Live(b) => kept[b] = None
          BY DEF IInv, GoodPointers
    <3>2. Keep(b, None)
      <4>1. kept[b] = None /\ UNCHANGED <<kept, versionVars>>
            BY <2>1, <3>1 DEF ConstructDefault, ConstructMandatory
      <4> QED BY <4>1 DEF Keep, versionVars, IInv, Shapes
    <3>3. CASE ConstructDefault(b)
          BY <3>2, <3>3, ClearedGood, StartKeepsInv DEF ConstructDefault
    <3>4. CASE ConstructMandatory(b)
      <4> PICK s \in Words, c \in Words, n \in FnNames, memory \in BOOLEAN :
              Start(b, [Cleared EXCEPT !.src = <<s>>, !.names = <<n>>,
                                       !.compiler = c, !.auto = memory], "unset")
          BY <3>4 DEF ConstructMandatory
      <4> DEFINE fields == [Cleared EXCEPT !.src = <<s>>, !.names = <<n>>,
                                           !.compiler = c, !.auto = memory]
      <4>1. GoodFields(fields, fields, <<>>, "unset")
            BY DEF GoodFields, FieldNames, Cleared, IndexesName, Continues, Removals
      <4> HIDE DEF fields
      <4> QED BY <3>2, <4>1, StartKeepsInv DEF fields
    <3> QED BY <2>1, <3>3, <3>4
  <2>2. CASE Reset(b)
        BY <2>2, ClearedGood, StartKeepsInv DEF Reset
  <2> QED BY <1>1, <2>1, <2>2
<1>2. ASSUME NEW b \in Builders, NEW v \in Versions, ConstructFrom(b, v)
      PROVE  IInv'
  <2>1. GoodFields(built[v].fields, built[v].base, built[v].asked,
                      built[v].removal)
        BY <1>2 DEF ConstructFrom, IInv, GoodVersions
  <2>2. GoodFields(Cloned(v), Cloned(v), <<>>, built[v].removal)
        BY <2>1, Continued DEF Cloned, GoodFields, FieldNames, IndexesName
  <2>3. built[v].removal \in Removals
        BY <2>1 DEF GoodFields
  <2> QED BY <1>2, <2>2, <2>3, StartKeepsInv DEF ConstructFrom
<1>3. ASSUME NEW b \in Builders, Destroy(b)
      PROVE  IInv'
  <2>1. Shapes' /\ GoodVersions'
        BY <1>3 DEF IInv, Shapes, GoodVersions, Exists, Destroy, Keep
  <2>2. GoodBuilders'
    <3>1. GoodFields(Cleared, Cleared, <<>>, "remove")
          BY ClearedGood
    <3>2. ASSUME NEW c \in Builders
          PROVE  /\ asked'[c] \in Seq(Requests)
                 /\ GoodFields(conf'[c], base'[c], asked'[c], removal'[c])
          BY <1>3, <3>1 DEF IInv, Shapes, GoodBuilders, Destroy
    <3> QED BY <3>2 DEF GoodBuilders
  <2>3. GoodPointers'
        BY <1>3, NoneApart DEF IInv, Shapes, GoodPointers, Live, Exists, Destroy, Keep
  <2> QED BY <2>1, <2>2, <2>3 DEF IInv
<1>4. ASSUME NEW b \in Builders, NEW v \in Versions, Build(b, v)
      PROVE  IInv'
  <2>1. GoodFields(conf[b], base[b], asked[b], removal[b]) /\ asked[b] \in Seq(Requests)
        BY <1>4 DEF Build, IInv, GoodBuilders, Live
  <2>2. removal[b] \in Removals
        BY <2>1 DEF GoodFields
  <2>3. KeptBy(v, base[b], asked[b])
        BY <1>4 DEF Build, Live, KeptBy
  <2>4. /\ NewVersion(v, conf[b], removal[b], base[b], asked[b])
        /\ UNCHANGED <<live, conf, base, asked, removal, calls>>
        BY <1>4 DEF Build
  <2> QED BY <2>1, <2>2, <2>3, <2>4, NewVersionKeepsInv
<1>5. ASSUME NEW v \in Versions, CreateVersion(v)
      PROVE  IInv'
  <2>1. ASSUME NEW s \in Words, NEW c \in Words \cup {None}, NEW n \in FnNames,
               NEW l \in OptionLists
        PROVE  LET fields == [Cleared EXCEPT !.src = <<s>>, !.names = <<n>>,
                                             !.compiler = c, !.options = l]
               IN  GoodFields(fields, fields, <<>>, "remove")
        BY DEF GoodFields, FieldNames, Cleared, IndexesName, Continues, Removals,
               Said
  <2>2. PICK fields : /\ NewVersion(v, fields, "remove", fields, <<>>)
                      /\ GoodFields(fields, fields, <<>>, "remove")
        BY <1>5, <2>1 DEF CreateVersion
  <2>3. /\ UNCHANGED <<live, conf, base, asked, removal, calls>>
        /\ KeptBy(v, fields, <<>>)
        BY <1>5 DEF CreateVersion, builderVars, KeptBy
  <2>4. <<>> \in Seq(Requests)
        OBVIOUS
  <2> QED BY <2>2, <2>3, <2>4, NewVersionKeepsInv
<1>6. ASSUME NEW v \in Versions, Drop(v)
      PROVE  IInv'
      BY <1>6 DEF Drop, builderVars, IInv, Shapes, GoodBuilders, GoodVersions,
                  GoodPointers, Live, Exists
<1>7. CASE UNCHANGED vars
      BY <1>7 DEF vars, builderVars, versionVars, IInv, Shapes, GoodBuilders,
                  GoodVersions, GoodPointers, Live, Exists
<1> QED BY <1>1, <1>2, <1>3, <1>4, <1>5, <1>6, <1>7, ConfigureKeepsInv DEF Next

\* The inductive invariant.
THEOREM Invariance == Spec => []IInv
BY InitInv, NextInv, PTL DEF Spec

(***************************************************************************)
(* Fields and history keep their types.                                    *)
(***************************************************************************)
THEOREM TypeCorrect == Spec => []TypeOK
<1>1. IInv => TypeOK
      BY DEF IInv, Shapes, GoodBuilders, GoodVersions, GoodPointers, GoodFields,
             TypeOK, Live, Exists
<1> QED BY <1>1, Invariance, PTL

(***************************************************************************)
(* The index addFunctionName returned is where the name is in every        *)
(* Version the builder builds from then on (Version.hpp:313), and what a   *)
(* clone takes over keeps its index.                                       *)
(***************************************************************************)
THEOREM IndexesStay == Spec => []IndexNamesFunction
<1>1. IInv => IndexNamesFunction
      BY DEF IInv, Shapes, GoodVersions, GoodFields, IndexNamesFunction, Exists
<1> QED BY <1>1, Invariance, PTL

(***************************************************************************)
(* A Version the program dropped lives on only in the builder that built   *)
(* it, not reset since (Version.cpp:336).                                  *)
(***************************************************************************)
THEOREM DroppedVersionsEnd == Spec => []LingersOnlyInBuilder
<1>1. IInv => LingersOnlyInBuilder
      BY NoneApart DEF IInv, Shapes, GoodPointers, LingersOnlyInBuilder, Alive, Exists
<1> QED BY <1>1, Invariance, PTL

(***************************************************************************)
(* What the program said last about the removal of files is what its       *)
(* Versions do, through assignments, resets, builds and clones; only a     *)
(* builder of the mandatory parameters about which nothing was said, and   *)
(* clones of what it built, leave it open (Version.cpp:313).               *)
(***************************************************************************)
THEOREM RemovalIsKnown == Spec => []RemovalAsConfigured
<1>1. IInv => RemovalAsConfigured
      BY DEF IInv, GoodVersions, GoodFields, RemovalAsConfigured
<1> QED BY <1>1, Invariance, PTL

-----------------------------------------------------------------------------
(* What the option lists hold: BuiltAsAsked.                               *)

Flags == Words \cup (Words \X Words)

Listed == UNION {{l[i] : i \in DOMAIN l} : l \in OptionLists}

Options ==
    Listed \cup {IncludeDir(w) : w \in Words} \cup {LinkDir(w) : w \in Words}
        \cup {Define(flag) : flag \in Flags}

\* The option p stands for.
OptionAt(start, h, stage, p) == Source(start, h, stage, p[1])[p[2]]

\* e says of each option of the list which call contributed it.
Traces(e, list, start, h, stage) ==
    /\ e \in [DOMAIN list -> Remaining(start, h, stage)]
    /\ \A k, n \in DOMAIN list : NotAfter(e[k], e[n]) <=> k <= n
    /\ \A p \in Remaining(start, h, stage) : \E n \in DOMAIN list : e[n] = p
    /\ \A n \in DOMAIN list : list[n] = OptionAt(start, h, stage, e[n])

Traced(list, start, h, stage) ==
    /\ list \in Seq(Options)
    /\ \E e : Traces(e, list, start, h, stage)

IsFlag(r) == r.call = "addFunctionFlag" /\ r.arg # None

FlagRequests == {r \in Requests : IsFlag(r)}

\* A builder has the latest flag in front.
FlagsAsked(flags, h) ==
    LET given == Only(h, FlagRequests)
    IN  /\ flags \in Seq(Flags) /\ Len(flags) = Len(given)
        /\ \A i \in 1 .. Len(flags) : flags[i] = given[Len(flags) + 1 - i].arg

ListsOf(c, start, h) ==
    /\ \A stage \in Stages : /\ start[stage] \in Seq(Options)
                             /\ Traced(c[stage], start, h, stage)
    /\ FlagsAsked(c.flags, h)

BuilderLists == \A b \in Builders : ListsOf(conf[b], base[b], asked[b])

VersionLists ==
    \A v \in Versions : Exists(v) =>
        \A stage \in Stages :
            /\ built[v].fields[stage] \in Seq(Options)
            /\ AsAsked(built[v].fields[stage], built[v].base, built[v].asked,
                       stage)

ListsInv == BuilderLists /\ VersionLists

LEMMA RemainingPairs ==
    ASSUME NEW start, NEW h \in Seq(Requests), NEW stage, NEW p
    PROVE  p \in Remaining(start, h, stage) <=>
             \E j \in 0 .. Len(h) : \E i \in DOMAIN Source(start, h, stage, j) :
                 p = <<j, i>> /\ Survives(h, stage, j, Source(start, h, stage, j)[i])
BY DEF Remaining

\* One more call: what it spares of the options before, and its own.
Spares(r, stage, option) ==
    ~Sets(r, stage) /\ ~Removes(r, stage, TagOf(option))

\* g is h and then the call r.
Longer(g, h, r) ==
    /\ g \in Seq(Requests) /\ h \in Seq(Requests) /\ r \in Requests
    /\ Len(h) \in Nat /\ Len(g) = Len(h) + 1 /\ g[Len(h) + 1] = r
    /\ \A k \in 1 .. Len(h) : g[k] = h[k]

LEMMA SourceStays ==
    ASSUME NEW start, NEW g, NEW h, NEW r, Longer(g, h, r), NEW stage,
           NEW j \in 0 .. Len(h)
    PROVE  Source(start, g, stage, j) = Source(start, h, stage, j)
BY DEF Longer, Source

LEMMA NewSource ==
    ASSUME NEW start, NEW g, NEW h, NEW r, Longer(g, h, r), NEW stage
    PROVE  Source(start, g, stage, Len(h) + 1) = Contribution(r, stage)
BY DEF Longer, Source

LEMMA OneMoreSource ==
    ASSUME NEW start, NEW g, NEW h, NEW r, Longer(g, h, r), NEW stage
    PROVE  /\ \A o : Survives(g, stage, Len(h) + 1, o)
           /\ \A j \in 0 .. Len(h) : \A o :
                Survives(g, stage, j, o)
                            <=> Survives(h, stage, j, o) /\ Spares(r, stage, o)
<1>1. /\ g \in Seq(Requests) /\ Len(h) \in Nat /\ Len(g) = Len(h) + 1
      /\ g[Len(h) + 1] = r /\ \A k \in 1 .. Len(h) : g[k] = h[k]
  BY DEF Longer
<1>3. ASSUME NEW o PROVE Survives(g, stage, Len(h) + 1, o)
  BY <1>1 DEF Survives
<1>5. ASSUME NEW j \in 0 .. Len(h), NEW o
      PROVE  Survives(g, stage, j, o)
                <=> Survives(h, stage, j, o) /\ Spares(r, stage, o)
  <2>1. j + 1 .. Len(g) = (j + 1 .. Len(h)) \cup {Len(h) + 1}
    BY <1>1
  <2>2. \A k \in j + 1 .. Len(h) : g[k] = h[k]
    BY <1>1
  <2>3. QED
    BY <1>1, <2>1, <2>2 DEF Survives, Spares
<1>6. QED
  BY <1>1, <1>3, <1>5

LEMMA RemainingAfter ==
    ASSUME NEW start, NEW g, NEW h, NEW r, Longer(g, h, r), NEW stage, NEW p
    PROVE  p \in Remaining(start, g, stage) <=>
             \/ /\ p \in Remaining(start, h, stage)
                /\ Spares(r, stage, OptionAt(start, h, stage, p))
             \/ \E i \in DOMAIN Contribution(r, stage) : p = <<Len(h) + 1, i>>
<1> DEFINE now(j) == Source(start, g, stage, j)
           was(j) == Source(start, h, stage, j)
<1>0. Len(g) = Len(h) + 1 /\ Len(h) \in Nat
  BY DEF Longer
<1>1. /\ Len(g) = Len(h) + 1 /\ Len(h) \in Nat
      /\ now(Len(h) + 1) = Contribution(r, stage)
      /\ \A o : Survives(g, stage, Len(h) + 1, o)
      /\ \A j \in 0 .. Len(h) :
           /\ now(j) = was(j)
           /\ \A o : Survives(g, stage, j, o)
                       <=> Survives(h, stage, j, o) /\ Spares(r, stage, o)
  <2>1. Source(start, g, stage, Len(h) + 1) = Contribution(r, stage)
    BY NewSource
  <2>2. \A o : Survives(g, stage, Len(h) + 1, o)
    BY OneMoreSource
  <2>3. ASSUME NEW j \in 0 .. Len(h)
        PROVE  Source(start, g, stage, j) = Source(start, h, stage, j)
    BY SourceStays
  <2>4. \A j \in 0 .. Len(h) : \A o : Survives(g, stage, j, o)
                       <=> Survives(h, stage, j, o) /\ Spares(r, stage, o)
    BY OneMoreSource
  <2>5. QED
    BY <1>0, <2>1, <2>2, <2>3, <2>4
<1>2. p \in Remaining(start, g, stage) <=>
        \E j \in 0 .. Len(g) : \E i \in DOMAIN now(j) :
            p = <<j, i>> /\ Survives(g, stage, j, now(j)[i])
  BY RemainingPairs DEF Longer
<1>3. p \in Remaining(start, h, stage) <=>
        \E j \in 0 .. Len(h) : \E i \in DOMAIN was(j) :
            p = <<j, i>> /\ Survives(h, stage, j, was(j)[i])
  BY RemainingPairs DEF Longer
<1>4. 0 .. Len(g) = (0 .. Len(h)) \cup {Len(h) + 1}
  BY <1>1
<1>5. ASSUME NEW j \in 0 .. Len(h), NEW i, p = <<j, i>>
      PROVE  OptionAt(start, h, stage, p) = was(j)[i]
  BY <1>5 DEF OptionAt
<1> HIDE DEF now, was
<1>6. ASSUME p \in Remaining(start, g, stage)
      PROVE  \/ /\ p \in Remaining(start, h, stage)
                /\ Spares(r, stage, OptionAt(start, h, stage, p))
             \/ \E i \in DOMAIN Contribution(r, stage) : p = <<Len(h) + 1, i>>
  <2>1. PICK j \in 0 .. Len(g) : \E i \in DOMAIN now(j) :
            p = <<j, i>> /\ Survives(g, stage, j, now(j)[i])
    BY <1>2, <1>6
  <2>2. PICK i \in DOMAIN now(j) :
            p = <<j, i>> /\ Survives(g, stage, j, now(j)[i])
    BY <2>1
  <2>3. CASE j = Len(h) + 1
    BY <1>1, <2>2, <2>3
  <2>4. CASE j \in 0 .. Len(h)
    BY <1>1, <1>3, <1>5, <2>2, <2>4
  <2>5. QED
    BY <1>4, <2>3, <2>4
<1>7. ASSUME p \in Remaining(start, h, stage),
             Spares(r, stage, OptionAt(start, h, stage, p))
      PROVE  p \in Remaining(start, g, stage)
  <2>1. PICK j \in 0 .. Len(h) : \E i \in DOMAIN was(j) :
            p = <<j, i>> /\ Survives(h, stage, j, was(j)[i])
    BY <1>3, <1>7
  <2>2. PICK i \in DOMAIN was(j) :
            p = <<j, i>> /\ Survives(h, stage, j, was(j)[i])
    BY <2>1
  <2>3. i \in DOMAIN now(j) /\ Survives(g, stage, j, now(j)[i]) /\ j \in 0 .. Len(g)
    BY <1>1, <1>4, <1>5, <1>7, <2>2
  <2>4. QED
    BY <1>2, <2>2, <2>3
<1>8. ASSUME NEW i \in DOMAIN Contribution(r, stage), p = <<Len(h) + 1, i>>
      PROVE  p \in Remaining(start, g, stage)
  BY <1>1, <1>2, <1>4, <1>8
<1>9. QED
  BY <1>6, <1>7, <1>8

LEMMA RemainingCalls ==
    ASSUME NEW start, NEW g, NEW h, NEW r, Longer(g, h, r), NEW stage,
           NEW p \in Remaining(start, h, stage)
    PROVE  /\ p[1] \in 0 .. Len(h)
           /\ OptionAt(start, g, stage, p) = OptionAt(start, h, stage, p)
<1>1. PICK j \in 0 .. Len(h) : \E i \in DOMAIN Source(start, h, stage, j) :
          p = <<j, i>>
  <2>1. h \in Seq(Requests)
    BY DEF Longer
  <2>2. p \in Remaining(start, h, stage) <=>
          \E j \in 0 .. Len(h) : \E i \in DOMAIN Source(start, h, stage, j) :
              p = <<j, i>> /\ Survives(h, stage, j, Source(start, h, stage, j)[i])
    BY <2>1, RemainingPairs
  <2>3. QED
    BY <2>2
<1>2. p[1] = j
  BY <1>1
<1>3. QED
  BY <1>1, <1>2, SourceStays DEF OptionAt

\* A call keeps the options it spares, in their order, and adds its own.
LEMMA RequestTraced ==
    ASSUME NEW start, NEW g, NEW h, NEW r, Longer(g, h, r), NEW stage,
           NEW list, Traced(list, start, h, stage), NEW K,
           K = {n \in DOMAIN list : Spares(r, stage, list[n])},
           Contribution(r, stage) \in Seq(Options)
    PROVE  Traced(Picked(list, K) \o Contribution(r, stage), start, g, stage)
<1> DEFINE c == Contribution(r, stage)
           was == Remaining(start, h, stage)
           now == Remaining(start, g, stage)
<1>1. PICK e : Traces(e, list, start, h, stage)
  BY DEF Traced
<1>2. /\ list \in Seq(Options) /\ K \in SUBSET DOMAIN list
      /\ Len(list) \in Nat /\ DOMAIN list = 1 .. Len(list)
  BY LenProperties DEF Traced
<1>3. PICK m, f : /\ Enumerates(f, m, K)
                  /\ Picked(list, K) = [n \in 1 .. m |-> list[f[n]]]
                  /\ Picked(list, K) \in Seq(Options)
  BY <1>2, PickedEnumerated
<1>4. /\ m \in Nat /\ f \in [1 .. m -> K]
      /\ \A k, n \in 1 .. m : k < n => f[k] < f[n]
      /\ \A i \in K : \E n \in 1 .. m : f[n] = i
  BY <1>3 DEF Enumerates
<1> DEFINE s == Picked(list, K)
           new == s \o c
           d == [n \in 1 .. m + Len(c) |->
                   IF n <= m THEN e[f[n]] ELSE <<Len(h) + 1, n - m>>]
<1>5. /\ Len(s) = m /\ Len(c) \in Nat /\ DOMAIN c = 1 .. Len(c)
      /\ \A n \in 1 .. m : s[n] = list[f[n]]
  <2>1. Len(c) \in Nat /\ DOMAIN c = 1 .. Len(c)
    BY LenProperties
  <2>2. s = [n \in 1 .. m |-> list[f[n]]]
    BY <1>3
  <2>3. Len(s) = m
    BY <1>3, <1>4, <2>2
  <2>4. QED
    BY <2>1, <2>2, <2>3
<1>6. /\ new \in Seq(Options) /\ DOMAIN new = 1 .. m + Len(c)
      /\ \A n \in 1 .. m + Len(c) : new[n] = IF n <= m THEN s[n] ELSE c[n - m]
  <2>1. s \in Seq(Options) /\ c \in Seq(Options)
    BY <1>3
  <2> HIDE DEF s, c
  <2>b. /\ new \in Seq(Options) /\ Len(new) = Len(s) + Len(c)
        /\ \A n \in 1 .. Len(s) + Len(c) :
             new[n] = IF n <= Len(s) THEN s[n] ELSE c[n - Len(s)]
    BY <2>1, ConcatProperties
  <2>2. /\ new \in Seq(Options) /\ Len(new) = m + Len(c)
        /\ \A n \in 1 .. m + Len(c) : new[n] = IF n <= m THEN s[n] ELSE c[n - m]
    BY <1>5, <2>b
  <2>3. DOMAIN new = 1 .. Len(new)
    BY <2>2, LenProperties
  <2>4. QED
    BY <2>2, <2>3
<1>7. /\ e \in [DOMAIN list -> was]
      /\ \A k, n \in DOMAIN list : NotAfter(e[k], e[n]) <=> k <= n
      /\ \A p \in was : \E n \in DOMAIN list : e[n] = p
      /\ \A n \in DOMAIN list : list[n] = OptionAt(start, h, stage, e[n])
  BY <1>1 DEF Traces
<1>8. Len(h) \in Nat
  BY DEF Longer
<1> HIDE DEF s, new, c, was, now
<1>9. ASSUME NEW n \in 1 .. m
      PROVE  /\ n \in 1 .. m + Len(c) /\ f[n] \in K /\ f[n] \in DOMAIN list
             /\ d[n] = e[f[n]] /\ d[n] \in was /\ d[n] \in now
             /\ d[n][1] \in 0 .. Len(h)
             /\ new[n] = OptionAt(start, g, stage, d[n])
  <2>1. n \in 1 .. m + Len(c) /\ n <= m
    BY <1>4, <1>5
  <2>2. f[n] \in K /\ f[n] \in DOMAIN list
    BY <1>2, <1>4
  <2>3. d[n] = e[f[n]] /\ d[n] \in was
    BY <1>7, <2>1, <2>2
  <2>4. list[f[n]] = OptionAt(start, h, stage, d[n]) /\ Spares(r, stage, list[f[n]])
    BY <1>7, <2>2, <2>3
  <2>5. d[n] \in now
    BY <2>3, <2>4, RemainingAfter DEF was, now
  <2>6. /\ d[n][1] \in 0 .. Len(h)
        /\ OptionAt(start, g, stage, d[n]) = OptionAt(start, h, stage, d[n])
    BY <2>3, RemainingCalls DEF was
  <2>7. new[n] = list[f[n]]
    BY <1>5, <1>6, <2>1
  <2>8. QED
    BY <2>1, <2>2, <2>3, <2>4, <2>5, <2>6, <2>7
<1>10. ASSUME NEW n \in 1 .. m + Len(c), ~(n <= m)
       PROVE  /\ n - m \in DOMAIN c /\ d[n] = <<Len(h) + 1, n - m>>
              /\ d[n] \in now /\ d[n][1] = Len(h) + 1 /\ d[n][2] = n - m
              /\ new[n] = OptionAt(start, g, stage, d[n])
  <2>1. n - m \in DOMAIN c
    BY <1>4, <1>5, <1>10
  <2>2. d[n] = <<Len(h) + 1, n - m>> /\ d[n][1] = Len(h) + 1 /\ d[n][2] = n - m
    BY <1>10
  <2>3. d[n] \in now
    BY <2>1, <2>2, RemainingAfter DEF now, c
  <2>4. Source(start, g, stage, Len(h) + 1) = c
    BY NewSource DEF c
  <2>5. new[n] = OptionAt(start, g, stage, d[n])
    BY <1>6, <1>10, <2>2, <2>4 DEF OptionAt
  <2>6. QED
    BY <2>1, <2>2, <2>3, <2>5
<1>11. \A n \in 1 .. m + Len(c) : n <= m => n \in 1 .. m
  BY <1>4, <1>5
<1>12. d \in [DOMAIN new -> now]
  BY <1>6, <1>9, <1>10, <1>11
<1>13. \A n \in DOMAIN new : new[n] = OptionAt(start, g, stage, d[n])
  BY <1>6, <1>9, <1>10, <1>11
<1>14. ASSUME NEW p \in now PROVE \E n \in DOMAIN new : d[n] = p
  <2>1. CASE p \in was /\ Spares(r, stage, OptionAt(start, h, stage, p))
    <3>1. PICK i \in DOMAIN list : e[i] = p
      BY <1>7, <2>1
    <3>2. i \in K
      BY <1>7, <2>1, <3>1
    <3>3. PICK n \in 1 .. m : f[n] = i
      BY <1>4, <3>2
    <3>4. QED
      BY <1>6, <1>9, <3>1, <3>3
  <2>2. CASE \E i \in DOMAIN c : p = <<Len(h) + 1, i>>
    <3>1. PICK i \in DOMAIN c : p = <<Len(h) + 1, i>>
      BY <2>2
    <3>2. /\ m + i \in 1 .. m + Len(c) /\ ~(m + i <= m) /\ (m + i) - m = i
      BY <1>4, <1>5, <3>1
    <3>3. d[m + i] = p
      BY <1>10, <3>1, <3>2
    <3>4. QED
      BY <1>6, <3>2, <3>3
  <2>3. \/ p \in was /\ Spares(r, stage, OptionAt(start, h, stage, p))
        \/ \E i \in DOMAIN c : p = <<Len(h) + 1, i>>
    <3>1. p \in Remaining(start, g, stage)
      BY <1>14 DEF now
    <3>2. QED
      BY <3>1, RemainingAfter DEF was, c
  <2>4. QED
    BY <2>1, <2>2, <2>3
<1> DEFINE In == 1 .. m + Len(c)
<1>15. ASSUME NEW k \in In, NEW n \in In
       PROVE  NotAfter(d[k], d[n]) <=> k <= n
  <2>1. k \in Nat /\ n \in Nat
    BY <1>4, <1>5
  <2>2. CASE k <= m /\ n <= m
    <3>1. k \in 1 .. m /\ n \in 1 .. m
      BY <1>11, <2>2
    <3>a. /\ f[k] \in DOMAIN list /\ d[k] = e[f[k]]
          /\ f[n] \in DOMAIN list /\ d[n] = e[f[n]]
      BY <1>9, <3>1
    <3>2. NotAfter(d[k], d[n]) <=> f[k] <= f[n]
      BY <1>7, <3>a
    <3>3. f[k] \in Nat /\ f[n] \in Nat
      BY <1>2, <3>a
    <3>4. /\ k < n => f[k] < f[n]
          /\ n < k => f[n] < f[k]
      BY <1>4, <3>1
    <3>5. QED
      BY <2>1, <3>2, <3>3, <3>4
  <2>3. CASE k <= m /\ ~(n <= m)
    <3>1. d[k][1] \in 0 .. Len(h) /\ d[n][1] = Len(h) + 1
      BY <1>9, <1>10, <1>11, <2>3
    <3>2. QED
      BY <1>4, <1>8, <2>1, <2>3, <3>1 DEF NotAfter
  <2>4. CASE ~(k <= m) /\ n <= m
    <3>1. d[n][1] \in 0 .. Len(h) /\ d[k][1] = Len(h) + 1
      BY <1>9, <1>10, <1>11, <2>4
    <3>2. QED
      BY <1>4, <1>8, <2>1, <2>4, <3>1 DEF NotAfter
  <2>5. CASE ~(k <= m) /\ ~(n <= m)
    <3>1. /\ d[n][1] = Len(h) + 1 /\ d[n][2] = n - m
          /\ d[k][1] = Len(h) + 1 /\ d[k][2] = k - m
      BY <1>10, <2>5
    <3>2. QED
      BY <1>4, <1>8, <2>1, <3>1 DEF NotAfter
  <2>6. QED
    BY <2>2, <2>3, <2>4, <2>5
<1>16. Traces(d, new, start, g, stage)
  BY <1>6, <1>12, <1>13, <1>14, <1>15 DEF Traces, now
<1>17. QED
  BY <1>6, <1>16 DEF Traced, new, s, c

\* What a call does to the list of a stage: it sets it, takes options away,
\* or adds its own at the end.
LEMMA SetTraced ==
    ASSUME NEW start, NEW g, NEW h, NEW r, Longer(g, h, r), NEW stage,
           NEW list, Traced(list, start, h, stage),
           Sets(r, stage), r.arg \in Seq(Options)
    PROVE  Traced(r.arg, start, g, stage)
<1>1. Contribution(r, stage) = r.arg
  BY DEF Contribution, Sets
<1>2. {n \in DOMAIN list : Spares(r, stage, list[n])} = {}
  BY DEF Spares
<1>3. Traced(Picked(list, {}) \o r.arg, start, g, stage)
  BY <1>1, <1>2, RequestTraced
<1>4. Picked(list, {}) = <<>> /\ <<>> \o r.arg = r.arg
  BY PickedAllOrNone, ConcatEmptySeq DEF Traced
<1>5. QED
  BY <1>3, <1>4

LEMMA RemovalTraced ==
    ASSUME NEW start, NEW g, NEW h, NEW r, Longer(g, h, r), NEW stage,
           NEW list, Traced(list, start, h, stage),
           ~Sets(r, stage), Contribution(r, stage) = <<>>, NEW tag,
           \A t : Removes(r, stage, t) <=> t = tag
    PROVE  Traced(Without(list, tag), start, g, stage)
<1>1. {n \in DOMAIN list : Spares(r, stage, list[n])}
        = {n \in DOMAIN list : TagOf(list[n]) # tag}
  BY DEF Spares
<1>2. <<>> \in Seq(Options)
  OBVIOUS
<1>3. Traced(Without(list, tag) \o <<>>, start, g, stage)
  BY <1>1, <1>2, RequestTraced DEF Without
<1>4. Without(list, tag) \in Seq(Options)
  <2>1. list \in Seq(Options)
    BY DEF Traced
  <2>2. {n \in DOMAIN list : TagOf(list[n]) # tag} \in SUBSET DOMAIN list
    OBVIOUS
  <2>3. QED
    BY <2>1, <2>2, PickedEnumerated DEF Without
<1>5. Without(list, tag) \o <<>> = Without(list, tag)
  BY <1>4, ConcatEmptySeq
<1>6. QED
  BY <1>3, <1>5

LEMMA AdditionTraced ==
    ASSUME NEW start, NEW g, NEW h, NEW r, Longer(g, h, r), NEW stage,
           NEW list, Traced(list, start, h, stage),
           ~Sets(r, stage), \A tag : ~Removes(r, stage, tag),
           Contribution(r, stage) \in Seq(Options)
    PROVE  Traced(list \o Contribution(r, stage), start, g, stage)
<1>1. {n \in DOMAIN list : Spares(r, stage, list[n])} = DOMAIN list
  BY DEF Spares
<1>2. Traced(Picked(list, DOMAIN list) \o Contribution(r, stage), start, g, stage)
  BY <1>1, RequestTraced
<1>3. Picked(list, DOMAIN list) = list
  BY PickedAllOrNone DEF Traced
<1>4. QED
  BY <1>2, <1>3

\* The calls that do not concern a stage leave its list.
LEMMA NothingTraced ==
    ASSUME NEW start, NEW g, NEW h, NEW r, Longer(g, h, r), NEW stage,
           NEW list, Traced(list, start, h, stage),
           ~Sets(r, stage), \A tag : ~Removes(r, stage, tag),
           Contribution(r, stage) = <<>>
    PROVE  Traced(list, start, g, stage)
<1>1. <<>> \in Seq(Options)
  OBVIOUS
<1>2. Traced(list \o <<>>, start, g, stage)
  BY <1>1, AdditionTraced
<1>3. list \o <<>> = list
  BY ConcatEmptySeq DEF Traced
<1>4. QED
  BY <1>2, <1>3

\* No calls: the list is the one that was started from.
LEMMA StartTraced ==
    ASSUME NEW start, NEW stage, start[stage] \in Seq(Options)
    PROVE  Traced(start[stage], start, <<>>, stage)
<1> DEFINE list == start[stage]
           e == [n \in DOMAIN list |-> <<0, n>>]
           all == Remaining(start, <<>>, stage)
<1>1. Len(list) \in Nat /\ DOMAIN list = 1 .. Len(list)
  BY LenProperties
<1>2. Source(start, <<>>, stage, 0) = list
  BY DEF Source
<1>3. \A o : Survives(<<>>, stage, 0, o)
  BY DEF Survives
<1>4. ASSUME NEW p
      PROVE  p \in all <=> \E n \in DOMAIN list : p = <<0, n>>
  <2>1. <<>> \in Seq(Requests) /\ 0 .. Len(<<>>) = {0}
    OBVIOUS
  <2>2. p \in all <=> \E j \in 0 .. Len(<<>>) :
                        \E i \in DOMAIN Source(start, <<>>, stage, j) :
                            /\ p = <<j, i>>
                            /\ Survives(<<>>, stage, j,
                                        Source(start, <<>>, stage, j)[i])
    BY <2>1, RemainingPairs
  <2>3. QED
    BY <1>2, <1>3, <2>1, <2>2
<1>5. \A n \in DOMAIN list : list[n] = OptionAt(start, <<>>, stage, e[n])
  BY <1>2 DEF OptionAt
<1> HIDE DEF list, all
<1>6. e \in [DOMAIN list -> all] /\ \A p \in all : \E n \in DOMAIN list : e[n] = p
  BY <1>4
<1>7. \A k, n \in DOMAIN list : NotAfter(e[k], e[n]) <=> k <= n
  BY <1>1 DEF NotAfter
<1>8. Traces(e, list, start, <<>>, stage)
  BY <1>5, <1>6, <1>7 DEF Traces, all
<1>9. QED
  BY <1>8 DEF Traced, list

\* One more flag is in front; another call leaves the flags.
LEMMA FlagTraced ==
    ASSUME NEW h \in Seq(Requests), NEW r \in Requests, NEW flags,
           FlagsAsked(flags, h), NEW g, g = h \o <<r>>
    PROVE  /\ IsFlag(r) /\ r.arg \in Flags => FlagsAsked(<<r.arg>> \o flags, g)
           /\ ~IsFlag(r) => FlagsAsked(flags, g)
<1> DEFINE given == Only(h, FlagRequests)
           more == Only(g, FlagRequests)
<1>1. <<r>> \in Seq(Requests) /\ Len(<<r>>) = 1 /\ DOMAIN <<r>> = {1} /\ <<r>>[1] = r
  OBVIOUS
<1>2. more = given \o Only(<<r>>, FlagRequests) /\ given \in Seq(Requests)
  <2> DEFINE t == <<r>>
  <2>1. t \in Seq(Requests)
    BY <1>1
  <2> HIDE DEF t
  <2>2. Only(h \o t, FlagRequests)
             = Only(h, FlagRequests) \o Only(t, FlagRequests)
    BY <2>1, OnlyJoined
  <2>3. Only(h, FlagRequests) \in Seq(Requests)
    BY OnlyIsSeq
  <2>4. QED
    BY <2>2, <2>3 DEF t
<1>3. /\ flags \in Seq(Flags) /\ Len(flags) = Len(given)
      /\ \A i \in 1 .. Len(flags) : flags[i] = given[Len(flags) + 1 - i].arg
  BY DEF FlagsAsked
<1> HIDE DEF given, more
<1>4. ASSUME ~IsFlag(r) PROVE FlagsAsked(flags, g)
  <2>1. \A i \in DOMAIN <<r>> : <<r>>[i] \notin FlagRequests
    BY <1>1, <1>4 DEF FlagRequests
  <2>2. Only(<<r>>, FlagRequests) = <<>>
    BY <1>1, <2>1, OnlyAllOrNone
  <2>3. more = given
    BY <1>2, <2>2, ConcatEmptySeq
  <2>4. QED
    BY <1>3, <2>3 DEF FlagsAsked, more
<1>5. ASSUME IsFlag(r), r.arg \in Flags
      PROVE  FlagsAsked(<<r.arg>> \o flags, g)
  <2> DEFINE m == Len(flags)
             all == <<r.arg>> \o flags
  <2>1. \A i \in DOMAIN <<r>> : <<r>>[i] \in FlagRequests
    BY <1>1, <1>5 DEF FlagRequests
  <2>2. more = given \o <<r>>
    BY <1>1, <1>2, <2>1, OnlyAllOrNone
  <2>3. m \in Nat
    BY <1>3, LenProperties
  <2>4. /\ Len(more) = m + 1
        /\ \A i \in 1 .. m + 1 : more[i] = IF i <= m THEN given[i] ELSE <<r>>[i - m]
    <3> DEFINE t == <<r>>
    <3>1. t \in Seq(Requests) /\ Len(t) = 1 /\ more = given \o t
      BY <1>1, <2>2
    <3> HIDE DEF t
    <3>2. /\ Len(given \o t) = Len(given) + Len(t)
          /\ \A i \in 1 .. Len(given) + Len(t) : (given \o t)[i]
                = IF i <= Len(given) THEN given[i] ELSE t[i - Len(given)]
      <4>1. given \in Seq(Requests)
        BY <1>2
      <4>2. QED
        BY <3>1, <4>1, ConcatProperties
    <3>3. QED
      BY <1>3, <3>1, <3>2 DEF t
  <2>5. <<r.arg>> \in Seq(Flags) /\ Len(<<r.arg>>) = 1 /\ <<r.arg>>[1] = r.arg
    BY <1>5
  <2>6. /\ all \in Seq(Flags) /\ Len(all) = 1 + m
        /\ \A i \in 1 .. 1 + m :
             all[i] = IF i <= 1 THEN <<r.arg>>[i] ELSE flags[i - 1]
    BY <1>3, <2>5, ConcatProperties
  <2> HIDE DEF m, all
  <2>7. ASSUME NEW i \in 1 .. 1 + m
        PROVE  all[i] = more[1 + m + 1 - i].arg
    <3>1. i \in Nat /\ 1 <= i /\ i <= 1 + m
      BY <2>3
    <3>2. CASE i = 1
      <4>1. all[1] = r.arg
        BY <2>3, <2>5, <2>6
      <4>2. 1 + m + 1 - i = m + 1 /\ m + 1 \in 1 .. m + 1 /\ ~(m + 1 <= m) /\ (m + 1) - m = 1
        BY <2>3, <3>2
      <4>3. more[m + 1] = <<r>>[1]
        BY <2>4, <4>2
      <4>4. QED
        BY <1>1, <3>2, <4>1, <4>2, <4>3
    <3>3. CASE i # 1
      <4>1. i - 1 \in 1 .. m /\ ~(i <= 1) /\ m + 1 - (i - 1) \in 1 .. m
        BY <2>3, <3>1, <3>3
      <4>2. all[i] = flags[i - 1]
        BY <2>6, <4>1
      <4>3. flags[i - 1] = given[m + 1 - (i - 1)].arg
        BY <1>3, <4>1 DEF m
      <4>4. /\ 1 + m + 1 - i = m + 1 - (i - 1)
            /\ m + 1 - (i - 1) \in 1 .. m + 1 /\ m + 1 - (i - 1) <= m
        BY <2>3, <3>1, <4>1
      <4>5. more[m + 1 - (i - 1)] = given[m + 1 - (i - 1)]
        BY <2>4, <4>4
      <4>6. QED
        BY <4>2, <4>3, <4>4, <4>5
    <3>4. QED
      BY <3>2, <3>3
  <2>8. Len(all) = Len(more)
    BY <2>3, <2>4, <2>6
  <2>9. FlagsAsked(all, g)
    BY <2>6, <2>7, <2>8 DEF FlagsAsked, more
  <2>10. QED
    BY <2>9 DEF all
<1>6. QED
  BY <1>4, <1>5

LEMMA NoFlags == FlagsAsked(<<>>, <<>>)
<1>1. <<>> \in Seq(Requests) /\ <<>> \in Seq(Flags) /\ Len(<<>>) = 0
  OBVIOUS
<1>2. \A i \in DOMAIN <<>> : <<>>[i] \notin FlagRequests
  OBVIOUS
<1>3. Only(<<>>, FlagRequests) = <<>>
  BY <1>1, <1>2, OnlyAllOrNone
<1>4. QED
  BY <1>1, <1>3 DEF FlagsAsked

\* The options of a traced list stand where their turn is.
LEMMA TracedTurns ==
    ASSUME NEW start, NEW h, NEW stage, NEW list, Traced(list, start, h, stage),
           NEW all, all = Remaining(start, h, stage)
    PROVE  /\ Cardinality(all) = Len(list)
           /\ \A p \in all :
                LET n == Cardinality({q \in all : NotAfter(q, p)})
                IN  n \in 1 .. Len(list) /\ list[n] = OptionAt(start, h, stage, p)
<1>1. PICK e : Traces(e, list, start, h, stage)
  BY DEF Traced
<1>2. /\ e \in [DOMAIN list -> all]
      /\ \A k, n \in DOMAIN list : NotAfter(e[k], e[n]) <=> k <= n
      /\ \A p \in all : \E n \in DOMAIN list : e[n] = p
      /\ \A n \in DOMAIN list : list[n] = OptionAt(start, h, stage, e[n])
  BY <1>1 DEF Traces
<1>3. Len(list) \in Nat /\ DOMAIN list = 1 .. Len(list)
  BY LenProperties DEF Traced
<1> DEFINE m == Len(list)
<1> HIDE DEF m
<1>4. /\ m \in Nat /\ DOMAIN list = 1 .. m /\ m = Len(list)
  BY <1>3 DEF m
<1>5. ASSUME NEW k \in 1 .. m, NEW n \in 1 .. m, e[k] = e[n]
      PROVE  k = n
  <2>1. NotAfter(e[k], e[k])
    BY <1>2, <1>4
  <2>2. k <= n /\ n <= k
    BY <1>2, <1>4, <1>5, <2>1
  <2>3. QED
    BY <1>4, <2>2
<1>6. Cardinality(all) = m
  <2>1. e \in Bijection(1 .. m, all)
    BY <1>2, <1>4, <1>5 DEF Bijection, Injection, Surjection, IsInjective
  <2>2. QED
    BY <1>4, <2>1, FS_CountingElements DEF ExistsBijection
<1>7. ASSUME NEW p \in all
      PROVE  LET n == Cardinality({q \in all : NotAfter(q, p)})
             IN  n \in 1 .. m /\ list[n] = OptionAt(start, h, stage, p)
  <2>1. PICK n \in 1 .. m : e[n] = p
    BY <1>2, <1>4
  <2> DEFINE below == {q \in all : NotAfter(q, p)}
             d == [k \in 1 .. n |-> e[k]]
  <2>2. n \in Nat /\ \A k \in 1 .. n : k \in 1 .. m /\ k <= n
    BY <1>4
  <2>3. d \in [1 .. n -> below]
    BY <1>2, <1>4, <2>1, <2>2
  <2>4. ASSUME NEW q \in below PROVE \E k \in 1 .. n : d[k] = q
    <3>1. PICK k \in 1 .. m : e[k] = q
      BY <1>2, <1>4
    <3>2. k <= n
      BY <1>2, <1>4, <2>1, <3>1
    <3>3. k \in 1 .. n
      BY <2>2, <3>2
    <3>4. QED
      BY <3>1, <3>3
  <2>5. \A k, l \in 1 .. n : d[k] = d[l] => k = l
    BY <1>5, <2>2
  <2>6. d \in Bijection(1 .. n, below)
    BY <2>3, <2>4, <2>5 DEF Bijection, Injection, Surjection, IsInjective
  <2>7. Cardinality(below) = n
    BY <2>2, <2>6, FS_CountingElements DEF ExistsBijection
  <2>8. list[n] = OptionAt(start, h, stage, p)
    BY <1>2, <1>4, <2>1
  <2>9. QED
    BY <2>7, <2>8
<1>8. QED
  BY <1>4, <1>6, <1>7

-----------------------------------------------------------------------------
\* What the call r does to the list of a stage: nothing, set it, add to it or
\* take from it.
Quiet(r, stage) ==
    /\ ~Sets(r, stage) /\ Contribution(r, stage) = <<>>
    /\ \A tag : ~Removes(r, stage, tag)

Effect(list, new, r, stage) ==
    \/ Quiet(r, stage) /\ new = list
    \/ Sets(r, stage) /\ r.arg \in Seq(Options) /\ new = r.arg
    \/ /\ ~Sets(r, stage) /\ \A tag : ~Removes(r, stage, tag)
       /\ Contribution(r, stage) \in Seq(Options)
       /\ new = list \o Contribution(r, stage)
    \/ /\ ~Sets(r, stage) /\ Contribution(r, stage) = <<>>
       /\ \A tag : Removes(r, stage, tag) <=> tag = r.arg
       /\ new = Without(list, r.arg)

FlagEffect(flags, new, r) ==
    \/ ~IsFlag(r) /\ new = flags
    \/ IsFlag(r) /\ r.arg \in Flags /\ new = <<r.arg>> \o flags

LEMMA LongerByOne ==
    ASSUME NEW h \in Seq(Requests), NEW r \in Requests
    PROVE  Longer(Append(h, r), h, r)
<1>1. /\ Append(h, r) \in Seq(Requests) /\ Len(h) \in Nat
      /\ Len(Append(h, r)) = Len(h) + 1 /\ Append(h, r)[Len(h) + 1] = r
      /\ \A k \in 1 .. Len(h) : Append(h, r)[k] = h[k]
  OBVIOUS
<1>2. QED
  BY <1>1 DEF Longer

LEMMA EffectTraced ==
    ASSUME NEW start, NEW g, NEW h, NEW r, Longer(g, h, r), NEW stage,
           NEW list, Traced(list, start, h, stage), NEW new,
           Effect(list, new, r, stage)
    PROVE  Traced(new, start, g, stage)
<1>1. CASE Quiet(r, stage) /\ new = list
  BY <1>1, NothingTraced DEF Quiet
<1>2. CASE Sets(r, stage) /\ r.arg \in Seq(Options) /\ new = r.arg
  BY <1>2, SetTraced
<1>3. CASE /\ ~Sets(r, stage) /\ \A tag : ~Removes(r, stage, tag)
           /\ Contribution(r, stage) \in Seq(Options)
           /\ new = list \o Contribution(r, stage)
  BY <1>3, AdditionTraced
<1>4. CASE /\ ~Sets(r, stage) /\ Contribution(r, stage) = <<>>
           /\ \A tag : Removes(r, stage, tag) <=> tag = r.arg
           /\ new = Without(list, r.arg)
  BY <1>4, RemovalTraced
<1>5. QED
  BY <1>1, <1>2, <1>3, <1>4 DEF Effect

LEMMA CallTraced ==
    ASSUME NEW c, NEW d, NEW start, NEW h \in Seq(Requests), NEW r \in Requests,
           ListsOf(c, start, h),
           \A stage \in Stages : Effect(c[stage], d[stage], r, stage),
           FlagEffect(c.flags, d.flags, r)
    PROVE  ListsOf(d, start, Append(h, r))
<1> DEFINE g == Append(h, r)
<1>1. Longer(g, h, r) /\ g = h \o <<r>>
  BY LongerByOne, AppendIsConcat
<1> HIDE DEF g
<1>2. ASSUME NEW stage \in Stages
      PROVE  start[stage] \in Seq(Options) /\ Traced(d[stage], start, g, stage)
  <2>1. start[stage] \in Seq(Options) /\ Traced(c[stage], start, h, stage)
    BY DEF ListsOf
  <2>2. Traced(d[stage], start, g, stage)
    BY <1>1, <2>1, EffectTraced
  <2>3. QED
    BY <2>1, <2>2
<1>3. FlagsAsked(d.flags, g)
  <2>1. FlagsAsked(c.flags, h)
    BY DEF ListsOf
  <2>2. CASE ~IsFlag(r) /\ d.flags = c.flags
    BY <1>1, <2>1, <2>2, FlagTraced
  <2>3. CASE IsFlag(r) /\ r.arg \in Flags /\ d.flags = <<r.arg>> \o c.flags
    BY <1>1, <2>1, <2>3, FlagTraced
  <2>4. QED
    BY <2>2, <2>3 DEF FlagEffect
<1>4. QED
  BY <1>2, <1>3 DEF ListsOf, g

LEMMA FreshLists ==
    ASSUME NEW c, \A stage \in Stages : c[stage] \in Seq(Options),
           c.flags = <<>>
    PROVE  ListsOf(c, c, <<>>)
BY StartTraced, NoFlags DEF ListsOf

LEMMA OptionTypes ==
    /\ \A w \in Words : IncludeDir(w) \in Options /\ LinkDir(w) \in Options
    /\ \A flag \in Flags : Define(flag) \in Options
    /\ \A l \in OptionLists : l \in Seq(Options)
<1>1. ASSUME NEW l \in OptionLists PROVE l \in Seq(Options)
  <2>1. Len(l) \in Nat /\ l = [i \in 1 .. Len(l) |-> l[i]]
    BY BuilderAssumption
  <2>2. \A i \in 1 .. Len(l) : l[i] \in Options
    <3>1. DOMAIN l = 1 .. Len(l)
      BY <2>1
    <3>2. \A i \in 1 .. Len(l) : l[i] \in Listed
      BY <3>1 DEF Listed
    <3>3. QED
      BY <3>2 DEF Options
  <2>3. QED
    BY <2>1, <2>2
<1>2. ASSUME NEW w \in Words
      PROVE  IncludeDir(w) \in Options /\ LinkDir(w) \in Options
  BY DEF Options
<1>3. ASSUME NEW flag \in Flags PROVE Define(flag) \in Options
  BY DEF Options
<1>4. QED
  BY <1>1, <1>2, <1>3

LEMMA AskKeepsLists ==
    ASSUME IInv, ListsInv, NEW b \in Builders, NEW call \in Calls,
           NEW arg \in Args, NEW ret \in Nat \cup {None}, NEW fields,
           Ask(b, call, arg, ret, fields), NEW r,
           r = [call |-> call, arg |-> arg, ret |-> ret],
           \A stage \in Stages : Effect(conf[b][stage], fields[stage], r, stage),
           FlagEffect(conf[b].flags, fields.flags, r)
    PROVE  ListsInv'
<1>1. r \in Requests
  BY DEF Requests
<1>2. asked[b] \in Seq(Requests) /\ ListsOf(conf[b], base[b], asked[b])
  BY DEF IInv, GoodBuilders, ListsInv, BuilderLists
<1>3. ListsOf(fields, base[b], Append(asked[b], r))
  BY <1>1, <1>2, CallTraced
<1>4. /\ DOMAIN conf = Builders /\ DOMAIN asked = Builders
      /\ conf' = [conf EXCEPT ![b] = fields]
      /\ asked' = [asked EXCEPT ![b] = Append(@, r)]
      /\ base' = base /\ built' = built
  BY DEF IInv, Shapes, Ask, versionVars
<1>5. ASSUME NEW a \in Builders
      PROVE  ListsOf(conf'[a], base'[a], asked'[a])
  <2>1. CASE a = b
    <3>1. conf'[a] = fields /\ base'[a] = base[b] /\ asked'[a] = Append(asked[b], r)
      BY <1>4, <2>1
    <3>2. QED
      BY <1>3, <3>1
  <2>2. CASE a # b
    <3>1. conf'[a] = conf[a] /\ base'[a] = base[a] /\ asked'[a] = asked[a]
      BY <1>4, <2>2
    <3>2. QED
      BY <3>1 DEF ListsInv, BuilderLists
  <2>3. QED
    BY <2>1, <2>2
<1>6. VersionLists'
  BY <1>4 DEF ListsInv, VersionLists, Exists
<1>7. QED
  BY <1>5, <1>6 DEF ListsInv, BuilderLists

\* The calls that concern the list of no stage.
LEMMA QuietCalls ==
    ASSUME NEW r,
           r.call \in {"addSourceFile", "addTag", "setCompiler",
                       "addFunctionFlag", "addFunctionName"},
           NEW stage \in Stages
    PROVE  Quiet(r, stage)
BY DEF Quiet, Sets, Removes, Contribution, StageOf, Stages

LEMMA QuietCallKeepsLists ==
    ASSUME IInv, ListsInv, NEW b \in Builders, NEW arg \in Args,
           NEW call \in {"addSourceFile", "addTag", "setCompiler",
                         "addFunctionFlag", "addFunctionName"},
           NEW ret \in Nat \cup {None}, NEW fields,
           Ask(b, call, arg, ret, fields),
           \A stage \in Stages : fields[stage] = conf[b][stage],
           FlagEffect(conf[b].flags, fields.flags,
                      [call |-> call, arg |-> arg, ret |-> ret])
    PROVE  ListsInv'
<1> DEFINE r == [call |-> call, arg |-> arg, ret |-> ret]
<1>1. r.call = call
  OBVIOUS
<1>2. call \in Calls
  BY DEF Calls
<1>3. FlagEffect(conf[b].flags, fields.flags, r)
  OBVIOUS
<1>4. r = [call |-> call, arg |-> arg, ret |-> ret]
  OBVIOUS
<1> HIDE DEF r
<1>5. \A stage \in Stages : Effect(conf[b][stage], fields[stage], r, stage)
  BY <1>1, QuietCalls DEF Effect
<1>6. QED
  BY <1>2, <1>3, <1>4, <1>5, AskKeepsLists

LEMMA ListCallKeepsLists ==
    ASSUME IInv, ListsInv, NEW b \in Builders, NEW arg \in Args,
           NEW call \in Calls \ {"addFunctionFlag"}, NEW fields,
           Ask(b, call, arg, None, fields), fields.flags = conf[b].flags,
           \A stage \in Stages :
               Effect(conf[b][stage], fields[stage],
                      [call |-> call, arg |-> arg, ret |-> None], stage)
    PROVE  ListsInv'
<1> DEFINE r == [call |-> call, arg |-> arg, ret |-> None]
<1>1. r = [call |-> call, arg |-> arg, ret |-> None]
  OBVIOUS
<1>2. FlagEffect(conf[b].flags, fields.flags, r)
  BY DEF FlagEffect, IsFlag
<1>3. QED
  BY <1>2, AskKeepsLists

\* One lemma for the calls that work on lists, by what they do to each.
LEMMA DirectoryEffects ==
    ASSUME NEW c, DOMAIN c = FieldNames, NEW w \in Words,
           c.options \in Seq(Options), c.genIR \in Seq(Options)
    PROVE  /\ LET r == [call |-> "addIncludeDir", arg |-> w, ret |-> None]
                  d == [c EXCEPT !.genIR = Append(@, IncludeDir(w)),
                                 !.options = Append(@, IncludeDir(w))]
              IN  \A stage \in Stages : Effect(c[stage], d[stage], r, stage)
           /\ LET r == [call |-> "addLinkingDir", arg |-> w, ret |-> None]
                  d == [c EXCEPT !.options = Append(@, LinkDir(w))]
              IN  \A stage \in Stages : Effect(c[stage], d[stage], r, stage)
<1>1. /\ <<IncludeDir(w)>> \in Seq(Options) /\ <<LinkDir(w)>> \in Seq(Options)
      /\ Append(c.options, IncludeDir(w)) = c.options \o <<IncludeDir(w)>>
      /\ Append(c.genIR, IncludeDir(w)) = c.genIR \o <<IncludeDir(w)>>
      /\ Append(c.options, LinkDir(w)) = c.options \o <<LinkDir(w)>>
  <2>1. IncludeDir(w) \in Options /\ LinkDir(w) \in Options
    BY OptionTypes
  <2>2. QED
    BY <2>1, AppendIsConcat
<1> DEFINE i == [call |-> "addIncludeDir", arg |-> w, ret |-> None]
           l == [call |-> "addLinkingDir", arg |-> w, ret |-> None]
<1>2. ASSUME NEW stage \in Stages
      PROVE  /\ ~Sets(i, stage) /\ \A tag : ~Removes(i, stage, tag)
             /\ ~Sets(l, stage) /\ \A tag : ~Removes(l, stage, tag)
             /\ Contribution(i, stage)
                  = IF stage = "opt" THEN <<>> ELSE <<IncludeDir(w)>>
             /\ Contribution(l, stage)
                  = IF stage = "options" THEN <<LinkDir(w)>> ELSE <<>>
  BY DEF Sets, Removes, Contribution, Stages
<1> DEFINE d == [c EXCEPT !.genIR = Append(@, IncludeDir(w)),
                          !.options = Append(@, IncludeDir(w))]
           e == [c EXCEPT !.options = Append(@, LinkDir(w))]
<1>3. /\ d.options = c.options \o <<IncludeDir(w)>>
      /\ d.genIR = c.genIR \o <<IncludeDir(w)>> /\ d.opt = c.opt
      /\ e.options = c.options \o <<LinkDir(w)>>
      /\ e.genIR = c.genIR /\ e.opt = c.opt
  BY <1>1 DEF FieldNames
<1> HIDE DEF d, e, i, l
<1>4. ASSUME NEW stage \in Stages
      PROVE  Effect(c[stage], d[stage], i, stage)
  <2>1. CASE stage = "opt"
    BY <1>2, <1>3, <2>1 DEF Effect, Quiet
  <2>2. CASE stage # "opt"
    <3>1. stage = "options" \/ stage = "genIR"
      BY <2>2 DEF Stages
    <3>2. d[stage] = c[stage] \o <<IncludeDir(w)>>
      BY <1>3, <3>1
    <3>3. QED
      BY <1>1, <1>2, <2>2, <3>2 DEF Effect
  <2>3. QED
    BY <2>1, <2>2
<1>5. ASSUME NEW stage \in Stages
      PROVE  Effect(c[stage], e[stage], l, stage)
  <2>1. CASE stage = "options"
    BY <1>1, <1>2, <1>3, <2>1 DEF Effect
  <2>2. CASE stage # "options"
    <3>1. stage = "opt" \/ stage = "genIR"
      BY <2>2 DEF Stages
    <3>2. e[stage] = c[stage]
      BY <1>3, <3>1
    <3>3. QED
      BY <1>2, <2>2, <3>2 DEF Effect, Quiet
  <2>3. QED
    BY <2>1, <2>2
<1>6. QED
  BY <1>4, <1>5 DEF d, e, i, l

\* The call that sets the list of a stage, and the one that removes from it.
SetCall(stage) ==
    CASE stage = "options" -> "options"
      [] stage = "genIR" -> "genIRoptions"
      [] stage = "opt" -> "optOptions"

RemoveCall(stage) ==
    CASE stage = "options" -> "removeOption"
      [] stage = "genIR" -> "removeGenIROption"
      [] stage = "opt" -> "removeOptOption"

LEMMA SetEffects ==
    ASSUME NEW c, NEW d, NEW l \in Seq(Options), NEW stage \in Stages,
           d[stage] = l, \A s \in Stages : s # stage => d[s] = c[s],
           NEW r, r.call = SetCall(stage), r.arg = l
    PROVE  \A s \in Stages : Effect(c[s], d[s], r, s)
<1>1. ASSUME NEW s \in Stages, s # stage PROVE Quiet(r, s)
  BY <1>1 DEF Quiet, Sets, Removes, Contribution, StageOf, Stages, SetCall
<1>2. Sets(r, stage)
  BY DEF Sets, StageOf, Stages, SetCall
<1>3. QED
  BY <1>1, <1>2 DEF Effect

LEMMA RemoveEffects ==
    ASSUME NEW c, NEW d, NEW tag, NEW stage \in Stages,
           d[stage] = Without(c[stage], tag),
           \A s \in Stages : s # stage => d[s] = c[s],
           NEW r, r.call = RemoveCall(stage), r.arg = tag
    PROVE  \A s \in Stages : Effect(c[s], d[s], r, s)
<1>1. ASSUME NEW s \in Stages, s # stage PROVE Quiet(r, s)
  BY <1>1 DEF Quiet, Sets, Removes, Contribution, StageOf, Stages, RemoveCall
<1>2. /\ ~Sets(r, stage) /\ Contribution(r, stage) = <<>>
      /\ \A t : Removes(r, stage, t) <=> t = tag
  BY DEF Sets, Removes, Contribution, StageOf, Stages, RemoveCall
<1>3. QED
  BY <1>1, <1>2 DEF Effect

LEMMA ConfigureKeepsLists ==
    ASSUME IInv, ListsInv, NEW b \in Builders, Configure(b)
    PROVE  ListsInv'
<1> DEFINE c == conf[b]
<1>1. DOMAIN c = FieldNames
  BY DEF IInv, GoodBuilders, GoodFields
<1>2. /\ c.options \in Seq(Options) /\ c.genIR \in Seq(Options)
      /\ c.opt \in Seq(Options)
  BY DEF ListsInv, BuilderLists, ListsOf, Traced, Stages
<1>3. ASSUME NEW w \in Words, AddSourceFile(b, w)
      PROVE  ListsInv'
  <2> DEFINE d == [c EXCEPT !.src = Append(@, w)]
  <2>1. /\ \A stage \in Stages : d[stage] = c[stage]
        /\ FlagEffect(c.flags, d.flags,
                      [call |-> "addSourceFile", arg |-> w, ret |-> None])
    BY <1>1 DEF FieldNames, Stages, FlagEffect, IsFlag
  <2>2. Ask(b, "addSourceFile", w, None, d) /\ w \in Args
    BY <1>3 DEF AddSourceFile, Args
  <2> HIDE DEF d
  <2>3. QED
    BY <2>1, <2>2, QuietCallKeepsLists
<1>4. ASSUME NEW w \in Words, AddTag(b, w)
      PROVE  ListsInv'
  <2> DEFINE d == [c EXCEPT !.tags = Append(@, w)]
  <2>1. /\ \A stage \in Stages : d[stage] = c[stage]
        /\ FlagEffect(c.flags, d.flags,
                      [call |-> "addTag", arg |-> w, ret |-> None])
    BY <1>1 DEF FieldNames, Stages, FlagEffect, IsFlag
  <2>2. Ask(b, "addTag", w, None, d) /\ w \in Args
    BY <1>4 DEF AddTag, Args
  <2> HIDE DEF d
  <2>3. QED
    BY <2>1, <2>2, QuietCallKeepsLists
<1>5. ASSUME NEW w \in Words, SetCompiler(b, w)
      PROVE  ListsInv'
  <2> DEFINE d == [c EXCEPT !.compiler = w]
  <2>1. /\ \A stage \in Stages : d[stage] = c[stage]
        /\ FlagEffect(c.flags, d.flags,
                      [call |-> "setCompiler", arg |-> w, ret |-> None])
    BY <1>1 DEF FieldNames, Stages, FlagEffect, IsFlag
  <2>2. Ask(b, "setCompiler", w, None, d) /\ w \in Args
    BY <1>5 DEF SetCompiler, Args
  <2> HIDE DEF d
  <2>3. QED
    BY <2>1, <2>2, QuietCallKeepsLists
<1>6. ASSUME NEW w \in Words, AddIncludeDir(b, w)
      PROVE  ListsInv'
  <2> DEFINE d == [c EXCEPT !.genIR = Append(@, IncludeDir(w)),
                            !.options = Append(@, IncludeDir(w))]
  <2>1. d.flags = c.flags
    BY <1>1 DEF FieldNames
  <2>2. Ask(b, "addIncludeDir", w, None, d) /\ w \in Args
    BY <1>6 DEF AddIncludeDir, Args
  <2>3. \A stage \in Stages :
          Effect(c[stage], d[stage],
                 [call |-> "addIncludeDir", arg |-> w, ret |-> None], stage)
    BY <1>1, <1>2, DirectoryEffects
  <2> HIDE DEF d
  <2>4. QED
    BY <2>1, <2>2, <2>3, ListCallKeepsLists DEF Calls
<1>7. ASSUME NEW w \in Words, AddLinkingDir(b, w)
      PROVE  ListsInv'
  <2> DEFINE d == [c EXCEPT !.options = Append(@, LinkDir(w))]
  <2>1. d.flags = c.flags
    BY <1>1 DEF FieldNames
  <2>2. Ask(b, "addLinkingDir", w, None, d) /\ w \in Args
    BY <1>7 DEF AddLinkingDir, Args
  <2>3. \A stage \in Stages :
          Effect(c[stage], d[stage],
                 [call |-> "addLinkingDir", arg |-> w, ret |-> None], stage)
    BY <1>1, <1>2, DirectoryEffects
  <2> HIDE DEF d
  <2>4. QED
    BY <2>1, <2>2, <2>3, ListCallKeepsLists DEF Calls
<1>8. ASSUME NEW l \in OptionLists, SetOptions(b, l)
      PROVE  ListsInv'
  <2> DEFINE d == [c EXCEPT !.options = l]
             r == [call |-> "options", arg |-> l, ret |-> None]
  <2>1. /\ d.flags = c.flags /\ d["options"] = l
        /\ \A s \in Stages : s # "options" => d[s] = c[s]
    BY <1>1 DEF FieldNames, Stages
  <2>2. Ask(b, "options", l, None, d) /\ l \in Args /\ l \in Seq(Options)
    BY <1>8, OptionTypes DEF SetOptions, Args
  <2>3. /\ r.call = SetCall("options") /\ r.arg = l /\ "options" \in Stages
        /\ "options" \in Calls \ {"addFunctionFlag"}
    BY DEF SetCall, Stages, Calls
  <2> HIDE DEF d, r
  <2>4. \A s \in Stages : Effect(c[s], d[s], r, s)
    BY <2>1, <2>2, <2>3, SetEffects
  <2>5. QED
    BY <2>1, <2>2, <2>3, <2>4, ListCallKeepsLists DEF r
<1>9. ASSUME NEW l \in OptionLists, SetGenIROptions(b, l)
      PROVE  ListsInv'
  <2> DEFINE d == [c EXCEPT !.genIR = l]
             r == [call |-> "genIRoptions", arg |-> l, ret |-> None]
  <2>1. /\ d.flags = c.flags /\ d["genIR"] = l
        /\ \A s \in Stages : s # "genIR" => d[s] = c[s]
    BY <1>1 DEF FieldNames, Stages
  <2>2. Ask(b, "genIRoptions", l, None, d) /\ l \in Args /\ l \in Seq(Options)
    BY <1>9, OptionTypes DEF SetGenIROptions, Args
  <2>3. /\ r.call = SetCall("genIR") /\ r.arg = l /\ "genIR" \in Stages
        /\ "genIRoptions" \in Calls \ {"addFunctionFlag"}
    BY DEF SetCall, Stages, Calls
  <2> HIDE DEF d, r
  <2>4. \A s \in Stages : Effect(c[s], d[s], r, s)
    BY <2>1, <2>2, <2>3, SetEffects
  <2>5. QED
    BY <2>1, <2>2, <2>3, <2>4, ListCallKeepsLists DEF r
<1>10. ASSUME NEW l \in OptionLists, SetOptOptions(b, l)
      PROVE  ListsInv'
  <2> DEFINE d == [c EXCEPT !.opt = l]
             r == [call |-> "optOptions", arg |-> l, ret |-> None]
  <2>1. /\ d.flags = c.flags /\ d["opt"] = l
        /\ \A s \in Stages : s # "opt" => d[s] = c[s]
    BY <1>1 DEF FieldNames, Stages
  <2>2. Ask(b, "optOptions", l, None, d) /\ l \in Args /\ l \in Seq(Options)
    BY <1>10, OptionTypes DEF SetOptOptions, Args
  <2>3. /\ r.call = SetCall("opt") /\ r.arg = l /\ "opt" \in Stages
        /\ "optOptions" \in Calls \ {"addFunctionFlag"}
    BY DEF SetCall, Stages, Calls
  <2> HIDE DEF d, r
  <2>4. \A s \in Stages : Effect(c[s], d[s], r, s)
    BY <2>1, <2>2, <2>3, SetEffects
  <2>5. QED
    BY <2>1, <2>2, <2>3, <2>4, ListCallKeepsLists DEF r
<1>11. ASSUME NEW tag \in OptionTags, RemoveOption(b, tag)
      PROVE  ListsInv'
  <2> DEFINE d == [c EXCEPT !.options = Without(@, tag)]
             r == [call |-> "removeOption", arg |-> tag, ret |-> None]
  <2>1. /\ d.flags = c.flags /\ d["options"] = Without(c["options"], tag)
        /\ \A s \in Stages : s # "options" => d[s] = c[s]
    BY <1>1 DEF FieldNames, Stages
  <2>2. Ask(b, "removeOption", tag, None, d) /\ tag \in Args
    BY <1>11 DEF RemoveOption, Args
  <2>3. /\ r.call = RemoveCall("options") /\ r.arg = tag
        /\ "options" \in Stages
        /\ "removeOption" \in Calls \ {"addFunctionFlag"}
    BY DEF RemoveCall, Stages, Calls
  <2> HIDE DEF d, r
  <2>4. \A s \in Stages : Effect(c[s], d[s], r, s)
    BY <2>1, <2>3, RemoveEffects
  <2>5. QED
    BY <2>1, <2>2, <2>3, <2>4, ListCallKeepsLists DEF r
<1>12. ASSUME NEW tag \in OptionTags, RemoveOptOption(b, tag)
      PROVE  ListsInv'
  <2> DEFINE d == [c EXCEPT !.opt = Without(@, tag)]
             r == [call |-> "removeOptOption", arg |-> tag, ret |-> None]
  <2>1. /\ d.flags = c.flags /\ d["opt"] = Without(c["opt"], tag)
        /\ \A s \in Stages : s # "opt" => d[s] = c[s]
    BY <1>1 DEF FieldNames, Stages
  <2>2. Ask(b, "removeOptOption", tag, None, d) /\ tag \in Args
    BY <1>12 DEF RemoveOptOption, Args
  <2>3. /\ r.call = RemoveCall("opt") /\ r.arg = tag
        /\ "opt" \in Stages
        /\ "removeOptOption" \in Calls \ {"addFunctionFlag"}
    BY DEF RemoveCall, Stages, Calls
  <2> HIDE DEF d, r
  <2>4. \A s \in Stages : Effect(c[s], d[s], r, s)
    BY <2>1, <2>3, RemoveEffects
  <2>5. QED
    BY <2>1, <2>2, <2>3, <2>4, ListCallKeepsLists DEF r
<1>13. ASSUME NEW tag \in OptionTags, RemoveGenIROption(b, tag)
      PROVE  ListsInv'
  <2> DEFINE d == [c EXCEPT !.genIR = Without(@, tag)]
             r == [call |-> "removeGenIROption", arg |-> tag, ret |-> None]
  <2>1. /\ d.flags = c.flags /\ d["genIR"] = Without(c["genIR"], tag)
        /\ \A s \in Stages : s # "genIR" => d[s] = c[s]
    BY <1>1 DEF FieldNames, Stages
  <2>2. Ask(b, "removeGenIROption", tag, None, d) /\ tag \in Args
    BY <1>13 DEF RemoveGenIROption, Args
  <2>3. /\ r.call = RemoveCall("genIR") /\ r.arg = tag
        /\ "genIR" \in Stages
        /\ "removeGenIROption" \in Calls \ {"addFunctionFlag"}
    BY DEF RemoveCall, Stages, Calls
  <2> HIDE DEF d, r
  <2>4. \A s \in Stages : Effect(c[s], d[s], r, s)
    BY <2>1, <2>3, RemoveEffects
  <2>5. QED
    BY <2>1, <2>2, <2>3, <2>4, ListCallKeepsLists DEF r
<1>14. ASSUME NEW flag \in Flags \cup {None}, AddFunctionFlag(b, flag)
      PROVE  ListsInv'
  <2> DEFINE d == IF flag = None THEN c ELSE [c EXCEPT !.flags = <<flag>> \o @]
             r == [call |-> "addFunctionFlag", arg |-> flag, ret |-> None]
  <2>1. /\ \A stage \in Stages : d[stage] = c[stage]
        /\ d.flags = IF flag = None THEN c.flags ELSE <<flag>> \o c.flags
    BY <1>1 DEF FieldNames, Stages
  <2>2. Ask(b, "addFunctionFlag", flag, None, d) /\ flag \in Args
    BY <1>14 DEF AddFunctionFlag, Args, Flags
  <2>3. FlagEffect(c.flags, d.flags, r)
    BY <2>1 DEF FlagEffect, IsFlag
  <2> HIDE DEF d
  <2>4. QED
    BY <2>1, <2>2, <2>3, QuietCallKeepsLists
<1>15. ASSUME NEW w \in Words, AddDefine(b, w, w)
      PROVE  ListsInv'
  BY <1>14, <1>15 DEF AddDefine, Flags
<1>16. ASSUME NEW n \in FnNames \cup {None}, AddFunctionName(b, n)
      PROVE  ListsInv'
  <2>1. CASE n = None
    <3>1. Ask(b, "addFunctionName", n, None, c) /\ n \in Args
      BY <1>16, <2>1 DEF AddFunctionName, Args
    <3>2. FlagEffect(c.flags, c.flags,
                     [call |-> "addFunctionName", arg |-> n, ret |-> None])
      BY DEF FlagEffect, IsFlag
    <3>3. QED
      BY <3>1, <3>2, QuietCallKeepsLists
  <2>2. CASE n # None
    <3> DEFINE d == [c EXCEPT !.names = Append(@, n)]
               m == Len(c.names)
    <3>1. /\ \A stage \in Stages : d[stage] = c[stage]
          /\ FlagEffect(c.flags, d.flags,
                        [call |-> "addFunctionName", arg |-> n, ret |-> m])
      BY <1>1 DEF FieldNames, Stages, FlagEffect, IsFlag
    <3>2. Ask(b, "addFunctionName", n, m, d) /\ n \in Args
      BY <1>16, <2>2 DEF AddFunctionName, Args
    <3>3. m \in Nat
      BY LenProperties DEF IInv, GoodBuilders, GoodFields
    <3> HIDE DEF d, m
    <3>4. QED
      BY <3>1, <3>2, <3>3, QuietCallKeepsLists
  <2>3. QED
    BY <2>1, <2>2
<1>17. ASSUME NEW enable \in BOOLEAN, SetAutoremove(b, enable)
      PROVE  ListsInv'
  <2>1. /\ base' = base /\ asked' = asked /\ built' = built
        /\ DOMAIN conf = Builders /\ conf' = [conf EXCEPT ![b].auto = enable]
    BY <1>17 DEF SetAutoremove, versionVars, IInv, Shapes
  <2>2. /\ \A stage \in Stages : [c EXCEPT !.auto = enable][stage] = c[stage]
        /\ [c EXCEPT !.auto = enable].flags = c.flags
    BY <1>1 DEF FieldNames, Stages
  <2>3. ASSUME NEW a \in Builders
        PROVE  /\ \A stage \in Stages : conf'[a][stage] = conf[a][stage]
               /\ conf'[a].flags = conf[a].flags
    BY <2>1, <2>2
  <2>4. BuilderLists'
    BY <2>1, <2>3 DEF ListsInv, BuilderLists, ListsOf
  <2>5. QED
    BY <2>1, <2>4 DEF ListsInv, VersionLists, Exists
<1>18. QED
  BY <1>3, <1>4, <1>5, <1>6, <1>7, <1>8, <1>9, <1>10, <1>11, <1>12, <1>13,
     <1>14, <1>15, <1>16, <1>17 DEF Configure, Flags

-----------------------------------------------------------------------------
\* A builder that starts again, from fields without flags.
LEMMA FreshKeepsLists ==
    ASSUME IInv, ListsInv, NEW b \in Builders, NEW fields,
           \A stage \in Stages : fields[stage] \in Seq(Options),
           fields.flags = <<>>,
           conf' = [conf EXCEPT ![b] = fields],
           base' = [base EXCEPT ![b] = fields],
           asked' = [asked EXCEPT ![b] = <<>>],
           built' = built
    PROVE  ListsInv'
<1>1. ListsOf(fields, fields, <<>>)
  BY FreshLists
<1>2. DOMAIN conf = Builders /\ DOMAIN asked = Builders /\ DOMAIN base = Builders
  BY DEF IInv, Shapes
<1>3. ASSUME NEW a \in Builders
      PROVE  ListsOf(conf'[a], base'[a], asked'[a])
  <2>1. CASE a = b
    BY <1>1, <1>2, <2>1
  <2>2. CASE a # b
    BY <1>2, <2>2 DEF ListsInv, BuilderLists
  <2>3. QED
    BY <2>1, <2>2
<1>4. VersionLists'
  BY DEF ListsInv, VersionLists, Exists
<1>5. QED
  BY <1>3, <1>4 DEF ListsInv, BuilderLists

LEMMA ClearedLists ==
    /\ \A stage \in Stages : Cleared[stage] \in Seq(Options)
    /\ Cleared.flags = <<>>
<1>1. <<>> \in Seq(Options)
  OBVIOUS
<1>2. QED
  BY <1>1 DEF Cleared, Stages

\* build() puts the flags of the builder in front, in the order of the calls.
LEMMA DefinesInOrder ==
    ASSUME NEW h \in Seq(Requests), NEW flags, FlagsAsked(flags, h),
           NEW stage, stage # "opt"
    PROVE  /\ Defines(h, stage)
                = Reverse([i \in DOMAIN flags |-> Define(flags[i])])
           /\ Defines(h, stage) \in Seq(Options)
<1> DEFINE given == Only(h, FlagRequests)
           m == Len(flags)
           defines == [i \in DOMAIN flags |-> Define(flags[i])]
<1>1. /\ flags \in Seq(Flags) /\ m = Len(given)
      /\ \A i \in 1 .. m : flags[i] = given[m + 1 - i].arg
  BY DEF FlagsAsked
<1>2. given \in Seq(Requests) /\ DOMAIN given = 1 .. Len(given)
  BY OnlyIsSeq, LenProperties
<1>3. m \in Nat /\ DOMAIN flags = 1 .. m
  BY <1>1, LenProperties
<1>4. {j \in DOMAIN h : h[j].call = "addFunctionFlag" /\ h[j].arg # None}
        = {j \in DOMAIN h : h[j] \in FlagRequests}
  BY DEF FlagRequests, IsFlag
<1>5. Defines(h, stage) = [i \in DOMAIN given |-> Define(given[i].arg)]
  BY <1>4 DEF Defines, Only
<1> HIDE DEF given, m
<1>6. defines = [i \in 1 .. m |-> Define(flags[i])] /\ Len(defines) = m
  BY <1>3
<1>7. Reverse(defines) = [i \in 1 .. m |-> defines[(m - i) + 1]]
  BY <1>6 DEF Reverse
<1>8. ASSUME NEW i \in 1 .. m
      PROVE  /\ (m - i) + 1 \in 1 .. m
             /\ defines[(m - i) + 1] = Define(given[i].arg)
  <2>1. (m - i) + 1 \in 1 .. m /\ m + 1 - ((m - i) + 1) = i
    BY <1>3
  <2>2. flags[(m - i) + 1] = given[i].arg
    BY <1>1, <2>1
  <2>3. QED
    BY <1>6, <2>1, <2>2
<1>9. Defines(h, stage) = [i \in 1 .. m |-> Define(given[i].arg)]
  BY <1>1, <1>2, <1>5
<1>10. Defines(h, stage) = Reverse(defines)
  BY <1>7, <1>8, <1>9
<1>11. ASSUME NEW i \in 1 .. m PROVE Define(given[i].arg) \in Options
  <2>1. flags[(m - i) + 1] \in Flags
    BY <1>1, <1>3, <1>8
  <2>2. defines[(m - i) + 1] = Define(flags[(m - i) + 1])
    BY <1>6, <1>8
  <2>3. QED
    BY <1>8, <2>1, <2>2, OptionTypes
<1>12. Defines(h, stage) \in Seq(Options)
  BY <1>3, <1>9, <1>11
<1>13. QED
  BY <1>10, <1>12

\* The flags and a traced list behind them are the list as asked.
LEMMA TracedAsAsked ==
    ASSUME NEW start, NEW h, NEW stage, NEW list,
           Traced(list, start, h, stage), NEW new,
           Defines(h, stage) \in Seq(Options), new = Defines(h, stage) \o list
    PROVE  new \in Seq(Options) /\ AsAsked(new, start, h, stage)
<1> DEFINE flags == Defines(h, stage)
           all == Remaining(start, h, stage)
           turn(p) == Cardinality({q \in all : NotAfter(q, p)})
<1>1. /\ Cardinality(all) = Len(list)
      /\ \A p \in all : /\ turn(p) \in 1 .. Len(list)
                        /\ list[turn(p)] = OptionAt(start, h, stage, p)
  BY TracedTurns
<1>2. list \in Seq(Options) /\ flags \in Seq(Options)
  BY DEF Traced
<1> HIDE DEF flags, all, turn
<1>3. new = flags \o list
  BY DEF flags
<1>4. /\ new \in Seq(Options) /\ Len(new) = Len(flags) + Len(list)
      /\ \A i \in 1 .. Len(flags) + Len(list) : new[i]
            = IF i <= Len(flags) THEN flags[i] ELSE list[i - Len(flags)]
  <2>1. flags \o list \in Seq(Options)
    BY <1>2, ConcatProperties
  <2>2. Len(flags \o list) = Len(flags) + Len(list)
    BY <1>2, ConcatProperties
  <2>3. \A i \in 1 .. Len(flags) + Len(list) : (flags \o list)[i]
            = IF i <= Len(flags) THEN flags[i] ELSE list[i - Len(flags)]
    BY <1>2, ConcatProperties
  <2>4. QED
    BY <1>3, <2>1, <2>2, <2>3
<1>5. /\ Len(flags) \in Nat /\ DOMAIN flags = 1 .. Len(flags)
      /\ Len(list) \in Nat
  BY <1>2, LenProperties
<1>6. \A n \in DOMAIN flags : new[n] = flags[n]
  BY <1>4, <1>5
<1>7. ASSUME NEW p \in all
      PROVE  new[Len(flags) + turn(p)] = Source(start, h, stage, p[1])[p[2]]
  <2>1. turn(p) \in 1 .. Len(list) /\ list[turn(p)] = OptionAt(start, h, stage, p)
    BY <1>1
  <2>2. /\ Len(flags) + turn(p) \in 1 .. Len(flags) + Len(list)
        /\ ~(Len(flags) + turn(p) <= Len(flags))
        /\ (Len(flags) + turn(p)) - Len(flags) = turn(p)
    BY <1>5, <2>1
  <2>3. new[Len(flags) + turn(p)] = list[turn(p)]
    BY <1>4, <2>2
  <2>4. QED
    BY <2>1, <2>3 DEF OptionAt
<1>8. Len(new) = Len(flags) + Cardinality(all)
  BY <1>1, <1>4
<1>9. AsAsked(new, start, h, stage)
  BY <1>6, <1>7, <1>8 DEF AsAsked, flags, all, turn
<1>10. QED
  BY <1>4, <1>9

LEMMA VersionAsAsked ==
    ASSUME NEW c, DOMAIN c = FieldNames, NEW start, NEW h \in Seq(Requests),
           ListsOf(c, start, h), NEW stage \in Stages
    PROVE  /\ WithFlags(c)[stage] \in Seq(Options)
           /\ AsAsked(WithFlags(c)[stage], start, h, stage)
<1> DEFINE defines == Reverse([i \in DOMAIN c.flags |-> Define(c.flags[i])])
<1>1. Traced(c[stage], start, h, stage) /\ FlagsAsked(c.flags, h)
  BY DEF ListsOf
<1>2. /\ WithFlags(c).options = defines \o c.options
      /\ WithFlags(c).genIR = defines \o c.genIR
      /\ WithFlags(c).opt = c.opt
  BY DEF WithFlags, FieldNames
<1>3. CASE stage = "opt"
  <2>1. Defines(h, stage) = <<>> /\ <<>> \in Seq(Options)
    BY <1>3 DEF Defines
  <2>2. WithFlags(c)[stage] = <<>> \o c[stage]
    BY <1>1, <1>2, <1>3, ConcatEmptySeq DEF Traced
  <2>3. QED
    BY <1>1, <2>1, <2>2, TracedAsAsked
<1>4. CASE stage # "opt"
  <2>1. Defines(h, stage) = defines /\ Defines(h, stage) \in Seq(Options)
    BY <1>1, <1>4, DefinesInOrder
  <2>2. stage = "options" \/ stage = "genIR"
    BY <1>4 DEF Stages
  <2> HIDE DEF defines
  <2>3. WithFlags(c)[stage] = defines \o c[stage]
    BY <1>2, <2>2
  <2>4. QED
    BY <1>1, <2>1, <2>3, TracedAsAsked
<1>5. QED
  BY <1>3, <1>4

LEMMA NewVersionKeepsLists ==
    ASSUME IInv, ListsInv, NEW v \in Versions, NEW fields, NEW given, NEW start,
           NEW h \in Seq(Requests), ListsOf(fields, start, h),
           DOMAIN fields = FieldNames,
           NewVersion(v, fields, given, start, h),
           UNCHANGED <<conf, base, asked>>
    PROVE  ListsInv'
<1>1. BuilderLists'
  BY DEF ListsInv, BuilderLists
<1>2. ASSUME NEW w \in Versions, Exists(w)', NEW stage \in Stages
      PROVE  /\ built'[w].fields[stage] \in Seq(Options)
             /\ AsAsked(built'[w].fields[stage], built'[w].base,
                        built'[w].asked, stage)
  <2>1. CASE w = v
    <3>1. /\ built'[w].fields = WithFlags(fields) /\ built'[w].base = start
          /\ built'[w].asked = h
      BY <2>1 DEF NewVersion
    <3>2. QED
      BY <3>1, VersionAsAsked
  <2>2. CASE w # v
    <3>1. Exists(w) /\ built'[w] = built[w]
      BY <1>2, <2>2 DEF NewVersion, Exists
    <3>2. QED
      BY <3>1 DEF ListsInv, VersionLists
  <2>3. QED
    BY <2>1, <2>2
<1>3. VersionLists'
  BY <1>2 DEF VersionLists
<1>4. QED
  BY <1>1, <1>3 DEF ListsInv

LEMMA InitLists == Init => ListsInv
<1> SUFFICES ASSUME Init PROVE ListsInv
  OBVIOUS
<1>1. ListsOf(Cleared, Cleared, <<>>)
  BY ClearedLists, FreshLists
<1>2. BuilderLists
  BY <1>1 DEF Init, BuilderLists
<1>3. VersionLists
  BY DEF Init, VersionLists, Exists
<1>4. QED
  BY <1>2, <1>3 DEF ListsInv

LEMMA NextLists == IInv /\ ListsInv /\ [Next]_vars => ListsInv'
<1> SUFFICES ASSUME IInv, ListsInv, [Next]_vars PROVE ListsInv'
  OBVIOUS
<1>1. ASSUME NEW b \in Builders, ConstructDefault(b) \/ Reset(b) \/ Destroy(b)
      PROVE  ListsInv'
  BY <1>1, ClearedLists, FreshKeepsLists
  DEF ConstructDefault, Reset, Destroy, Start, Keep, versionVars
<1>2. ASSUME NEW b \in Builders, ConstructMandatory(b)
      PROVE  ListsInv'
  <2>1. PICK s \in Words, c \in Words, n \in FnNames, memory \in BOOLEAN :
          Start(b, [Cleared EXCEPT !.src = <<s>>, !.names = <<n>>,
                                   !.compiler = c, !.auto = memory], "unset")
    BY <1>2 DEF ConstructMandatory
  <2> DEFINE fields == [Cleared EXCEPT !.src = <<s>>, !.names = <<n>>,
                                       !.compiler = c, !.auto = memory]
  <2>2. /\ \A stage \in Stages : fields[stage] = Cleared[stage]
        /\ fields.flags = Cleared.flags
    BY DEF Cleared, Stages
  <2>3. Start(b, fields, "unset") /\ built' = built
    BY <1>2, <2>1 DEF ConstructMandatory, versionVars
  <2> HIDE DEF fields
  <2>4. QED
    BY <2>2, <2>3, ClearedLists, FreshKeepsLists DEF Start
<1>3. ASSUME NEW b \in Builders, NEW v \in Versions, ConstructFrom(b, v)
      PROVE  ListsInv'
  <2>1. /\ Exists(v) /\ DOMAIN built[v].fields = FieldNames
        /\ \A stage \in Stages : built[v].fields[stage] \in Seq(Options)
    BY <1>3 DEF ConstructFrom, IInv, GoodVersions, GoodFields, ListsInv,
                VersionLists
  <2>2. /\ \A stage \in Stages : Cloned(v)[stage] = built[v].fields[stage]
        /\ Cloned(v).flags = <<>>
    BY <2>1 DEF Cloned, FieldNames, Stages
  <2>3. Start(b, Cloned(v), built[v].removal) /\ built' = built
    BY <1>3 DEF ConstructFrom, Keep
  <2>4. QED
    BY <2>1, <2>2, <2>3, FreshKeepsLists DEF Start
<1>4. ASSUME NEW b \in Builders, NEW v \in Versions, Build(b, v)
      PROVE  ListsInv'
  <2>1. /\ asked[b] \in Seq(Requests) /\ DOMAIN conf[b] = FieldNames
        /\ ListsOf(conf[b], base[b], asked[b])
    BY DEF IInv, GoodBuilders, GoodFields, ListsInv, BuilderLists
  <2>2. QED
    BY <1>4, <2>1, NewVersionKeepsLists DEF Build
<1>5. ASSUME NEW v \in Versions, CreateVersion(v)
      PROVE  ListsInv'
  <2>1. PICK s \in Words, c \in Words \cup {None}, n \in FnNames,
             l \in OptionLists :
          LET fields == [Cleared EXCEPT !.src = <<s>>, !.names = <<n>>,
                                        !.compiler = c, !.options = l]
          IN  NewVersion(v, fields, "remove", fields, <<>>)
    BY <1>5 DEF CreateVersion
  <2> DEFINE fields == [Cleared EXCEPT !.src = <<s>>, !.names = <<n>>,
                                       !.compiler = c, !.options = l]
  <2>2. /\ DOMAIN fields = FieldNames /\ fields.flags = <<>>
        /\ fields.options = l /\ fields.genIR = <<>> /\ fields.opt = <<>>
    BY DEF Cleared, FieldNames
  <2>3. NewVersion(v, fields, "remove", fields, <<>>)
    BY <2>1
  <2> HIDE DEF fields
  <2>4. l \in Seq(Options) /\ <<>> \in Seq(Options) /\ <<>> \in Seq(Requests)
    BY OptionTypes
  <2>5. \A stage \in Stages : fields[stage] \in Seq(Options)
    BY <2>2, <2>4 DEF Stages
  <2>6. ListsOf(fields, fields, <<>>)
    BY <2>2, <2>5, FreshLists
  <2>7. UNCHANGED <<conf, base, asked>>
    BY <1>5 DEF CreateVersion, builderVars
  <2>8. QED
    BY <2>2, <2>3, <2>4, <2>6, <2>7, NewVersionKeepsLists
<1>6. ASSUME UNCHANGED <<conf, base, asked, built>>
      PROVE  ListsInv'
  BY <1>6 DEF ListsInv, BuilderLists, VersionLists, Exists
<1>7. ASSUME NEW v \in Versions, Drop(v)
      PROVE  ListsInv'
  BY <1>6, <1>7 DEF Drop, builderVars
<1>8. CASE UNCHANGED vars
  BY <1>6, <1>8 DEF vars, builderVars, versionVars
<1>9. QED
  BY <1>1, <1>2, <1>3, <1>4, <1>5, <1>7, <1>8, ConfigureKeepsLists DEF Next

(***************************************************************************)
(* The lists of every builder, and of every Version, are traced to the     *)
(* calls: the inductive invariant under BuiltAsAsked.                      *)
(***************************************************************************)
THEOREM ListsInvariance == Spec => []ListsInv
<1>1. IInv /\ ListsInv /\ [Next]_vars => ListsInv'
  BY NextLists
<1>2. QED
  BY InitLists, Invariance, <1>1, PTL DEF Spec

(***************************************************************************)
(* A Version has the options its builder was asked for, the flags in front *)
(* (Version.cpp:350, :414-460).                                            *)
(***************************************************************************)
THEOREM OptionsAreAsAsked == Spec => []BuiltAsAsked
<1>1. ListsInv => BuiltAsAsked
  BY DEF ListsInv, VersionLists, BuiltAsAsked
<1>2. QED
  BY <1>1, ListsInvariance, PTL
=============================================================================
