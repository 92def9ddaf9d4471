------------------------------ MODULE Builder ------------------------------
(***************************************************************************)
(* Version::Builder (lib/Version.cpp, Version.hpp): a program constructs   *)
(* builders, configures them call by call, and builds Versions from them;  *)
(* a builder is used again after build(), is reset, or is cloned from a    *)
(* Version that was built.                                                 *)
(*                                                                         *)
(* A step is one call on one builder, or the program dropping a reference. *)
(* A Version copies the lists of its builder and keeps them; what a call   *)
(* on the Version does is the subject of Version.tla.  An option is its    *)
(* tag and its value (the prefix goes with the tag).                       *)
(***************************************************************************)
EXTENDS Integers, SequencesExt, Selection

CONSTANTS
    Builders,    \* the builder objects of a program
    Versions,    \* the Versions it may build
    FnNames,     \* names of functions
    Words,       \* flags, directories, tags, sources, compilers
    OptionLists, \* the lists given to options, genIRoptions and optOptions
    OptionTags,  \* the tags options are removed by
    None,        \* nullptr, the empty string, and SIZE_MAX as an index
    MaxCalls     \* bound: how many configuring calls a program makes

Stages == {"options", "genIR", "opt"}

\* What a program can have said: files go, they stay, or nothing.
Removals == {"remove", "keep", "unset"}
Said(enable) == IF enable THEN "remove" ELSE "keep"

ASSUME BuilderAssumption ==
    /\ None \notin Versions \cup FnNames \cup Words \cup Nat
    /\ \A l \in OptionLists :
         Len(l) \in Nat /\ l = [i \in 1 .. Len(l) |-> l[i]]
    /\ MaxCalls \in Nat

Define(flag) == <<"enable_define", flag>>
IncludeDir(path) == <<"includeDir", path>>
LinkDir(path) == <<"linkDir", path>>
TagOf(option) == option[1]

\* _compiler, _functionName, _fileName_src, _tags, the three option lists,
\* _flagDefineList and _autoremoveFilesEnable.
Cleared ==
    [compiler |-> None, names |-> <<>>, src |-> <<>>, tags |-> <<>>,
     options |-> <<>>, genIR |-> <<>>, opt |-> <<>>, flags |-> <<>>,
     auto |-> TRUE]

VARIABLES
    live,        \* the builders that exist
    conf,        \* the fields of each builder
    kept,        \* Version::Builder::_version_ptr
    base,        \* history: the fields a builder was constructed or reset with
    asked,       \* history: the configuring calls since
    removal,     \* history: what was last said about the removal of files
    built,       \* for each Version: its fields, and the history of its builder
    held,        \* the Versions the program holds a pointer to
    calls        \* how many configuring calls the program made

builderVars == <<live, conf, kept, base, asked, removal>>
versionVars == <<built, held>>
vars == <<builderVars, versionVars, calls>>

Live(b) == b \in live
Exists(v) == v \in DOMAIN built

\* The use count of its shared_ptr is not zero.
Alive(v) == v \in held \/ \E b \in Builders : kept[b] = v

Init ==
    /\ live = {}
    /\ conf = [b \in Builders |-> Cleared]
    /\ kept = [b \in Builders |-> None]
    /\ base = [b \in Builders |-> Cleared]
    /\ asked = [b \in Builders |-> <<>>]
    /\ removal = [b \in Builders |-> "remove"]
    /\ built = [v \in {} |-> Cleared]
    /\ held = {}
    /\ calls = 0

-----------------------------------------------------------------------------
(* Shared pointers to Versions: the program's, and _version_ptr.           *)

\* The program lets go of a Version.
Drop(v) ==
    /\ v \in held
    /\ held' = held \ {v}
    /\ UNCHANGED <<builderVars, built, calls>>

\* _version_ptr is overwritten.
Keep(b, v) ==
    /\ kept' = [kept EXCEPT ![b] = v]
    /\ UNCHANGED <<built, held>>

-----------------------------------------------------------------------------
(* The constructors, reset and the destructor.                             *)

Start(b, fields, given) ==
    /\ live' = live \cup {b}
    /\ conf' = [conf EXCEPT ![b] = fields]
    /\ base' = [base EXCEPT ![b] = fields]
    /\ asked' = [asked EXCEPT ![b] = <<>>]
    /\ removal' = [removal EXCEPT ![b] = given]
    /\ UNCHANGED calls

ConstructDefault(b) ==
    /\ ~Live(b)
    /\ Start(b, Cleared, "remove")
    /\ UNCHANGED <<kept, versionVars>>

\* Both constructors that take the mandatory parameters: they set no
\* _autoremoveFilesEnable, which keeps whatever the memory held.
ConstructMandatory(b) ==
    /\ ~Live(b)
    /\ \E s, c \in Words, n \in FnNames, memory \in BOOLEAN :
         Start(b, [Cleared EXCEPT !.src = <<s>>, !.names = <<n>>,
                                  !.compiler = c, !.auto = memory], "unset")
    /\ UNCHANGED <<kept, versionVars>>

\* The flags of the Version are in its option lists; its tags are not copied.
Cloned(v) == [built[v].fields EXCEPT !.tags = <<>>, !.flags = <<>>]

\* Constructed, or assigned over a builder that lives.
ConstructFrom(b, v) ==
    /\ Exists(v) /\ v \in held
    /\ Start(b, Cloned(v), built[v].removal)
    /\ Keep(b, None)

ResetStillKeeping(b) ==
    /\ Live(b)
    /\ Start(b, Cleared, "remove")
    /\ UNCHANGED <<kept, versionVars>>

ResetLeavingRemoval(b) ==
    /\ Live(b)
    /\ Start(b, [Cleared EXCEPT !.auto = conf[b].auto], "remove")
    /\ Keep(b, None)

Reset(b) ==
    /\ Live(b)
    /\ Start(b, Cleared, "remove")
    /\ Keep(b, None)

Destroy(b) ==
    /\ Live(b)
    /\ live' = live \ {b}
    /\ conf' = [conf EXCEPT ![b] = Cleared]
    /\ base' = [base EXCEPT ![b] = Cleared]
    /\ asked' = [asked EXCEPT ![b] = <<>>]
    /\ removal' = [removal EXCEPT ![b] = "remove"]
    /\ Keep(b, None)
    /\ UNCHANGED calls

-----------------------------------------------------------------------------
(* The configuring calls.                                                  *)

\* The call with its argument, what it returned, and the fields it left.
Ask(b, call, arg, ret, fields) ==
    /\ Live(b) /\ calls < MaxCalls
    /\ conf' = [conf EXCEPT ![b] = fields]
    /\ asked' = [asked EXCEPT ![b] =
                   Append(@, [call |-> call, arg |-> arg, ret |-> ret])]
    /\ calls' = calls + 1
    /\ UNCHANGED <<live, kept, base, removal, versionVars>>

AddSourceFile(b, s) ==
    Ask(b, "addSourceFile", s, None, [conf[b] EXCEPT !.src = Append(@, s)])

AddTag(b, t) ==
    Ask(b, "addTag", t, None, [conf[b] EXCEPT !.tags = Append(@, t)])

SetCompiler(b, c) ==
    Ask(b, "setCompiler", c, None, [conf[b] EXCEPT !.compiler = c])

AddIncludeDir(b, p) ==
    Ask(b, "addIncludeDir", p, None,
        [conf[b] EXCEPT !.genIR = Append(@, IncludeDir(p)),
                        !.options = Append(@, IncludeDir(p))])

AddLinkingDir(b, p) ==
    Ask(b, "addLinkingDir", p, None,
        [conf[b] EXCEPT !.options = Append(@, LinkDir(p))])

SetOptions(b, l) ==
    Ask(b, "options", l, None, [conf[b] EXCEPT !.options = l])

SetGenIROptions(b, l) ==
    Ask(b, "genIRoptions", l, None, [conf[b] EXCEPT !.genIR = l])

SetOptOptions(b, l) ==
    Ask(b, "optOptions", l, None, [conf[b] EXCEPT !.opt = l])

Without(l, tag) == Picked(l, {i \in DOMAIN l : TagOf(l[i]) # tag})

RemoveOption(b, tag) ==
    Ask(b, "removeOption", tag, None,
        [conf[b] EXCEPT !.options = Without(@, tag)])

RemoveOptOption(b, tag) ==
    Ask(b, "removeOptOption", tag, None,
        [conf[b] EXCEPT !.opt = Without(@, tag)])

RemoveGenIROption(b, tag) ==
    Ask(b, "removeGenIROption", tag, None,
        [conf[b] EXCEPT !.genIR = Without(@, tag)])

\* An empty flag is ignored.
AddFunctionFlag(b, flag) ==
    Ask(b, "addFunctionFlag", flag, None,
        IF flag = None THEN conf[b]
        ELSE [conf[b] EXCEPT !.flags = <<flag>> \o @])

\* The flag "name=value", never empty.
AddDefine(b, name, value) == AddFunctionFlag(b, <<name, value>>)

\* In front of the names, as the flags are.
AddFunctionNameInFront(b, n) ==
    IF n = None
    THEN Ask(b, "addFunctionName", n, None, conf[b])
    ELSE Ask(b, "addFunctionName", n, 0, [conf[b] EXCEPT !.names = <<n>> \o @])

\* The index of the name that was added, or size_t(-1).
AddFunctionName(b, n) ==
    IF n = None
    THEN Ask(b, "addFunctionName", n, None, conf[b])
    ELSE Ask(b, "addFunctionName", n, Len(conf[b].names),
             [conf[b] EXCEPT !.names = Append(@, n)])

\* The program assigns the public field _autoremoveFilesEnable.
SetAutoremove(b, enable) ==
    /\ Live(b) /\ calls < MaxCalls
    /\ conf' = [conf EXCEPT ![b].auto = enable]
    /\ removal' = [removal EXCEPT ![b] = Said(enable)]
    /\ calls' = calls + 1
    /\ UNCHANGED <<live, kept, base, asked, versionVars>>

Configure(b) ==
    \/ \E enable \in BOOLEAN : SetAutoremove(b, enable)
    \/ \E w \in Words :
         \/ AddSourceFile(b, w) \/ AddTag(b, w) \/ SetCompiler(b, w)
         \/ AddIncludeDir(b, w) \/ AddLinkingDir(b, w)
         \/ AddDefine(b, w, w)
    \/ \E l \in OptionLists :
         SetOptions(b, l) \/ SetGenIROptions(b, l) \/ SetOptOptions(b, l)
    \/ \E tag \in OptionTags :
         \/ RemoveOption(b, tag) \/ RemoveOptOption(b, tag)
         \/ RemoveGenIROption(b, tag)
    \/ \E flag \in Words \cup {None} : AddFunctionFlag(b, flag)
    \/ \E n \in FnNames \cup {None} : AddFunctionName(b, n)

-----------------------------------------------------------------------------
(* build().                                                                *)

FlagsOnTop(c) ==
    LET defines == [i \in DOMAIN c.flags |-> Define(c.flags[i])]
    IN  [c EXCEPT !.options = defines \o @, !.genIR = defines \o @]

\* Each flag, from the latest to the first, is pushed to the front of both
\* lists; the builder keeps its flags.
WithFlags(c) ==
    LET defines == Reverse([i \in DOMAIN c.flags |-> Define(c.flags[i])])
    IN  [c EXCEPT !.options = defines \o @, !.genIR = defines \o @]

\* The program gets a new Version.
NewVersion(v, fields, given, start, requests) ==
    /\ ~Exists(v)
    /\ built' = [w \in DOMAIN built \cup {v} |->
                   IF w = v
                   THEN [fields |-> WithFlags(fields), removal |-> given,
                         base |-> start, asked |-> requests]
                   ELSE built[w]]
    /\ held' = held \cup {v}

\* _version_ptr and the pointer the program gets share the new Version; the
\* one built before loses a reference.
Build(b, v) ==
    /\ Live(b)
    /\ NewVersion(v, conf[b], removal[b], base[b], asked[b])
    /\ kept' = [kept EXCEPT ![b] = v]
    /\ UNCHANGED <<live, conf, base, asked, removal, calls>>

\* createVersion of Utils.hpp and JITUtils.hpp: a default builder whose fields
\* are set, and which is gone when the call returns.
CreateVersion(v) ==
    /\ \E s \in Words, c \in Words \cup {None}, n \in FnNames, l \in OptionLists :
         LET fields == [Cleared EXCEPT !.src = <<s>>, !.names = <<n>>,
                                       !.compiler = c, !.options = l]
         IN  NewVersion(v, fields, "remove", fields, <<>>)
    /\ UNCHANGED <<builderVars, calls>>

Next ==
    \/ \E b \in Builders :
         \/ ConstructDefault(b) \/ ConstructMandatory(b)
         \/ Reset(b) \/ Destroy(b) \/ Configure(b)
         \/ \E v \in Versions : ConstructFrom(b, v) \/ Build(b, v)
    \/ \E v \in Versions : CreateVersion(v) \/ Drop(v)

Spec == Init /\ [][Next]_vars

-----------------------------------------------------------------------------
(* Properties.                                                             *)

TypeOK ==
    /\ DOMAIN conf = Builders /\ DOMAIN kept = Builders
    /\ DOMAIN asked = Builders /\ DOMAIN base = Builders
    /\ \A b \in Builders : kept[b] \in Versions \cup {None}
    /\ \A b \in Builders :
         Live(b) => /\ conf[b].names \in Seq(FnNames)
                    /\ conf[b].auto \in BOOLEAN
    /\ held \subseteq {v \in Versions : Exists(v)}
    /\ calls \in 0 .. MaxCalls

\* Every index that was returned for a name is where the name is.
IndexesName(requests, names) ==
    \A j \in DOMAIN requests :
        requests[j].call = "addFunctionName" /\ requests[j].ret # None =>
            /\ requests[j].ret + 1 \in DOMAIN names
            /\ names[requests[j].ret + 1] = requests[j].arg

\* t is s and perhaps more.
Continues(t, s) ==
    /\ Len(s) <= Len(t)
    /\ \A i \in 1 .. Len(s) : t[i] = s[i]

(***************************************************************************)
(* "Returns the symbol index" (Version.hpp:313): the index addFunctionName *)
(* returned designates the name in every Version the builder builds until  *)
(* it is reset or assigned anew, whatever names follow, and so in          *)
(* getSymbol(index); and the functions a builder started with, those of    *)
(* the Version it was cloned from, have in its Versions the index they had *)
(* there.                                                                  *)
(***************************************************************************)
IndexNamesFunction ==
    \A v \in Versions : Exists(v) =>
        /\ IndexesName(built[v].asked, built[v].fields.names)
        /\ Continues(built[v].fields.names, built[v].base.names)

(***************************************************************************)
(* A Version the program dropped lives on (its library open, its files on  *)
(* disk) only in a live builder that has not been reset since it built the *)
(* Version: reset and destruction let go of it (Version.cpp:336,365).      *)
(***************************************************************************)
LingersOnlyInBuilder ==
    \A v \in Versions : Exists(v) /\ Alive(v) /\ v \notin held =>
        \E b \in Builders :
            /\ Live(b) /\ kept[b] = v
            /\ built[v].base = base[b]
            /\ Continues(asked[b], built[v].asked)

(***************************************************************************)
(* "Remove compiled files from disk when Version object is freed"          *)
(* (Version.hpp:383): a Version removes its files, or leaves them, as the  *)
(* last assignment to the flag said, or since then a reset or a default    *)
(* constructor (TRUE), or the Version the builder was cloned from.  Only   *)
(* where nothing was said, after a constructor with the mandatory          *)
(* parameters (Version.cpp:313,324), may it do either.                     *)
(***************************************************************************)
RemovalAsConfigured ==
    \A v \in Versions :
        Exists(v) /\ built[v].removal # "unset" =>
            Said(built[v].fields.auto) = built[v].removal
=============================================================================
