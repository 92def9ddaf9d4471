------------------------- MODULE PassPipelineProofs -------------------------
(***************************************************************************)
(* Proofs about PassPipeline, for any levels, passes, command lines and    *)
(* number of calls.                                                        *)
(*                                                                         *)
(* What each turn of the loop preserves comes first: a level is either     *)
(* still on or in the pipeline, where it is once, and a pass has its       *)
(* verifier behind it.  Then the order.  A sequence is Arranged as a line  *)
(* asks at some positions when they can be counted along it so that each   *)
(* precedes the next; the turn of a pass appends the levels of the         *)
(* Stretch before it and the pass, and all that precedes them is there.    *)
(***************************************************************************)
EXTENDS PassPipelineReference, SelectionProofs

Items == LevelNames \cup Passes \cup {Verify}

Absent(s, x) == \A i \in DOMAIN s : s[i] # x

Once(s, x) == \E i \in DOMAIN s : \A j \in DOMAIN s : s[j] = x <=> j = i

-----------------------------------------------------------------------------
(* Sequences that are put together.                                        *)

\* Where the elements of a concatenation come from.
LEMMA Joined ==
    ASSUME NEW S, NEW s \in Seq(S), NEW t \in Seq(S)
    PROVE  /\ s \o t \in Seq(S) /\ Len(s) \in Nat /\ Len(t) \in Nat
           /\ DOMAIN s = 1 .. Len(s) /\ DOMAIN t = 1 .. Len(t)
           /\ DOMAIN (s \o t) = 1 .. Len(s) + Len(t)
           /\ \A i \in DOMAIN s : i \in DOMAIN (s \o t) /\ (s \o t)[i] = s[i]
           /\ \A i \in DOMAIN t : /\ Len(s) + i \in DOMAIN (s \o t)
                                  /\ (s \o t)[Len(s) + i] = t[i]
           /\ \A k \in DOMAIN (s \o t) :
                \/ k \in DOMAIN s
                \/ k - Len(s) \in DOMAIN t /\ k = Len(s) + (k - Len(s))
<1>1. /\ s \o t \in Seq(S) /\ Len(s \o t) = Len(s) + Len(t)
      /\ \A i \in 1 .. Len(s) + Len(t) :
           (s \o t)[i] = IF i <= Len(s) THEN s[i] ELSE t[i - Len(s)]
  BY ConcatProperties
<1>2. /\ Len(s) \in Nat /\ DOMAIN s = 1 .. Len(s)
      /\ Len(t) \in Nat /\ DOMAIN t = 1 .. Len(t)
      /\ DOMAIN (s \o t) = 1 .. Len(s) + Len(t)
  BY <1>1
<1>3. ASSUME NEW i \in DOMAIN t
      PROVE  /\ Len(s) + i \in DOMAIN (s \o t)
             /\ (s \o t)[Len(s) + i] = t[i]
  <2>1. Len(s) + i \in 1 .. Len(s) + Len(t) /\ ~(Len(s) + i <= Len(s))
        /\ (Len(s) + i) - Len(s) = i
    BY <1>2
  <2>2. QED
    BY <1>1, <1>2, <2>1
<1>4. QED
  BY <1>1, <1>2, <1>3

LEMMA AbsentJoined ==
    ASSUME NEW S, NEW s \in Seq(S), NEW t \in Seq(S), NEW x,
           Absent(s, x), Absent(t, x)
    PROVE  Absent(s \o t, x)
BY Joined DEF Absent

LEMMA OnceJoined ==
    ASSUME NEW S, NEW s \in Seq(S), NEW t \in Seq(S), NEW x,
           \/ Once(s, x) /\ Absent(t, x)
           \/ Absent(s, x) /\ Once(t, x)
    PROVE  Once(s \o t, x)
<1> DEFINE u == s \o t
<1>1. /\ Len(s) \in Nat /\ DOMAIN s = 1 .. Len(s) /\ DOMAIN t = 1 .. Len(t)
      /\ \A i \in DOMAIN s : i \in DOMAIN u /\ u[i] = s[i]
      /\ \A i \in DOMAIN t : Len(s) + i \in DOMAIN u /\ u[Len(s) + i] = t[i]
      /\ \A k \in DOMAIN u :
           \/ k \in DOMAIN s
           \/ k - Len(s) \in DOMAIN t /\ k = Len(s) + (k - Len(s))
      /\ Len(t) \in Nat
  BY Joined
<1> HIDE DEF u
<1>2. CASE Once(s, x) /\ Absent(t, x)
  <2>1. PICK i \in DOMAIN s : \A j \in DOMAIN s : s[j] = x <=> j = i
    BY <1>2 DEF Once
  <2>2. ASSUME NEW k \in DOMAIN u PROVE u[k] = x <=> k = i
    <3>1. CASE k \in DOMAIN s
      BY <1>1, <2>1, <3>1
    <3>2. CASE k - Len(s) \in DOMAIN t /\ k = Len(s) + (k - Len(s))
      BY <1>1, <1>2, <2>1, <3>2 DEF Absent
    <3>3. QED
      BY <1>1, <3>1, <3>2
  <2>3. QED
    BY <1>1, <2>1, <2>2 DEF Once, u
<1>3. CASE Absent(s, x) /\ Once(t, x)
  <2>1. PICK i \in DOMAIN t : \A j \in DOMAIN t : t[j] = x <=> j = i
    BY <1>3 DEF Once
  <2>2. ASSUME NEW k \in DOMAIN u PROVE u[k] = x <=> k = Len(s) + i
    <3>1. CASE k \in DOMAIN s
      BY <1>1, <1>3, <2>1, <3>1 DEF Absent
    <3>2. CASE k - Len(s) \in DOMAIN t /\ k = Len(s) + (k - Len(s))
      <4>1. u[k] = t[k - Len(s)]
        BY <1>1, <3>2
      <4>2. k = Len(s) + i <=> k - Len(s) = i
        BY <1>1, <2>1, <3>2
      <4>3. QED
        BY <2>1, <3>2, <4>1, <4>2
    <3>3. QED
      BY <1>1, <3>1, <3>2
  <2>3. QED
    BY <1>1, <2>1, <2>2 DEF Once, u
<1>4. QED
  BY <1>2, <1>3

\* s has the levels A, each once, and nothing else.
Lists(s, A) ==
    /\ s \in Seq(LevelNames)
    /\ \A l \in LevelNames : IF l \in A THEN Once(s, l) ELSE Absent(s, l)

LEMMA ListsJoined ==
    ASSUME NEW s, NEW A, Lists(s, A), NEW t, NEW B, Lists(t, B), A \cap B = {}
    PROVE  Lists(s \o t, A \cup B)
<1>1. s \o t \in Seq(LevelNames)
  BY DEF Lists
<1>2. ASSUME NEW l \in LevelNames, l \in A \cup B PROVE Once(s \o t, l)
  BY <1>2, OnceJoined DEF Lists
<1>3. ASSUME NEW l \in LevelNames, l \notin A \cup B PROVE Absent(s \o t, l)
  BY <1>3, AbsentJoined DEF Lists
<1>4. QED
  BY <1>1, <1>2, <1>3 DEF Lists

\* The code asks once for each level that is on.
LEMMA LevelsInOrder ==
    ASSUME NEW levels \in SUBSET Levels
    PROVE  Lists(InOrder(levels), levels)
<1> DEFINE ask(l) == IF l \in levels THEN <<l>> ELSE <<>>
<1>1. ASSUME NEW l \in LevelNames PROVE Lists(ask(l), levels \cap {l})
  <2>1. CASE l \in levels
    <3>1. <<l>> \in Seq(LevelNames) /\ DOMAIN <<l>> = {1} /\ <<l>>[1] = l
      OBVIOUS
    <3>2. QED
      BY <2>1, <3>1 DEF Lists, Once, Absent
  <2>2. CASE l \notin levels
    <3>1. <<>> \in Seq(LevelNames) /\ DOMAIN <<>> = {}
      OBVIOUS
    <3>2. QED
      BY <2>2, <3>1 DEF Lists, Once, Absent
  <2>3. QED
    BY <2>1, <2>2
<1>2. ASSUME NEW s, NEW A, NEW l \in LevelNames \ A, Lists(s, levels \cap A)
      PROVE  Lists(s \o ask(l), levels \cap (A \cup {l}))
  <2> HIDE DEF ask
  <2>1. Lists(s \o ask(l), (levels \cap A) \cup (levels \cap {l}))
    BY <1>1, <1>2, ListsJoined
  <2>2. (levels \cap A) \cup (levels \cap {l}) = levels \cap (A \cup {l})
    OBVIOUS
  <2>3. QED
    BY <2>1, <2>2
<1>3. InOrder(levels) = ask("link") \o ask("O0") \o ask("O1") \o ask("O2")
                            \o ask("Os") \o ask("Oz") \o ask("O3")
  BY DEF InOrder
<1> HIDE DEF ask
<1> DEFINE s1 == ask("link") \o ask("O0")
           s2 == s1 \o ask("O1")
           s3 == s2 \o ask("O2")
           s4 == s3 \o ask("Os")
           s5 == s4 \o ask("Oz")
           s6 == s5 \o ask("O3")
<1>4. s6 = InOrder(levels)
  BY <1>3
<1>5. Lists(s1, levels \cap ({"link"} \cup {"O0"}))
  BY <1>1, <1>2 DEF LevelNames
<1> HIDE DEF s1
<1>6. Lists(s2, levels \cap ({"link"} \cup {"O0"} \cup {"O1"}))
  BY <1>2, <1>5 DEF LevelNames
<1> HIDE DEF s2
<1>7. Lists(s3, levels \cap ({"link"} \cup {"O0"} \cup {"O1"} \cup {"O2"}))
  BY <1>2, <1>6 DEF LevelNames
<1> HIDE DEF s3
<1>8. Lists(s4, levels \cap ({"link"} \cup {"O0"} \cup {"O1"} \cup {"O2"}
                                \cup {"Os"}))
  BY <1>2, <1>7 DEF LevelNames
<1> HIDE DEF s4
<1>9. Lists(s5, levels \cap ({"link"} \cup {"O0"} \cup {"O1"} \cup {"O2"}
                                \cup {"Os"} \cup {"Oz"}))
  BY <1>2, <1>8 DEF LevelNames
<1> HIDE DEF s5
<1>10. Lists(s6, levels \cap ({"link"} \cup {"O0"} \cup {"O1"} \cup {"O2"}
                                 \cup {"Os"} \cup {"Oz"} \cup {"O3"}))
  BY <1>2, <1>9 DEF LevelNames
<1> HIDE DEF s6
<1>11. levels \cap ({"link"} \cup {"O0"} \cup {"O1"} \cup {"O2"} \cup {"Os"}
                       \cup {"Oz"} \cup {"O3"}) = levels
  BY PassPipelineAssumption DEF LevelNames
<1>12. QED
  BY <1>4, <1>10, <1>11

-----------------------------------------------------------------------------
(* The inductive invariant.                                                *)

Shape ==
    /\ class \in {"ClangLib", "JIT"}
    /\ verifies \in {"never", "each", "end"}
    /\ line \in Lines \cup {<<>>}
    /\ calls \in Nat
    /\ on \subseteq Levels
    /\ pipeline \in Seq(Items)
    /\ pc \in {"idle", "adding", "built"}

\* A verifier is somewhere behind the i-th element.
Checked(s, i) == \E j \in DOMAIN s : j >= i /\ s[j] = Verify

\* Every pass of s has its verifier behind it.
EachChecked(s) == \A i \in DOMAIN s : s[i] \in Passes => Checked(s, i)

Verified ==
    /\ verifies = "each" => EachChecked(pipeline)
    /\ verifies = "end" /\ pc = "built" =>
         \A i \in DOMAIN pipeline : Checked(pipeline, i)

\* A level of this call is on until it is in the pipeline.
LevelsAdded ==
    pc # "idle" =>
        \A l \in Given(line) \cap Levels :
            IF pc = "adding" /\ l \in on
            THEN Absent(pipeline, l) ELSE Once(pipeline, l)

\* The level for code generation is of the options the call started with.
CodeGenKept ==
    /\ calls = 0 => on = {} /\ pc = "idle"
    /\ pc # "idle" /\ Fresh =>
         codegen = GetCodeGenOptLevel(Given(line) \cap Levels)

IInv == Shape /\ Verified /\ LevelsAdded /\ CodeGenKept

\* The elements of s come before those of t, and keep their verifiers.
LEMMA ChecksJoined ==
    ASSUME NEW s \in Seq(Items), NEW t \in Seq(Items), EachChecked(s), EachChecked(t)
    PROVE  EachChecked(s \o t)
<1> DEFINE u == s \o t
<1>1. /\ Len(s) \in Nat /\ DOMAIN s = 1 .. Len(s) /\ DOMAIN t = 1 .. Len(t)
      /\ \A i \in DOMAIN s : i \in DOMAIN u /\ u[i] = s[i]
      /\ \A i \in DOMAIN t : Len(s) + i \in DOMAIN u /\ u[Len(s) + i] = t[i]
      /\ \A k \in DOMAIN u :
           \/ k \in DOMAIN s
           \/ k - Len(s) \in DOMAIN t /\ k = Len(s) + (k - Len(s))
      /\ Len(t) \in Nat
  BY Joined
<1> HIDE DEF u
<1>2. ASSUME NEW k \in DOMAIN u, u[k] \in Passes PROVE Checked(u, k)
  <2>1. CASE k \in DOMAIN s
    <3>1. PICK j \in DOMAIN s : j >= k /\ s[j] = Verify
      BY <1>1, <1>2, <2>1 DEF EachChecked, Checked
    <3>2. QED
      BY <1>1, <3>1 DEF Checked
  <2>2. CASE k - Len(s) \in DOMAIN t /\ k = Len(s) + (k - Len(s))
    <3>1. PICK j \in DOMAIN t : j >= k - Len(s) /\ t[j] = Verify
      BY <1>1, <1>2, <2>2 DEF EachChecked, Checked
    <3>2. Len(s) + j >= k
      BY <1>1, <2>2, <3>1
    <3>3. QED
      BY <1>1, <3>1, <3>2 DEF Checked
  <2>3. QED
    BY <1>1, <2>1, <2>2
<1>3. QED
  BY <1>2 DEF EachChecked, u

\* What is added for levels, and for a pass.
LEMMA LevelsAreItems ==
    ASSUME NEW levels \in SUBSET Levels
    PROVE  InOrder(levels) \in Seq(Items) /\ EachChecked(InOrder(levels))
<1>1. InOrder(levels) \in Seq(LevelNames)
  BY LevelsInOrder DEF Lists
<1> DEFINE s == InOrder(levels)
<1> HIDE DEF s
<1>2. s \in Seq(LevelNames)
  BY <1>1 DEF s
<1>3. \A i \in DOMAIN s : s[i] \in LevelNames
  BY <1>2
<1>4. s \in Seq(Items)
  BY <1>2, <1>3 DEF Items
<1>5. EachChecked(s)
  BY <1>3, PassPipelineAssumption DEF EachChecked
<1>6. QED
  BY <1>4, <1>5 DEF s

LEMMA PassIsItems ==
    ASSUME Shape, NEW pass
    PROVE  /\ AddPass(pass) \in Seq(Items)
           /\ verifies = "each" => EachChecked(AddPass(pass))
           /\ \A l \in Levels : Absent(AddPass(pass), l)
<1>1. CASE pass \notin Normal
  <2>1. AddPass(pass) = <<>> /\ <<>> \in Seq(Items) /\ DOMAIN <<>> = {}
    BY <1>1 DEF AddPass
  <2>2. QED
    BY <2>1 DEF EachChecked, Absent
<1>2. CASE pass \in Normal /\ verifies = "each"
  <2>1. AddPass(pass) = <<pass, Verify>> /\ pass \in Items /\ Verify \in Items
    BY <1>2, PassPipelineAssumption DEF AddPass, Items
  <2>2. /\ <<pass, Verify>> \in Seq(Items) /\ DOMAIN <<pass, Verify>> = {1, 2}
        /\ <<pass, Verify>>[1] = pass /\ <<pass, Verify>>[2] = Verify
    BY <2>1
  <2>3. Checked(<<pass, Verify>>, 1) /\ Checked(<<pass, Verify>>, 2)
    BY <2>2 DEF Checked
  <2>4. pass \notin Levels /\ Verify \notin Levels
    BY <1>2, PassPipelineAssumption DEF Verify, LevelNames
  <2>5. QED
    BY <2>1, <2>2, <2>3, <2>4 DEF EachChecked, Absent
<1>3. CASE pass \in Normal /\ verifies # "each"
  <2>1. AddPass(pass) = <<pass>> /\ pass \in Items /\ pass \notin Levels
    BY <1>3, PassPipelineAssumption DEF AddPass, Items
  <2>2. <<pass>> \in Seq(Items) /\ DOMAIN <<pass>> = {1} /\ <<pass>>[1] = pass
    BY <2>1
  <2>3. QED
    BY <1>3, <2>1, <2>2 DEF Absent
<1>4. QED
  BY <1>1, <1>2, <1>3

-----------------------------------------------------------------------------
LEMMA InitInv == Init => IInv
<1> SUFFICES ASSUME Init PROVE IInv
  OBVIOUS
<1>1. <<>> \in Seq(Items) /\ DOMAIN <<>> = {}
  OBVIOUS
<1>2. Shape
  BY <1>1 DEF Init, Shape
<1>3. Verified /\ LevelsAdded /\ CodeGenKept
  BY <1>1 DEF Init, Verified, EachChecked, LevelsAdded, CodeGenKept
<1>4. QED
  BY <1>2, <1>3 DEF IInv

\* A call begins with the options of its command line and an empty pipeline.
LEMMA ParseInv ==
    ASSUME IInv, NEW args \in Lines, Parse(args)
    PROVE  IInv'
<1> USE DEF IInv
<1>1. /\ pc = "idle" /\ pc' = "adding" /\ calls' = calls + 1 /\ line' = args
      /\ pipeline' = <<>> /\ UNCHANGED <<class, verifies>>
      /\ on' = AfterReset(on, {}) \cup (Given(args) \cap Levels)
      /\ codegen' = GetCodeGenOptLevel(on')
  BY DEF Parse, setup
<1>2. <<>> \in Seq(Items) /\ DOMAIN <<>> = {}
  OBVIOUS
<1>3. Shape'
  BY <1>1, <1>2 DEF Shape, AfterReset
<1>4. Verified'
  BY <1>1, <1>2 DEF Verified, EachChecked
<1>5. LevelsAdded'
  BY <1>1, <1>2 DEF LevelsAdded, Absent, Given
<1>6. CodeGenKept'
  <2>1. calls \in Nat
    BY DEF Shape
  <2>2. ASSUME Fresh' PROVE on' = Given(args) \cap Levels
    <3>1. AfterReset(on, {}) = {}
      BY <1>1, <2>1, <2>2 DEF Fresh, AfterReset, CodeGenKept
    <3>2. QED
      BY <1>1, <3>1
  <2>3. Given(line)' = Given(args)
    BY <1>1 DEF Given
  <2>4. calls' # 0
    BY <1>1, <2>1
  <2>5. QED
    BY <1>1, <2>2, <2>3, <2>4 DEF CodeGenKept, GetCodeGenOptLevel
<1>7. QED
  BY <1>3, <1>4, <1>5, <1>6

\* One turn of the loop adds the levels that are due, and a pass.
LEMMA NextPassInv ==
    ASSUME IInv, NextPass
    PROVE  IInv'
<1> USE DEF IInv
<1> DEFINE due == Due(list[next][2])
           pass == AddPass(list[next][1])
           levels == InOrder(due)
<1>1. /\ pc = "adding" /\ pc' = "adding" /\ on' = on \ due
      /\ pipeline' = (pipeline \o levels) \o pass
      /\ UNCHANGED <<class, verifies, line, calls, codegen>>
  BY DEF NextPass, setup
<1>2. due \in SUBSET Levels /\ due \subseteq on
  BY DEF Due, Shape
<1>3. /\ levels \in Seq(Items) /\ EachChecked(levels) /\ Lists(levels, due)
      /\ pass \in Seq(Items)
      /\ verifies = "each" => EachChecked(pass)
      /\ \A l \in Levels : Absent(pass, l)
  <2>1. levels \in Seq(Items) /\ EachChecked(levels) /\ Lists(levels, due)
    BY <1>2, LevelsAreItems, LevelsInOrder
  <2>2. QED
    BY <2>1, PassIsItems
<1> HIDE DEF due, pass, levels
<1>4. pipeline \in Seq(Items) /\ pipeline \o levels \in Seq(Items)
      /\ pipeline' \in Seq(Items)
  BY <1>1, <1>3 DEF Shape
<1>5. Shape'
  BY <1>1, <1>4 DEF Shape
<1>6. Verified'
  BY <1>1, <1>3, <1>4, ChecksJoined DEF Verified
<1>7. LevelsAdded'
  <2>1. ASSUME NEW l \in Given(line) \cap Levels
        PROVE  IF l \in on' THEN Absent(pipeline', l) ELSE Once(pipeline', l)
    <3>1. /\ IF l \in on THEN Absent(pipeline, l) ELSE Once(pipeline, l)
          /\ IF l \in due THEN Once(levels, l) ELSE Absent(levels, l)
          /\ Absent(pass, l)
      BY <1>1, <1>3, PassPipelineAssumption DEF LevelsAdded, Lists
    <3>2. IF l \in on' THEN Absent(pipeline \o levels, l)
                       ELSE Once(pipeline \o levels, l)
      BY <1>1, <1>2, <1>3, <1>4, <3>1, OnceJoined, AbsentJoined
    <3>3. QED
      BY <1>1, <1>3, <1>4, <3>1, <3>2, OnceJoined, AbsentJoined
  <2>2. QED
    BY <1>1, <2>1 DEF LevelsAdded, Given
<1>8. CodeGenKept'
  BY <1>1 DEF CodeGenKept, Fresh, Given
<1>9. QED
  BY <1>5, <1>6, <1>7, <1>8

\* The levels that are left, and a last verifier.
LEMMA AddRestInv ==
    ASSUME IInv, AddRest
    PROVE  IInv'
<1> USE DEF IInv
<1> DEFINE levels == InOrder(on)
           last == IF verifies = "end" THEN <<Verify>> ELSE <<>>
<1>1. /\ pc = "adding" /\ pc' = "built" /\ on' = on \ {"link"}
      /\ pipeline' = (pipeline \o levels) \o last
      /\ UNCHANGED <<class, verifies, line, calls, codegen>>
  BY DEF AddRest, setup
<1>2. on \in SUBSET Levels /\ pipeline \in Seq(Items)
  BY DEF Shape
<1>3. levels \in Seq(Items) /\ EachChecked(levels) /\ Lists(levels, on)
  BY <1>2, LevelsAreItems, LevelsInOrder
<1>4. /\ last \in Seq(Items)
      /\ verifies = "each" => EachChecked(last)
      /\ verifies = "end" => last = <<Verify>>
      /\ \A l \in Levels : Absent(last, l)
  <2>1. <<>> \in Seq(Items) /\ DOMAIN <<>> = {}
    OBVIOUS
  <2>2. Verify \in Items /\ Verify \notin Levels
    BY PassPipelineAssumption DEF Items, Verify, LevelNames
  <2>3. <<Verify>> \in Seq(Items) /\ DOMAIN <<Verify>> = {1} /\ <<Verify>>[1] = Verify
    BY <2>2
  <2>4. QED
    BY <2>1, <2>2, <2>3 DEF EachChecked, Absent
<1> HIDE DEF last, levels
<1>5. pipeline \o levels \in Seq(Items) /\ pipeline' \in Seq(Items)
  BY <1>1, <1>2, <1>3, <1>4
<1>6. Shape'
  BY <1>1, <1>2, <1>5 DEF Shape
<1>7. Verified'
  <2>1. verifies = "each" => EachChecked(pipeline')
    BY <1>1, <1>2, <1>3, <1>4, <1>5, ChecksJoined DEF Verified
  <2>2. ASSUME verifies = "end"
        PROVE  \A i \in DOMAIN pipeline' : Checked(pipeline', i)
    <3> DEFINE s == pipeline \o levels
               v == <<Verify>>
    <3>1. s \in Seq(Items) /\ v \in Seq(Items) /\ pipeline' = s \o v
      BY <1>1, <1>4, <1>5, <2>2
    <3>2. DOMAIN v = 1 .. 1 /\ v[1] = Verify /\ Len(v) = 1
      OBVIOUS
    <3> HIDE DEF s, v
    <3>3. /\ Len(s) \in Nat /\ DOMAIN pipeline' = 1 .. (Len(s) + 1)
          /\ pipeline'[Len(s) + 1] = Verify
      BY <3>1, <3>2, Joined
    <3>4. QED
      BY <3>3 DEF Checked
  <2>3. QED
    BY <1>1, <2>1, <2>2 DEF Verified
<1>8. LevelsAdded'
  <2>1. ASSUME NEW l \in Given(line) \cap Levels PROVE Once(pipeline', l)
    <3>1. /\ IF l \in on THEN Absent(pipeline, l) ELSE Once(pipeline, l)
          /\ IF l \in on THEN Once(levels, l) ELSE Absent(levels, l)
          /\ Absent(last, l)
      BY <1>1, <1>3, <1>4, PassPipelineAssumption DEF LevelsAdded, Lists
    <3>2. Once(pipeline \o levels, l)
      BY <1>2, <1>3, <3>1, OnceJoined
    <3>3. QED
      BY <1>1, <1>4, <1>5, <3>1, <3>2, OnceJoined
  <2>2. QED
    BY <1>1, <2>1 DEF LevelsAdded, Given
<1>9. CodeGenKept'
  BY <1>1 DEF CodeGenKept, Fresh, Given
<1>10. QED
  BY <1>6, <1>7, <1>8, <1>9

LEMMA StepInv == IInv /\ [Next]_vars => IInv'
<1> SUFFICES ASSUME IInv, [Next]_vars PROVE IInv'
  OBVIOUS
<1>1. CASE RunPasses \/ UNCHANGED vars
  <2>1. /\ UNCHANGED <<class, verifies, line, calls, on, pipeline, codegen>>
        /\ (pc' = "idle" /\ pc = "built") \/ pc' = pc
    BY <1>1 DEF RunPasses, vars, setup
  <2>2. Shape' /\ Verified'
    BY <2>1 DEF IInv, Shape, Verified
  <2>3. LevelsAdded' /\ CodeGenKept'
    BY <2>1 DEF IInv, LevelsAdded, CodeGenKept, Given, Fresh
  <2>4. QED
    BY <2>2, <2>3 DEF IInv
<1>2. QED
  BY <1>1, ParseInv, NextPassInv, AddRestInv DEF Next

-----------------------------------------------------------------------------
(***************************************************************************)
(* The inductive invariant: what is on, what is in the pipeline and what   *)
(* the verifiers cover, at every turn of the loop.                         *)
(***************************************************************************)
THEOREM Invariance == Spec => []IInv
BY InitInv, StepInv, PTL DEF Spec

(***************************************************************************)
(* Unless -disable-verify is given no pass that is named runs without a    *)
(* verifier behind it, and nothing at all does where the verifier is added *)
(* on completion.                                                          *)
(***************************************************************************)
THEOREM PassesAreVerified == Spec => []PassesVerified
<1>1. IInv => PassesVerified
  BY DEF IInv, Shape, Verified, EachChecked, Checked, PassesVerified
<1>2. QED
  BY <1>1, Invariance, PTL

(***************************************************************************)
(* Each level of a command line is in its pipeline exactly once, wherever  *)
(* it stands between the passes and whatever options a JITCompiler has     *)
(* left from earlier calls.                                                *)
(***************************************************************************)
THEOREM LevelsAreAddedOnce == Spec => []LevelsOnce
<1>1. IInv => LevelsOnce
  BY DEF IInv, LevelsAdded, Once, LevelsOnce
<1>2. QED
  BY <1>1, Invariance, PTL

(***************************************************************************)
(* A call whose options are all its own generates code at the level it was *)
(* given, when it was given one.                                           *)
(***************************************************************************)
THEOREM CodeGenFollows == Spec => []CodeGenAsGiven
<1>1. IInv => CodeGenAsGiven
  <2> SUFFICES ASSUME IInv, pc = "built", Fresh, NEW l \in DOMAIN CodeGenLevels,
                      Given(line) \cap DOMAIN CodeGenLevels = {l}
               PROVE  codegen = CodeGenLevels[l]
    BY DEF CodeGenAsGiven
  <2>1. codegen = GetCodeGenOptLevel(Given(line) \cap Levels)
    BY DEF IInv, CodeGenKept
  <2>2. DOMAIN CodeGenLevels = {"O1", "O2", "O3"}
    BY DEF CodeGenLevels
  <2>3. Given(line) \subseteq Levels \cup Passes
    BY PassPipelineAssumption DEF IInv, Shape, Given
  <2>4. \A x \in {"O1", "O2", "O3"} : x \in Given(line) \cap Levels <=> x = l
    BY <2>2, <2>3, PassPipelineAssumption DEF LevelNames
  <2>5. QED
    BY <2>1, <2>2, <2>4 DEF GetCodeGenOptLevel, CodeGenLevels
<1>2. QED
  BY <1>1, Invariance, PTL

-----------------------------------------------------------------------------
(* The order of a pipeline: PipelineAsAsked.                               *)

Options == Levels \cup Passes

\* s has what is at the positions A of the line, in their order.
Orders(e, s, args, A) ==
    /\ e \in [DOMAIN s -> A]
    /\ \A k, n \in DOMAIN s : k < n => /\ Precedes(args, e[k], e[n])
                                       /\ ~Precedes(args, e[n], e[k])
    /\ \A i \in A : \E n \in DOMAIN s : e[n] = i
    /\ \A n \in DOMAIN s : s[n] = args[e[n]]

Arranged(s, args, A) == s \in Seq(Options) /\ \E e : Orders(e, s, args, A)

AllBefore(args, A, B) ==
    \A i \in A : \A j \in B : Precedes(args, i, j) /\ ~Precedes(args, j, i)

LEMMA ArrangedJoined ==
    ASSUME NEW args, NEW s, NEW A, Arranged(s, args, A),
           NEW t, NEW B, Arranged(t, args, B), AllBefore(args, A, B)
    PROVE  Arranged(s \o t, args, A \cup B)
<1>1. PICK e : Orders(e, s, args, A)
  BY DEF Arranged
<1>2. PICK f : Orders(f, t, args, B)
  BY DEF Arranged
<1> DEFINE u == s \o t
           m == Len(s)
           d == [n \in DOMAIN u |-> IF n <= m THEN e[n] ELSE f[n - m]]
<1>3. s \in Seq(Options) /\ t \in Seq(Options)
  BY DEF Arranged
<1>4. u \in Seq(Options)
  BY <1>3, ConcatProperties
<1>5. /\ m \in Nat /\ Len(t) \in Nat /\ DOMAIN s = 1 .. m /\ DOMAIN t = 1 .. Len(t)
      /\ DOMAIN u = 1 .. m + Len(t)
      /\ \A i \in DOMAIN s : i \in DOMAIN u /\ u[i] = s[i]
      /\ \A i \in DOMAIN t : m + i \in DOMAIN u /\ u[m + i] = t[i]
  BY <1>3, Joined
<1>6. /\ e \in [DOMAIN s -> A] /\ f \in [DOMAIN t -> B]
      /\ \A k, n \in DOMAIN s : k < n => /\ Precedes(args, e[k], e[n])
                                         /\ ~Precedes(args, e[n], e[k])
      /\ \A k, n \in DOMAIN t : k < n => /\ Precedes(args, f[k], f[n])
                                         /\ ~Precedes(args, f[n], f[k])
  BY <1>1, <1>2 DEF Orders
<1>7. /\ \A i \in A : \E n \in DOMAIN s : e[n] = i
      /\ \A i \in B : \E n \in DOMAIN t : f[n] = i
      /\ \A n \in DOMAIN s : s[n] = args[e[n]]
      /\ \A n \in DOMAIN t : t[n] = args[f[n]]
  BY <1>1, <1>2 DEF Orders
<1> HIDE DEF u, m
<1>8. ASSUME NEW n \in DOMAIN u, n <= m
      PROVE  n \in DOMAIN s /\ d[n] = e[n] /\ d[n] \in A /\ u[n] = args[d[n]]
  <2>1. n \in DOMAIN s
    BY <1>5, <1>8
  <2>2. QED
    BY <1>5, <1>6, <1>7, <1>8, <2>1
<1>9. ASSUME NEW n \in DOMAIN u, ~(n <= m)
      PROVE  /\ n - m \in DOMAIN t /\ d[n] = f[n - m] /\ d[n] \in B
             /\ u[n] = args[d[n]]
  <2>1. n - m \in DOMAIN t /\ n = m + (n - m)
    BY <1>5, <1>9
  <2>2. d[n] = f[n - m] /\ d[n] \in B
    BY <1>6, <1>9, <2>1
  <2>3. u[n] = t[n - m]
    BY <1>5, <2>1
  <2>4. QED
    BY <1>7, <2>1, <2>2, <2>3
<1>10. ASSUME NEW k \in DOMAIN u, NEW n \in DOMAIN u, k < n
       PROVE  Precedes(args, d[k], d[n]) /\ ~Precedes(args, d[n], d[k])
  <2>1. k \in Nat /\ n \in Nat
    BY <1>5
  <2>2. CASE n <= m
    <3>1. k <= m
      BY <1>5, <1>10, <2>1, <2>2
    <3>2. QED
      BY <1>6, <1>8, <1>10, <2>2, <3>1
  <2>3. CASE k <= m /\ ~(n <= m)
    BY <1>8, <1>9, <2>3 DEF AllBefore
  <2>4. CASE ~(k <= m) /\ ~(n <= m)
    <3>1. k - m < n - m
      BY <1>5, <1>10, <2>1
    <3>2. QED
      BY <1>6, <1>9, <2>4, <3>1
  <2>5. QED
    BY <1>5, <1>10, <2>1, <2>2, <2>3, <2>4
<1>11. ASSUME NEW i \in A \cup B PROVE \E n \in DOMAIN u : d[n] = i
  <2>1. CASE i \in A
    <3>1. PICK n \in DOMAIN s : e[n] = i
      BY <1>7, <2>1
    <3>2. n \in DOMAIN u /\ n <= m
      BY <1>5
    <3>3. QED
      BY <1>8, <3>1, <3>2
  <2>2. CASE i \in B
    <3>1. PICK n \in DOMAIN t : f[n] = i
      BY <1>7, <2>2
    <3>2. m + n \in DOMAIN u /\ ~(m + n <= m) /\ (m + n) - m = n
      BY <1>5
    <3>3. d[m + n] = f[n]
      BY <1>9, <3>2
    <3>4. QED
      BY <3>1, <3>2, <3>3
  <2>3. QED
    BY <2>1, <2>2
<1>12. d \in [DOMAIN u -> A \cup B]
  BY <1>8, <1>9
<1>13. \A n \in DOMAIN u : u[n] = args[d[n]]
  BY <1>8, <1>9
<1> HIDE DEF d
<1>14. Orders(d, u, args, A \cup B)
  BY <1>10, <1>11, <1>12, <1>13 DEF Orders
<1>15. QED
  BY <1>4, <1>14 DEF Arranged, u

LEMMA ArrangedOne ==
    ASSUME NEW args \in Seq(Options), NEW i \in DOMAIN args
    PROVE  Arranged(<<args[i]>>, args, {i})
<1> DEFINE s == <<args[i]>>
           e == [n \in {1} |-> i]
<1>1. s \in Seq(Options) /\ DOMAIN s = {1} /\ s[1] = args[i]
  OBVIOUS
<1>2. Orders(e, s, args, {i})
  BY <1>1 DEF Orders
<1>3. QED
  BY <1>1, <1>2 DEF Arranged

LEMMA ArrangedNone ==
    ASSUME NEW args
    PROVE  Arranged(<<>>, args, {})
<1> DEFINE e == [n \in {} |-> 0]
<1>1. <<>> \in Seq(Options) /\ DOMAIN <<>> = {}
  OBVIOUS
<1>2. Orders(e, <<>>, args, {})
  BY <1>1 DEF Orders
<1>3. QED
  BY <1>1, <1>2 DEF Arranged

\* A pass between two options, or one of them, keeps them in line.
LEMMA PassSeparates ==
    ASSUME NEW args \in Seq(Options), NEW i \in DOMAIN args,
           NEW j \in DOMAIN args, i < j,
           NEW k \in DOMAIN args, i <= k, k <= j, args[k] \in Passes
    PROVE  Precedes(args, i, j) /\ ~Precedes(args, j, i)
<1>1. i \in Nat /\ j \in Nat /\ k \in Nat
  BY LenProperties
<1>2. args[k] \notin Levels
  BY PassPipelineAssumption
<1>3. \/ args[i] \notin Levels \/ args[j] \notin Levels
      \/ k \in (i + 1) .. (j - 1)
  BY <1>1, <1>2
<1>4. ~(j < i)
  BY <1>1
<1>5. QED
  BY <1>2, <1>3, <1>4 DEF Precedes

\* What the line adds between two places, when it has levels only there.
Stretch(args, lo, hi) == {i \in Added(args) : lo < i /\ i < hi}

OnlyLevels(args, lo, hi) ==
    \A i \in DOMAIN args : lo < i /\ i < hi => args[i] \in Levels

LEMMA LevelsByRank ==
    ASSUME NEW args \in Seq(Options), NEW lo \in Nat, NEW hi \in Nat,
           OnlyLevels(args, lo, hi), NEW i \in Stretch(args, lo, hi),
           NEW j \in Stretch(args, lo, hi), Rank[args[i]] < Rank[args[j]]
    PROVE  Precedes(args, i, j) /\ ~Precedes(args, j, i)
<1> DEFINE between == {k \in DOMAIN args : k \in (i + 1) .. (j - 1)
                                           \/ k \in (j + 1) .. (i - 1)}
           beyond == {k \in DOMAIN args : k \in (j + 1) .. (i - 1)
                                          \/ k \in (i + 1) .. (j - 1)}
<1>1. /\ i \in Nat /\ j \in Nat /\ lo < i /\ i < hi /\ lo < j /\ j < hi
      /\ DOMAIN args \subseteq Nat
  BY LenProperties DEF Stretch, Added
<1>2. (\A k \in between : lo < k /\ k < hi) /\ beyond = between
  BY <1>1
<1>3. /\ args[i] \in Levels /\ args[j] \in Levels
      /\ \A k \in between : args[k] \in Levels
  BY <1>1, <1>2 DEF OnlyLevels, Stretch, Added
<1>4. ~(Rank[args[j]] < Rank[args[i]])
  <2>1. \A l \in LevelNames : Rank[l] \in Nat
    BY DEF LevelNames, Rank
  <2>2. args[i] \in LevelNames /\ args[j] \in LevelNames
    BY <1>3, PassPipelineAssumption
  <2>3. Rank[args[i]] \in Nat /\ Rank[args[j]] \in Nat
    BY <2>1, <2>2
  <2>4. QED
    BY <2>3
<1>5. Precedes(args, i, j)
  BY <1>3 DEF Precedes
<1>6. ~Precedes(args, j, i)
  BY <1>2, <1>3, <1>4 DEF Precedes
<1>7. QED
  BY <1>5, <1>6

\* Levels with no pass between them are added in the order of the code.
LEMMA InOrderArranged ==
    ASSUME NEW args \in Seq(Options), NEW lo \in Nat, NEW hi \in Nat,
           OnlyLevels(args, lo, hi), NEW levels,
           levels = {args[i] : i \in Stretch(args, lo, hi)}
    PROVE  Arranged(InOrder(levels), args, Stretch(args, lo, hi))
<1> DEFINE D == Stretch(args, lo, hi)
           ask(l) == IF l \in levels THEN <<l>> ELSE <<>>
           Part(A) == {i \in D : args[i] \in A}
<1>1. /\ args \in Seq(Options) /\ D \subseteq DOMAIN args
      /\ \A i, j \in D : args[i] = args[j] => i = j
      /\ \A i \in D : args[i] \in Levels
  <2>1. \A i \in D : i \in DOMAIN args /\ i \in Nat /\ lo < i /\ i < hi
    BY LenProperties DEF Stretch, Added
  <2>2. \A i \in D : args[i] \in Levels
    BY <2>1 DEF OnlyLevels
  <2>3. \A i \in D : IsLast(args, i)
    BY <2>2, PassPipelineAssumption DEF Stretch, Added
  <2>4. \A i, j \in D : args[i] = args[j] => i = j
    BY <2>1, <2>3 DEF IsLast
  <2>5. QED
    BY <2>1, <2>2, <2>4
<1>2. ASSUME NEW l PROVE Arranged(ask(l), args, Part({l}))
  <2>1. CASE l \in levels
    <3>1. PICK i \in D : args[i] = l
      BY <2>1
    <3>2. Part({l}) = {i}
      BY <1>1, <3>1
    <3>3. Arranged(<<args[i]>>, args, {i})
      BY <1>1, ArrangedOne
    <3>4. QED
      BY <2>1, <3>1, <3>2, <3>3
  <2>2. CASE l \notin levels
    <3>1. Part({l}) = {}
      BY <2>2
    <3>2. QED
      BY <2>2, <3>1, ArrangedNone
  <2>3. QED
    BY <2>1, <2>2
<1>3. ASSUME NEW s, NEW A, NEW l, Arranged(s, args, Part(A)),
             \A a \in A : Rank[a] < Rank[l]
      PROVE  Arranged(s \o ask(l), args, Part(A \cup {l}))
  <2>1. AllBefore(args, Part(A), Part({l}))
    <3>1. ASSUME NEW i \in Part(A), NEW j \in Part({l})
          PROVE  Precedes(args, i, j) /\ ~Precedes(args, j, i)
      <4>1. i \in D /\ j \in D /\ Rank[args[i]] < Rank[args[j]]
        BY <1>3
      <4>2. QED
        BY <1>1, <4>1, LevelsByRank
    <3>2. QED
      BY <3>1 DEF AllBefore
  <2>2. Part(A) \cup Part({l}) = Part(A \cup {l})
    OBVIOUS
  <2>3. Arranged(ask(l), args, Part({l}))
    BY <1>2
  <2> HIDE DEF ask, Part
  <2>4. Arranged(s \o ask(l), args, Part(A) \cup Part({l}))
    BY <1>3, <2>1, <2>3, ArrangedJoined
  <2>5. QED
    BY <2>2, <2>4
<1>4. InOrder(levels) = ask("link") \o ask("O0") \o ask("O1") \o ask("O2")
                            \o ask("Os") \o ask("Oz") \o ask("O3")
  BY DEF InOrder
<1>5. /\ Rank["link"] = 1 /\ Rank["O0"] = 2 /\ Rank["O1"] = 3 /\ Rank["O2"] = 4
      /\ Rank["Os"] = 5 /\ Rank["Oz"] = 6 /\ Rank["O3"] = 7
  BY DEF Rank
<1>6. D = Part({"link"} \cup {"O0"} \cup {"O1"} \cup {"O2"} \cup {"Os"}
                  \cup {"Oz"} \cup {"O3"})
  BY <1>1, PassPipelineAssumption DEF LevelNames
<1> HIDE DEF ask, Part, D
<1> DEFINE s1 == ask("link") \o ask("O0")
           s2 == s1 \o ask("O1")
           s3 == s2 \o ask("O2")
           s4 == s3 \o ask("Os")
           s5 == s4 \o ask("Oz")
           s6 == s5 \o ask("O3")
<1>7. s6 = InOrder(levels)
  BY <1>4
<1>8. Arranged(s1, args, Part({"link"} \cup {"O0"}))
  <2>1. Arranged(ask("link"), args, Part({"link"}))
    BY <1>2
  <2>2. \A a \in {"link"} : Rank[a] < Rank["O0"]
    BY <1>5
  <2>3. QED
    BY <1>3, <2>1, <2>2
<1> HIDE DEF s1
<1>9. Arranged(s2, args, Part({"link"} \cup {"O0"} \cup {"O1"}))
  BY <1>3, <1>5, <1>8
<1> HIDE DEF s2
<1>10. Arranged(s3, args, Part({"link"} \cup {"O0"} \cup {"O1"} \cup {"O2"}))
  BY <1>3, <1>5, <1>9
<1> HIDE DEF s3
<1>11. Arranged(s4, args, Part({"link"} \cup {"O0"} \cup {"O1"} \cup {"O2"}
                                 \cup {"Os"}))
  BY <1>3, <1>5, <1>10
<1> HIDE DEF s4
<1>12. Arranged(s5, args, Part({"link"} \cup {"O0"} \cup {"O1"} \cup {"O2"}
                                 \cup {"Os"} \cup {"Oz"}))
  BY <1>3, <1>5, <1>11
<1> HIDE DEF s5
<1>13. Arranged(s6, args, Part({"link"} \cup {"O0"} \cup {"O1"} \cup {"O2"}
                                 \cup {"Os"} \cup {"Oz"} \cup {"O3"}))
  BY <1>3, <1>5, <1>12
<1> HIDE DEF s6
<1>14. QED
  BY <1>6, <1>7, <1>13 DEF D

-----------------------------------------------------------------------------
(* PassList: the passes of a command line with their positions.            *)

Entries == Passes \X Nat

IsPass(args) == {i \in DOMAIN args : args[i] \in Passes}

LEMMA PlacedAlong ==
    ASSUME NEW args \in Seq(Options)
    PROVE  \E m, f : /\ Enumerates(f, m, IsPass(args))
                     /\ Placed(args) = [n \in 1 .. m |-> <<args[f[n]], f[n]>>]
<1> DEFINE pairs == [i \in DOMAIN args |-> <<args[i], i>>]
<1>1. Len(args) \in Nat /\ DOMAIN args = 1 .. Len(args)
  BY LenProperties
<1>2. pairs \in Seq(Options \X Nat) /\ DOMAIN pairs = DOMAIN args
  <2>1. \A i \in 1 .. Len(args) : <<args[i], i>> \in Options \X Nat
    BY <1>1
  <2>2. pairs = [i \in 1 .. Len(args) |-> <<args[i], i>>]
    BY <1>1
  <2>3. QED
    BY <1>1, <2>1, <2>2
<1>3. IsPass(args) \in SUBSET DOMAIN pairs
  BY <1>2 DEF IsPass
<1>4. Placed(args) = Picked(pairs, IsPass(args))
  BY DEF Placed, IsPass
<1>5. \A i \in DOMAIN args : pairs[i] = <<args[i], i>>
  OBVIOUS
<1> HIDE DEF pairs
<1>6. PICK m, f : /\ Enumerates(f, m, IsPass(args))
                  /\ Picked(pairs, IsPass(args)) = [n \in 1 .. m |-> pairs[f[n]]]
                  /\ Picked(pairs, IsPass(args)) \in Seq(Options \X Nat)
  BY <1>2, <1>3, PickedEnumerated
<1>7. \A n \in 1 .. m : f[n] \in DOMAIN args
  BY <1>6 DEF Enumerates, IsPass
<1>8. Placed(args) = [n \in 1 .. m |-> <<args[f[n]], f[n]>>]
  BY <1>4, <1>5, <1>6, <1>7
<1>9. QED
  BY <1>6, <1>8

\* The place of the n-th pass; a line begins at 0.
Place(entries, n) == IF n = 0 THEN 0 ELSE entries[n][2]

LEMMA PlacedEntries ==
    ASSUME NEW args \in Seq(Options), NEW entries, entries = Placed(args)
    PROVE  /\ entries \in Seq(Entries)
           /\ \A n \in 1 .. Len(entries) :
                /\ Place(entries, n) \in DOMAIN args
                /\ entries[n] = <<args[Place(entries, n)], Place(entries, n)>>
                /\ args[Place(entries, n)] \in Passes
           /\ \A n \in 1 .. Len(entries) : Place(entries, n - 1) < Place(entries, n)
           /\ \A i \in DOMAIN args : args[i] \in Passes =>
                \E n \in 1 .. Len(entries) : i = Place(entries, n)
<1>1. PICK m, f : /\ Enumerates(f, m, IsPass(args))
                  /\ entries = [n \in 1 .. m |-> <<args[f[n]], f[n]>>]
  BY PlacedAlong
<1>2. /\ m \in Nat /\ f \in [1 .. m -> IsPass(args)]
      /\ \A k, n \in 1 .. m : k < n => f[k] < f[n]
      /\ \A i \in IsPass(args) : \E n \in 1 .. m : f[n] = i
  BY <1>1 DEF Enumerates
<1>3. Len(args) \in Nat /\ DOMAIN args = 1 .. Len(args)
  BY LenProperties
<1>4. ASSUME NEW n \in 1 .. m
      PROVE  /\ f[n] \in DOMAIN args /\ f[n] \in Nat /\ f[n] > 0
             /\ args[f[n]] \in Passes
             /\ entries[n] = <<args[f[n]], f[n]>> /\ Place(entries, n) = f[n]
             /\ entries[n] \in Entries
  <2>1. f[n] \in DOMAIN args /\ args[f[n]] \in Passes
    BY <1>2 DEF IsPass
  <2>2. entries[n] = <<args[f[n]], f[n]>> /\ n # 0
    BY <1>1, <1>2
  <2>3. f[n] \in Nat /\ f[n] > 0
    BY <1>3, <2>1
  <2>4. Place(entries, n) = f[n]
    BY <2>2 DEF Place
  <2>5. QED
    BY <2>1, <2>2, <2>3, <2>4 DEF Entries
<1>5. Len(entries) = m /\ entries \in Seq(Entries)
  <2>1. Len(entries) = m
    BY <1>1, <1>2
  <2>2. entries \in [1 .. m -> Entries]
    BY <1>1, <1>4
  <2>3. QED
    BY <1>2, <2>1, <2>2
<1>6. ASSUME NEW n \in 1 .. m PROVE Place(entries, n - 1) < Place(entries, n)
  <2>1. CASE n = 1
    <3>1. Place(entries, n - 1) = 0
      BY <2>1 DEF Place
    <3>2. QED
      BY <1>4, <3>1
  <2>2. CASE n # 1
    <3>1. n - 1 \in 1 .. m /\ n - 1 < n
      BY <1>2, <2>2
    <3>2. QED
      BY <1>2, <1>4, <3>1
  <2>3. QED
    BY <2>1, <2>2
<1>7. ASSUME NEW i \in DOMAIN args, args[i] \in Passes
      PROVE  \E n \in 1 .. m : i = Place(entries, n)
  <2>1. i \in IsPass(args)
    BY <1>7 DEF IsPass
  <2>2. QED
    BY <1>2, <1>4, <2>1
<1>8. QED
  BY <1>4, <1>5, <1>6, <1>7

\* Places grow, and there are levels between them and behind the last.
LEMMA PlacesGrow ==
    ASSUME NEW args \in Seq(Options), NEW entries, entries = Placed(args)
    PROVE  \A k, n \in 1 .. Len(entries) :
              k < n => Place(entries, k) < Place(entries, n)
<1>1. PICK m, f : /\ Enumerates(f, m, IsPass(args))
                  /\ entries = [n \in 1 .. m |-> <<args[f[n]], f[n]>>]
  BY PlacedAlong
<1>2. /\ m \in Nat /\ f \in [1 .. m -> IsPass(args)]
      /\ \A k, n \in 1 .. m : k < n => f[k] < f[n]
  BY <1>1 DEF Enumerates
<1>3. Len(entries) = m
  BY <1>1, <1>2
<1>4. ASSUME NEW n \in 1 .. m PROVE Place(entries, n) = f[n]
  BY <1>1, <1>2 DEF Place
<1>5. QED
  BY <1>2, <1>3, <1>4

LEMMA Places ==
    ASSUME NEW args \in Seq(Options), NEW entries, entries = Placed(args)
    PROVE  /\ Len(entries) \in Nat
           /\ \A k \in 1 .. Len(entries) : Place(entries, k) \in DOMAIN args
           /\ \A i \in DOMAIN args : args[i] \in Passes =>
                \E k \in 1 .. Len(entries) : i = Place(entries, k)
<1>1. entries \in Seq(Entries)
  BY PlacedEntries
<1>2. \A k \in 1 .. Len(entries) : Place(entries, k) \in DOMAIN args
  BY PlacedEntries
<1>3. \A i \in DOMAIN args : args[i] \in Passes =>
         \E k \in 1 .. Len(entries) : i = Place(entries, k)
  BY PlacedEntries
<1>4. QED
  BY <1>1, <1>2, <1>3, LenProperties

LEMMA LevelsBetween ==
    ASSUME NEW args \in Seq(Options), NEW entries, entries = Placed(args),
           NEW n \in 1 .. Len(entries)
    PROVE  OnlyLevels(args, Place(entries, n - 1), Place(entries, n))
<1> DEFINE lo == Place(entries, n - 1)
           hi == Place(entries, n)
           m == Len(entries)
<1>1. /\ m \in Nat
      /\ \A k \in 1 .. m : Place(entries, k) \in DOMAIN args
      /\ \A i \in DOMAIN args : args[i] \in Passes =>
           \E k \in 1 .. m : i = Place(entries, k)
  BY Places
<1>2. DOMAIN args \subseteq Nat
  BY LenProperties
<1>3. ASSUME NEW i \in DOMAIN args, lo < i, i < hi, args[i] \in Passes
      PROVE  FALSE
  <2>1. PICK k \in 1 .. m : i = Place(entries, k)
    BY <1>1, <1>3
  <2>2. \A a, b \in 1 .. m : a < b => Place(entries, a) < Place(entries, b)
    BY PlacesGrow
  <2>3. i \in Nat /\ hi \in Nat
    BY <1>1, <1>2
  <2>4. CASE k >= n
    <3>1. k = n \/ hi < i
      BY <1>1, <2>1, <2>2, <2>4
    <3>2. QED
      BY <1>3, <2>1, <2>3, <3>1
  <2>5. CASE k < n
    <3>1. n - 1 \in 1 .. m /\ (k = n - 1 \/ k < n - 1)
      BY <1>1, <2>5
    <3>2. i = lo \/ i < lo
      BY <2>1, <2>2, <3>1
    <3>3. lo \in Nat
      BY <1>1, <1>2, <3>1
    <3>4. QED
      BY <1>3, <2>3, <3>2, <3>3
  <2>6. QED
    BY <1>1, <2>4, <2>5
<1>4. \A i \in DOMAIN args : args[i] \in Levels \/ args[i] \in Passes
  BY DEF Options
<1>5. QED
  BY <1>3, <1>4 DEF OnlyLevels

LEMMA LevelsBehind ==
    ASSUME NEW args \in Seq(Options), NEW entries, entries = Placed(args)
    PROVE  OnlyLevels(args, Place(entries, Len(entries)), Len(args) + 1)
<1> DEFINE m == Len(entries)
           lo == Place(entries, m)
<1>1. /\ m \in Nat
      /\ \A k \in 1 .. m : Place(entries, k) \in DOMAIN args
      /\ \A i \in DOMAIN args : args[i] \in Passes =>
           \E k \in 1 .. m : i = Place(entries, k)
  BY Places
<1>2. DOMAIN args \subseteq Nat
  BY LenProperties
<1>3. ASSUME NEW i \in DOMAIN args, lo < i, args[i] \in Passes
      PROVE  FALSE
  <2>1. PICK k \in 1 .. m : i = Place(entries, k)
    BY <1>1, <1>3
  <2>2. \A a, b \in 1 .. m : a < b => Place(entries, a) < Place(entries, b)
    BY PlacesGrow
  <2>3. m \in 1 .. m /\ (k = m \/ k < m)
    BY <1>1, <2>1
  <2>4. i \in Nat /\ lo \in Nat /\ (i = lo \/ i < lo)
    BY <1>1, <1>2, <2>1, <2>2, <2>3
  <2>5. QED
    BY <1>3, <2>4
<1>4. \A i \in DOMAIN args : args[i] \in Levels \/ args[i] \in Passes
  BY DEF Options
<1>5. QED
  BY <1>3, <1>4 DEF OnlyLevels

-----------------------------------------------------------------------------
\* What is arranged in order has every option where its turn is.
LEMMA ArrangedAsGiven ==
    ASSUME NEW args, NEW s, Arranged(s, args, Added(args))
    PROVE  AsGiven(s, args)
<1> DEFINE all == Added(args)
           m == Len(s)
           turn(i) == Cardinality({j \in all : j = i \/ Precedes(args, j, i)})
<1>1. PICK e : Orders(e, s, args, all)
  BY DEF Arranged
<1>2. m \in Nat /\ DOMAIN s = 1 .. m
  BY LenProperties DEF Arranged
<1>3. /\ e \in [1 .. m -> all]
      /\ \A k, n \in 1 .. m : k < n => /\ Precedes(args, e[k], e[n])
                                       /\ ~Precedes(args, e[n], e[k])
      /\ \A i \in all : \E n \in 1 .. m : e[n] = i
      /\ \A n \in 1 .. m : s[n] = args[e[n]]
  BY <1>1, <1>2 DEF Orders
<1> HIDE DEF m, all
<1>4. ASSUME NEW k \in 1 .. m, NEW n \in 1 .. m, e[k] = e[n]
      PROVE  k = n
  <2>1. ~(k < n) /\ ~(n < k)
    BY <1>3, <1>4
  <2>2. QED
    BY <1>2, <2>1
<1>5. Cardinality(all) = m
  <2>1. e \in Bijection(1 .. m, all)
    BY <1>3, <1>4 DEF Bijection, Injection, Surjection, IsInjective
  <2>2. QED
    BY <1>2, <2>1, FS_CountingElements DEF ExistsBijection
<1>6. ASSUME NEW i \in all PROVE s[turn(i)] = args[i]
  <2>1. PICK n \in 1 .. m : e[n] = i
    BY <1>3
  <2> DEFINE below == {j \in all : j = i \/ Precedes(args, j, i)}
             d == [k \in 1 .. n |-> e[k]]
  <2>2. n \in Nat /\ \A k \in 1 .. n : k \in 1 .. m /\ (k < n \/ k = n)
    BY <1>2
  <2>3. d \in [1 .. n -> below]
    <3>1. ASSUME NEW k \in 1 .. n PROVE e[k] \in below
      BY <1>3, <2>1, <2>2
    <3>2. QED
      BY <3>1
  <2>4. ASSUME NEW j \in below PROVE \E k \in 1 .. n : d[k] = j
    <3>1. PICK k \in 1 .. m : e[k] = j
      BY <1>3
    <3>2. ~(n < k)
      BY <1>3, <1>4, <2>1, <2>4, <3>1
    <3>3. k \in 1 .. n
      BY <1>2, <2>2, <3>2
    <3>4. QED
      BY <3>1, <3>3
  <2>5. \A k, l \in 1 .. n : d[k] = d[l] => k = l
    BY <1>4, <2>2
  <2>6. d \in Bijection(1 .. n, below)
    BY <2>3, <2>4, <2>5 DEF Bijection, Injection, Surjection, IsInjective
  <2>7. turn(i) = n
    BY <2>2, <2>6, FS_CountingElements DEF ExistsBijection
  <2> HIDE DEF turn
  <2>8. QED
    BY <1>3, <2>1, <2>7
<1>7. QED
  BY <1>5, <1>6 DEF AsGiven, all, m

\* What the filters keep of the three things a pipeline is made of.
LEMMA LevelsKept ==
    ASSUME NEW levels \in SUBSET Levels
    PROVE  /\ Only(InOrder(levels), Options) = InOrder(levels)
           /\ Only(InOrder(levels), Passes) = <<>>
<1> DEFINE s == InOrder(levels)
<1>1. Lists(s, levels)
  BY LevelsInOrder
<1> HIDE DEF s
<1>2. s \in Seq(LevelNames) /\ \A i \in DOMAIN s : s[i] \in LevelNames
  BY <1>1 DEF Lists
<1>3. \A i \in DOMAIN s : s[i] \in Levels
  BY <1>1, <1>2 DEF Lists, Absent
<1>4. \A i \in DOMAIN s : s[i] \in Options
  BY <1>3 DEF Options
<1>5. \A i \in DOMAIN s : s[i] \notin Passes
  BY <1>3, PassPipelineAssumption
<1>6. Only(s, Options) = s
  BY <1>2, <1>4, OnlyAllOrNone
<1>7. Only(s, Passes) = <<>>
  BY <1>2, <1>5, OnlyAllOrNone
<1>8. QED
  BY <1>6, <1>7 DEF s

LEMMA PassKept ==
    ASSUME NEW pass, NEW T, Passes \subseteq T, Verify \notin T
    PROVE  Only(AddPass(pass), T) = AddUnverified(pass)
<1>1. <<>> \in Seq(Items) /\ \A i \in DOMAIN <<>> : <<>>[i] \notin T
  OBVIOUS
<1>2. Only(<<>>, T) = <<>>
  BY <1>1, OnlyAllOrNone
<1> DEFINE p == <<pass>>
           v == <<Verify>>
<1>3. ASSUME pass \in Normal
      PROVE  /\ p \in Seq(Items) /\ v \in Seq(Items) /\ DOMAIN p = {1} /\ DOMAIN v = {1}
             /\ p[1] \in T /\ v[1] \notin T /\ <<pass, Verify>> = p \o v
  <2>1. pass \in Items /\ Verify \in Items /\ pass \in T
    BY <1>3, PassPipelineAssumption DEF Items
  <2>2. QED
    BY <2>1
<1> HIDE DEF p, v
<1>4. ASSUME pass \in Normal PROVE Only(p, T) = p
  BY <1>3, <1>4, OnlyAllOrNone
<1>5. ASSUME pass \in Normal PROVE Only(p \o v, T) = p
  <2>1. Only(v, T) = <<>>
    BY <1>3, <1>5, OnlyAllOrNone
  <2>2. Only(p \o v, T) = Only(p, T) \o Only(v, T)
    BY <1>3, <1>5, OnlyJoined
  <2>3. p \o <<>> = p
    BY <1>3, <1>5, ConcatEmptySeq
  <2>4. QED
    BY <1>4, <1>5, <2>1, <2>2, <2>3
<1>6. CASE pass \notin Normal
  BY <1>2, <1>6 DEF AddPass, AddUnverified
<1>7. CASE pass \in Normal /\ verifies = "each"
  BY <1>3, <1>5, <1>7 DEF AddPass, AddUnverified, p
<1>8. CASE pass \in Normal /\ verifies # "each"
  BY <1>4, <1>8 DEF AddPass, AddUnverified, p
<1>9. QED
  BY <1>6, <1>7, <1>8

LEMMA VerifierDropped ==
    ASSUME NEW T, Verify \notin T
    PROVE  Only(<<Verify>>, T) = <<>> /\ Only(<<>>, T) = <<>>
<1>1. <<Verify>> \in Seq(Items) /\ \A i \in DOMAIN <<Verify>> : <<Verify>>[i] \notin T
  BY DEF Items
<1>2. Only(<<Verify>>, T) = <<>>
  BY <1>1, OnlyAllOrNone
<1>3. <<>> \in Seq(Items) /\ \A i \in DOMAIN <<>> : <<>>[i] \notin T
  OBVIOUS
<1>4. Only(<<>>, T) = <<>>
  BY <1>3, OnlyAllOrNone
<1>5. QED
  BY <1>2, <1>4

LEMMA OnlyOfThree ==
    ASSUME NEW s \in Seq(Items), NEW t \in Seq(Items), NEW u \in Seq(Items), NEW T
    PROVE  Only((s \o t) \o u, T) = (Only(s, T) \o Only(t, T)) \o Only(u, T)
<1>1. s \o t \in Seq(Items)
  BY ConcatProperties
<1>2. Only(s \o t, T) = Only(s, T) \o Only(t, T)
  BY OnlyJoined
<1> DEFINE st == s \o t
<1>3. st \in Seq(Items)
  BY <1>1
<1> HIDE DEF st
<1>4. Only(st \o u, T) = Only(st, T) \o Only(u, T)
  BY <1>3, OnlyJoined
<1>5. QED
  BY <1>2, <1>4 DEF st

\* What the filters keep of one turn, and of the last one.
LEMMA TurnKept ==
    ASSUME NEW s \in Seq(Items), NEW levels \in SUBSET Levels, NEW pass, Shape
    PROVE  /\ Only((s \o InOrder(levels)) \o AddPass(pass), Passes)
                = Only(s, Passes) \o AddUnverified(pass)
           /\ Only((s \o InOrder(levels)) \o AddPass(pass), Options)
                = (Only(s, Options) \o InOrder(levels)) \o AddUnverified(pass)
<1> DEFINE t == InOrder(levels)
           u == AddPass(pass)
<1>1. t \in Seq(Items) /\ u \in Seq(Items)
  BY LevelsAreItems, PassIsItems
<1>2. Only(t, Options) = t /\ Only(t, Passes) = <<>>
  BY LevelsKept
<1>3. Verify \notin Options /\ Verify \notin Passes /\ Passes \subseteq Options
  BY PassPipelineAssumption DEF Options, Verify, LevelNames
<1>4. Only(u, Passes) = AddUnverified(pass)
  BY <1>3, PassKept
<1>5. Only(u, Options) = AddUnverified(pass)
  BY <1>3, PassKept
<1> HIDE DEF t, u
<1>6. Only((s \o t) \o u, Passes) = (Only(s, Passes) \o Only(t, Passes)) \o Only(u, Passes)
  BY <1>1, OnlyOfThree, SMTT(30)
<1>7. Only((s \o t) \o u, Options)
        = (Only(s, Options) \o Only(t, Options)) \o Only(u, Options)
  BY <1>1, OnlyOfThree, SMTT(30)
<1>8. Only(s, Passes) \o <<>> = Only(s, Passes)
  BY OnlyIsSeq, ConcatEmptySeq
<1>9. QED
  BY <1>2, <1>4, <1>5, <1>6, <1>7, <1>8 DEF t, u

LEMMA RestKept ==
    ASSUME NEW s \in Seq(Items), NEW levels \in SUBSET Levels,
           NEW last \in {<<>>, <<Verify>>}
    PROVE  /\ Only((s \o InOrder(levels)) \o last, Passes) = Only(s, Passes)
           /\ Only((s \o InOrder(levels)) \o last, Options)
                = Only(s, Options) \o InOrder(levels)
<1> DEFINE t == InOrder(levels)
<1>1. t \in Seq(Items) /\ last \in Seq(Items)
  <2>1. t \in Seq(Items)
    BY LevelsAreItems
  <2>2. <<>> \in Seq(Items) /\ <<Verify>> \in Seq(Items)
    BY DEF Items
  <2>3. QED
    BY <2>1, <2>2
<1>2. Only(t, Options) = t /\ Only(t, Passes) = <<>>
  BY LevelsKept
<1>3. Verify \notin Options /\ Verify \notin Passes
  BY PassPipelineAssumption DEF Options, Verify, LevelNames
<1>4. Only(last, Passes) = <<>>
  BY <1>3, VerifierDropped
<1>5. Only(last, Options) = <<>>
  BY <1>3, VerifierDropped
<1> HIDE DEF t
<1>6. Only((s \o t) \o last, Passes)
        = (Only(s, Passes) \o Only(t, Passes)) \o Only(last, Passes)
  BY <1>1, OnlyOfThree, SMTT(30)
<1>7. Only((s \o t) \o last, Options)
        = (Only(s, Options) \o Only(t, Options)) \o Only(last, Options)
  BY <1>1, OnlyOfThree, SMTT(30)
<1>8. Only(s, Passes) \o <<>> = Only(s, Passes)
  BY OnlyIsSeq, ConcatEmptySeq
<1>9. (Only(s, Options) \o t) \o <<>> = Only(s, Options) \o t
  <2>1. Only(s, Options) \in Seq(Items)
    BY OnlyIsSeq
  <2>2. Only(s, Options) \o t \in Seq(Items)
    BY <1>1, <2>1, ConcatProperties
  <2>3. QED
    BY <2>2, ConcatEmptySeq
<1>10. QED
  BY <1>2, <1>4, <1>5, <1>6, <1>7, <1>8, <1>9 DEF t

-----------------------------------------------------------------------------
(* The names of PassList.                                                  *)

NamesTo(entries, n) == [k \in 1 .. n |-> entries[k][1]]

LEMMA NamesAreSeq ==
    ASSUME NEW entries \in Seq(Entries), NEW n \in 0 .. Len(entries)
    PROVE  NamesTo(entries, n) \in Seq(Items)
<1>1. Len(entries) \in Nat /\ \A k \in 1 .. Len(entries) : entries[k] \in Entries
  BY LenProperties
<1>2. n \in Nat /\ \A k \in 1 .. n : k \in 1 .. Len(entries)
  BY <1>1
<1>3. \A k \in 1 .. n : entries[k][1] \in Items
  BY <1>1, <1>2 DEF Entries, Items
<1>4. QED
  BY <1>2, <1>3 DEF NamesTo

LEMMA NextName ==
    ASSUME NEW entries \in Seq(Entries), NEW n \in 1 .. Len(entries)
    PROVE  NamesTo(entries, n) = NamesTo(entries, n - 1) \o <<entries[n][1]>>
<1> DEFINE s == NamesTo(entries, n - 1)
           t == NamesTo(entries, n)
           x == entries[n][1]
<1>1. Len(entries) \in Nat /\ n \in Nat /\ n \in 0 .. Len(entries)
      /\ n - 1 \in Nat /\ n - 1 \in 0 .. Len(entries)
  BY LenProperties
<1>2. s \in Seq(Items) /\ t \in Seq(Items)
  BY <1>1, NamesAreSeq
<1>3. /\ DOMAIN s = 1 .. n - 1 /\ DOMAIN t = 1 .. n
      /\ \A k \in 1 .. n - 1 : s[k] = entries[k][1]
      /\ \A k \in 1 .. n : t[k] = entries[k][1]
  BY DEF NamesTo
<1>4. Len(s) = n - 1 /\ Len(t) = n
  BY <1>1 DEF NamesTo
<1>5. x \in Items /\ t[n] = x
  <2>1. n \in 1 .. n /\ entries[n] \in Entries
    BY <1>1
  <2>2. x \in Passes
    BY <2>1 DEF Entries
  <2>3. t[n] = x
    BY <2>1 DEF NamesTo
  <2>4. Passes \subseteq Items
    BY DEF Items
  <2> HIDE DEF s, t, x
  <2>5. QED
    BY <2>2, <2>3, <2>4
<1> HIDE DEF s, t, x
<1>6. /\ Len(s \o <<x>>) = n
      /\ \A k \in 1 .. n : (s \o <<x>>)[k] = IF k <= n - 1 THEN s[k] ELSE x
      /\ s \o <<x>> \in Seq(Items)
  BY <1>1, <1>2, <1>4, <1>5
<1>7. \A k \in 1 .. n : t[k] = (s \o <<x>>)[k]
  <2>1. ASSUME NEW k \in 1 .. n PROVE t[k] = (s \o <<x>>)[k]
    <3>1. CASE k <= n - 1
      <4>1. k \in 1 .. n - 1
        BY <1>1, <3>1
      <4>2. QED
        BY <1>3, <1>6, <3>1, <4>1
    <3>2. CASE ~(k <= n - 1)
      <4>1. k = n
        BY <1>1, <3>2
      <4>2. QED
        BY <1>5, <1>6, <3>2, <4>1
    <3>3. QED
      BY <3>1, <3>2
  <2>2. QED
    BY <2>1
<1>8. t = s \o <<x>>
  BY <1>2, <1>4, <1>6, <1>7, SeqEqual
<1>9. QED
  BY <1>8 DEF s, t, x

LEMMA NamesJoined ==
    ASSUME NEW a \in Seq(Entries), NEW b \in Seq(Entries)
    PROVE  NamesTo(a \o b, Len(a \o b)) = NamesTo(a, Len(a)) \o NamesTo(b, Len(b))
<1> DEFINE c == a \o b
           s == NamesTo(a, Len(a))
           t == NamesTo(b, Len(b))
           u == NamesTo(c, Len(c))
<1>1. /\ c \in Seq(Entries) /\ Len(a) \in Nat /\ Len(b) \in Nat
      /\ Len(c) = Len(a) + Len(b)
      /\ \A k \in 1 .. Len(a) + Len(b) :
           c[k] = IF k <= Len(a) THEN a[k] ELSE b[k - Len(a)]
  BY ConcatProperties, LenProperties
<1> HIDE DEF c
<1>2. Len(a) \in 0 .. Len(a) /\ Len(b) \in 0 .. Len(b) /\ Len(c) \in 0 .. Len(c)
  BY <1>1
<1>3. s \in Seq(Items) /\ t \in Seq(Items) /\ u \in Seq(Items)
  BY <1>1, <1>2, NamesAreSeq
<1>4. /\ DOMAIN s = 1 .. Len(a) /\ DOMAIN t = 1 .. Len(b)
      /\ DOMAIN u = 1 .. Len(a) + Len(b)
      /\ \A k \in 1 .. Len(a) : s[k] = a[k][1]
      /\ \A k \in 1 .. Len(b) : t[k] = b[k][1]
      /\ \A k \in 1 .. Len(a) + Len(b) : u[k] = c[k][1]
  BY <1>1 DEF NamesTo
<1>5. Len(s) = Len(a) /\ Len(t) = Len(b) /\ Len(u) = Len(a) + Len(b)
  BY <1>1, <1>3, <1>4, LenProperties
<1> HIDE DEF s, t, u
<1>6. /\ s \o t \in Seq(Items) /\ Len(s \o t) = Len(a) + Len(b)
      /\ \A k \in 1 .. Len(a) + Len(b) :
           (s \o t)[k] = IF k <= Len(a) THEN s[k] ELSE t[k - Len(a)]
  <2>1. /\ s \o t \in Seq(Items) /\ Len(s \o t) = Len(s) + Len(t)
        /\ \A k \in 1 .. Len(s) + Len(t) :
             (s \o t)[k] = IF k <= Len(s) THEN s[k] ELSE t[k - Len(s)]
    BY <1>3, ConcatProperties
  <2>2. QED
    BY <1>5, <2>1
<1>7. ASSUME NEW k \in 1 .. Len(a) + Len(b) PROVE u[k] = (s \o t)[k]
  <2>1. CASE k <= Len(a)
    <3>1. k \in 1 .. Len(a)
      BY <1>1, <2>1
    <3>2. QED
      BY <1>1, <1>4, <1>6, <2>1, <3>1
  <2>2. CASE ~(k <= Len(a))
    <3>1. k - Len(a) \in 1 .. Len(b)
      BY <1>1, <2>2
    <3>2. QED
      BY <1>1, <1>4, <1>6, <2>2, <3>1
  <2>3. QED
    BY <2>1, <2>2
<1>8. u = s \o t
  BY <1>3, <1>5, <1>6, <1>7, SeqEqual
<1>9. QED
  BY <1>8 DEF s, t, u, c

LEMMA NamesOfPlaced ==
    ASSUME NEW args \in Seq(Options)
    PROVE  Only(NamesTo(Placed(args), Len(Placed(args))), Normal) = Only(args, Normal)
<1> DEFINE entries == Placed(args)
<1>1. PICK m, f : /\ Enumerates(f, m, IsPass(args))
                  /\ entries = [n \in 1 .. m |-> <<args[f[n]], f[n]>>]
  BY PlacedAlong
<1>2. m \in Nat
  BY <1>1 DEF Enumerates
<1>3. Len(entries) = m
  BY <1>1, <1>2
<1>4. NamesTo(entries, m) = [n \in 1 .. m |-> args[f[n]]]
  BY <1>1 DEF NamesTo
<1>5. IsPass(args) = Where(args, Passes)
  BY DEF IsPass, Where
<1>6. Only(args, Passes) = [n \in 1 .. m |-> args[f[n]]]
  BY <1>1, <1>5, OnlyAlong
<1>7. Normal \in SUBSET Passes
  BY PassPipelineAssumption
<1>8. Only(Only(args, Passes), Normal) = Only(args, Normal)
  BY <1>7, OnlyOfOnly
<1>9. QED
  BY <1>3, <1>4, <1>6, <1>8

-----------------------------------------------------------------------------
(* The pipeline and PassList, at every turn of the loop.                   *)

\* The passes in the pipeline are those of PassList up to next, and the
\* passes of this call are the last of PassList.
OwnInv ==
    /\ list \in Seq(Entries)
    /\ next \in 1 .. Len(list) + 1
    /\ calls = 0 => list = <<>>
    /\ pc # "idle" =>
         /\ line \in Seq(Options)
         /\ \E old \in Seq(Entries) : list = old \o Placed(line)
         /\ Only(pipeline, Passes) = Only(NamesTo(list, next - 1), Normal)
    /\ pc = "built" => next = Len(list) + 1

\* The levels of the line that stand behind a place are on.
Behind(args, place) ==
    {args[i] : i \in {j \in Added(args) : args[j] \in Levels /\ place < j}}

\* What the line adds up to a place.
Reached(args, place) == {i \in Added(args) : i <= place}

\* Where no option is left of earlier calls, the pipeline has what the line
\* asks for up to the last pass that was reached.
OrderInv ==
    pc # "idle" /\ Fresh =>
        /\ list = Placed(line)
        /\ pc = "adding" =>
             /\ \A i \in Added(line) : line[i] \in Levels => position[line[i]] = i
             /\ on = Behind(line, Place(list, next - 1))
             /\ Arranged(Unverified, line, Reached(line, Place(list, next - 1)))
        /\ pc = "built" => Arranged(Unverified, line, Added(line))

LEMMA LinesAreSeqs ==
    ASSUME NEW args \in Lines
    PROVE  args \in Seq(Options)
BY PassPipelineAssumption DEF Options

\* An option that is given is given last somewhere.
LEMMA GivenLast ==
    ASSUME NEW args \in Seq(Options), NEW l \in Given(args)
    PROVE  \E i \in DOMAIN args : args[i] = l /\ IsLast(args, i)
<1> DEFINE S == {i \in DOMAIN args : args[i] = l}
<1>1. Len(args) \in Nat /\ DOMAIN args = 1 .. Len(args)
  BY LenProperties
<1>2. S \in SUBSET (1 .. Len(args)) /\ S # {} /\ \A i \in S : i \in Nat
  BY <1>1 DEF Given
<1> HIDE DEF S
<1>3. PICK m, e : Enumerates(e, m, S)
  BY <1>1, <1>2, Enumerable
<1>4. /\ m \in Nat /\ e \in [1 .. m -> S]
      /\ \A k, n \in 1 .. m : k < n => e[k] < e[n]
      /\ \A i \in S : \E n \in 1 .. m : e[n] = i
  BY <1>3 DEF Enumerates
<1>5. m \in 1 .. m
  <2>1. PICK i \in S : TRUE
    BY <1>2
  <2>2. PICK n \in 1 .. m : e[n] = i
    BY <1>4, <2>1
  <2>3. QED
    BY <1>4, <2>2
<1>6. e[m] \in S
  BY <1>4, <1>5
<1>7. ASSUME NEW j \in S PROVE j <= e[m]
  <2>1. PICK n \in 1 .. m : e[n] = j
    BY <1>4
  <2>2. n = m \/ n < m
    BY <1>4
  <2>3. j \in Nat /\ e[m] \in Nat
    BY <1>2, <1>6
  <2>4. QED
    BY <1>4, <1>5, <2>1, <2>2, <2>3
<1>8. QED
  BY <1>6, <1>7 DEF S, IsLast

LEMMA InitOrder == Init => OwnInv /\ OrderInv
<1> SUFFICES ASSUME Init PROVE OwnInv /\ OrderInv
  OBVIOUS
<1>1. <<>> \in Seq(Entries) /\ Len(<<>>) = 0
  OBVIOUS
<1>2. QED
  BY <1>1 DEF Init, OwnInv, OrderInv

LEMMA NothingNamed ==
    ASSUME NEW entries, NEW T
    PROVE  NamesTo(entries, 0) = <<>> /\ Only(<<>>, T) = <<>>
<1>1. NamesTo(entries, 0) = <<>>
  BY DEF NamesTo
<1>2. <<>> \in Seq(Items) /\ \A i \in DOMAIN <<>> : <<>>[i] \notin T
  OBVIOUS
<1>3. Only(<<>>, T) = <<>>
  BY <1>2, OnlyAllOrNone
<1>4. QED
  BY <1>1, <1>3

LEMMA ParseOrder ==
    ASSUME IInv, OwnInv, NEW args \in Lines, Parse(args)
    PROVE  OwnInv' /\ OrderInv'
<1> DEFINE old == AfterReset(list, <<>>)
           new == Placed(args)
<1>1. /\ pc = "idle" /\ pc' = "adding" /\ calls' = calls + 1 /\ line' = args
      /\ pipeline' = <<>> /\ class' = class /\ next' = 1
      /\ on' = AfterReset(on, {}) \cup (Given(args) \cap Levels)
      /\ list' = old \o new
  BY DEF Parse, setup
<1>2. position' = [l \in Levels |-> IF l \in Given(args)
                           THEN CHOOSE i \in DOMAIN args :
                                    args[i] = l /\ IsLast(args, i)
                           ELSE AfterReset(position[l], 0)]
  BY DEF Parse
<1>3. args \in Seq(Options)
  BY LinesAreSeqs
<1>4. new \in Seq(Entries)
  BY <1>3, PlacedEntries
<1>5. <<>> \in Seq(Entries) /\ old \in Seq(Entries)
  BY DEF AfterReset, OwnInv
<1>6. calls \in Nat
  BY DEF IInv, Shape
<1>7. OwnInv'
  <2>1. list' \in Seq(Entries) /\ next' \in 1 .. Len(list') + 1
    <3>1. list' \in Seq(Entries)
      BY <1>1, <1>4, <1>5, ConcatProperties
    <3>2. Len(list') \in Nat
      BY <3>1, LenProperties
    <3>3. QED
      BY <1>1, <3>1, <3>2
  <2>2. Only(pipeline', Passes) = Only(NamesTo(list', next' - 1), Normal)
    <3>1. next' - 1 = 0
      BY <1>1
    <3>2. NamesTo(list', 0) = <<>>
      BY NothingNamed
    <3>3. Only(<<>>, Passes) = <<>>
      BY NothingNamed
    <3>4. Only(<<>>, Normal) = <<>>
      BY NothingNamed
    <3>5. QED
      BY <1>1, <3>1, <3>2, <3>3, <3>4
  <2>3. \E o \in Seq(Entries) : list' = o \o Placed(line')
    BY <1>1, <1>5
  <2>4. line' \in Seq(Options)
    BY <1>1, <1>3
  <2>5. calls' # 0
    BY <1>1, <1>6
  <2> HIDE DEF old, new
  <2>6. QED
    BY <1>1, <2>1, <2>2, <2>3, <2>4, <2>5 DEF OwnInv
<1>8. ASSUME Fresh' PROVE old = <<>> /\ AfterReset(on, {}) = {}
  <2>1. class = "ClangLib" \/ calls = 0
    BY <1>1, <1>6, <1>8 DEF Fresh
  <2>2. QED
    BY <2>1 DEF AfterReset, OwnInv, IInv, CodeGenKept
<1>9. ASSUME Fresh'
      PROVE  /\ list' = Placed(line')
             /\ \A i \in Added(line') : line'[i] \in Levels => position'[line'[i]] = i
             /\ on' = Behind(line', Place(list', next' - 1))
             /\ Arranged(Unverified', line', Reached(line', Place(list', next' - 1)))
  <2>1. list' = Placed(line')
    <3>1. <<>> \o new = new
      BY <1>4, ConcatEmptySeq
    <3>2. QED
      BY <1>1, <1>8, <1>9, <3>1
  <2>2. ASSUME NEW i \in Added(args), args[i] \in Levels
        PROVE  position'[args[i]] = i
    <3>1. i \in DOMAIN args /\ IsLast(args, i) /\ args[i] \in Given(args)
      BY <2>2, PassPipelineAssumption DEF Added, Given
    <3>2. \A j \in DOMAIN args : args[j] = args[i] /\ IsLast(args, j) => j = i
      BY <1>3, <3>1, LenProperties DEF IsLast
    <3>3. (CHOOSE j \in DOMAIN args : args[j] = args[i] /\ IsLast(args, j)) = i
      BY <3>1, <3>2
    <3>4. QED
      BY <1>2, <2>2, <3>1, <3>3
  <2>3. Place(list', next' - 1) = 0
    BY <1>1 DEF Place
  <2>4. \A i \in DOMAIN args : i \in Nat /\ 0 < i
    BY <1>3, LenProperties
  <2>5. on' = Given(args) \cap Levels
    BY <1>1, <1>8, <1>9
  <2>6. Given(args) \cap Levels = Behind(args, 0)
    <3>1. ASSUME NEW l \in Given(args), l \in Levels PROVE l \in Behind(args, 0)
      <4>1. PICK i \in DOMAIN args : args[i] = l /\ IsLast(args, i)
        BY <1>3, GivenLast
      <4>2. i \in Added(args) /\ 0 < i
        BY <2>4, <3>1, <4>1 DEF Added
      <4>3. QED
        BY <3>1, <4>1, <4>2 DEF Behind
    <3>2. \A l \in Behind(args, 0) : l \in Given(args) /\ l \in Levels
      BY DEF Behind, Given, Added
    <3>3. QED
      BY <3>1, <3>2
  <2>7. Reached(args, 0) = {}
    BY <2>4 DEF Reached, Added
  <2>8. Unverified' = <<>>
    BY <1>1, NothingNamed DEF Unverified
  <2>9. Arranged(<<>>, args, {})
    BY ArrangedNone
  <2>10. QED
    BY <1>1, <2>1, <2>2, <2>3, <2>5, <2>6, <2>7, <2>8, <2>9
<1>10. OrderInv'
  BY <1>1, <1>9 DEF OrderInv
<1>11. QED
  BY <1>7, <1>10

\* The place of a pass that was reached.
LEMMA PlaceReached ==
    ASSUME NEW args \in Seq(Options), NEW entries, entries = Placed(args),
           NEW n \in 0 .. Len(entries)
    PROVE  /\ Place(entries, n) \in Nat
           /\ \/ Place(entries, n) = 0
              \/ /\ Place(entries, n) \in DOMAIN args
                 /\ args[Place(entries, n)] \in Passes
<1>1. Len(entries) \in Nat /\ DOMAIN args \subseteq Nat
  BY PlacedEntries, LenProperties
<1>2. CASE n = 0
  BY <1>2 DEF Place
<1>3. CASE n # 0
  <2>1. n \in 1 .. Len(entries)
    BY <1>1, <1>3
  <2>2. Place(entries, n) \in DOMAIN args /\ args[Place(entries, n)] \in Passes
    BY <2>1, PlacedEntries
  <2>3. QED
    BY <1>1, <2>2
<1>4. QED
  BY <1>2, <1>3

\* What stands up to a pass is added before what stands behind it.
LEMMA ReachedBefore ==
    ASSUME NEW args \in Seq(Options), NEW place \in Nat, NEW hi \in Nat,
           \/ place = 0
           \/ place \in DOMAIN args /\ args[place] \in Passes
    PROVE  AllBefore(args, Reached(args, place), Stretch(args, place, hi))
<1>1. \A i \in DOMAIN args : i \in Nat /\ 0 < i
  BY LenProperties
<1>2. ASSUME NEW i \in Reached(args, place), NEW j \in Stretch(args, place, hi)
      PROVE  Precedes(args, i, j) /\ ~Precedes(args, j, i)
  <2>1. /\ i \in DOMAIN args /\ j \in DOMAIN args /\ i <= place /\ place < j
        /\ i \in Nat /\ j \in Nat /\ 0 < i
    BY <1>1 DEF Reached, Added, Stretch
  <2>2. place \in DOMAIN args /\ args[place] \in Passes
    BY <2>1
  <2>3. i < j /\ place <= j
    BY <2>1
  <2>4. QED
    BY <2>1, <2>2, <2>3, PassSeparates
<1>3. QED
  BY <1>2 DEF AllBefore

LEMMA NormalKept ==
    ASSUME NEW pass \in Passes
    PROVE  Only(<<pass>>, Normal) = AddUnverified(pass)
<1> DEFINE s == <<pass>>
<1>1. s \in Seq(Items) /\ DOMAIN s = {1} /\ s[1] = pass
  BY DEF Items
<1> HIDE DEF s
<1>2. ASSUME pass \in Normal PROVE Only(s, Normal) = s
  <2>1. \A i \in DOMAIN s : s[i] \in Normal
    BY <1>1, <1>2
  <2>2. QED
    BY <1>1, <2>1, OnlyAllOrNone
<1>3. ASSUME pass \notin Normal PROVE Only(s, Normal) = <<>>
  <2>1. \A i \in DOMAIN s : s[i] \notin Normal
    BY <1>1, <1>3
  <2>2. QED
    BY <1>1, <2>1, OnlyAllOrNone
<1>4. QED
  BY <1>2, <1>3 DEF AddUnverified, s

\* One turn takes what is arranged from one pass to the next.
LEMMA TurnArranged ==
    ASSUME NEW args \in Seq(Options), NEW lo \in Nat, NEW hi \in DOMAIN args, lo < hi,
           \/ lo = 0
           \/ lo \in DOMAIN args /\ args[lo] \in Passes,
           args[hi] \in Passes, OnlyLevels(args, lo, hi), NEW levels,
           levels = {args[i] : i \in Stretch(args, lo, hi)},
           NEW s, Arranged(s, args, Reached(args, lo))
    PROVE  Arranged((s \o InOrder(levels)) \o AddUnverified(args[hi]), args,
                    Reached(args, hi))
<1> DEFINE t == InOrder(levels)
           A == Reached(args, lo)
           B == Stretch(args, lo, hi)
<1>1. \A i \in DOMAIN args : i \in Nat
  BY LenProperties
<1>2. hi \in Nat
  BY <1>1
<1>3. Arranged(t, args, B)
  BY <1>2, InOrderArranged
<1>4. AllBefore(args, A, B)
  BY <1>1, <1>2, ReachedBefore
<1> HIDE DEF t
<1>5. Arranged(s \o t, args, A \cup B)
  <2> HIDE DEF A, B
  <2>1. Arranged(s, args, A)
    BY DEF A
  <2>2. QED
    BY <1>3, <1>4, <2>1, ArrangedJoined
<1>6. \A i \in A \cup B : i \in DOMAIN args /\ i < hi
  BY <1>1, <1>2 DEF Reached, Added, Stretch
<1>7. \A i \in B : i \in Added(args)
  BY DEF Stretch
<1>8. CASE args[hi] \in Normal
  <2> DEFINE u == <<args[hi]>>
  <2>1. Arranged(u, args, {hi})
    BY <1>1, ArrangedOne
  <2>2. AllBefore(args, A \cup B, {hi})
    <3>1. ASSUME NEW i \in A \cup B
          PROVE  Precedes(args, i, hi) /\ ~Precedes(args, hi, i)
      <4>1. i \in DOMAIN args /\ i < hi /\ i <= hi /\ hi <= hi
        BY <1>1, <1>2, <1>6
      <4>2. QED
        BY <1>1, <4>1, PassSeparates
    <3>2. QED
      BY <3>1 DEF AllBefore
  <2>3. hi \in Added(args)
    BY <1>8 DEF Added
  <2>4. (A \cup B) \cup {hi} = Reached(args, hi)
    BY <1>1, <1>2, <1>6, <1>7, <2>3 DEF Reached, Added, Stretch
  <2> DEFINE st == s \o t
             AB == A \cup B
  <2>5. Arranged(st, args, AB) /\ AllBefore(args, AB, {hi})
    BY <1>5, <2>2
  <2> HIDE DEF u, st, AB
  <2>6. Arranged(st \o u, args, AB \cup {hi})
    BY <2>1, <2>5, ArrangedJoined
  <2>7. AddUnverified(args[hi]) = u
    BY <1>8 DEF AddUnverified, u
  <2>8. QED
    BY <2>4, <2>6, <2>7 DEF st, AB, t
<1>9. CASE args[hi] \notin Normal
  <2>1. hi \notin Added(args)
    BY <1>9, PassPipelineAssumption DEF Added
  <2>2. A \cup B = Reached(args, hi)
    BY <1>1, <1>2, <1>6, <1>7, <2>1 DEF Reached, Added, Stretch
  <2>3. AddUnverified(args[hi]) = <<>>
    BY <1>9 DEF AddUnverified
  <2>4. (s \o t) \o <<>> = s \o t
    BY <1>5, ConcatEmptySeq DEF Arranged
  <2>5. QED
    BY <1>5, <2>2, <2>3, <2>4 DEF t
<1>10. QED
  BY <1>8, <1>9

LEMMA NextPassOrder ==
    ASSUME IInv, OwnInv, OrderInv, NextPass
    PROVE  OwnInv' /\ OrderInv'
<1> DEFINE pass == list[next][1]
           hi == Place(list, next)
           lo == Place(list, next - 1)
           due == Due(list[next][2])
<1>1. /\ pc = "adding" /\ pc' = "adding" /\ on' = on \ due /\ next <= Len(list)
      /\ pipeline' = (pipeline \o InOrder(due)) \o AddPass(pass)
      /\ next' = next + 1
      /\ UNCHANGED <<class, verifies, line, calls, position, list>>
  BY DEF NextPass, setup
<1>2. /\ list \in Seq(Entries) /\ Len(list) \in Nat /\ next \in 1 .. Len(list)
      /\ next \in Nat /\ next' - 1 = next /\ next' \in 1 .. Len(list) + 1
      /\ line \in Seq(Options)
  <2>1. list \in Seq(Entries) /\ next \in 1 .. Len(list) + 1 /\ line \in Seq(Options)
    BY <1>1 DEF OwnInv
  <2>2. Len(list) \in Nat
    BY <2>1, LenProperties
  <2>3. QED
    BY <1>1, <2>1, <2>2
<1>3. pass \in Passes /\ hi = list[next][2]
  <2>1. list[next] \in Entries
    BY <1>2
  <2>2. \A e \in Entries : e[1] \in Passes
    BY DEF Entries
  <2>3. QED
    BY <1>2, <2>1, <2>2 DEF Place
<1>4. /\ due \in SUBSET Levels /\ pipeline \in Seq(Items) /\ Shape
  BY DEF Due, IInv, Shape
<1>5. OwnInv'
  <2> HIDE DEF pass, due
  <2>1. Only(pipeline', Passes) = Only(pipeline, Passes) \o AddUnverified(pass)
    BY <1>1, <1>4, TurnKept
  <2>2. Only(pipeline, Passes) = Only(NamesTo(list, next - 1), Normal)
    BY <1>1 DEF OwnInv
  <2> DEFINE a == NamesTo(list, next - 1)
             b == <<pass>>
  <2>3. NamesTo(list, next) = a \o b
    BY <1>2, NextName DEF pass
  <2>4. a \in Seq(Items) /\ b \in Seq(Items)
    <3>1. next - 1 \in 0 .. Len(list)
      BY <1>2
    <3>2. a \in Seq(Items)
      BY <1>2, <3>1, NamesAreSeq
    <3>3. pass \in Items
      BY <1>3 DEF Items
    <3>4. QED
      BY <3>2, <3>3
  <2>5. Only(b, Normal) = AddUnverified(pass)
    BY <1>3, NormalKept
  <2> HIDE DEF a, b
  <2>6. Only(a \o b, Normal) = Only(a, Normal) \o Only(b, Normal)
    BY <2>4, OnlyJoined
  <2>7. Only(pipeline', Passes) = Only(NamesTo(list, next), Normal)
    BY <2>1, <2>2, <2>3, <2>5, <2>6 DEF a
  <2>8. Only(pipeline', Passes) = Only(NamesTo(list', next' - 1), Normal)
    BY <1>1, <1>2, <2>7
  <2>9. /\ list' \in Seq(Entries) /\ next' \in 1 .. Len(list') + 1
        /\ line' \in Seq(Options)
        /\ \E old \in Seq(Entries) : list' = old \o Placed(line')
        /\ calls' = 0 => list' = <<>>
    BY <1>1, <1>2 DEF OwnInv
  <2>10. QED
    BY <1>1, <2>8, <2>9 DEF OwnInv
<1>6. ASSUME Fresh
      PROVE  /\ on' = Behind(line, hi)
             /\ Arranged(Unverified', line, Reached(line, hi))
  <2>1. /\ list = Placed(line)
        /\ \A i \in Added(line) : line[i] \in Levels => position[line[i]] = i
        /\ on = Behind(line, lo)
        /\ Arranged(Unverified, line, Reached(line, lo))
    BY <1>1, <1>6 DEF OrderInv
  <2>2. \A i \in DOMAIN line : i \in Nat
    BY <1>2, LenProperties
  <2>3. lo < hi /\ hi \in DOMAIN line /\ line[hi] \in Passes /\ pass = line[hi]
    <3>1. lo < hi
      BY <1>2, <2>1, PlacedEntries
    <3>2. hi \in DOMAIN line /\ list[next] = <<line[hi], hi>> /\ line[hi] \in Passes
      BY <1>2, <2>1, PlacedEntries
    <3>3. QED
      BY <3>1, <3>2
  <2>4. next - 1 \in 0 .. Len(list)
    BY <1>2
  <2>5. /\ lo \in Nat
        /\ lo = 0 \/ (lo \in DOMAIN line /\ line[lo] \in Passes)
    <3>1. /\ Place(list, next - 1) \in Nat
          /\ \/ Place(list, next - 1) = 0
             \/ /\ Place(list, next - 1) \in DOMAIN line
                /\ line[Place(list, next - 1)] \in Passes
      BY <1>2, <2>1, <2>4, PlaceReached
    <3>2. QED
      BY <3>1
  <2>6. OnlyLevels(line, lo, hi)
    BY <1>2, <2>1, LevelsBetween
  <2> HIDE DEF lo, hi
  <2>7. due = {line[i] : i \in Stretch(line, lo, hi)}
    <3>1. ASSUME NEW l \in due PROVE \E i \in Stretch(line, lo, hi) : l = line[i]
      <4>1. l \in on /\ position[l] < hi
        BY <1>3 DEF Due
      <4>2. PICK i \in Added(line) : line[i] \in Levels /\ lo < i /\ l = line[i]
        BY <2>1, <4>1 DEF Behind
      <4>3. i < hi
        BY <2>1, <4>1, <4>2
      <4>4. QED
        BY <4>2, <4>3 DEF Stretch
    <3>2. ASSUME NEW i \in Stretch(line, lo, hi) PROVE line[i] \in due
      <4>1. i \in Added(line) /\ lo < i /\ i < hi /\ line[i] \in Levels
        BY <2>6 DEF OnlyLevels, Stretch, Added
      <4>2. line[i] \in on /\ position[line[i]] = i
        BY <2>1, <4>1 DEF Behind
      <4>3. QED
        BY <1>3, <4>1, <4>2 DEF Due
    <3>3. QED
      BY <3>1, <3>2
  <2> HIDE DEF due, pass
  <2>8. Arranged((Unverified \o InOrder(due)) \o AddUnverified(line[hi]), line,
                 Reached(line, hi))
    BY <1>2, <2>1, <2>3, <2>5, <2>6, <2>7, TurnArranged
  <2>9. Only(pipeline', Options)
          = (Only(pipeline, Options) \o InOrder(due)) \o AddUnverified(pass)
    BY <1>1, <1>4, TurnKept
  <2>10. Unverified = Only(pipeline, Options) /\ Unverified' = Only(pipeline', Options)
    BY DEF Unverified, Options
  <2>11. Arranged(Unverified', line, Reached(line, hi))
    BY <2>3, <2>8, <2>9, <2>10
  <2>12. on \ due = Behind(line, hi)
    <3>1. ASSUME NEW l \in on, l \notin due
          PROVE  l \in Behind(line, hi)
      <4>1. PICK i \in Added(line) : line[i] \in Levels /\ lo < i /\ l = line[i]
        BY <2>1 DEF Behind
      <4>2. ~(i < hi)
        BY <2>7, <3>1, <4>1 DEF Stretch
      <4>3. i # hi
        BY <2>3, <4>1, PassPipelineAssumption
      <4>4. hi < i
        BY <2>2, <2>3, <4>1, <4>2, <4>3 DEF Added
      <4>5. QED
        BY <4>1, <4>4 DEF Behind
    <3>2. ASSUME NEW l \in Behind(line, hi)
          PROVE  l \in on /\ l \notin due
      <4>1. PICK i \in Added(line) : line[i] \in Levels /\ hi < i /\ l = line[i]
        BY DEF Behind
      <4>2. lo < i
        BY <2>2, <2>3, <2>5, <4>1 DEF Added
      <4>3. l \in on
        BY <2>1, <4>1, <4>2 DEF Behind
      <4>4. l \notin due
        <5>1. ASSUME NEW j \in Stretch(line, lo, hi), l = line[j] PROVE FALSE
          <6>1. j \in DOMAIN line /\ j < hi /\ i \in DOMAIN line
            BY DEF Stretch, Added
          <6>2. IsLast(line, j)
            BY <4>1, <5>1, PassPipelineAssumption DEF Stretch, Added
          <6>3. i <= j
            BY <4>1, <5>1, <6>1, <6>2 DEF IsLast
          <6>4. QED
            BY <2>2, <2>3, <4>1, <6>1, <6>3
        <5>2. QED
          BY <2>7, <5>1
      <4>5. QED
        BY <4>3, <4>4
    <3>3. QED
      BY <3>1, <3>2
  <2>13. QED
    BY <1>1, <2>11, <2>12
<1>7. OrderInv'
  <2>1. Fresh' <=> Fresh
    BY <1>1 DEF Fresh
  <2>2. Place(list', next' - 1) = hi
    BY <1>1, <1>2
  <2>3. ASSUME Fresh
        PROVE  /\ list = Placed(line)
               /\ \A i \in Added(line) : line[i] \in Levels => position[line[i]] = i
    BY <1>1, <2>3 DEF OrderInv
  <2> HIDE DEF hi, lo, due, pass
  <2>4. QED
    BY <1>1, <1>6, <2>1, <2>2, <2>3 DEF OrderInv
<1>8. QED
  BY <1>5, <1>7

LEMMA AddRestOrder ==
    ASSUME IInv, OwnInv, OrderInv, AddRest
    PROVE  OwnInv' /\ OrderInv'
<1> DEFINE lo == Place(list, next - 1)
           last == IF verifies = "end" THEN <<Verify>> ELSE <<>>
<1>1. /\ pc = "adding" /\ pc' = "built" /\ next > Len(list)
      /\ pipeline' = (pipeline \o InOrder(on)) \o last
      /\ UNCHANGED <<class, verifies, line, calls, position, list, next>>
  BY DEF AddRest, setup
<1>2. /\ list \in Seq(Entries) /\ Len(list) \in Nat /\ next = Len(list) + 1
      /\ next - 1 = Len(list) /\ next - 1 \in 0 .. Len(list)
      /\ line \in Seq(Options)
  <2>1. list \in Seq(Entries) /\ next \in 1 .. Len(list) + 1 /\ line \in Seq(Options)
    BY <1>1 DEF OwnInv
  <2>2. Len(list) \in Nat
    BY <2>1, LenProperties
  <2>3. QED
    BY <1>1, <2>1, <2>2
<1>3. /\ on \in SUBSET Levels /\ pipeline \in Seq(Items)
      /\ last \in {<<>>, <<Verify>>}
  BY DEF IInv, Shape
<1> HIDE DEF last
<1>4. OwnInv'
  <2>1. Only(pipeline', Passes) = Only(pipeline, Passes)
    BY <1>1, <1>3, RestKept
  <2>2. Only(pipeline, Passes) = Only(NamesTo(list, next - 1), Normal)
    BY <1>1 DEF OwnInv
  <2>3. Only(pipeline', Passes) = Only(NamesTo(list', next' - 1), Normal)
    BY <1>1, <2>1, <2>2
  <2>4. /\ list' \in Seq(Entries) /\ next' \in 1 .. Len(list') + 1
        /\ line' \in Seq(Options)
        /\ \E old \in Seq(Entries) : list' = old \o Placed(line')
        /\ calls' = 0 => list' = <<>>
    BY <1>1 DEF OwnInv
  <2>5. next' = Len(list') + 1
    BY <1>1, <1>2
  <2>6. QED
    BY <1>1, <2>3, <2>4, <2>5 DEF OwnInv
<1>5. ASSUME Fresh PROVE Arranged(Unverified', line, Added(line))
  <2> DEFINE hi == Len(line) + 1
  <2>1. /\ list = Placed(line)
        /\ on = Behind(line, lo)
        /\ Arranged(Unverified, line, Reached(line, lo))
    BY <1>1, <1>5 DEF OrderInv
  <2>2. /\ Len(line) \in Nat /\ hi \in Nat
        /\ \A i \in DOMAIN line : i \in Nat /\ i < hi
    BY <1>2, LenProperties
  <2>3. /\ Place(list, next - 1) \in Nat
        /\ \/ Place(list, next - 1) = 0
           \/ /\ Place(list, next - 1) \in DOMAIN line
              /\ line[Place(list, next - 1)] \in Passes
    BY <1>2, <2>1, PlaceReached
  <2>4. OnlyLevels(line, Place(list, Len(list)), Len(line) + 1)
    BY <1>2, <2>1, LevelsBehind
  <2>5. OnlyLevels(line, lo, hi)
    BY <1>2, <2>4
  <2> DEFINE A == Reached(line, lo)
             B == Stretch(line, lo, hi)
  <2>6. AllBefore(line, A, B)
    BY <1>2, <2>2, <2>3, ReachedBefore
  <2> HIDE DEF lo
  <2>7. on = {line[i] : i \in B}
    BY <2>1, <2>2, <2>5 DEF Behind, OnlyLevels, Stretch, Added
  <2>8. lo \in Nat
    BY <2>3 DEF lo
  <2>9. Arranged(InOrder(on), line, B)
    <3> HIDE DEF hi
    <3>1. QED
      BY <1>2, <2>2, <2>5, <2>7, <2>8, InOrderArranged
  <2>10. A \cup B = Added(line)
    BY <2>2, <2>5, <2>8 DEF Reached, Added, Stretch, OnlyLevels
  <2>11. Arranged(Unverified, line, A)
    BY <2>1
  <2> HIDE DEF A, B
  <2>12. Arranged(Unverified \o InOrder(on), line, A \cup B)
    BY <2>6, <2>9, <2>11, ArrangedJoined
  <2>13. Only(pipeline', Options) = Only(pipeline, Options) \o InOrder(on)
    BY <1>1, <1>3, RestKept
  <2>14. Unverified = Only(pipeline, Options) /\ Unverified' = Only(pipeline', Options)
    BY DEF Unverified, Options
  <2>15. QED
    BY <2>10, <2>12, <2>13, <2>14
<1>6. OrderInv'
  <2>1. Fresh' <=> Fresh
    BY <1>1 DEF Fresh
  <2>2. ASSUME Fresh PROVE list = Placed(line)
    BY <1>1, <2>2 DEF OrderInv
  <2> HIDE DEF lo
  <2>3. QED
    BY <1>1, <1>5, <2>1, <2>2 DEF OrderInv
<1>7. QED
  BY <1>4, <1>6

LEMMA StepOrder ==
    ASSUME IInv, OwnInv, OrderInv, [Next]_vars
    PROVE  OwnInv' /\ OrderInv'
<1>1. CASE RunPasses \/ UNCHANGED vars
  <2>1. /\ UNCHANGED <<class, line, calls, on, position, list, next, pipeline>>
        /\ (pc' = "idle" \/ pc' = pc)
    BY <1>1 DEF RunPasses, vars, setup
  <2>2. OwnInv'
    BY <2>1 DEF OwnInv
  <2>3. (Fresh' <=> Fresh) /\ Unverified' = Unverified
    BY <2>1 DEF Fresh, Unverified
  <2>4. OrderInv'
    BY <2>1, <2>3 DEF OrderInv
  <2>5. QED
    BY <2>2, <2>4
<1>2. QED
  BY <1>1, ParseOrder, NextPassOrder, AddRestOrder DEF Next

(***************************************************************************)
(* What the loop over PassList preserves: the passes in the pipeline are   *)
(* those of PassList up to the one it has reached, and the pipeline of a   *)
(* call with no options left of earlier ones has what its command line     *)
(* asks for up to there, in order.                                         *)
(***************************************************************************)
THEOREM LoopInvariance == Spec => [](OwnInv /\ OrderInv)
<1>1. Init => OwnInv /\ OrderInv
  BY InitOrder
<1>2. IInv /\ (OwnInv /\ OrderInv) /\ [Next]_vars => (OwnInv /\ OrderInv)'
  BY StepOrder
<1>3. QED
  BY <1>1, <1>2, Invariance, PTL DEF Spec

(***************************************************************************)
(* A call whose options are all its own adds exactly what its command line *)
(* asks for, each pass where it was named and each level between the       *)
(* passes where it was given, and generates code at the level it was       *)
(* given: nothing of an earlier call is in the way.                        *)
(***************************************************************************)
THEOREM PipelineIsAsAsked == Spec => []PipelineAsAsked
<1>1. OrderInv /\ CodeGenAsGiven => PipelineAsAsked
  BY ArrangedAsGiven DEF OrderInv, PipelineAsAsked
<1>2. QED
  BY <1>1, LoopInvariance, CodeGenFollows, PTL

(***************************************************************************)
(* Every call, also a JITCompiler's that starts from what earlier ones     *)
(* left, runs the passes it named last and in the order it named them, and *)
(* each level it was given, once.                                          *)
(***************************************************************************)
THEOREM OwnPassesRunLast == Spec => []OwnPassesRun
<1>1. ASSUME OwnInv, pc = "built"
      PROVE  EndsWith(Only(pipeline, Passes), Only(line, Normal))
  <2>1. PICK old \in Seq(Entries) : list = old \o Placed(line)
    BY <1>1 DEF OwnInv
  <2> DEFINE new == Placed(line)
             a == NamesTo(old, Len(old))
             b == NamesTo(new, Len(new))
             s == Only(a, Normal)
             t == Only(line, Normal)
  <2>2. line \in Seq(Options) /\ list \in Seq(Entries) /\ next = Len(list) + 1
    BY <1>1 DEF OwnInv
  <2>3. new \in Seq(Entries)
    BY <2>2, PlacedEntries
  <2>4. Only(b, Normal) = t
    BY <2>2, NamesOfPlaced
  <2> HIDE DEF new
  <2>5. NamesTo(old \o new, Len(old \o new)) = a \o b
    BY <2>3, NamesJoined
  <2>6. a \in Seq(Items) /\ b \in Seq(Items)
    <3>1. Len(old) \in 0 .. Len(old) /\ Len(new) \in 0 .. Len(new)
      BY <2>3, LenProperties
    <3>2. QED
      BY <2>3, <3>1, NamesAreSeq
  <2>7. next - 1 = Len(list)
    BY <2>2, LenProperties
  <2>8. NamesTo(list, next - 1) = a \o b
    BY <2>1, <2>5, <2>7 DEF new
  <2>9. Only(pipeline, Passes) = Only(a \o b, Normal)
    BY <1>1, <2>8 DEF OwnInv
  <2>10. s \in Seq(Items) /\ t \in Seq(Items)
    <3> HIDE DEF a, b
    <3>1. Only(a, Normal) \in Seq(Items) /\ Only(b, Normal) \in Seq(Items)
      BY <2>6, OnlyIsSeq
    <3>2. QED
      BY <2>4, <3>1
  <2> HIDE DEF a, b, t
  <2>11. Only(a \o b, Normal) = Only(a, Normal) \o Only(b, Normal)
    BY <2>6, OnlyJoined
  <2>12. Only(pipeline, Passes) = s \o t
    BY <2>4, <2>9, <2>11
  <2> HIDE DEF s
  <2>13. /\ Len(s) \in Nat /\ Len(t) \in Nat /\ Len(s \o t) = Len(s) + Len(t)
         /\ \A i \in 1 .. Len(s) + Len(t) :
              (s \o t)[i] = IF i <= Len(s) THEN s[i] ELSE t[i - Len(s)]
    BY <2>10, ConcatProperties, LenProperties
  <2>14. ASSUME NEW i \in 1 .. Len(t)
         PROVE  (s \o t)[Len(s \o t) - Len(t) + i] = t[i]
    <3>1. /\ Len(s) + Len(t) - Len(t) + i = Len(s) + i
          /\ Len(s) + i \in 1 .. Len(s) + Len(t) /\ ~(Len(s) + i <= Len(s))
          /\ Len(s) + i - Len(s) = i
      BY <2>13
    <3>2. QED
      BY <2>13, <3>1
  <2>15. Len(t) <= Len(s \o t)
    BY <2>13
  <2>16. EndsWith(s \o t, t)
    BY <2>14, <2>15 DEF EndsWith
  <2>17. QED
    BY <2>12, <2>16 DEF t
<1>2. OwnInv /\ LevelsOnce => OwnPassesRun
  BY <1>1 DEF OwnPassesRun
<1>3. QED
  BY <1>2, LoopInvariance, LevelsAreAddedOnce, PTL
=============================================================================
