---------------------------- MODULE DeclaredProofs ----------------------------
(***************************************************************************)
(* Proofs about what is declared: the stacks of iac/, brought up in any    *)
(* order with any configurations, the plans of governance, the environment *)
(* and command lines of an external command, and the choice of             *)
(* credentials.  The rest of MCDeclared leaves them alone.                 *)
(***************************************************************************)
EXTENDS MCDeclared, StackProofs

\* The plans of the run.
LEMMA InputsAreCoherent == MCInit => (input.op = "plan" => PlanIsCoherent(input))
<1> SUFFICES ASSUME MCInit, input.op = "plan" PROVE PlanIsCoherent(input)
  OBVIOUS
<1>1. ~DiffInput
  <2>1. input \notin [op : {"set"}, l : SeqOf({1, 2, 3}, 3), r : SeqOf({1, 2, 3}, 3)]
    OBVIOUS
  <2>2. input \notin [op : {"move"}, b : Items, t : Items, l : Items]
    OBVIOUS
  <2>3. input \notin [op : {"map"}, l : UNION {[D -> {1, 2}] : D \in SUBSET {1, 2, 3}},
                      r : UNION {[D -> {1, 2}] : D \in SUBSET {1, 2, 3}}]
    OBVIOUS
  <2>4. input \notin [op : {"schema"}, l : Schemas, r : Schemas]
    OBVIOUS
  <2>5. input \notin [op : {"stats"}, l : Stats, r : Stats \cup {<<>>}, t : {0, 5, 10}]
    OBVIOUS
  <2>6. \A A : input \notin [op : {"compare"}, t : {0, 10}, ask : A]
    OBVIOUS
  <2>7. input \notin [op : {"target"}, parts : SeqOf({"p", "d"}, 5)]
    OBVIOUS
  <2> QED BY <2>1, <2>2, <2>3, <2>4, <2>5, <2>6, <2>7 DEF DiffInput
<1>2. ~ProcInput
  <2>1. \A A, B, C : input \notin [op : {"env"}, call : A, parent : B, r : C]
    OBVIOUS
  <2>2. \A A, B : input \notin [op : {"args"}, k : A, v : B]
    OBVIOUS
  <2>3. \A A, B : input \notin [op : {"auth"}, env : A, opts : B]
    OBVIOUS
  <2> QED BY <2>1, <2>2, <2>3 DEF ProcInput
<1>3. ~CellInput
  <2>1. \A A : input \notin [op : {"a1"}, col : A]
    OBVIOUS
  <2>2. \A A : input \notin [op : {"title"}, title : A]
    OBVIOUS
  <2> QED BY <2>1, <2>2 DEF CellInput
<1>4. input # [op |-> "none"]
  OBVIOUS
<1>5. PlanInput
  BY <1>1, <1>2, <1>3, <1>4 DEF MCInit
<1>6. input.Hierarchy.Children \in SeqOf({Empty, <<"c">>, <<"r">>}, 2)
  BY <1>5 DEF PlanInput
<1>7. input.Dimensions \in {<<>>, <<Dim("cost")>>, <<Dim("cost"), Dim("cost")>>}
  BY <1>5 DEF PlanInput
<1>8. IsList(input.Hierarchy.Children)
  <2>1. PICK m \in 0..2 : input.Hierarchy.Children \in [1..m -> {Empty, <<"c">>, <<"r">>}]
    BY <1>6 DEF SeqOf
  <2>2. PICK f, S : f = input.Hierarchy.Children /\ S = {Empty, <<"c">>, <<"r">>}
    OBVIOUS
  <2>3. m \in Nat /\ f \in [1..m -> S]
    BY <2>1, <2>2
  <2>4. IsList(f)
    BY <2>3, FunList
  <2> QED BY <2>2, <2>4
<1>9. PICK d : d = Dim("cost")
  OBVIOUS
<1>10. IsList(d.ShortName)
  <2>1. PICK n : n = <<"cost">>
    OBVIOUS
  <2>2. IsList(n)
    BY <2>1, OneList
  <2>3. d.ShortName = n
    BY <1>9, <2>1 DEF Dim
  <2> QED BY <2>2, <2>3
<1>11. /\ IsList(input.Dimensions)
       /\ \A i \in 1..Len(input.Dimensions) : IsList(input.Dimensions[i].ShortName)
  <2>1. CASE input.Dimensions = <<>>
    BY <2>1, OkFacts
  <2>2. CASE input.Dimensions = <<Dim("cost")>>
    <3>1. PICK s : s = <<d>>
      OBVIOUS
    <3>2. IsList(s) /\ Len(s) = 1 /\ s[1] = d
      BY <3>1, OneList
    <3>3. input.Dimensions = s
      BY <1>9, <2>2, <3>1
    <3>4. \A i \in 1..1 : i = 1
      OBVIOUS
    <3> QED BY <1>10, <3>2, <3>3, <3>4
  <2>3. CASE input.Dimensions = <<Dim("cost"), Dim("cost")>>
    <3>1. PICK s : s = <<d, d>>
      OBVIOUS
    <3>2. IsList(s) /\ Len(s) = 2 /\ s[1] = d /\ s[2] = d
      BY <3>1, PairList
    <3>3. input.Dimensions = s
      BY <1>9, <2>3, <3>1
    <3>4. \A i \in 1..2 : i \in {1, 2}
      OBVIOUS
    <3> QED BY <1>10, <3>2, <3>3, <3>4
  <2> QED BY <1>7, <2>1, <2>2, <2>3
<1>12. PICK p : p = input
  OBVIOUS
<1>13. PlanIsCoherent(p)
  BY <1>8, <1>11, <1>12, PlansAreCoherent
<1> QED BY <1>12, <1>13

\* Every step, also of the other parts, which leave the stacks alone.
LEMMA StacksGoOn == StackInv /\ [MCNext]_allVars => StackInv' /\ input' = input
<1> SUFFICES ASSUME StackInv, [MCNext]_allVars PROVE StackInv' /\ input' = input
  OBVIOUS
<1>1. input' = input
  BY DEF MCNext, allVars
<1>2. Next \/ UNCHANGED iacVars
  BY DEF MCNext, allVars
<1>3. CASE Next
  BY <1>1, <1>3, UpKeepsInv DEF Next
<1>4. CASE UNCHANGED iacVars
  <2>1. held' = held /\ world' = world /\ ups' = ups /\ last' = last
    BY <1>4 DEF iacVars
  <2>2. Sound'
    <3>1. TypeOK'
      BY <2>1 DEF StackInv, Sound, TypeOK
    <3>2. Placed'
      BY <2>1 DEF StackInv, Sound, Placed
    <3>3. NeverTwice'
      BY <2>1 DEF StackInv, Sound, NeverTwice, Duplicate
    <3>4. SinkIsNarrow'
      BY <2>1 DEF StackInv, Sound, SinkIsNarrow
    <3> QED BY <3>1, <3>2, <3>3, <3>4 DEF Sound
  <2>3. StacksAreSafe'
    BY <2>1 DEF StackInv, StacksAreSafe
  <2> QED BY <1>1, <2>2, <2>3 DEF StackInv
<1> QED BY <1>2, <1>3, <1>4

\* Every stack, whatever is brought up in whatever order: every project is in
\* a folder and paid for, chosen in the documented order, no block names a
\* resource twice where it promises not to, the audit sink is never widened,
\* and what validates of the run's plans is refused by folders.Apply only for a
\* child named like the root or for the form of its parent.
THEOREM StacksAreSound == MCSpec => []StacksSound
<1> DEFINE Inv == StackInv /\ (input.op = "plan" => PlanIsCoherent(input))
<1>1. MCInit => Inv
  BY InputsAreCoherent, StacksBegin DEF MCInit
<1>2. Inv /\ [MCNext]_allVars => Inv'
  <2> SUFFICES ASSUME Inv, [MCNext]_allVars PROVE Inv'
    OBVIOUS
  <2>1. StackInv' /\ input' = input
    BY StacksGoOn
  <2> QED BY <2>1
<1>3. Inv => StacksSound
  BY DEF StackInv, StacksSound
<1> HIDE DEF Inv
<1> QED BY <1>1, <1>2, <1>3, PTL DEF MCSpec

\* Updates: data leaves a stack only if it was last registered for a
\* disposable stack, and nothing leaves one while a block that the program
\* reads is malformed.
THEOREM DataStays == MCSpec => DataIsKept
<1>1. MCInit => StackInv
  BY StacksBegin DEF MCInit
<1>2. StackInv /\ [MCNext]_allVars => StackInv'
  BY StacksGoOn
<1>3. StackInv /\ [MCNext]_allVars => [KeepsData]_iacVars
  <2> SUFFICES ASSUME StackInv, [MCNext]_allVars PROVE KeepsData \/ UNCHANGED iacVars
    OBVIOUS
  <2>1. Next \/ UNCHANGED iacVars
    BY DEF MCNext, allVars
  <2>2. CASE Next
    BY <2>2, UpKeepsData DEF Next
  <2> QED BY <2>1, <2>2
<1> QED BY <1>1, <1>2, <1>3, PTL DEF MCSpec, DataIsKept
-----------------------------------------------------------------------------
\* procrun.Runner.Environ, for every runner, call and parent: no scrubbed
\* variable is inherited, nothing else is withheld, the call's value goes
\* before the runner's, and a fixed path before both.
THEOREM EnvironIsControlled ==
  ASSUME NEW r, NEW callEnv, NEW parent
  PROVE  Proc!EnvIsControlled(r, callEnv, parent)
<1> DEFINE fixed == IF r.Path = <<>> THEN {} ELSE {Proc!PATH}
           replaced == fixed \cup DOMAIN callEnv \cup DOMAIN r.Env
           kept == {n \in DOMAIN parent : n \notin replaced /\ ~Proc!scrubbed(r, n)}
           env == Proc!Environ(r, callEnv, parent)
<1>1. env = [n \in replaced \cup kept |->
               IF n \in fixed THEN "fixed" ELSE IF n \in DOMAIN callEnv THEN callEnv[n]
               ELSE IF n \in DOMAIN r.Env THEN r.Env[n] ELSE parent[n]]
  BY DEF Proc!Environ
<1> HIDE DEF env
<1>2. \A n \in DOMAIN env : Proc!scrubbed(r, n) =>
        n \in DOMAIN callEnv \cup DOMAIN r.Env \cup {Proc!PATH}
  BY <1>1
<1>3. \A n \in DOMAIN callEnv : n # Proc!PATH \/ r.Path = <<>> => env[n] = callEnv[n]
  BY <1>1
<1>4. r.Path # <<>> => env[Proc!PATH] = "fixed"
  BY <1>1
<1>5. \A n \in DOMAIN r.Env \ (DOMAIN callEnv \cup {Proc!PATH}) : env[n] = r.Env[n]
  BY <1>1
<1>6. \A n \in DOMAIN parent : n \notin DOMAIN env => Proc!scrubbed(r, n)
  BY <1>1
<1> QED BY <1>2, <1>3, <1>4, <1>5, <1>6 DEF Proc!EnvIsControlled, env
-----------------------------------------------------------------------------
\* The words of a log name, for the first m arguments.
FirstWords(f, args, m) ==
  f = [i \in 0 .. m |->
         IF i = 0 THEN <<>>
         ELSE IF \E j \in 1 .. i : j \in {h \in DOMAIN args : args[h] \in Proc!Flags} THEN f[i - 1]
         ELSE Proc!Named(f[i - 1], Proc!safeWord(args[i]))]
LEMMA WordsExist ==
  ASSUME NEW args, NEW m \in Nat
  PROVE  \E f : FirstWords(f, args, m)
<1> DEFINE Next1(w, i) == IF \E j \in 1 .. i : j \in {h \in DOMAIN args : args[h] \in Proc!Flags}
                          THEN w ELSE Proc!Named(w, Proc!safeWord(args[i]))
           Good(f, n) == f = [i \in 0 .. n |-> IF i = 0 THEN <<>> ELSE Next1(f[i - 1], i)]
           G == {n \in Nat : \E f : Good(f, n)}
<1> HIDE DEF Next1
<1>1. 0 \in G
  <2> DEFINE f == [i \in 0 .. 0 |-> <<>>]
  <2>1. f = [i \in 0 .. 0 |-> IF i = 0 THEN <<>> ELSE Next1(f[i - 1], i)]
    OBVIOUS
  <2> HIDE DEF f
  <2> QED BY <2>1
<1>2. \A n \in G : n + 1 \in G
  <2> TAKE n \in G
  <2>1. PICK f : Good(f, n)
    OBVIOUS
  <2> DEFINE g == [i \in 0 .. (n + 1) |-> IF i <= n THEN f[i] ELSE Next1(f[n], i)]
             h == [i \in 0 .. (n + 1) |-> IF i = 0 THEN <<>> ELSE Next1(g[i - 1], i)]
  <2>2. \A i \in 0 .. n : f[i] = IF i = 0 THEN <<>> ELSE Next1(f[i - 1], i)
    BY <2>1
  <2>3. \A i \in 0 .. (n + 1) : g[i] = h[i]
    <3> TAKE i \in 0 .. (n + 1)
    <3>1. CASE i = 0
      BY <2>2, <3>1
    <3>2. CASE i \in 1 .. n
      <4>1. i - 1 \in 0 .. (n + 1) /\ i - 1 <= n /\ i <= n /\ i \in 0 .. n
        BY <3>2
      <4>2. g[i] = f[i] /\ g[i - 1] = f[i - 1] /\ h[i] = Next1(g[i - 1], i)
        BY <3>2, <4>1
      <4> QED BY <2>2, <3>2, <4>1, <4>2
    <3>3. CASE i = n + 1
      <4>1. n \in 0 .. (n + 1) /\ ~(n + 1 <= n) /\ n + 1 # 0 /\ (n + 1) - 1 = n
        OBVIOUS
      <4>2. g[n] = f[n] /\ g[n + 1] = Next1(f[n], n + 1)
        BY <4>1
      <4>3. h[n + 1] = Next1(g[n], n + 1)
        BY <4>1
      <4> QED BY <3>3, <4>2, <4>3
    <3> QED BY <3>1, <3>2, <3>3
  <2>4. g = h
    BY <2>3
  <2> HIDE DEF g
  <2>5. Good(g, n + 1)
    BY <2>4
  <2> HIDE DEF Good
  <2> QED BY <2>5
<1>3. G = Nat
  <2> HIDE DEF G
  <2>1. G \in SUBSET Nat
    BY DEF G
  <2> QED BY <1>1, <1>2, <2>1, Induction
<1>4. PICK f : Good(f, m)
  BY <1>3
<1>5. FirstWords(f, args, m)
  BY <1>4 DEF Next1, FirstWords
<1> QED BY <1>5

\* A log name is made of the last of these words.
LEMMA LogNameUnfolds ==
  ASSUME NEW args, Len(args) \in Nat
  PROVE  \E f : /\ f[0] = <<>>
                /\ \A i \in 1 .. Len(args) :
                     f[i] = IF \E j \in 1 .. i : j \in DOMAIN args /\ args[j] \in Proc!Flags
                            THEN f[i - 1] ELSE Proc!Named(f[i - 1], Proc!safeWord(args[i]))
                /\ Proc!logName(args) = IF f[Len(args)] = <<>> THEN <<"run">> ELSE f[Len(args)]
<1> DEFINE m == Len(args)
           f == CHOOSE g : g =
             [i \in 0 .. m |->
                IF i = 0 THEN <<>>
                ELSE IF \E j \in 1 .. i : j \in {h \in DOMAIN args : args[h] \in Proc!Flags}
                THEN g[i - 1] ELSE Proc!Named(g[i - 1], Proc!safeWord(args[i]))]
<1>1. \E g : g =
             [i \in 0 .. m |->
                IF i = 0 THEN <<>>
                ELSE IF \E j \in 1 .. i : j \in {h \in DOMAIN args : args[h] \in Proc!Flags}
                THEN g[i - 1] ELSE Proc!Named(g[i - 1], Proc!safeWord(args[i]))]
  BY WordsExist DEF FirstWords
<1>2. f = [i \in 0 .. m |->
                IF i = 0 THEN <<>>
                ELSE IF \E j \in 1 .. i : j \in {h \in DOMAIN args : args[h] \in Proc!Flags}
                THEN f[i - 1] ELSE Proc!Named(f[i - 1], Proc!safeWord(args[i]))]
  BY <1>1
<1>3. Proc!logName(args) = IF f[m] = <<>> THEN <<"run">> ELSE f[m]
  BY DEF Proc!logName
<1> HIDE DEF f
<1>4. f[0] = <<>>
  BY <1>2
<1>5. ASSUME NEW i \in 1 .. m
      PROVE  f[i] = IF \E j \in 1 .. i : j \in DOMAIN args /\ args[j] \in Proc!Flags
                    THEN f[i - 1] ELSE Proc!Named(f[i - 1], Proc!safeWord(args[i]))
  <2>1. i \in 0 .. m /\ i # 0
    OBVIOUS
  <2>2. f[i] = IF \E j \in 1 .. i : j \in {h \in DOMAIN args : args[h] \in Proc!Flags}
               THEN f[i - 1] ELSE Proc!Named(f[i - 1], Proc!safeWord(args[i]))
    BY <1>2, <2>1
  <2> QED BY <2>2
<1> QED BY <1>3, <1>4, <1>5

\* Named: a word is added until there are two.
LEMMA NamedFacts ==
  ASSUME NEW w, w # Proc!noWord
  PROVE  /\ Proc!Named(<<>>, w) = <<w>>
         /\ \A x : Proc!Named(<<x>>, w) = <<x, w>>
         /\ \A x, y, z : Proc!Named(<<x, y>>, z) = <<x, y>>
<1>1. Proc!Named(<<>>, w) = <<w>>
  <2>1. <<>> \in Seq({w}) /\ w \in {w} /\ Len(<<>>) = 0
    OBVIOUS
  <2>2. Append(<<>>, w) = <<w>>
    BY <2>1
  <2> QED BY <2>1, <2>2 DEF Proc!Named, Proc!maxLogWords
<1>2. ASSUME NEW x PROVE Proc!Named(<<x>>, w) = <<x, w>>
  <2>1. <<x>> \in Seq({x, w}) /\ Len(<<x>>) = 1
    OBVIOUS
  <2>2. PICK s \in Seq({x, w}) : s = <<x>> /\ Len(s) = 1 /\ s[1] = x
    BY <2>1
  <2>3. Append(s, w) \in Seq({x, w}) /\ Len(Append(s, w)) = 2
        /\ Append(s, w)[1] = x /\ Append(s, w)[2] = w
    BY <2>2, AppendProperties
  <2>4. Append(s, w) = <<x, w>>
    <3>1. PICK t \in Seq({x, w}) : t = Append(s, w) /\ Len(t) = 2 /\ t[1] = x /\ t[2] = w
      BY <2>3
    <3>2. PICK u \in Seq({x, w}) : u = <<x, w>> /\ Len(u) = 2 /\ u[1] = x /\ u[2] = w
      <4>1. <<x, w>> \in Seq({x, w})
        OBVIOUS
      <4>2. Len(<<x, w>>) = 2 /\ <<x, w>>[1] = x /\ <<x, w>>[2] = w
        OBVIOUS
      <4> QED BY <4>1, <4>2
    <3>3. \A i \in 1 .. 2 : t[i] = u[i]
      BY <3>1, <3>2
    <3>4. t = u
      BY <3>1, <3>2, <3>3, SeqEqual
    <3> QED BY <3>1, <3>2, <3>4
  <2>5. Append(<<x>>, w) = <<x, w>>
    BY <2>2, <2>4
  <2> QED BY <2>1, <2>5 DEF Proc!Named, Proc!maxLogWords
<1>3. ASSUME NEW x, NEW y, NEW z PROVE Proc!Named(<<x, y>>, z) = <<x, y>>
  <2>1. Len(<<x, y>>) = 2
    OBVIOUS
  <2> QED BY <2>1 DEF Proc!Named, Proc!maxLogWords
<1> QED BY <1>1, <1>2, <1>3

\* A command of one word before its flags is named after it.
LEMMA LogNameOfOne ==
  ASSUME NEW args, Len(args) \in Nat, Len(args) >= 1, 1 \in DOMAIN args, args[1] \notin Proc!Flags,
         NEW w, w = Proc!safeWord(args[1]), w # Proc!noWord,
         Len(args) >= 2 => 2 \in DOMAIN args /\ args[2] \in Proc!Flags
  PROVE  Proc!logName(args) = <<w>>
<1>1. PICK f : /\ f[0] = <<>>
               /\ \A i \in 1 .. Len(args) :
                    f[i] = IF \E j \in 1 .. i : j \in DOMAIN args /\ args[j] \in Proc!Flags
                           THEN f[i - 1] ELSE Proc!Named(f[i - 1], Proc!safeWord(args[i]))
               /\ Proc!logName(args) = IF f[Len(args)] = <<>> THEN <<"run">> ELSE f[Len(args)]
  BY LogNameUnfolds
<1>2. PICK m \in Nat : m = Len(args) /\ m >= 1
  OBVIOUS
<1>3. f[1] = <<w>>
  <2>1. 1 \in 1 .. m /\ 1 - 1 = 0 /\ \A j \in 1 .. 1 : j = 1
    BY <1>2
  <2>2. f[1] = Proc!Named(f[0], Proc!safeWord(args[1]))
    BY <1>1, <1>2, <2>1
  <2> QED BY <1>1, <2>2, NamedFacts
<1> DEFINE G == {n \in Nat : n + 1 <= m => f[n + 1] = <<w>>}
<1>4. 0 \in G
  <2>1. 0 + 1 = 1
    OBVIOUS
  <2> QED BY <1>3, <2>1
<1>5. \A n \in G : n + 1 \in G
  <2> SUFFICES ASSUME NEW n \in Nat, n + 1 <= m => f[n + 1] = <<w>>, (n + 1) + 1 <= m
               PROVE  f[(n + 1) + 1] = <<w>>
    OBVIOUS
  <2>1. (n + 1) + 1 \in 1 .. m /\ ((n + 1) + 1) - 1 = n + 1 /\ 2 \in 1 .. ((n + 1) + 1) /\ m >= 2
        /\ n + 1 <= m
    OBVIOUS
  <2>2. f[(n + 1) + 1] = f[n + 1]
    BY <1>1, <1>2, <2>1
  <2> QED BY <2>1, <2>2
<1>6. G = Nat
  <2>1. G \in SUBSET Nat
    OBVIOUS
  <2> HIDE DEF G
  <2> QED BY <1>4, <1>5, <2>1, Induction
<1>7. m - 1 \in G /\ (m - 1) + 1 = m
  <2>1. m - 1 \in Nat /\ (m - 1) + 1 = m
    BY <1>2
  <2> HIDE DEF G
  <2> QED BY <1>6, <2>1
<1>8. f[m] = <<w>>
  BY <1>7
<1> QED BY <1>1, <1>2, <1>8

\* A command of at least two is named after the first two.
LEMMA LogNameOfTwo ==
  ASSUME NEW args, Len(args) \in Nat, Len(args) >= 2, 1 \in DOMAIN args, 2 \in DOMAIN args,
         args[1] \notin Proc!Flags, args[2] \notin Proc!Flags,
         NEW v, v = Proc!safeWord(args[1]), v # Proc!noWord,
         NEW w, w = Proc!safeWord(args[2]), w # Proc!noWord
  PROVE  Proc!logName(args) = <<v, w>>
<1>1. PICK f : /\ f[0] = <<>>
               /\ \A i \in 1 .. Len(args) :
                    f[i] = IF \E j \in 1 .. i : j \in DOMAIN args /\ args[j] \in Proc!Flags
                           THEN f[i - 1] ELSE Proc!Named(f[i - 1], Proc!safeWord(args[i]))
               /\ Proc!logName(args) = IF f[Len(args)] = <<>> THEN <<"run">> ELSE f[Len(args)]
  BY LogNameUnfolds
<1>2. PICK m \in Nat : m = Len(args) /\ m >= 2
  OBVIOUS
<1>3. f[1] = <<v>>
  <2>1. 1 \in 1 .. m /\ 1 - 1 = 0 /\ \A j \in 1 .. 1 : j = 1
    BY <1>2
  <2>2. f[1] = Proc!Named(f[0], Proc!safeWord(args[1]))
    BY <1>1, <1>2, <2>1
  <2> QED BY <1>1, <2>2, NamedFacts
<1>4. f[2] = <<v, w>>
  <2>1. 2 \in 1 .. m /\ 2 - 1 = 1 /\ \A j \in 1 .. 2 : j = 1 \/ j = 2
    BY <1>2
  <2>2. f[2] = Proc!Named(f[1], Proc!safeWord(args[2]))
    BY <1>1, <1>2, <2>1
  <2> QED BY <1>3, <2>2, NamedFacts
<1> DEFINE G == {n \in Nat : n + 2 <= m => f[n + 2] = <<v, w>>}
<1>5. 0 \in G
  <2>1. 0 + 2 = 2
    OBVIOUS
  <2> QED BY <1>4, <2>1
<1>6. \A n \in G : n + 1 \in G
  <2> SUFFICES ASSUME NEW n \in Nat, n + 2 <= m => f[n + 2] = <<v, w>>, (n + 1) + 2 <= m
               PROVE  f[(n + 1) + 2] = <<v, w>>
    OBVIOUS
  <2>1. (n + 1) + 2 \in 1 .. m /\ ((n + 1) + 2) - 1 = n + 2 /\ n + 2 <= m
    OBVIOUS
  <2>2. \/ f[(n + 1) + 2] = f[n + 2]
        \/ f[(n + 1) + 2] = Proc!Named(f[n + 2], Proc!safeWord(args[(n + 1) + 2]))
    BY <1>1, <1>2, <2>1
  <2> QED BY <2>1, <2>2, NamedFacts
<1>7. G = Nat
  <2>1. G \in SUBSET Nat
    OBVIOUS
  <2> HIDE DEF G
  <2> QED BY <1>5, <1>6, <2>1, Induction
<1>8. m - 2 \in G /\ (m - 2) + 2 = m
  <2>1. m - 2 \in Nat /\ (m - 2) + 2 = m
    BY <1>2
  <2> HIDE DEF G
  <2> QED BY <1>7, <2>1
<1>9. f[m] = <<v, w>>
  BY <1>8
<1> QED BY <1>1, <1>2, <1>9

\* redactArgs: a value is replaced in either form of config set.
LEMMA RedactedConfig ==
  ASSUME NEW k, NEW v, k \notin Proc!Flags, v \notin Proc!Flags
  PROVE  Proc!redactArgs(Proc!SetConfig(k, v)) =
           <<"config", "set", k, "[redacted]", "--cwd", "dir">>
<1> DEFINE args == Proc!SetConfig(k, v)
           out == <<"config", "set", k, "[redacted]", "--cwd", "dir">>
<1>1. /\ DOMAIN args = 1 .. 6 /\ Len(args) = 6
      /\ args[1] = "config" /\ args[2] = "set" /\ args[3] = k /\ args[4] = v
      /\ args[5] = "--cwd" /\ args[6] = "dir"
  BY DEF Proc!SetConfig
<1> HIDE DEF args
<1>2. "--cwd" \in Proc!Flags /\ "dir" \notin Proc!Flags /\ Proc!keepsValue("--cwd")
  BY DEF Proc!Flags, Proc!keepsValue
<1>3. ~Proc!keepsValue(k) /\ ~Proc!keepsValue(v)
  BY DEF Proc!Flags, Proc!keepsValue
<1>4. \A i \in 1 .. 6 : i \in Proc!positional(args) <=> i = 3 \/ i = 4
  <2>1. \A i \in 3 .. 6 : i = 3 \/ i = 4 \/ i = 5 \/ i = 6
    OBVIOUS
  <2>2. 3 \in Proc!positional(args) /\ 4 \in Proc!positional(args)
    BY <1>1, <1>3 DEF Proc!positional
  <2>3. 5 \notin Proc!positional(args) /\ 6 \notin Proc!positional(args)
    BY <1>1, <1>2 DEF Proc!positional
  <2>4. 1 \notin Proc!positional(args) /\ 2 \notin Proc!positional(args)
    BY <1>1 DEF Proc!positional
  <2>5. \A i \in 1 .. 6 : i = 1 \/ i = 2 \/ i \in 3 .. 6
    OBVIOUS
  <2> QED BY <2>1, <2>2, <2>3, <2>4, <2>5
<1>5. \A i \in Proc!positional(args) : i \in 1 .. 6
  BY <1>1 DEF Proc!positional
<1>6. Proc!redactArgs(args) =
        [i \in 1 .. 6 |-> IF i \in Proc!positional(args) /\ \E j \in Proc!positional(args) : j < i
                          THEN "[redacted]" ELSE args[i]]
  BY <1>1 DEF Proc!redactArgs
<1>7. \A i \in 1 .. 6 : (i \in Proc!positional(args) /\ \E j \in Proc!positional(args) : j < i)
                          <=> i = 4
  BY <1>4, <1>5
<1>8. /\ DOMAIN out = 1 .. 6 /\ out[1] = "config" /\ out[2] = "set" /\ out[3] = k
      /\ out[4] = "[redacted]" /\ out[5] = "--cwd" /\ out[6] = "dir"
      /\ out = [i \in 1 .. 6 |-> out[i]]
  OBVIOUS
<1> HIDE DEF out
<1>9. \A i \in 1 .. 6 : out[i] = IF i = 4 THEN "[redacted]" ELSE args[i]
  <2>1. \A i \in 1 .. 6 : i = 1 \/ i = 2 \/ i = 3 \/ i = 4 \/ i = 5 \/ i = 6
    OBVIOUS
  <2> QED BY <1>1, <1>8, <2>1
<1>10. Proc!redactArgs(args) = out
  BY <1>6, <1>7, <1>8, <1>9
<1> QED BY <1>10 DEF args, out

LEMMA RedactedSecret ==
  ASSUME NEW k, NEW v, k \notin Proc!Flags, v \notin Proc!Flags
  PROVE  Proc!redactArgs(Proc!SetSecret(k, v)) =
           <<"config", "set", "--secret", k, "[redacted]", "--cwd", "dir">>
<1> DEFINE args == Proc!SetSecret(k, v)
           out == <<"config", "set", "--secret", k, "[redacted]", "--cwd", "dir">>
<1>1. /\ DOMAIN args = 1 .. 7 /\ Len(args) = 7
      /\ args[1] = "config" /\ args[2] = "set" /\ args[3] = "--secret" /\ args[4] = k
      /\ args[5] = v /\ args[6] = "--cwd" /\ args[7] = "dir"
  BY DEF Proc!SetSecret
<1> HIDE DEF args
<1>2. /\ "--cwd" \in Proc!Flags /\ "--secret" \in Proc!Flags /\ "dir" \notin Proc!Flags
      /\ Proc!keepsValue("--cwd") /\ ~Proc!keepsValue("--secret")
  BY DEF Proc!Flags, Proc!keepsValue
<1>3. ~Proc!keepsValue(k) /\ ~Proc!keepsValue(v)
  BY DEF Proc!Flags, Proc!keepsValue
<1>4. \A i \in 1 .. 7 : i \in Proc!positional(args) <=> i = 4 \/ i = 5
  <2>1. \A i \in 3 .. 7 : i = 3 \/ i = 4 \/ i = 5 \/ i = 6 \/ i = 7
    OBVIOUS
  <2>2. 4 \in Proc!positional(args) /\ 5 \in Proc!positional(args)
    BY <1>1, <1>2, <1>3 DEF Proc!positional
  <2>3. 3 \notin Proc!positional(args) /\ 6 \notin Proc!positional(args)
        /\ 7 \notin Proc!positional(args)
    BY <1>1, <1>2 DEF Proc!positional
  <2>4. 1 \notin Proc!positional(args) /\ 2 \notin Proc!positional(args)
    BY <1>1 DEF Proc!positional
  <2>5. \A i \in 1 .. 7 : i = 1 \/ i = 2 \/ i \in 3 .. 7
    OBVIOUS
  <2> QED BY <2>1, <2>2, <2>3, <2>4, <2>5
<1>5. \A i \in Proc!positional(args) : i \in 1 .. 7
  BY <1>1 DEF Proc!positional
<1>6. Proc!redactArgs(args) =
        [i \in 1 .. 7 |-> IF i \in Proc!positional(args) /\ \E j \in Proc!positional(args) : j < i
                          THEN "[redacted]" ELSE args[i]]
  BY <1>1 DEF Proc!redactArgs
<1>7. \A i \in 1 .. 7 : (i \in Proc!positional(args) /\ \E j \in Proc!positional(args) : j < i)
                          <=> i = 5
  BY <1>4, <1>5
<1>8. /\ DOMAIN out = 1 .. 7 /\ out[1] = "config" /\ out[2] = "set" /\ out[3] = "--secret"
      /\ out[4] = k /\ out[5] = "[redacted]" /\ out[6] = "--cwd" /\ out[7] = "dir"
      /\ out = [i \in 1 .. 7 |-> out[i]]
  OBVIOUS
<1> HIDE DEF out
<1>9. \A i \in 1 .. 7 : out[i] = IF i = 5 THEN "[redacted]" ELSE args[i]
  <2>1. \A i \in 1 .. 7 : i = 1 \/ i = 2 \/ i = 3 \/ i = 4 \/ i = 5 \/ i = 6 \/ i = 7
    OBVIOUS
  <2> QED BY <1>1, <1>8, <2>1
<1>10. Proc!redactArgs(args) = out
  BY <1>6, <1>7, <1>8, <1>9
<1> QED BY <1>10 DEF args, out

\* The runner's own words are as they are in a file's name.
LEMMA SafeWords ==
  /\ \A w \in {"config", "set", "stack", "select", "up", "destroy"} :
       w \notin Proc!Flags /\ Proc!safeWord(w) = w
  /\ \A w \in {"config", "set", "stack", "select", "up", "destroy"} : w # Proc!noWord
<1>1. \A w \in {"config", "set", "stack", "select", "up", "destroy"} :
        w \notin Proc!Flags /\ Proc!safeWord(w) = w
  BY DEF Proc!Flags, Proc!safeWord
<1>2. /\ "config" # Proc!noWord /\ "set" # Proc!noWord /\ "stack" # Proc!noWord
      /\ "select" # Proc!noWord /\ "up" # Proc!noWord /\ "destroy" # Proc!noWord
  BY Zenon DEF Proc!noWord
<1>3. \A w \in {"config", "set", "stack", "select", "up", "destroy"} : w # Proc!noWord
  BY <1>2
<1> QED BY <1>1, <1>3

\* runner.SetConfig: the value is neither in the name of the log file nor in
\* the error, for every key and value that do not look like flags and that are
\* not among the words of the command.
THEOREM ValuesStayPrivate ==
  ASSUME NEW k, NEW v, k \notin Proc!Flags, v \notin Proc!Flags,
         v \notin {k, "config", "set", "dir", "[redacted]"}
  PROVE  Proc!ValueStaysPrivate(k, v)
<1> DEFINE plain == Proc!SetConfig(k, v)
           secret == Proc!SetSecret(k, v)
<1>1. /\ Len(plain) = 6 /\ 1 \in DOMAIN plain /\ 2 \in DOMAIN plain
      /\ plain[1] = "config" /\ plain[2] = "set"
  BY DEF Proc!SetConfig
<1>2. /\ Len(secret) = 7 /\ 1 \in DOMAIN secret /\ 2 \in DOMAIN secret
      /\ secret[1] = "config" /\ secret[2] = "set"
  BY DEF Proc!SetSecret
<1> HIDE DEF plain, secret
<1>3. Proc!logName(plain) = <<"config", "set">>
  BY <1>1, LogNameOfTwo, SafeWords
<1>4. Proc!logName(secret) = <<"config", "set">>
  BY <1>2, LogNameOfTwo, SafeWords
<1>5. Proc!redactArgs(plain) = <<"config", "set", k, "[redacted]", "--cwd", "dir">>
  BY RedactedConfig DEF plain
<1>6. Proc!redactArgs(secret) = <<"config", "set", "--secret", k, "[redacted]", "--cwd", "dir">>
  BY RedactedSecret DEF secret
<1>7. "--cwd" \in Proc!Flags /\ "--secret" \in Proc!Flags
  BY DEF Proc!Flags
<1>8. Proc!ToSet(<<"config", "set">>) = {"config", "set"} /\ Len(<<"config", "set">>) = 2
  BY DEF Proc!ToSet
<1>9. Proc!ToSet(<<"config", "set", k, "[redacted]", "--cwd", "dir">>) =
        {"config", "set", k, "[redacted]", "--cwd", "dir"}
  BY DEF Proc!ToSet
<1>10. Proc!ToSet(<<"config", "set", "--secret", k, "[redacted]", "--cwd", "dir">>) =
         {"config", "set", "--secret", k, "[redacted]", "--cwd", "dir"}
  BY DEF Proc!ToSet
<1>11. ASSUME NEW args \in {plain, secret}
       PROVE  /\ v \notin Proc!ToSet(Proc!redactArgs(args)) \cup Proc!ToSet(Proc!logName(args))
              /\ {k, "--cwd", "dir"} \subseteq Proc!ToSet(Proc!redactArgs(args))
              /\ Len(Proc!logName(args)) <= 2
  <2>1. CASE args = plain
    <3>1. /\ Proc!ToSet(Proc!redactArgs(args)) = {"config", "set", k, "[redacted]", "--cwd", "dir"}
          /\ Proc!ToSet(Proc!logName(args)) = {"config", "set"} /\ Len(Proc!logName(args)) = 2
      BY <1>3, <1>5, <1>8, <1>9, <2>1
    <3> QED BY <1>7, <3>1
  <2>2. CASE args = secret
    <3>1. /\ Proc!ToSet(Proc!redactArgs(args)) =
               {"config", "set", "--secret", k, "[redacted]", "--cwd", "dir"}
          /\ Proc!ToSet(Proc!logName(args)) = {"config", "set"} /\ Len(Proc!logName(args)) = 2
      BY <1>4, <1>6, <1>8, <1>10, <2>2
    <3> QED BY <1>7, <3>1
  <2> QED BY <2>1, <2>2
<1> QED BY <1>11 DEF Proc!ValueStaysPrivate, Proc!maxLogWords, plain, secret

\* redactArgs leaves every other command as it is.
LEMMA OthersStay ==
  ASSUME NEW args, args[1] # "config"
  PROVE  Proc!redactArgs(args) = args
BY DEF Proc!redactArgs

\* runner: the stack that a command is about is not in the name of its file.
THEOREM CommandsAreAlwaysNamed ==
  ASSUME NEW s, s \notin {"stack", "select", "up", "destroy"}
  PROVE  Proc!CommandsAreNamed(s)
<1> DEFINE Fit(args) == Proc!redactArgs(args) = args /\ s \notin Proc!ToSet(Proc!logName(args))
                        /\ Proc!logName(args) # <<"run">>
           base == <<"up", "--yes", "--cwd", "dir">>
<1>1. ASSUME NEW args, args \in {Proc!SelectOrCreateStack(s), Proc!SelectStack(s)}
      PROVE  Fit(args)
  <2>1. /\ Len(args) \in Nat /\ Len(args) >= 2 /\ 1 \in DOMAIN args /\ 2 \in DOMAIN args
        /\ args[1] = "stack" /\ args[2] = "select"
    BY <1>1 DEF Proc!SelectOrCreateStack, Proc!SelectStack
  <2>2. Proc!logName(args) = <<"stack", "select">>
    BY <2>1, LogNameOfTwo, SafeWords
  <2>3. Proc!ToSet(<<"stack", "select">>) = {"stack", "select"}
        /\ Len(<<"stack", "select">>) # Len(<<"run">>)
    BY DEF Proc!ToSet
  <2>4. args[1] # "config"
    BY <2>1
  <2> QED BY <2>2, <2>3, <2>4, OthersStay
<1>2. ASSUME NEW args, NEW w \in {"up", "destroy"},
             Len(args) \in Nat, Len(args) >= 2, 1 \in DOMAIN args, 2 \in DOMAIN args,
             args[1] = w, args[2] = "--yes"
      PROVE  Fit(args)
  <2>1. "--yes" \in Proc!Flags
    BY DEF Proc!Flags
  <2>2. Proc!logName(args) = <<w>>
    BY <1>2, <2>1, LogNameOfOne, SafeWords
  <2>3. Proc!ToSet(<<w>>) = {w} /\ <<w>>[1] = w /\ <<"run">>[1] = "run" /\ w # "run"
    BY DEF Proc!ToSet
  <2>4. args[1] # "config"
    BY <1>2
  <2>5. s # w
    OBVIOUS
  <2>6. <<w>> # <<"run">>
    BY <2>3
  <2> QED BY <2>2, <2>3, <2>4, <2>5, <2>6, OthersStay
<1> HIDE DEF Fit
<1>3. \A t, skip : Fit(Proc!Up(t, skip))
  <2> TAKE t, skip
  <2> DEFINE more == IF t = Proc!noWord THEN <<>> ELSE <<"--stack", t>>
             last1 == IF skip THEN <<"--skip-preview">> ELSE <<>>
  <2>1. IsList(base) /\ Len(base) = 4 /\ base[1] = "up" /\ base[2] = "--yes"
    <3>1. base \in Seq({"up", "--yes", "--cwd", "dir"})
      OBVIOUS
    <3> QED BY <3>1 DEF IsList
  <2>2. IsList(more)
    <3>1. <<>> \in Seq({t}) /\ <<"--stack", t>> \in Seq({"--stack", t})
      OBVIOUS
    <3> HIDE DEF more
    <3>2. more = <<>> \/ more = <<"--stack", t>>
      BY DEF more
    <3> QED BY <3>1, <3>2 DEF IsList
  <2>3. IsList(last1)
    <3>1. <<>> \in Seq({t}) /\ <<"--skip-preview">> \in Seq({"--skip-preview"})
      OBVIOUS
    <3>2. last1 = <<>> \/ last1 = <<"--skip-preview">>
      OBVIOUS
    <3> HIDE DEF last1
    <3> QED BY <3>1, <3>2 DEF IsList
  <2> HIDE DEF base, more, last1
  <2>4. /\ IsList(base \o more) /\ Len(base \o more) = 4 + Len(more) /\ Len(more) \in Nat
        /\ (base \o more)[1] = "up" /\ (base \o more)[2] = "--yes"
    <3>1. 1 \in 1 .. Len(base) /\ 2 \in 1 .. Len(base)
      BY <2>1
    <3> QED BY <2>1, <2>2, <3>1, ConcatList
  <2> DEFINE front == base \o more
  <2> HIDE DEF front
  <2>5. /\ IsList(front) /\ Len(front) \in Nat /\ Len(front) >= 4
        /\ front[1] = "up" /\ front[2] = "--yes"
    BY <2>4 DEF front
  <2>6. 1 \in 1 .. Len(front) /\ 2 \in 1 .. Len(front)
    BY <2>5
  <2>7. /\ IsList(front \o last1) /\ Len(front \o last1) = Len(front) + Len(last1)
        /\ Len(last1) \in Nat
        /\ (front \o last1)[1] = "up" /\ (front \o last1)[2] = "--yes"
    BY <2>3, <2>5, <2>6, ConcatList
  <2> DEFINE args == front \o last1
  <2> HIDE DEF args
  <2>8. /\ IsList(args) /\ Len(args) \in Nat /\ Len(args) >= 2
        /\ args[1] = "up" /\ args[2] = "--yes"
    BY <2>5, <2>7 DEF args
  <2>9. DOMAIN args = 1 .. Len(args)
    BY <2>8, ListFacts
  <2>10. Proc!Up(t, skip) = args
    BY DEF Proc!Up, args, front, base, more, last1
  <2> QED BY <1>2, <2>8, <2>9, <2>10
<1>4. Fit(Proc!Destroy)
  <2>1. /\ Len(Proc!Destroy) = 4 /\ 1 \in DOMAIN Proc!Destroy /\ 2 \in DOMAIN Proc!Destroy
        /\ Proc!Destroy[1] = "destroy" /\ Proc!Destroy[2] = "--yes"
    BY DEF Proc!Destroy
  <2> QED BY <1>2, <2>1
<1>5. ASSUME NEW args \in {Proc!SelectOrCreateStack(s), Proc!SelectStack(s), Proc!Up(s, TRUE),
                           Proc!Up(Proc!noWord, FALSE), Proc!Destroy}
      PROVE  Fit(args)
  BY <1>1, <1>3, <1>4
<1> QED BY <1>5 DEF Fit, Proc!CommandsAreNamed
-----------------------------------------------------------------------------
\* The options of google/auth, in order.
Fields == {"targetSA", "subjectEmail", "isDWD", "isInteractive", "httpClient",
           "retryDisabled", "retryAttempts", "scopes"}
OptionNames == {"WithServiceAccountImpersonation", "WithDomainWideDelegation",
                "WithInteractiveConsent", "WithScopes", "WithHTTPClient",
                "WithRetryAttempts", "WithoutRetry"}
IsOption(o) == o.opt \in OptionNames /\ (o.opt = "WithRetryAttempts" => o.n \in Int)

\* What one option changes.
Changes(d, c, o) ==
  /\ DOMAIN d = Fields
  /\ d.isDWD = IF o.opt = "WithDomainWideDelegation" THEN TRUE ELSE c.isDWD
  /\ d.httpClient = IF o.opt = "WithHTTPClient" THEN TRUE ELSE c.httpClient
  /\ d.retryDisabled = IF o.opt = "WithoutRetry" THEN TRUE ELSE c.retryDisabled
  /\ d.retryAttempts = IF o.opt = "WithRetryAttempts" /\ o.n > 0 THEN o.n ELSE c.retryAttempts
  /\ d.scopes = IF o.opt = "WithScopes" THEN o.scopes ELSE c.scopes
LEMMA OptionFacts ==
  ASSUME NEW c, NEW o, DOMAIN c = Fields, IsOption(o)
  PROVE  Changes(Auth!Apply(c, o), c, o)
<1> DEFINE d == Auth!Apply(c, o)
<1>1. CASE o.opt = "WithServiceAccountImpersonation"
  <2>1. d = [c EXCEPT !.targetSA = o.sa]
    BY <1>1 DEF Auth!Apply
  <2> HIDE DEF d
  <2>2. Changes(d, c, o)
    BY <1>1, <2>1 DEF Changes, Fields
  <2> QED BY <2>2 DEF d
<1>2. CASE o.opt = "WithDomainWideDelegation"
  <2>1. d = [c EXCEPT !.targetSA = o.sa, !.subjectEmail = o.subject, !.isDWD = TRUE]
    BY <1>2 DEF Auth!Apply
  <2> HIDE DEF d
  <2>2. Changes(d, c, o)
    BY <1>2, <2>1 DEF Changes, Fields
  <2> QED BY <2>2 DEF d
<1>3. CASE o.opt = "WithInteractiveConsent"
  <2>1. d = [c EXCEPT !.isInteractive = TRUE]
    BY <1>3 DEF Auth!Apply
  <2> HIDE DEF d
  <2>2. Changes(d, c, o)
    BY <1>3, <2>1 DEF Changes, Fields
  <2> QED BY <2>2 DEF d
<1>4. CASE o.opt = "WithScopes"
  <2>1. d = [c EXCEPT !.scopes = o.scopes]
    BY <1>4 DEF Auth!Apply
  <2> HIDE DEF d
  <2>2. Changes(d, c, o)
    BY <1>4, <2>1 DEF Changes, Fields
  <2> QED BY <2>2 DEF d
<1>5. CASE o.opt = "WithHTTPClient"
  <2>1. d = [c EXCEPT !.httpClient = TRUE]
    BY <1>5 DEF Auth!Apply
  <2> HIDE DEF d
  <2>2. Changes(d, c, o)
    BY <1>5, <2>1 DEF Changes, Fields
  <2> QED BY <2>2 DEF d
<1>6. CASE o.opt = "WithRetryAttempts"
  <2>1. d = [c EXCEPT !.retryAttempts = IF o.n > 0 THEN o.n ELSE c.retryAttempts]
    BY <1>6 DEF Auth!Apply
  <2> HIDE DEF d
  <2>2. Changes(d, c, o)
    BY <1>6, <2>1 DEF Changes, Fields
  <2> QED BY <2>2 DEF d
<1>7. CASE o.opt = "WithoutRetry"
  <2>1. d = [c EXCEPT !.retryDisabled = TRUE]
    BY <1>7 DEF Auth!Apply
  <2> HIDE DEF d
  <2>2. Changes(d, c, o)
    BY <1>7, <2>1 DEF Changes, Fields
  <2> QED BY <2>2 DEF d
<1> QED BY <1>1, <1>2, <1>3, <1>4, <1>5, <1>6, <1>7 DEF IsOption, OptionNames

\* The configuration after the first i options.
Follows(c, opts, i) ==
  /\ DOMAIN c = Fields
  /\ (\E j \in 1 .. i : opts[j].opt = "WithDomainWideDelegation") => c.isDWD = TRUE
  /\ c.httpClient # FALSE => \E j \in 1 .. i : opts[j].opt = "WithHTTPClient"
  /\ c.retryDisabled # FALSE => \E j \in 1 .. i : opts[j].opt = "WithoutRetry"
  /\ (\E j \in 1 .. i : opts[j].opt = "WithoutRetry") => c.retryDisabled = TRUE
  /\ c.retryAttempts \in Nat
  /\ c.retryAttempts > 0 =>
       \E j \in 1 .. i : opts[j].opt = "WithRetryAttempts" /\ opts[j].n = c.retryAttempts
  /\ (\A j \in 1 .. i : opts[j].opt # "WithScopes") => c.scopes = {}
  /\ \A j \in 1 .. i :
       opts[j].opt = "WithScopes" /\ (\A h \in 1 .. i : opts[h].opt = "WithScopes" => h <= j)
         => c.scopes = opts[j].scopes

LEMMA FollowsFirst ==
  ASSUME NEW opts
  PROVE  Follows(Auth!Config0, opts, 0)
<1>1. /\ DOMAIN Auth!Config0 = Fields /\ Auth!Config0.httpClient = FALSE
      /\ Auth!Config0.retryDisabled = FALSE /\ Auth!Config0.retryAttempts = 0
      /\ Auth!Config0.scopes = {}
  BY DEF Auth!Config0, Fields
<1>2. PICK c, none : c = Auth!Config0 /\ none = 1 .. 0
  OBVIOUS
<1>3. none = {} /\ c.retryAttempts \in Nat /\ ~(c.retryAttempts > 0)
  BY <1>1, <1>2
<1>4. Follows(c, opts, 0)
  BY <1>1, <1>2, <1>3 DEF Follows
<1> QED BY <1>2, <1>4

LEMMA FollowsNext ==
  ASSUME NEW opts, NEW i \in Nat, NEW c, Follows(c, opts, i), IsOption(opts[i + 1])
  PROVE  Follows(Auth!Apply(c, opts[i + 1]), opts, i + 1)
<1>1. PICK d, o : d = Auth!Apply(c, opts[i + 1]) /\ o = opts[i + 1]
  OBVIOUS
<1>2. Changes(d, c, o)
  BY <1>1, OptionFacts DEF Follows
<1>3. \A j \in 1 .. (i + 1) : j \in 1 .. i \/ j = i + 1
  OBVIOUS
<1>4. i + 1 \in 1 .. (i + 1) /\ \A j \in 1 .. i : j \in 1 .. (i + 1)
  OBVIOUS
<1>5. (\E j \in 1 .. (i + 1) : opts[j].opt = "WithDomainWideDelegation") => d.isDWD = TRUE
  BY <1>1, <1>2, <1>3 DEF Follows, Changes
<1>6. d.httpClient # FALSE => \E j \in 1 .. (i + 1) : opts[j].opt = "WithHTTPClient"
  BY <1>1, <1>2, <1>4 DEF Follows, Changes
<1>7. d.retryDisabled # FALSE => \E j \in 1 .. (i + 1) : opts[j].opt = "WithoutRetry"
  BY <1>1, <1>2, <1>4 DEF Follows, Changes
<1>13. (\E j \in 1 .. (i + 1) : opts[j].opt = "WithoutRetry") => d.retryDisabled = TRUE
  BY <1>1, <1>2, <1>3 DEF Follows, Changes
<1>8. /\ d.retryAttempts \in Nat
      /\ d.retryAttempts > 0 => \E j \in 1 .. (i + 1) :
           opts[j].opt = "WithRetryAttempts" /\ opts[j].n = d.retryAttempts
  <2>1. CASE o.opt = "WithRetryAttempts" /\ o.n > 0
    BY <1>1, <1>2, <1>4, <2>1 DEF Changes, IsOption
  <2>2. CASE ~(o.opt = "WithRetryAttempts" /\ o.n > 0)
    <3>1. d.retryAttempts = c.retryAttempts
      BY <1>2, <2>2 DEF Changes
    <3> QED BY <1>4, <3>1 DEF Follows
  <2> QED BY <2>1, <2>2
<1>9. (\A j \in 1 .. (i + 1) : opts[j].opt # "WithScopes") => d.scopes = {}
  BY <1>1, <1>2, <1>4 DEF Follows, Changes
<1>10. ASSUME NEW j \in 1 .. (i + 1), opts[j].opt = "WithScopes",
              \A h \in 1 .. (i + 1) : opts[h].opt = "WithScopes" => h <= j
       PROVE  d.scopes = opts[j].scopes
  <2>1. CASE o.opt = "WithScopes"
    <3>1. j = i + 1
      BY <1>1, <1>4, <1>10, <2>1
    <3> QED BY <1>1, <1>2, <2>1, <3>1 DEF Changes
  <2>2. CASE o.opt # "WithScopes"
    <3>1. j \in 1 .. i
      BY <1>1, <1>3, <1>10, <2>2
    <3>2. \A h \in 1 .. i : opts[h].opt = "WithScopes" => h <= j
      BY <1>4, <1>10
    <3>3. c.scopes = opts[j].scopes
      BY <1>10, <3>1, <3>2 DEF Follows
    <3> QED BY <1>2, <2>2, <3>3 DEF Changes
  <2> QED BY <2>1, <2>2
<1>11. DOMAIN d = Fields
  BY <1>2 DEF Changes
<1>12. Follows(d, opts, i + 1)
  BY <1>5, <1>6, <1>7, <1>8, <1>9, <1>10, <1>11, <1>13 DEF Follows
<1> QED BY <1>1, <1>12

\* The configurations after the first m options.
Configs(f, opts, m) ==
  f = [i \in 0 .. m |-> IF i = 0 THEN Auth!Config0 ELSE Auth!Apply(f[i - 1], opts[i])]
LEMMA ConfigsExist ==
  ASSUME NEW opts, NEW m \in Nat
  PROVE  \E f : Configs(f, opts, m)
<1> DEFINE G == {n \in Nat : \E f : Configs(f, opts, n)}
<1>1. 0 \in G
  <2> DEFINE f == [i \in 0 .. 0 |-> Auth!Config0]
  <2>1. f = [i \in 0 .. 0 |-> IF i = 0 THEN Auth!Config0 ELSE Auth!Apply(f[i - 1], opts[i])]
    OBVIOUS
  <2>2. Configs(f, opts, 0)
    BY <2>1 DEF Configs
  <2> QED BY <2>2
<1>2. \A n \in G : n + 1 \in G
  <2> TAKE n \in G
  <2>1. PICK f : Configs(f, opts, n)
    OBVIOUS
  <2> DEFINE g == [i \in 0 .. (n + 1) |-> IF i <= n THEN f[i] ELSE Auth!Apply(f[n], opts[i])]
             h == [i \in 0 .. (n + 1) |-> IF i = 0 THEN Auth!Config0
                                          ELSE Auth!Apply(g[i - 1], opts[i])]
  <2>2. \A i \in 0 .. n : f[i] = IF i = 0 THEN Auth!Config0 ELSE Auth!Apply(f[i - 1], opts[i])
    BY <2>1 DEF Configs
  <2>3. \A i \in 0 .. (n + 1) : g[i] = h[i]
    <3> TAKE i \in 0 .. (n + 1)
    <3>1. CASE i = 0
      BY <2>2, <3>1
    <3>2. CASE i \in 1 .. n
      <4>1. i - 1 \in 0 .. (n + 1) /\ i - 1 <= n /\ i <= n /\ i \in 0 .. n
        BY <3>2
      <4>2. g[i] = f[i] /\ g[i - 1] = f[i - 1] /\ h[i] = Auth!Apply(g[i - 1], opts[i])
        BY <3>2, <4>1
      <4> QED BY <2>2, <3>2, <4>1, <4>2
    <3>3. CASE i = n + 1
      <4>1. n \in 0 .. (n + 1) /\ ~(n + 1 <= n) /\ n + 1 # 0 /\ (n + 1) - 1 = n
        OBVIOUS
      <4>2. g[n] = f[n] /\ g[n + 1] = Auth!Apply(f[n], opts[n + 1])
        BY <4>1
      <4>3. h[n + 1] = Auth!Apply(g[n], opts[n + 1])
        BY <4>1
      <4> QED BY <3>3, <4>2, <4>3
    <3> QED BY <3>1, <3>2, <3>3
  <2>4. g = h
    BY <2>3
  <2>5. Configs(g, opts, n + 1)
    BY <2>4 DEF Configs
  <2> QED BY <2>5
<1>3. G = Nat
  BY <1>1, <1>2, Induction
<1> QED BY <1>3

LEMMA ConfiguredFollows ==
  ASSUME NEW opts, IsList(opts), \A i \in 1 .. Len(opts) : IsOption(opts[i])
  PROVE  Follows(Auth!Configured(opts), opts, Len(opts))
<1>1. PICK m \in Nat : m = Len(opts)
  BY ListFacts
<1> DEFINE f == CHOOSE g : g = [i \in 0 .. Len(opts) |->
                  IF i = 0 THEN Auth!Config0 ELSE Auth!Apply(g[i - 1], opts[i])]
<1>2. \E g : g = [i \in 0 .. Len(opts) |->
                  IF i = 0 THEN Auth!Config0 ELSE Auth!Apply(g[i - 1], opts[i])]
  BY <1>1, ConfigsExist DEF Configs
<1>3. f = [i \in 0 .. Len(opts) |->
                  IF i = 0 THEN Auth!Config0 ELSE Auth!Apply(f[i - 1], opts[i])]
  BY <1>2
<1>4. Auth!Configured(opts) = f[Len(opts)]
  BY DEF Auth!Configured
<1> HIDE DEF f
<1>5. f[0] = Auth!Config0 /\ \A i \in 1 .. m : f[i] = Auth!Apply(f[i - 1], opts[i])
  <2>1. \A i \in 1 .. m : i \in 0 .. m /\ i # 0
    OBVIOUS
  <2> QED BY <1>1, <1>3, <2>1
<1> DEFINE G == {i \in Nat : i <= m => Follows(f[i], opts, i)}
<1>6. 0 \in G
  BY <1>5, FollowsFirst
<1>7. \A i \in G : i + 1 \in G
  <2> SUFFICES ASSUME NEW i \in Nat, i <= m => Follows(f[i], opts, i), i + 1 <= m
               PROVE  Follows(f[i + 1], opts, i + 1)
    OBVIOUS
  <2>1. i + 1 \in 1 .. m /\ (i + 1) - 1 = i /\ i <= m
    OBVIOUS
  <2>2. f[i + 1] = Auth!Apply(f[i], opts[i + 1])
    BY <1>5, <2>1
  <2>3. Follows(Auth!Apply(f[i], opts[i + 1]), opts, i + 1)
    BY <1>1, <2>1, FollowsNext
  <2> QED BY <2>2, <2>3
<1>8. G = Nat
  <2> HIDE DEF G
  <2>1. G \in SUBSET Nat
    BY DEF G
  <2> QED BY <1>6, <1>7, <2>1, Induction
<1>9. Follows(f[m], opts, m)
  <2>1. m \in G
    BY <1>8
  <2> QED BY <2>1
<1> QED BY <1>1, <1>4, <1>9

\* Scopes: the last option that names any decides.
LEMMA ScopesAsked ==
  ASSUME NEW opts, IsList(opts), NEW c, Follows(c, opts, Len(opts)),
         NEW S, S = {i \in DOMAIN opts : opts[i].opt = "WithScopes"}
  PROVE  c.scopes = IF S = {} THEN {} ELSE opts[Auth!Max(S)].scopes
<1>1. PICK m \in Nat : m = Len(opts) /\ DOMAIN opts = 1 .. m
  BY ListFacts
<1>2. CASE S = {}
  <2>1. \A j \in 1 .. Len(opts) : opts[j].opt # "WithScopes"
    BY <1>1, <1>2
  <2> QED BY <1>2, <2>1 DEF Follows
<1>3. CASE S # {}
  <2> DEFINE T == {n \in Nat : m - n \in S}
  <2>1. PICK i \in S : i \in 1 .. m
    BY <1>1, <1>3
  <2>2. m - i \in T
    <3>1. m - i \in Nat /\ m - (m - i) = i
      BY <2>1
    <3> QED BY <2>1, <3>1
  <2>3. PICK n \in T : \A k \in T : n <= k
    <3>1. T \in SUBSET Nat /\ T # {}
      BY <2>2
    <3> HIDE DEF T
    <3> QED BY <3>1, Least
  <2>4. \A y \in S : y \in 1 .. m /\ m - y \in T
    <3> TAKE y \in S
    <3>1. y \in 1 .. m
      BY <1>1
    <3>2. m - y \in Nat /\ m - (m - y) = y
      BY <3>1
    <3> QED BY <3>1, <3>2
  <2>5. m - n \in S /\ \A y \in S : m - n >= y
    <3>1. n \in Nat /\ m - n \in S
      BY <2>3
    <3>2. ASSUME NEW y \in S PROVE m - n >= y
      <4>1. n <= m - y /\ y \in 1 .. m
        BY <2>3, <2>4
      <4> QED BY <3>1, <4>1
    <3> QED BY <3>1, <3>2
  <2>6. Auth!Max(S) \in S /\ \A y \in S : Auth!Max(S) >= y
    <3>1. \E x \in S : \A y \in S : x >= y
      BY <2>5
    <3> QED BY <3>1 DEF Auth!Max
  <2>7. PICK j \in 1 .. m : j = Auth!Max(S)
    BY <1>1, <2>6
  <2>8. opts[j].opt = "WithScopes"
        /\ \A h \in 1 .. m : opts[h].opt = "WithScopes" => h <= j
    <3>1. \A h \in 1 .. m : opts[h].opt = "WithScopes" => j >= h
      BY <1>1, <2>6, <2>7
    <3> QED BY <1>1, <2>6, <2>7, <3>1
  <2>9. c.scopes = opts[j].scopes
    BY <1>1, <2>7, <2>8 DEF Follows
  <2> QED BY <1>3, <2>7, <2>9
<1> QED BY <1>2, <1>3

\* What a client has of its configuration.
LEMMA ClientFacts ==
  ASSUME NEW opts, IsList(opts), NEW g, Follows(g, opts, Len(opts)),
         NEW c, c.retryDisabled = g.retryDisabled, c.retryAttempts = g.retryAttempts,
         NEW mode, NEW subject, NEW r, r = Auth!Client(c, mode, subject)
  PROVE  /\ r.err = "nil" /\ r.mode = mode /\ r.subject = subject /\ r.scopes = c.scopes
         /\ (\A i \in DOMAIN opts : opts[i].opt # "WithoutRetry") => r.attempts > 1
              \/ \E i \in DOMAIN opts : opts[i].opt = "WithRetryAttempts" /\ opts[i].n = 1
<1>1. DOMAIN opts = 1 .. Len(opts)
  BY ListFacts
<1>2. /\ r.err = "nil" /\ r.mode = mode /\ r.subject = subject /\ r.scopes = c.scopes
      /\ r.attempts = Auth!retryRoundTripper(c)
  BY DEF Auth!Client
<1>3. ASSUME \A i \in DOMAIN opts : opts[i].opt # "WithoutRetry"
      PROVE  r.attempts > 1
              \/ \E i \in DOMAIN opts : opts[i].opt = "WithRetryAttempts" /\ opts[i].n = 1
  <2>1. c.retryDisabled = FALSE
    BY <1>1, <1>3 DEF Follows
  <2>2. PICK n \in Nat : n = c.retryAttempts
    BY DEF Follows
  <2>3. r.attempts = IF n < 1 THEN 4 ELSE n
    BY <1>2, <2>1, <2>2 DEF Auth!retryRoundTripper
  <2>4. CASE n = 1
    <3>1. \E j \in 1 .. Len(opts) : opts[j].opt = "WithRetryAttempts" /\ opts[j].n = n
      BY <2>2, <2>4 DEF Follows
    <3> QED BY <1>1, <2>4, <3>1
  <2>5. CASE n # 1
    BY <2>3, <2>5
  <2> QED BY <2>4, <2>5
<1> QED BY <1>2, <1>3

\* What a refusal has.
LEMMA RefusedFacts ==
  ASSUME NEW e, e # "nil", NEW r, r = Auth!Refused(e)
  PROVE  r.err # "nil" /\ r.mode = "none" /\ r.scopes = {}
BY DEF Auth!Refused

\* auth.ResolveClient, for every list of options and every environment: who
\* asks for delegation acts for a valid subject or is refused, every client
\* that may retry does, and the scopes are those asked for or the defaults but
\* for an injected client and default credentials without retries, which are
\* given none.
THEOREM ResolvesAlwaysSafely ==
  ASSUME NEW env, NEW defaults, NEW opts, IsList(opts),
         \A i \in 1 .. Len(opts) : IsOption(opts[i])
  PROVE  Auth!ResolvesSafely(env, defaults, opts)
<1>1. PICK g : g = Auth!Configured(opts)
  OBVIOUS
<1>2. Follows(g, opts, Len(opts)) /\ DOMAIN opts = 1 .. Len(opts)
  BY <1>1, ConfiguredFollows, ListFacts
<1>3. PICK S : S = {i \in DOMAIN opts : opts[i].opt = "WithScopes"}
  OBVIOUS
<1>4. PICK asked : asked = IF S = {} THEN {} ELSE opts[Auth!Max(S)].scopes
  OBVIOUS
<1>5. g.scopes = asked
  BY <1>2, <1>3, <1>4, ScopesAsked
<1>6. PICK c : c = [g EXCEPT
              !.targetSA = IF g.targetSA = <<>> /\ ~g.isInteractive THEN env ELSE g.targetSA,
              !.scopes = IF g.scopes = {} THEN defaults ELSE g.scopes]
  OBVIOUS
<1>7. /\ c.retryDisabled = g.retryDisabled /\ c.retryAttempts = g.retryAttempts
      /\ c.isDWD = g.isDWD /\ c.subjectEmail = g.subjectEmail
      /\ c.isInteractive = g.isInteractive
      /\ c.targetSA = IF g.targetSA = <<>> /\ ~g.isInteractive THEN env ELSE g.targetSA
      /\ c.scopes = IF g.scopes = {} THEN defaults ELSE g.scopes
  <2>1. DOMAIN g = Fields
    BY <1>2 DEF Follows
  <2> QED BY <1>6, <2>1 DEF Fields
<1>8. PICK r : r = Auth!ResolveClient(env, defaults, opts)
  OBVIOUS
<1>19. PICK b : b = [c EXCEPT !.scopes = {}]
  OBVIOUS
<1>20. /\ b.retryDisabled = g.retryDisabled /\ b.retryAttempts = g.retryAttempts
       /\ b.scopes = {}
  <2>1. DOMAIN c = Fields
    BY <1>2, <1>6 DEF Follows, Fields
  <2> QED BY <1>7, <1>19, <2>1 DEF Fields
<1>9. r = IF g.httpClient THEN Auth!Client(b, "injected", <<>>)
          ELSE IF c.isDWD /\ c.targetSA = <<>> THEN Auth!Refused("ErrNoImpersonationAccount")
          ELSE IF c.targetSA # <<>> THEN Auth!resolveImpersonationClient(c)
          ELSE IF c.isInteractive THEN Auth!Client(c, "interactive", <<>>)
          ELSE Auth!Client(IF c.retryDisabled THEN b ELSE c, "adc", <<>>)
  BY <1>1, <1>6, <1>8, <1>19 DEF Auth!ResolveClient
<1> DEFINE dwd == \E i \in DOMAIN opts : opts[i].opt = "WithDomainWideDelegation"
           injected == \E i \in DOMAIN opts : opts[i].opt = "WithHTTPClient"
           retrying == \A i \in DOMAIN opts : opts[i].opt # "WithoutRetry"
           wanted == IF asked = {} THEN defaults ELSE asked
           Safe1 ==
             /\ dwd /\ ~injected /\ r.err = "nil" =>
                  r.mode = "impersonate" /\ Auth!IsValidEmail(r.subject)
             /\ r.err = "nil" /\ retrying => r.attempts > 1
                  \/ \E i \in DOMAIN opts : opts[i].opt = "WithRetryAttempts" /\ opts[i].n = 1
             /\ r.err = "nil" =>
                  r.scopes = IF r.mode = "injected" \/ (r.mode = "adc" /\ ~retrying) THEN {}
                             ELSE wanted
             /\ r.mode = "adc" => env = <<>>
<1>10. dwd => c.isDWD = TRUE
  BY <1>2, <1>7 DEF Follows
<1>11. ~injected => g.httpClient = FALSE
  BY <1>2 DEF Follows
<1>21. /\ retrying => g.retryDisabled = FALSE
       /\ ~retrying => g.retryDisabled = TRUE
  BY <1>2 DEF Follows
<1> HIDE DEF dwd, injected
<1>12. c.scopes = wanted
  BY <1>5, <1>7
<1> HIDE DEF wanted
<1>13. ASSUME g.httpClient PROVE Safe1
  <2>1. r = Auth!Client(b, "injected", <<>>)
    BY <1>9, <1>13
  <2>2. injected
    BY <1>11, <1>13
  <2>3. r.mode = "injected" /\ r.scopes = {}
    BY <1>2, <1>20, <2>1, ClientFacts
  <2>4. retrying => r.attempts > 1
          \/ \E i \in DOMAIN opts : opts[i].opt = "WithRetryAttempts" /\ opts[i].n = 1
    BY <1>2, <1>20, <2>1, ClientFacts
  <2> QED BY <2>2, <2>3, <2>4
<1>14. ASSUME r.err # "nil", r.mode = "none", r.scopes = {}
       PROVE  Safe1
  BY <1>14
<1>15. ASSUME ~g.httpClient /\ c.isDWD /\ c.targetSA = <<>> PROVE Safe1
  <2>1. r = Auth!Refused("ErrNoImpersonationAccount")
    BY <1>9, <1>15
  <2> QED BY <1>14, <2>1, RefusedFacts
<1>16. ASSUME ~g.httpClient /\ c.targetSA # <<>> PROVE Safe1
  <2>1. r = Auth!resolveImpersonationClient(c)
    BY <1>9, <1>16
  <2>2. CASE \E e : e # "nil" /\ r = Auth!Refused(e)
    BY <1>14, <2>2, RefusedFacts
  <2>3. CASE /\ r = Auth!Client(c, "impersonate", c.subjectEmail)
             /\ ~(c.isDWD /\ c.subjectEmail = <<>>)
             /\ c.subjectEmail = <<>> \/ Auth!IsValidEmail(c.subjectEmail)
    <3>1. r.err = "nil" /\ r.mode = "impersonate" /\ r.subject = c.subjectEmail
          /\ r.scopes = c.scopes
      BY <1>2, <1>7, <2>3, ClientFacts
    <3>2. dwd => Auth!IsValidEmail(r.subject)
      BY <1>10, <2>3, <3>1
    <3>3. (\A i \in DOMAIN opts : opts[i].opt # "WithoutRetry") => r.attempts > 1
            \/ \E i \in DOMAIN opts : opts[i].opt = "WithRetryAttempts" /\ opts[i].n = 1
      BY <1>2, <1>7, <2>3, ClientFacts
    <3> QED BY <1>12, <3>1, <3>2, <3>3
  <2> QED BY <2>1, <2>2, <2>3 DEF Auth!resolveImpersonationClient
<1>17. ASSUME ~g.httpClient /\ ~c.isDWD /\ c.targetSA = <<>> PROVE Safe1
  <2>1. ~dwd
    BY <1>10, <1>17
  <2>2. CASE c.isInteractive
    <3>1. r = Auth!Client(c, "interactive", <<>>)
      BY <1>9, <1>17, <2>2
    <3>2. r.mode = "interactive" /\ r.scopes = c.scopes
      BY <1>2, <1>7, <3>1, ClientFacts
    <3>3. (\A i \in DOMAIN opts : opts[i].opt # "WithoutRetry") => r.attempts > 1
            \/ \E i \in DOMAIN opts : opts[i].opt = "WithRetryAttempts" /\ opts[i].n = 1
      BY <1>2, <1>7, <3>1, ClientFacts
    <3> QED BY <1>12, <2>1, <3>2, <3>3
  <2>3. CASE ~c.isInteractive
    <3>1. PICK d : d = IF c.retryDisabled THEN b ELSE c
      OBVIOUS
    <3>2. r = Auth!Client(d, "adc", <<>>) /\ env = <<>>
      BY <1>7, <1>9, <1>17, <2>3, <3>1
    <3>3. d.retryDisabled = g.retryDisabled /\ d.retryAttempts = g.retryAttempts
      BY <1>7, <1>20, <3>1
    <3>4. r.mode = "adc" /\ r.scopes = d.scopes
      BY <1>2, <3>2, <3>3, ClientFacts
    <3>5. d.scopes = IF retrying THEN wanted ELSE {}
      BY <1>7, <1>12, <1>20, <1>21, <3>1
    <3>6. retrying => r.attempts > 1
            \/ \E i \in DOMAIN opts : opts[i].opt = "WithRetryAttempts" /\ opts[i].n = 1
      BY <1>2, <3>2, <3>3, ClientFacts
    <3> QED BY <2>1, <3>2, <3>4, <3>5, <3>6
  <2> QED BY <2>2, <2>3
<1>18. Safe1
  <2> HIDE DEF Safe1
  <2> QED BY <1>13, <1>15, <1>16, <1>17
<1> QED BY <1>3, <1>4, <1>8, <1>18 DEF Auth!ResolvesSafely, dwd, injected, wanted
-----------------------------------------------------------------------------
\* The inputs of procrun, runner and auth in the run.
LEMMA ProcInputs == MCInit /\ input.op \in {"env", "args", "auth"} => ProcInput
<1> SUFFICES ASSUME MCInit, input.op \in {"env", "args", "auth"} PROVE ProcInput
  OBVIOUS
<1>1. ~DiffInput
  <2>1. \A A, B : input \notin [op : {"set"}, l : A, r : B]
    OBVIOUS
  <2>2. \A A, B, C : input \notin [op : {"move"}, b : A, t : B, l : C]
    OBVIOUS
  <2>3. \A A, B : input \notin [op : {"map"}, l : A, r : B]
    OBVIOUS
  <2>4. \A A, B : input \notin [op : {"schema"}, l : A, r : B]
    OBVIOUS
  <2>5. \A A, B, C : input \notin [op : {"stats"}, l : A, r : B, t : C]
    OBVIOUS
  <2>6. \A A, B : input \notin [op : {"compare"}, t : A, ask : B]
    OBVIOUS
  <2>7. \A A : input \notin [op : {"target"}, parts : A]
    OBVIOUS
  <2> QED BY <2>1, <2>2, <2>3, <2>4, <2>5, <2>6, <2>7 DEF DiffInput
<1>2. ~PlanInput
  <2>1. \A A, B, C, D, E, F : input \notin [op : {"plan"}, Tier : A, Scope : B, Hierarchy : C,
                                            Dimensions : D, BillingAccount : E, OrgID : F]
    OBVIOUS
  <2> QED BY <2>1 DEF PlanInput
<1>3. ~CellInput
  <2>1. \A A : input \notin [op : {"a1"}, col : A]
    OBVIOUS
  <2>2. \A A : input \notin [op : {"title"}, title : A]
    OBVIOUS
  <2> QED BY <2>1, <2>2 DEF CellInput
<1>4. input # [op |-> "none"]
  OBVIOUS
<1> QED BY <1>1, <1>2, <1>3, <1>4 DEF MCInit

\* They are of the kinds that the theorems ask for.
LEMMA ArgsInputs ==
  ASSUME ProcInput, input.op = "args"
  PROVE  /\ input.k \notin Proc!Flags /\ input.v \notin Proc!Flags
         /\ input.v \notin {input.k, "config", "set", "dir", "[redacted]"}
         /\ input.v \notin {"stack", "select", "up", "destroy"}
<1>1. \A A, B, C : input \notin [op : {"env"}, call : A, parent : B, r : C]
  OBVIOUS
<1>2. \A A, B : input \notin [op : {"auth"}, env : A, opts : B]
  OBVIOUS
<1>3. input \in [op : {"args"}, k : {"key", "?!"}, v : {"value", "secret"}]
  BY <1>1, <1>2 DEF ProcInput
<1>4. input.k \in {"key", "?!"} /\ input.v \in {"value", "secret"}
  BY <1>3
<1> QED BY <1>4 DEF Proc!Flags

LEMMA AuthInputs ==
  ASSUME ProcInput, input.op = "auth"
  PROVE  IsList(input.opts) /\ \A i \in 1 .. Len(input.opts) : IsOption(input.opts[i])
<1>1. \A A, B, C : input \notin [op : {"env"}, call : A, parent : B, r : C]
  OBVIOUS
<1>2. \A A, B : input \notin [op : {"args"}, k : A, v : B]
  OBVIOUS
<1>3. input \in [op : {"auth"}, env : {Mail(0), Mail(1)}, opts : SeqOf(Options, 2)]
  BY <1>1, <1>2 DEF ProcInput
<1>4. input.opts \in SeqOf(Options, 2)
  BY <1>3
<1>5. PICK m \in 0 .. 2 : input.opts \in [1 .. m -> Options]
  BY <1>4 DEF SeqOf
<1>6. PICK f : f = input.opts
  OBVIOUS
<1>7. m \in Nat /\ f \in [1 .. m -> Options]
  BY <1>5, <1>6
<1>8. IsList(f)
  BY <1>7, FunList
<1>9. DOMAIN f = 1 .. Len(f) /\ DOMAIN f = 1 .. m
  BY <1>7, <1>8, ListFacts
<1>10. ASSUME NEW o \in Options PROVE IsOption(o)
  <2>1. CASE o \in {[opt |-> "WithServiceAccountImpersonation", sa |-> Mail(n)] : n \in 0 .. 2}
    BY <2>1 DEF IsOption, OptionNames
  <2>2. CASE o \in {[opt |-> "WithDomainWideDelegation", sa |-> Mail(n), subject |-> Mail(h)] :
                      n, h \in 0 .. 2}
    BY <2>2 DEF IsOption, OptionNames
  <2>3. CASE o \in {[opt |-> x] : x \in {"WithInteractiveConsent", "WithHTTPClient",
                                         "WithoutRetry"}}
    BY <2>3 DEF IsOption, OptionNames
  <2>4. CASE o \in {[opt |-> "WithScopes", scopes |-> s] : s \in {{}, {"mine"}}}
    BY <2>4 DEF IsOption, OptionNames
  <2>5. CASE o \in {[opt |-> "WithRetryAttempts", n |-> n] : n \in {-1, 1, 2}}
    BY <2>5 DEF IsOption, OptionNames
  <2> QED BY <2>1, <2>2, <2>3, <2>4, <2>5 DEF Options
<1>11. \A i \in 1 .. Len(f) : IsOption(f[i])
  BY <1>7, <1>9, <1>10
<1> QED BY <1>6, <1>8, <1>11

\* The inputs of the run, by the theorems for all inputs.
THEOREM ProcIsSound == MCSpec => []ProcSound
<1>1. MCInit => ProcSound
  <2> SUFFICES ASSUME MCInit PROVE ProcSound
    OBVIOUS
  <2>1. CASE input.op = "env"
    <3>1. Proc!EnvIsControlled(input.r, input.call, input.parent)
      BY EnvironIsControlled
    <3> QED BY <2>1, <3>1 DEF ProcSound
  <2>2. CASE input.op = "args"
    <3>1. PICK k, v : k = input.k /\ v = input.v
      OBVIOUS
    <3>2. /\ k \notin Proc!Flags /\ v \notin Proc!Flags
          /\ v \notin {k, "config", "set", "dir", "[redacted]"}
          /\ v \notin {"stack", "select", "up", "destroy"}
      BY <2>2, <3>1, ProcInputs, ArgsInputs
    <3>3. Proc!ValueStaysPrivate(k, v)
      BY <3>2, ValuesStayPrivate
    <3>4. Proc!CommandsAreNamed(v)
      BY <3>2, CommandsAreAlwaysNamed
    <3> QED BY <2>2, <3>1, <3>3, <3>4 DEF ProcSound
  <2>3. CASE input.op = "auth"
    <3>1. PICK env, opts : env = input.env /\ opts = input.opts
      OBVIOUS
    <3>2. IsList(opts) /\ \A i \in 1 .. Len(opts) : IsOption(opts[i])
      BY <2>3, <3>1, ProcInputs, AuthInputs
    <3>3. Auth!ResolvesSafely(env, {"default"}, opts)
      BY <3>2, ResolvesAlwaysSafely
    <3> QED BY <2>3, <3>1, <3>3 DEF ProcSound
  <2>4. CASE input.op \notin {"env", "args", "auth"}
    BY <2>4 DEF ProcSound
  <2> QED BY <2>1, <2>2, <2>3, <2>4
<1>2. ProcSound /\ [MCNext]_allVars => ProcSound'
  <2> SUFFICES ASSUME ProcSound, [MCNext]_allVars PROVE ProcSound'
    OBVIOUS
  <2>1. input' = input
    BY DEF MCNext, allVars
  <2> QED BY <2>1 DEF ProcSound
<1> QED BY <1>1, <1>2, PTL DEF MCSpec
=============================================================================
