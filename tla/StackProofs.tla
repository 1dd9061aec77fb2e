----------------------------- MODULE StackProofs -----------------------------
(***************************************************************************)
(* Proofs about iac/: what every program of a stack registers, for every   *)
(* configuration and every state of the other stacks, and what an update   *)
(* does with it.  Programs are lists of programs and Run is a recursive    *)
(* function, so the argument is by induction, as a statement about sets:   *)
(* Least and Induction.  A block or a blueprint is then a list of smaller  *)
(* programs, each sound (Fine), of known types (Within) and naming nothing *)
(* twice (Once).                                                           *)
(***************************************************************************)
EXTENDS IacStack, TLAPS, WellFoundedInduction, SequenceTheorems

\* Every set of numbers has a least one.
LEMMA Least ==
  ASSUME NEW T \in SUBSET Nat, T # {}
  PROVE  \E x \in T : \A y \in T : x <= y
<1> DEFINE R == OpToRel(<, Nat)
<1>1. IsWellFoundedOn(R, Nat)
  BY NatLessThanWellFounded
<1> HIDE DEF R
<1>2. PICK x \in T : \A y \in T : ~(<<y, x>> \in R)
  BY <1>1, WFMin
<1>3. \A m, n \in Nat : <<m, n>> \in R <=> m < n
  BY DEF R, OpToRel
<1>4. \A y \in T : ~(y < x)
  BY <1>2, <1>3
<1> QED BY <1>2, <1>4

\* Induction, as a statement about sets.
LEMMA Induction ==
  ASSUME NEW G \in SUBSET Nat, 0 \in G, \A n \in G : n + 1 \in G
  PROVE  G = Nat
<1> DEFINE B == Nat \ G
<1> SUFFICES ASSUME B # {} PROVE FALSE
  OBVIOUS
<1>1. PICK x \in B : \A y \in B : x <= y
  BY Least
<1>2. x - 1 \in Nat /\ x - 1 \notin B
  BY <1>1
<1> QED BY <1>1, <1>2
-----------------------------------------------------------------------------
IsList(s) == \E S : s \in Seq(S)

\* A list is a function on its first numbers, with values of its own.
LEMMA ListFacts ==
  ASSUME NEW s, IsList(s)
  PROVE  /\ Len(s) \in Nat /\ DOMAIN s = 1..Len(s)
         /\ s \in Seq({s[i] : i \in 1..Len(s)})
<1>1. PICK S : s \in Seq(S)
  BY DEF IsList
<1>2. Len(s) \in Nat /\ DOMAIN s = 1..Len(s) /\ s \in [1..Len(s) -> S]
  BY <1>1
<1>3. s \in [1..Len(s) -> {s[i] : i \in 1..Len(s)}]
  BY <1>2
<1> QED BY <1>2, <1>3, SeqDef

\* Concatenation, element by element.
LEMMA ConcatList ==
  ASSUME NEW s, NEW t, IsList(s), IsList(t)
  PROVE  /\ IsList(s \o t) /\ Len(s \o t) = Len(s) + Len(t)
         /\ Len(s) \in Nat /\ Len(t) \in Nat
         /\ \A i \in 1..Len(s) : (s \o t)[i] = s[i]
         /\ \A i \in 1..Len(t) : (s \o t)[Len(s) + i] = t[i]
<1>1. PICK S : s \in Seq(S)
  BY DEF IsList
<1>2. PICK T : t \in Seq(T)
  BY DEF IsList
<1>3. s \in Seq(S \cup T)
  BY <1>1, SeqDef
<1>4. t \in Seq(S \cup T)
  BY <1>2, SeqDef
<1>5. s \o t \in Seq(S \cup T)
  BY <1>3, <1>4
<1> QED BY <1>3, <1>4, <1>5 DEF IsList

\* The first error of a list of checks.
LEMMA FirstFacts ==
  ASSUME NEW errs, IsList(errs)
  PROVE  First(errs) = "nil" <=> \A i \in 1..Len(errs) : errs[i] = "nil"
<1>1. DOMAIN errs = 1..Len(errs) /\ Len(errs) \in Nat
  BY ListFacts
<1> DEFINE bad == {i \in DOMAIN errs : errs[i] # "nil"}
<1>2. CASE bad = {}
  BY <1>1, <1>2 DEF First
<1>3. CASE bad # {}
  <2>1. bad \in SUBSET Nat
    BY <1>1
  <2>2. \E i \in bad : \A j \in bad : i <= j
    BY <1>3, <2>1, Least
  <2> DEFINE k == CHOOSE i \in bad : \A j \in bad : i <= j
  <2>3. k \in bad
    BY <2>2
  <2>4. First(errs) = errs[k]
    BY <1>3 DEF First
  <2> HIDE DEF k
  <2> QED BY <1>1, <2>3, <2>4
<1> QED BY <1>2, <1>3
-----------------------------------------------------------------------------
\* The results of the first i programs.
Results(f, steps, m) ==
  f = [i \in 0..m |-> IF i = 0 THEN Ok ELSE Then(f[i - 1], steps[i])]

\* There is such a function for every number of programs.
LEMMA ResultsExist ==
  ASSUME NEW steps, NEW m \in Nat
  PROVE  \E f : Results(f, steps, m)
<1> DEFINE G == {n \in Nat : \E f : Results(f, steps, n)}
<1>1. 0 \in G
  <2> DEFINE f == [i \in 0..0 |-> Ok]
  <2>1. f = [i \in 0..0 |-> IF i = 0 THEN Ok ELSE Then(f[i - 1], steps[i])]
    OBVIOUS
  <2>2. Results(f, steps, 0)
    BY <2>1 DEF Results
  <2> QED BY <2>2
<1>2. \A n \in G : n + 1 \in G
  <2> TAKE n \in G
  <2>1. PICK f : Results(f, steps, n)
    OBVIOUS
  <2> DEFINE g == [i \in 0..(n + 1) |-> IF i <= n THEN f[i] ELSE Then(f[n], steps[i])]
             h == [i \in 0..(n + 1) |-> IF i = 0 THEN Ok ELSE Then(g[i - 1], steps[i])]
  <2>2. \A i \in 0..n : f[i] = IF i = 0 THEN Ok ELSE Then(f[i - 1], steps[i])
    BY <2>1 DEF Results
  <2>3. \A i \in 0..(n + 1) : g[i] = h[i]
    <3> TAKE i \in 0..(n + 1)
    <3>1. CASE i = 0
      BY <2>2, <3>1
    <3>2. CASE i \in 1..n
      <4>1. i - 1 \in 0..(n + 1) /\ i - 1 <= n /\ i <= n /\ i \in 0..n
        BY <3>2
      <4>2. g[i] = f[i] /\ g[i - 1] = f[i - 1] /\ h[i] = Then(g[i - 1], steps[i])
        BY <3>2, <4>1
      <4> QED BY <2>2, <3>2, <4>1, <4>2
    <3>3. CASE i = n + 1
      <4>1. n \in 0..(n + 1) /\ ~(n + 1 <= n) /\ n + 1 # 0 /\ (n + 1) - 1 = n
        OBVIOUS
      <4>2. g[n] = f[n] /\ g[n + 1] = Then(f[n], steps[n + 1])
        BY <4>1
      <4>3. h[n + 1] = Then(g[n], steps[n + 1])
        BY <4>1
      <4> QED BY <3>3, <4>2, <4>3
    <3> QED BY <3>1, <3>2, <3>3
  <2>4. g = h
    BY <2>3
  <2>5. Results(g, steps, n + 1)
    BY <2>4 DEF Results
  <2> QED BY <2>5
<1>3. G = Nat
  BY <1>1, <1>2, Induction
<1> QED BY <1>3

\* Run is its last value.
LEMMA RunUnfolds ==
  ASSUME NEW steps, Len(steps) \in Nat
  PROVE  \E f : Results(f, steps, Len(steps)) /\ Run(steps) = f[Len(steps)]
<1> DEFINE m == Len(steps)
           f == CHOOSE g : g = [i \in 0..m |-> IF i = 0 THEN Ok ELSE Then(g[i - 1], steps[i])]
<1>1. \E g : g = [i \in 0..m |-> IF i = 0 THEN Ok ELSE Then(g[i - 1], steps[i])]
  BY ResultsExist DEF Results
<1>2. f = [i \in 0..m |-> IF i = 0 THEN Ok ELSE Then(f[i - 1], steps[i])]
  BY <1>1
<1>3. Run(steps) = f[m]
  BY DEF Run
<1> HIDE DEF f
<1> QED BY <1>2, <1>3 DEF Results

\* Then: a failure stays, else what is registered is appended.
LEMMA ThenFacts ==
  ASSUME NEW a, NEW s
  PROVE  /\ a.err # "nil" => Then(a, s) = a
         /\ a.err = "nil" => Then(a, s).err = s.err /\ Then(a, s).regs = a.regs \o s.regs
BY DEF Then, Result

\* The program that does nothing.
LEMMA OkFacts == Ok.err = "nil" /\ Ok.regs = <<>> /\ IsList(<<>>) /\ Len(<<>>) = 0
<1>1. <<>> \in Seq({})
  OBVIOUS
<1> QED BY <1>1 DEF Ok, Result, IsList

\* A program runs when none before it failed.
Reached(steps, i) == \A j \in 1..(i - 1) : steps[j].err = "nil"

\* What a result has is of a program that ran.
From(result, steps, i) ==
  \A p \in 1..Len(result.regs) : \E j \in 1..i : \E q \in 1..Len(steps[j].regs) :
    Reached(steps, j) /\ result.regs[p] = steps[j].regs[q]
Upto(result, steps, i) ==
  /\ IsList(result.regs)
  /\ result.err = "nil" <=> \A j \in 1..i : steps[j].err = "nil"
  /\ From(result, steps, i)

\* One program more.
LEMMA UptoNext ==
  ASSUME NEW steps, NEW i \in Nat, NEW a, Upto(a, steps, i), IsList(steps[i + 1].regs)
  PROVE  Upto(Then(a, steps[i + 1]), steps, i + 1)
<1> DEFINE s == steps[i + 1]
           b == Then(a, s)
<1>1. CASE a.err # "nil"
  <2>1. b = a
    BY <1>1, ThenFacts
  <2>2. From(a, steps, i + 1)
    <3>1. 1..i \subseteq 1..(i + 1)
      OBVIOUS
    <3>2. From(a, steps, i)
      BY DEF Upto
    <3> QED BY <3>1, <3>2 DEF From
  <2>3. ~ \A j \in 1..(i + 1) : steps[j].err = "nil"
    <3>1. PICK j \in 1..i : steps[j].err # "nil"
      BY <1>1 DEF Upto
    <3>2. j \in 1..(i + 1)
      OBVIOUS
    <3> QED BY <3>1, <3>2
  <2> QED BY <1>1, <2>1, <2>2, <2>3 DEF Upto
<1>2. CASE a.err = "nil"
  <2>1. b.err = s.err /\ b.regs = a.regs \o s.regs
    BY <1>2, ThenFacts
  <2>2. IsList(a.regs) /\ From(a, steps, i) /\ \A j \in 1..i : steps[j].err = "nil"
    BY <1>2 DEF Upto
  <2>3. /\ IsList(b.regs) /\ Len(b.regs) = Len(a.regs) + Len(s.regs)
        /\ Len(a.regs) \in Nat /\ Len(s.regs) \in Nat
        /\ \A p \in 1..Len(a.regs) : b.regs[p] = a.regs[p]
        /\ \A p \in 1..Len(s.regs) : b.regs[Len(a.regs) + p] = s.regs[p]
    <3> DEFINE x == a.regs
               y == s.regs
    <3>1. IsList(x) /\ IsList(y)
      BY <2>2
    <3> HIDE DEF x, y
    <3>2. /\ IsList(x \o y) /\ Len(x \o y) = Len(x) + Len(y)
          /\ Len(x) \in Nat /\ Len(y) \in Nat
          /\ \A p \in 1..Len(x) : (x \o y)[p] = x[p]
          /\ \A p \in 1..Len(y) : (x \o y)[Len(x) + p] = y[p]
      BY <3>1, ConcatList
    <3> HIDE DEF b, s
    <3>3. b.regs = x \o y
      BY <2>1 DEF x, y
    <3> QED BY <3>2, <3>3 DEF x, y
  <2>4. Reached(steps, i + 1)
    <3>1. (i + 1) - 1 = i
      OBVIOUS
    <3> QED BY <2>2, <3>1 DEF Reached
  <2> HIDE DEF b
  <2>5. From(b, steps, i + 1)
    <3> SUFFICES ASSUME NEW p \in 1..Len(b.regs)
                 PROVE  \E j \in 1..(i + 1) : \E q \in 1..Len(steps[j].regs) :
                          Reached(steps, j) /\ b.regs[p] = steps[j].regs[q]
      BY DEF From
    <3>1. CASE p <= Len(a.regs)
      <4>1. p \in 1..Len(a.regs) /\ b.regs[p] = a.regs[p]
        BY <2>3, <3>1
      <4>2. PICK j \in 1..i : \E q \in 1..Len(steps[j].regs) :
                   Reached(steps, j) /\ a.regs[p] = steps[j].regs[q]
        BY <2>2, <4>1 DEF From
      <4>3. j \in 1..(i + 1)
        OBVIOUS
      <4> QED BY <4>1, <4>2, <4>3
    <3>2. CASE p > Len(a.regs)
      <4> DEFINE q == p - Len(a.regs)
      <4>1. q \in 1..Len(s.regs) /\ p = Len(a.regs) + q
        <5>1. \A x, y \in Nat : \A z \in 1..(x + y) :
                z > x => z - x \in 1..y /\ z = x + (z - x)
          OBVIOUS
        <5>2. p \in 1..(Len(a.regs) + Len(s.regs))
          BY <2>3
        <5> QED BY <2>3, <3>2, <5>1, <5>2
      <4> HIDE DEF q
      <4>2. b.regs[p] = s.regs[q]
        BY <2>3, <4>1
      <4>3. i + 1 \in 1..(i + 1)
        OBVIOUS
      <4> QED BY <2>4, <4>1, <4>2, <4>3
    <3> QED BY <2>3, <3>1, <3>2
  <2>6. b.err = "nil" <=> \A j \in 1..(i + 1) : steps[j].err = "nil"
    BY <2>1, <2>2
  <2> QED BY <2>3, <2>5, <2>6 DEF Upto, b
<1> QED BY <1>1, <1>2

\* Run: the result is nil when every program's is, and what it registers is of
\* the programs that ran.
LEMMA RunFacts ==
  ASSUME NEW steps, IsList(steps), \A i \in 1..Len(steps) : IsList(steps[i].regs)
  PROVE  Upto(Run(steps), steps, Len(steps))
<1>1. Len(steps) \in Nat
  BY ListFacts
<1>2. PICK f : Results(f, steps, Len(steps)) /\ Run(steps) = f[Len(steps)]
  BY <1>1, RunUnfolds
<1> DEFINE m == Len(steps)
           G == {i \in Nat : i <= m => Upto(f[i], steps, i)}
<1> HIDE DEF m
<1>3. f[0] = Ok /\ \A i \in 1..m : f[i] = Then(f[i - 1], steps[i])
  BY <1>1, <1>2 DEF Results, m
<1>4. 0 \in G
  <2>1. Ok.err = "nil" /\ Len(Ok.regs) = 0 /\ IsList(Ok.regs)
    BY OkFacts
  <2>2. Upto(Ok, steps, 0)
    BY <2>1 DEF Upto, From
  <2> QED BY <1>3, <2>2
<1>5. \A i \in G : i + 1 \in G
  <2> SUFFICES ASSUME NEW i \in Nat, Upto(f[i], steps, i), i + 1 <= m
               PROVE  Upto(f[i + 1], steps, i + 1)
    BY <1>1 DEF m
  <2>1. i + 1 \in 1..m /\ (i + 1) - 1 = i
    BY <1>1 DEF m
  <2>2. IsList(steps[i + 1].regs)
    BY <2>1 DEF m
  <2>3. f[i + 1] = Then(f[i], steps[i + 1])
    BY <1>3, <2>1
  <2>4. Upto(Then(f[i], steps[i + 1]), steps, i + 1)
    BY <2>2, UptoNext
  <2> QED BY <2>3, <2>4
<1>6. G = Nat
  <2> HIDE DEF G
  <2>1. G \in SUBSET Nat
    BY DEF G
  <2> QED BY <1>4, <1>5, <2>1, Induction
<1>7. m \in G
  BY <1>1, <1>6 DEF m
<1> QED BY <1>1, <1>2, <1>7 DEF m

\* Nothing is named twice in a result.
Once(r) == \A p, q \in 1..Len(r.regs) : URN(r.regs[p]) = URN(r.regs[q]) => p = q
Shares(r, s) == \E p \in 1..Len(r.regs), q \in 1..Len(s.regs) : URN(r.regs[p]) = URN(s.regs[q])
Apart(steps, m) ==
  \A i \in 1..m : Reached(steps, i) =>
    Once(steps[i]) /\ \A j \in 1..(i - 1) : ~Shares(steps[j], steps[i])

\* One program more: it shares no name with those before it.
LEMMA OnceNext ==
  ASSUME NEW steps, NEW i \in Nat, NEW a, Upto(a, steps, i), Once(a),
         IsList(steps[i + 1].regs), Apart(steps, i + 1)
  PROVE  Once(Then(a, steps[i + 1]))
<1> DEFINE s == steps[i + 1]
           b == Then(a, s)
<1>1. CASE a.err # "nil"
  <2>1. b = a
    BY <1>1, ThenFacts
  <2> QED BY <2>1
<1>2. CASE a.err = "nil"
  <2>1. b.regs = a.regs \o s.regs
    BY <1>2, ThenFacts
  <2>2. IsList(a.regs) /\ From(a, steps, i) /\ \A j \in 1..i : steps[j].err = "nil"
    BY <1>2 DEF Upto
  <2>3. /\ Len(b.regs) = Len(a.regs) + Len(s.regs)
        /\ Len(a.regs) \in Nat /\ Len(s.regs) \in Nat
        /\ \A p \in 1..Len(a.regs) : b.regs[p] = a.regs[p]
        /\ \A p \in 1..Len(s.regs) : b.regs[Len(a.regs) + p] = s.regs[p]
    <3> DEFINE x == a.regs
               y == s.regs
    <3>1. IsList(x) /\ IsList(y)
      BY <2>2
    <3> HIDE DEF x, y
    <3>2. /\ Len(x \o y) = Len(x) + Len(y)
          /\ Len(x) \in Nat /\ Len(y) \in Nat
          /\ \A p \in 1..Len(x) : (x \o y)[p] = x[p]
          /\ \A p \in 1..Len(y) : (x \o y)[Len(x) + p] = y[p]
      BY <3>1, ConcatList
    <3> HIDE DEF b, s
    <3>3. b.regs = x \o y
      BY <2>1 DEF x, y
    <3> QED BY <3>2, <3>3 DEF x, y
  <2>4. Once(s) /\ \A j \in 1..i : ~Shares(steps[j], s)
    <3>1. (i + 1) - 1 = i /\ i + 1 \in 1..(i + 1)
      OBVIOUS
    <3>2. Reached(steps, i + 1)
      BY <2>2, <3>1 DEF Reached
    <3> QED BY <3>1, <3>2 DEF Apart
  <2> HIDE DEF b, s
  <2>5. ~ \E p \in 1..Len(a.regs), q \in 1..Len(s.regs) : URN(a.regs[p]) = URN(s.regs[q])
    <3> SUFFICES ASSUME NEW p \in 1..Len(a.regs), NEW q \in 1..Len(s.regs),
                        URN(a.regs[p]) = URN(s.regs[q])
                 PROVE  FALSE
      OBVIOUS
    <3>1. PICK j \in 1..i : \E o \in 1..Len(steps[j].regs) : a.regs[p] = steps[j].regs[o]
      BY <2>2 DEF From
    <3>2. PICK o \in 1..Len(steps[j].regs) : a.regs[p] = steps[j].regs[o]
      BY <3>1
    <3>3. URN(steps[j].regs[o]) = URN(s.regs[q])
      BY <3>2
    <3>4. Shares(steps[j], s)
      BY <3>3 DEF Shares
    <3> QED BY <2>4, <3>4
  <2>6. \A p \in 1..Len(b.regs) :
          \/ p \in 1..Len(a.regs) /\ b.regs[p] = a.regs[p]
          \/ \E q \in 1..Len(s.regs) : p = Len(a.regs) + q /\ b.regs[p] = s.regs[q]
    <3> TAKE p \in 1..Len(b.regs)
    <3>1. \A x, y \in Nat : \A z \in 1..(x + y) :
            \/ z \in 1..x
            \/ z - x \in 1..y /\ z = x + (z - x)
      OBVIOUS
    <3>2. CASE p \in 1..Len(a.regs)
      BY <2>3, <3>2
    <3>3. CASE p \notin 1..Len(a.regs)
      <4>1. PICK q \in 1..Len(s.regs) : p = Len(a.regs) + q
        <5>1. p \in 1..(Len(a.regs) + Len(s.regs))
          BY <2>3
        <5>2. p - Len(a.regs) \in 1..Len(s.regs) /\ p = Len(a.regs) + (p - Len(a.regs))
          BY <2>3, <3>1, <3>3, <5>1
        <5> QED BY <5>2
      <4>2. b.regs[p] = s.regs[q]
        BY <2>3, <4>1
      <4> QED BY <4>1, <4>2
    <3> QED BY <3>2, <3>3
  <2>7. Once(b)
    <3> SUFFICES ASSUME NEW p \in 1..Len(b.regs), NEW q \in 1..Len(b.regs),
                        URN(b.regs[p]) = URN(b.regs[q])
                 PROVE  p = q
      BY DEF Once
    <3>1. CASE p \in 1..Len(a.regs) /\ b.regs[p] = a.regs[p]
      <4>1. CASE q \in 1..Len(a.regs) /\ b.regs[q] = a.regs[q]
        BY <3>1, <4>1 DEF Once
      <4>2. CASE \E o \in 1..Len(s.regs) : q = Len(a.regs) + o /\ b.regs[q] = s.regs[o]
        BY <2>5, <3>1, <4>2
      <4> QED BY <2>6, <4>1, <4>2
    <3>2. CASE \E o \in 1..Len(s.regs) : p = Len(a.regs) + o /\ b.regs[p] = s.regs[o]
      <4>1. CASE q \in 1..Len(a.regs) /\ b.regs[q] = a.regs[q]
        BY <2>5, <3>2, <4>1
      <4>2. CASE \E o \in 1..Len(s.regs) : q = Len(a.regs) + o /\ b.regs[q] = s.regs[o]
        BY <2>4, <3>2, <4>2 DEF Once
      <4> QED BY <2>6, <4>1, <4>2
    <3> QED BY <2>6, <3>1, <3>2
  <2> QED BY <2>7 DEF b, s
<1> QED BY <1>1, <1>2

\* Run: programs that share no name register no name twice.
LEMMA RunOnce ==
  ASSUME NEW steps, IsList(steps), \A i \in 1..Len(steps) : IsList(steps[i].regs),
         Apart(steps, Len(steps))
  PROVE  Once(Run(steps))
<1>1. Len(steps) \in Nat
  BY ListFacts
<1>2. PICK f : Results(f, steps, Len(steps)) /\ Run(steps) = f[Len(steps)]
  BY <1>1, RunUnfolds
<1> DEFINE m == Len(steps)
           G == {i \in Nat : i <= m => Upto(f[i], steps, i) /\ Once(f[i])}
<1> HIDE DEF m
<1>3. f[0] = Ok /\ \A i \in 1..m : f[i] = Then(f[i - 1], steps[i])
  BY <1>1, <1>2 DEF Results, m
<1>4. 0 \in G
  <2>1. Ok.err = "nil" /\ Len(Ok.regs) = 0 /\ IsList(Ok.regs)
    BY OkFacts
  <2>2. Upto(Ok, steps, 0) /\ Once(Ok)
    BY <2>1 DEF Upto, From, Once
  <2> QED BY <1>3, <2>2
<1>5. \A i \in G : i + 1 \in G
  <2> SUFFICES ASSUME NEW i \in Nat, Upto(f[i], steps, i), Once(f[i]), i + 1 <= m
               PROVE  Upto(f[i + 1], steps, i + 1) /\ Once(f[i + 1])
    BY <1>1 DEF m
  <2>1. i + 1 \in 1..m /\ (i + 1) - 1 = i /\ 1..(i + 1) \subseteq 1..m
    BY <1>1 DEF m
  <2>2. IsList(steps[i + 1].regs)
    BY <2>1 DEF m
  <2>3. f[i + 1] = Then(f[i], steps[i + 1])
    BY <1>3, <2>1
  <2>4. Upto(Then(f[i], steps[i + 1]), steps, i + 1)
    BY <2>2, UptoNext
  <2>5. Apart(steps, i + 1)
    BY <2>1 DEF Apart, m
  <2>6. Once(Then(f[i], steps[i + 1]))
    BY <2>2, <2>5, OnceNext
  <2> QED BY <2>3, <2>4, <2>6
<1>6. G = Nat
  <2> HIDE DEF G
  <2>1. G \in SUBSET Nat
    BY DEF G
  <2> QED BY <1>4, <1>5, <2>1, Induction
<1>7. m \in G
  BY <1>1, <1>6 DEF m
<1> QED BY <1>1, <1>2, <1>7 DEF m
-----------------------------------------------------------------------------
\* A resource that holds data is protected, or its stack is disposable; a
\* project is where it should be, in a folder and paid for.
Kept(protect, e) == protect = TRUE \/ e
Sturdy(x, e, at) ==
  /\ x.data => Kept(x.protect, e)
  /\ x.type = "project" => x.at = at /\ at # Empty /\ at[1] # Empty /\ at[2] # Empty
Fine(r, e, at) == IsList(r.regs) /\ \A p \in 1..Len(r.regs) : Sturdy(r.regs[p], e, at)
\* The types of resources in a result.
Within(r, T) == IsList(r.regs) /\ \A p \in 1..Len(r.regs) : r.regs[p].type \in T

\* Run: sound programs come to something sound.
LEMMA RunFine ==
  ASSUME NEW steps, IsList(steps), NEW e, NEW at,
         \A i \in 1..Len(steps) : Reached(steps, i) => Fine(steps[i], e, at),
         \A i \in 1..Len(steps) : IsList(steps[i].regs)
  PROVE  Fine(Run(steps), e, at)
<1>1. Upto(Run(steps), steps, Len(steps))
  BY RunFacts
<1> QED BY <1>1 DEF Upto, From, Fine

\* Run: the types of the programs are all there is.
LEMMA RunWithin ==
  ASSUME NEW steps, IsList(steps), NEW T, \A i \in 1..Len(steps) : Within(steps[i], T)
  PROVE  Within(Run(steps), T)
<1>1. \A i \in 1..Len(steps) : IsList(steps[i].regs)
  BY DEF Within
<1>2. Upto(Run(steps), steps, Len(steps))
  BY <1>1, RunFacts
<1> QED BY <1>2 DEF Upto, From, Within

\* More types are no harm.
LEMMA WithinMore ==
  ASSUME NEW r, NEW S, NEW T, S \subseteq T, Within(r, S)
  PROVE  Within(r, T)
BY DEF Within

\* What is sound is a list.
LEMMA FineList == ASSUME NEW r, NEW e, NEW at, Fine(r, e, at) PROVE IsList(r.regs)
BY DEF Fine

\* Results of different types share no name.
LEMMA TypesApart ==
  ASSUME NEW r, NEW s, NEW S, NEW T, Within(r, S), Within(s, T), S \cap T = {}
  PROVE  ~Shares(r, s)
<1> SUFFICES ASSUME NEW p \in 1..Len(r.regs), NEW q \in 1..Len(s.regs),
                    URN(r.regs[p]) = URN(s.regs[q])
             PROVE  FALSE
  BY DEF Shares
<1>1. r.regs[p].type = s.regs[q].type
  BY DEF URN
<1> QED BY <1>1 DEF Within

\* The smallest programs.
LEMMA MustFacts ==
  ASSUME NEW err, NEW e, NEW at, NEW T
  PROVE  /\ Must(err).err = err /\ Len(Must(err).regs) = 0
         /\ Fine(Must(err), e, at) /\ Within(Must(err), T) /\ Once(Must(err))
<1>1. Must(err).err = err /\ Must(err).regs = <<>>
  BY DEF Must, Result
<1>2. IsList(Must(err).regs) /\ Len(Must(err).regs) = 0
  BY <1>1, OkFacts
<1> QED BY <1>1, <1>2 DEF Fine, Within, Once

\* Export registers nothing and cannot fail.
LEMMA ExportFacts ==
  ASSUME NEW key, NEW value, NEW e, NEW at, NEW T
  PROVE  /\ Export(key, value).err = "nil" /\ Len(Export(key, value).regs) = 0
         /\ Fine(Export(key, value), e, at) /\ Within(Export(key, value), T)
         /\ Once(Export(key, value))
<1> DEFINE r == Export(key, value)
<1>1. r.err = "nil" /\ r.regs = <<>>
  BY DEF Export, Result
<1>2. IsList(r.regs) /\ Len(r.regs) = 0
  BY <1>1, OkFacts
<1> QED BY <1>1, <1>2 DEF Fine, Within, Once

\* Ok registers nothing.
LEMMA OkIsFine ==
  ASSUME NEW e, NEW at, NEW T
  PROVE  /\ Ok.err = "nil" /\ Len(Ok.regs) = 0 /\ Fine(Ok, e, at) /\ Within(Ok, T) /\ Once(Ok)
BY OkFacts DEF Fine, Within, Once

\* Registers: one resource, as given.
LEMMA RegistersFacts ==
  ASSUME NEW type, NEW name, NEW protect, NEW guard, NEW data, NEW at,
         NEW r, r = Registers(type, name, protect, guard, data, at)
  PROVE  /\ r.err = "nil" /\ IsList(r.regs) /\ Len(r.regs) = 1 /\ Once(r)
         /\ r.regs[1].type = type /\ r.regs[1].name = name
         /\ r.regs[1].protect = protect /\ r.regs[1].data = data /\ r.regs[1].at = at
         /\ URN(r.regs[1]) = <<type, name>>
<1>1. PICK x : /\ r.err = "nil" /\ r.regs = <<x>>
               /\ x.type = type /\ x.name = name /\ x.protect = protect
               /\ x.data = data /\ x.at = at
  BY DEF Registers, Result
<1>2. <<x>> \in Seq({x}) /\ Len(<<x>>) = 1 /\ <<x>>[1] = x
  OBVIOUS
<1>3. r.regs[1] = x /\ IsList(r.regs) /\ Len(r.regs) = 1
  BY <1>1, <1>2 DEF IsList
<1>4. Once(r)
  BY <1>3 DEF Once
<1>5. URN(r.regs[1]) = <<type, name>>
  BY <1>1, <1>3 DEF URN
<1> QED BY <1>1, <1>3, <1>4, <1>5

\* Resource: one resource that holds data.
LEMMA ResourceIs ==
  ASSUME NEW type, NEW name, NEW protect, NEW guard,
         NEW r, r = Resource(type, name, protect, guard)
  PROVE  /\ r.err = "nil" /\ IsList(r.regs) /\ Len(r.regs) = 1 /\ Once(r)
         /\ r.regs[1].type = type /\ r.regs[1].protect = protect
         /\ URN(r.regs[1]) = <<type, name>>
<1>1. PICK d, b : r = Registers(type, name, protect, guard, d, b)
  BY DEF Resource
<1> QED BY <1>1, RegistersFacts

\* Resource is sound where its protection is.
LEMMA ResourceFacts ==
  ASSUME NEW type, type # "project", NEW name, NEW protect, NEW guard, NEW e, NEW at,
         Kept(protect, e), NEW r, r = Resource(type, name, protect, guard)
  PROVE  /\ r.err = "nil" /\ Fine(r, e, at) /\ Within(r, {type}) /\ Once(r)
         /\ Len(r.regs) = 1 /\ URN(r.regs[1]) = <<type, name>>
<1>1. /\ r.err = "nil" /\ IsList(r.regs) /\ Len(r.regs) = 1 /\ Once(r)
      /\ r.regs[1].type = type /\ r.regs[1].protect = protect
      /\ URN(r.regs[1]) = <<type, name>>
  BY ResourceIs
<1>2. Fine(r, e, at) /\ Within(r, {type})
  BY <1>1 DEF Fine, Within, Sturdy
<1> QED BY <1>1, <1>2

\* Plain holds no data.
LEMMA PlainFacts ==
  ASSUME NEW type, type # "project", NEW name, NEW e, NEW at,
         NEW r, r = Plain(type, name)
  PROVE  /\ r.err = "nil" /\ Fine(r, e, at) /\ Within(r, {type}) /\ Once(r)
         /\ Len(r.regs) = 1 /\ URN(r.regs[1]) = <<type, name>>
<1>0. PICK d, b : d = FALSE /\ b = Empty /\ r = Registers(type, name, d, d, d, b)
  BY DEF Plain
<1>1. /\ r.err = "nil" /\ IsList(r.regs) /\ Len(r.regs) = 1 /\ Once(r)
      /\ r.regs[1].type = type /\ r.regs[1].data = FALSE
      /\ URN(r.regs[1]) = <<type, name>>
  BY <1>0, RegistersFacts
<1>2. Fine(r, e, at) /\ Within(r, {type})
  BY <1>1 DEF Fine, Within, Sturdy
<1> QED BY <1>1, <1>2

\* A function on the first numbers is a list.
LEMMA FunList ==
  ASSUME NEW n \in Nat, NEW f, NEW S, f \in [1..n -> S]
  PROVE  IsList(f) /\ Len(f) = n
<1>1. f \in Seq(S)
  BY SeqDef
<1>2. Len(f) \in Nat /\ DOMAIN f = 1..Len(f) /\ DOMAIN f = 1..n
  BY <1>1
<1>3. \A m \in Nat : 1..m = 1..n => m = n
  <2> SUFFICES ASSUME NEW m \in Nat, 1..m = 1..n, m # n PROVE FALSE
    OBVIOUS
  <2>1. CASE m < n
    <3>1. n \in 1..n /\ n \notin 1..m
      BY <2>1
    <3> QED BY <3>1
  <2>2. CASE n < m
    <3>1. m \in 1..m /\ m \notin 1..n
      BY <2>2
    <3> QED BY <3>1
  <2> QED BY <2>1, <2>2
<1> QED BY <1>1, <1>2, <1>3 DEF IsList

\* A list made from a list.
LEMMA MapList ==
  ASSUME NEW items, IsList(items), NEW f, f = [i \in DOMAIN items |-> f[i]]
  PROVE  IsList(f) /\ Len(f) = Len(items) /\ Len(items) \in Nat /\ DOMAIN items = 1..Len(items)
<1>1. Len(items) \in Nat /\ DOMAIN items = 1..Len(items)
  BY ListFacts
<1>2. f \in [1..Len(items) -> {f[i] : i \in 1..Len(items)}]
  BY <1>1
<1> QED BY <1>1, <1>2, FunList

\* Programs one for each item, or given as a list.
LEMMA AllFine ==
  ASSUME NEW steps, IsList(steps), NEW e, NEW at, NEW T,
         \A i \in 1..Len(steps) : Fine(steps[i], e, at) /\ Within(steps[i], T)
  PROVE  Fine(Run(steps), e, at) /\ Within(Run(steps), T)
<1>1. Fine(Run(steps), e, at)
  BY FineList, RunFine
<1>2. Within(Run(steps), T)
  BY RunWithin
<1> QED BY <1>1, <1>2

\* A pair is a list.
LEMMA PairList ==
  ASSUME NEW a, NEW b
  PROVE  IsList(<<a, b>>) /\ Len(<<a, b>>) = 2 /\ <<a, b>>[1] = a /\ <<a, b>>[2] = b
<1>1. <<a, b>> \in Seq({a, b})
  OBVIOUS
<1> QED BY <1>1 DEF IsList

\* A triple is a list.
LEMMA TripleList ==
  ASSUME NEW a, NEW b, NEW c
  PROVE  /\ IsList(<<a, b, c>>) /\ Len(<<a, b, c>>) = 3
         /\ <<a, b, c>>[1] = a /\ <<a, b, c>>[2] = b /\ <<a, b, c>>[3] = c
<1>1. <<a, b, c>> \in Seq({a, b, c})
  OBVIOUS
<1> QED BY <1>1 DEF IsList

\* Two sound programs, one after the other.
LEMMA PairFine ==
  ASSUME NEW a, NEW b, NEW e, NEW at, NEW T,
         Fine(a, e, at), Within(a, T), Fine(b, e, at), Within(b, T)
  PROVE  Fine(Run(<<a, b>>), e, at) /\ Within(Run(<<a, b>>), T)
<1> DEFINE s == <<a, b>>
<1>1. IsList(s) /\ Len(s) = 2 /\ s[1] = a /\ s[2] = b
  BY PairList
<1> HIDE DEF s
<1>2. \A i \in 1..Len(s) : i = 1 \/ i = 2
  BY <1>1
<1>3. \A i \in 1..Len(s) : Fine(s[i], e, at) /\ Within(s[i], T)
  BY <1>1, <1>2
<1>4. Fine(Run(s), e, at) /\ Within(Run(s), T)
  BY <1>1, <1>3, AllFine
<1> QED BY <1>4 DEF s

\* Three sound programs in order.
LEMMA TripleFine ==
  ASSUME NEW a, NEW b, NEW c, NEW e, NEW at, NEW T,
         Fine(a, e, at), Within(a, T), Fine(b, e, at), Within(b, T), Fine(c, e, at), Within(c, T)
  PROVE  Fine(Run(<<a, b, c>>), e, at) /\ Within(Run(<<a, b, c>>), T)
<1> DEFINE s == <<a, b, c>>
<1>1. IsList(s) /\ Len(s) = 3 /\ s[1] = a /\ s[2] = b /\ s[3] = c
  BY TripleList
<1> HIDE DEF s
<1>2. \A i \in 1..Len(s) : i = 1 \/ i = 2 \/ i = 3
  BY <1>1
<1>3. \A i \in 1..Len(s) : Fine(s[i], e, at) /\ Within(s[i], T)
  BY <1>1, <1>2
<1>4. Fine(Run(s), e, at) /\ Within(Run(s), T)
  BY <1>1, <1>3, AllFine
<1> QED BY <1>4 DEF s

\* Two programs, the second only behind the first.
LEMMA PairOnce ==
  ASSUME NEW a, NEW b, IsList(a.regs), IsList(b.regs), Once(a),
         a.err = "nil" => Once(b) /\ ~Shares(a, b)
  PROVE  Once(Run(<<a, b>>))
<1> DEFINE s == <<a, b>>
<1>1. IsList(s) /\ Len(s) = 2 /\ s[1] = a /\ s[2] = b
  BY PairList
<1> HIDE DEF s
<1>2. \A i \in 1..Len(s) : i = 1 \/ i = 2
  BY <1>1
<1>3. Apart(s, 2)
  <2> SUFFICES ASSUME NEW i \in 1..2, Reached(s, i)
               PROVE  Once(s[i]) /\ \A j \in 1..(i - 1) : ~Shares(s[j], s[i])
    BY DEF Apart
  <2>1. CASE i = 1
    BY <1>1, <2>1
  <2>2. CASE i = 2
    <3>1. a.err = "nil"
      BY <1>1, <2>2 DEF Reached
    <3>2. \A j \in 1..(i - 1) : j = 1
      BY <2>2
    <3> QED BY <1>1, <2>2, <3>1, <3>2
  <2> QED BY <2>1, <2>2
<1>4. \A i \in 1..Len(s) : IsList(s[i].regs)
  BY <1>1, <1>2
<1>5. Once(Run(s))
  BY <1>1, <1>3, <1>4, RunOnce
<1> QED BY <1>5 DEF s

\* Three programs, each only behind those before it.
LEMMA TripleOnce ==
  ASSUME NEW a, NEW b, NEW c, IsList(a.regs), IsList(b.regs), IsList(c.regs), Once(a),
         a.err = "nil" => Once(b) /\ ~Shares(a, b),
         a.err = "nil" /\ b.err = "nil" => Once(c) /\ ~Shares(a, c) /\ ~Shares(b, c)
  PROVE  Once(Run(<<a, b, c>>))
<1> DEFINE s == <<a, b, c>>
<1>1. IsList(s) /\ Len(s) = 3 /\ s[1] = a /\ s[2] = b /\ s[3] = c
  BY TripleList
<1> HIDE DEF s
<1>2. \A i \in 1..Len(s) : i = 1 \/ i = 2 \/ i = 3
  BY <1>1
<1>3. Apart(s, 3)
  <2> SUFFICES ASSUME NEW i \in 1..3, Reached(s, i)
               PROVE  Once(s[i]) /\ \A j \in 1..(i - 1) : ~Shares(s[j], s[i])
    BY DEF Apart
  <2>1. CASE i = 1
    BY <1>1, <2>1
  <2>2. CASE i = 2
    <3>1. a.err = "nil"
      BY <1>1, <2>2 DEF Reached
    <3>2. \A j \in 1..(i - 1) : j = 1
      BY <2>2
    <3> QED BY <1>1, <2>2, <3>1, <3>2
  <2>3. CASE i = 3
    <3>1. a.err = "nil" /\ b.err = "nil"
      BY <1>1, <2>3 DEF Reached
    <3>2. \A j \in 1..(i - 1) : j = 1 \/ j = 2
      BY <2>3
    <3> QED BY <1>1, <2>3, <3>1, <3>2
  <2> QED BY <2>1, <2>2, <2>3
<1>4. \A i \in 1..Len(s) : IsList(s[i].regs)
  BY <1>1, <1>2
<1>5. Once(Run(s))
  BY <1>1, <1>3, <1>4, RunOnce
<1> QED BY <1>5 DEF s

\* One resource for each item, of names of their own.
LEMMA SinglesOnce ==
  ASSUME NEW f, IsList(f),
         \A i \in 1..Len(f) : IsList(f[i].regs) /\ Len(f[i].regs) = 1 /\ Once(f[i]),
         \A i, j \in 1..Len(f) : URN(f[i].regs[1]) = URN(f[j].regs[1]) => i = j
  PROVE  Once(Run(f))
<1>1. Len(f) \in Nat
  BY ListFacts
<1>2. Apart(f, Len(f))
  <2> SUFFICES ASSUME NEW i \in 1..Len(f), NEW j \in 1..(i - 1), Shares(f[j], f[i])
               PROVE  FALSE
    BY DEF Apart
  <2>1. j \in 1..Len(f) /\ j # i
    BY <1>1
  <2>2. Len(f[j].regs) = 1 /\ Len(f[i].regs) = 1
    BY <2>1
  <2>3. URN(f[j].regs[1]) = URN(f[i].regs[1])
    BY <2>2 DEF Shares
  <2> QED BY <2>1, <2>3
<1> QED BY <1>2, RunOnce

\* What registers nothing shares no name.
LEMMA NoneShared ==
  ASSUME NEW a, NEW b, Len(a.regs) = 0
  PROVE  ~Shares(a, b) /\ ~Shares(b, a)
BY DEF Shares

\* What follows the same prefix is the same.
LEMMA ConcatCancel ==
  ASSUME NEW s, NEW t, NEW u, IsList(s), IsList(t), IsList(u), s \o t = s \o u
  PROVE  t = u
<1> DEFINE x == s \o t
           y == s \o u
<1>1. /\ Len(x) = Len(s) + Len(t) /\ Len(s) \in Nat /\ Len(t) \in Nat
      /\ \A i \in 1..Len(t) : x[Len(s) + i] = t[i]
  BY ConcatList
<1>2. /\ Len(y) = Len(s) + Len(u) /\ Len(u) \in Nat
      /\ \A i \in 1..Len(u) : y[Len(s) + i] = u[i]
  BY ConcatList
<1>3. x = y
  OBVIOUS
<1> HIDE DEF x, y
<1>4. Len(t) = Len(u)
  BY <1>1, <1>2, <1>3
<1>5. \A i \in 1..Len(t) : t[i] = u[i]
  BY <1>1, <1>2, <1>3, <1>4
<1>6. PICK S, T : t \in Seq(S) /\ u \in Seq(T)
  BY DEF IsList
<1>7. t \in Seq(S \cup T)
  BY <1>6, SeqDef
<1>8. u \in Seq(S \cup T)
  BY <1>6, SeqDef
<1> QED BY <1>4, <1>5, <1>7, <1>8, SeqEqual
\* One resource, of a type and a name.
Single(r, t, n, e, at) ==
  /\ r.err = "nil" /\ Fine(r, e, at) /\ Within(r, {t}) /\ Once(r)
  /\ Len(r.regs) = 1 /\ URN(r.regs[1]) = <<t, n>>

\* Plain registers one resource of its type and name.
LEMMA PlainSingle ==
  ASSUME NEW t, t # "project", NEW n, NEW e, NEW at
  PROVE  Single(Plain(t, n), t, n, e, at)
<1>1. PICK r : r = Plain(t, n)
  OBVIOUS
<1>2. Single(r, t, n, e, at)
  BY <1>1, PlainFacts DEF Single
<1> QED BY <1>1, <1>2

\* So does Resource.
LEMMA ResourceSingle ==
  ASSUME NEW t, t # "project", NEW n, NEW protect, NEW guard, NEW e, NEW at, Kept(protect, e)
  PROVE  Single(Resource(t, n, protect, guard), t, n, e, at)
<1>1. PICK r : r = Resource(t, n, protect, guard)
  OBVIOUS
<1>2. Single(r, t, n, e, at)
  BY <1>1, ResourceFacts DEF Single
<1> QED BY <1>1, <1>2

\* A list of them is sound.
LEMMA SinglesFine ==
  ASSUME NEW f, IsList(f), NEW t, NEW name, NEW e, NEW at,
         \A i \in 1..Len(f) : Single(f[i], t, name[i], e, at)
  PROVE  Fine(Run(f), e, at) /\ Within(Run(f), {t})
<1>1. \A i \in 1..Len(f) : Fine(f[i], e, at) /\ Within(f[i], {t})
  BY DEF Single
<1> QED BY <1>1, AllFine

\* A list of them with names that differ names nothing twice.
LEMMA SinglesApart ==
  ASSUME NEW f, IsList(f), NEW t, NEW name, NEW e, NEW at,
         \A i \in 1..Len(f) : Single(f[i], t, name[i], e, at),
         \A i, j \in 1..Len(f) : name[i] = name[j] => i = j
  PROVE  Once(Run(f))
<1>1. \A i, j \in 1..Len(f) : URN(f[i].regs[1]) = URN(f[j].regs[1]) => i = j
  <2> SUFFICES ASSUME NEW i \in 1..Len(f), NEW j \in 1..Len(f),
                      URN(f[i].regs[1]) = URN(f[j].regs[1])
               PROVE  i = j
    OBVIOUS
  <2>1. <<t, name[i]>> = <<t, name[j]>>
    BY DEF Single
  <2>2. name[i] = name[j]
    BY <2>1
  <2> QED BY <2>2
<1>2. \A i \in 1..Len(f) : IsList(f[i].regs) /\ Len(f[i].regs) = 1 /\ Once(f[i])
  BY FineList DEF Single
<1> QED BY <1>1, <1>2, SinglesOnce
-----------------------------------------------------------------------------
\* Need: when it passes, no field is empty.
LEMMA NeedFacts ==
  ASSUME NEW cfg, NEW fields, IsList(fields),
         \A i \in 1..Len(fields) : fields[i] # "nil", Need(cfg, fields) = "nil"
  PROVE  \A i \in 1..Len(fields) : cfg[fields[i]] # Empty
<1> DEFINE f == [i \in DOMAIN fields |-> Check(cfg[fields[i]] # Empty, fields[i])]
<1>1. f = [i \in DOMAIN fields |-> f[i]]
  OBVIOUS
<1>2. IsList(f) /\ Len(f) = Len(fields) /\ DOMAIN fields = 1..Len(fields)
  BY <1>1, MapList
<1>3. First(f) = "nil"
  BY DEF Need
<1>4. \A i \in 1..Len(f) : f[i] = "nil"
  <2> HIDE DEF f
  <2> QED BY <1>2, <1>3, FirstFacts
<1> QED BY <1>2, <1>4 DEF Check

\* The first error of two.
LEMMA PairFirst ==
  ASSUME NEW a, NEW b
  PROVE  First(<<a, b>>) = "nil" <=> a = "nil" /\ b = "nil"
<1> DEFINE s == <<a, b>>
<1>1. IsList(s) /\ Len(s) = 2 /\ s[1] = a /\ s[2] = b
  BY PairList
<1> HIDE DEF s
<1>2. First(s) = "nil" <=> \A i \in 1..2 : s[i] = "nil"
  BY <1>1, FirstFacts
<1>3. \A i \in 1..2 : i = 1 \/ i = 2
  OBVIOUS
<1>4. First(s) = "nil" <=> a = "nil" /\ b = "nil"
  BY <1>1, <1>2, <1>3
<1> QED BY <1>4 DEF s

\* The first error of three.
LEMMA TripleFirst ==
  ASSUME NEW a, NEW b, NEW c
  PROVE  First(<<a, b, c>>) = "nil" <=> a = "nil" /\ b = "nil" /\ c = "nil"
<1> DEFINE s == <<a, b, c>>
<1>1. IsList(s) /\ Len(s) = 3 /\ s[1] = a /\ s[2] = b /\ s[3] = c
  BY TripleList
<1> HIDE DEF s
<1>2. First(s) = "nil" <=> \A i \in 1..3 : s[i] = "nil"
  BY <1>1, FirstFacts
<1>3. \A i \in 1..3 : i = 1 \/ i = 2 \/ i = 3
  OBVIOUS
<1>4. First(s) = "nil" <=> a = "nil" /\ b = "nil" /\ c = "nil"
  BY <1>1, <1>2, <1>3
<1> QED BY <1>4 DEF s

\* Listed: when it passes, no name is there twice.
LEMMA ListedFacts ==
  ASSUME NEW names, IsList(names), NEW a, NEW b, a # "nil", b # "nil",
         Listed(names, a, b) = "nil"
  PROVE  \A i, j \in 1..Len(names) : names[i] = names[j] => i = j
<1> DEFINE f == [i \in DOMAIN names |->
                   IF names[i] = Empty THEN a
                   ELSE IF \E j \in 1 .. i - 1 : names[j] = names[i] THEN b ELSE "nil"]
<1>1. f = [i \in DOMAIN names |-> f[i]]
  OBVIOUS
<1>2. /\ IsList(f) /\ Len(f) = Len(names) /\ DOMAIN names = 1..Len(names)
      /\ Len(names) \in Nat
  BY <1>1, MapList
<1>3. First(f) = "nil"
  BY DEF Listed
<1>4. \A i \in 1..Len(f) : f[i] = "nil"
  <2> HIDE DEF f
  <2> QED BY <1>2, <1>3, FirstFacts
<1>5. \A i \in 1..Len(names) : ~ \E j \in 1 .. i - 1 : names[j] = names[i]
  BY <1>2, <1>4
<1> HIDE DEF f
<1> SUFFICES ASSUME NEW i \in 1..Len(names), NEW j \in 1..Len(names), names[i] = names[j], i # j
             PROVE  FALSE
  OBVIOUS
<1>6. CASE i < j
  <2>1. i \in 1..(j - 1)
    BY <1>2, <1>6
  <2> QED BY <1>5, <2>1
<1>7. CASE j < i
  <2>1. j \in 1..(i - 1)
    BY <1>2, <1>7
  <2> QED BY <1>5, <2>1
<1> QED BY <1>2, <1>6, <1>7

\* The options of a block protect what it makes, unless the stack is
\* disposable.
Covered(opts, e) == Kept(Protect(opts), e)

\* No options: the stack is not disposable, everything is protected.
LEMMA NoOptions == ASSUME NEW e PROVE Covered(<<>>, e) /\ ~IsEphemeral(<<>>)
BY DEF Covered, Kept, Protect, IsEphemeral

\* projects
LEMMA ProjectFine ==
  ASSUME NEW cfg, NEW opts, NEW e, Covered(opts, e), NEW at,
         at = <<cfg.FolderID, cfg.BillingAccount>>,
         IsList(cfg.Name), IsList(cfg.APIs), \A i \in 1..Len(cfg.APIs) : IsList(cfg.APIs[i])
  PROVE  /\ Fine(ProjectsApply(cfg, opts), e, at)
         /\ Within(ProjectsApply(cfg, opts), {"project", "service"})
         /\ Once(ProjectsApply(cfg, opts))
<1> DEFINE T == {"project", "service"}
           v == ProjectsValidate(cfg)
           a == Must(v)
           b == Registers("project", cfg.Name, Protect(opts), ~IsEphemeral(opts), TRUE, at)
           f == [i \in DOMAIN cfg.APIs |-> Plain("service", cfg.Name \o cfg.APIs[i])]
           c == Run(f)
<1>1. ProjectsApply(cfg, opts) = Run(<<a, b, c>>)
  BY DEF ProjectsApply, Each
<1>2. a.err = v /\ Fine(a, e, at) /\ Within(a, T) /\ Once(a) /\ Len(a.regs) = 0
  BY MustFacts
<1>3. /\ b.err = "nil" /\ IsList(b.regs) /\ Len(b.regs) = 1 /\ Once(b)
      /\ b.regs[1].type = "project" /\ b.regs[1].protect = Protect(opts) /\ b.regs[1].at = at
  <2>1. PICK g, d : b = Registers("project", cfg.Name, Protect(opts), g, d, at)
    OBVIOUS
  <2> HIDE DEF b
  <2> QED BY <2>1, RegistersFacts
<1> DEFINE name == [i \in DOMAIN cfg.APIs |-> cfg.Name \o cfg.APIs[i]]
<1>4. DOMAIN cfg.APIs = 1..Len(cfg.APIs)
  BY ListFacts
<1>5. IsList(f) /\ Len(f) = Len(cfg.APIs) /\ \A i \in 1..Len(f) : f[i] = Plain("service", name[i])
  <2>1. f = [i \in DOMAIN cfg.APIs |-> f[i]]
    OBVIOUS
  <2>2. IsList(f) /\ Len(f) = Len(cfg.APIs)
    <3> HIDE DEF f
    <3> QED BY <2>1, MapList
  <2> QED BY <1>4, <2>2
<1> HIDE DEF f, name
<1>6. Fine(c, e, at) /\ Within(c, {"service"})
  <2>1. \A i \in 1..Len(f) : Single(f[i], "service", name[i], e, at)
    BY <1>5, PlainSingle
  <2> QED BY <1>5, <2>1, SinglesFine
<1> HIDE DEF a, b, c
<1>7. Within(b, {"project"}) /\ Within(b, T)
  <2>1. \A p \in 1..Len(b.regs) : p = 1
    BY <1>3
  <2> QED BY <1>3, <2>1 DEF Within
<1>8. Within(c, T)
  BY <1>6, WithinMore
<1>9. v = "nil" => /\ cfg.FolderID # Empty /\ cfg.BillingAccount # Empty
                   /\ Listed(cfg.APIs, "ErrEmptyAPI", "ErrDuplicateAPI") = "nil"
  <2> SUFFICES ASSUME v = "nil"
               PROVE  /\ cfg.FolderID # Empty /\ cfg.BillingAccount # Empty
                      /\ Listed(cfg.APIs, "ErrEmptyAPI", "ErrDuplicateAPI") = "nil"
    OBVIOUS
  <2> DEFINE need == Need(cfg, <<"Name", "FolderID", "BillingAccount">>)
             listed == Listed(cfg.APIs, "ErrEmptyAPI", "ErrDuplicateAPI")
             k == <<"Name", "FolderID", "BillingAccount">>
  <2>1. v = First(<<need, listed>>)
    BY DEF ProjectsValidate
  <2> HIDE DEF need, listed
  <2>2. need = "nil" /\ listed = "nil"
    BY <2>1, PairFirst
  <2>3. IsList(k) /\ Len(k) = 3 /\ k[1] = "Name" /\ k[2] = "FolderID" /\ k[3] = "BillingAccount"
    BY TripleList
  <2> HIDE DEF k
  <2>4. Need(cfg, k) = "nil" /\ \A i \in 1..Len(k) : k[i] # "nil"
    BY <2>2, <2>3 DEF need, k
  <2>5. \A i \in 1..Len(k) : cfg[k[i]] # Empty
    BY <2>3, <2>4, NeedFacts
  <2>6. cfg["FolderID"] # Empty /\ cfg["BillingAccount"] # Empty
    BY <2>3, <2>5
  <2> QED BY <2>2, <2>6 DEF listed
<1>10. v = "nil" => Fine(b, e, at)
  <2> SUFFICES ASSUME v = "nil" PROVE Fine(b, e, at)
    OBVIOUS
  <2>1. at # Empty /\ at[1] # Empty /\ at[2] # Empty
    BY <1>9 DEF Empty
  <2>2. Sturdy(b.regs[1], e, at)
    BY <1>3, <2>1 DEF Sturdy, Covered
  <2>3. \A p \in 1..Len(b.regs) : p = 1
    BY <1>3
  <2> QED BY <1>3, <2>2, <2>3 DEF Fine
<1>11. v = "nil" => Once(c)
  <2> SUFFICES ASSUME v = "nil" PROVE Once(c)
    OBVIOUS
  <2>1. \A i, j \in 1..Len(cfg.APIs) : cfg.APIs[i] = cfg.APIs[j] => i = j
    BY <1>9, ListedFacts
  <2>2. ASSUME NEW i \in 1..Len(cfg.APIs), NEW j \in 1..Len(cfg.APIs), name[i] = name[j]
        PROVE  i = j
    <3>1. cfg.Name \o cfg.APIs[i] = cfg.Name \o cfg.APIs[j]
      BY <1>4, <2>2 DEF name
    <3>2. cfg.APIs[i] = cfg.APIs[j]
      BY <3>1, ConcatCancel
    <3> QED BY <2>1, <3>2
  <2>3. \A i \in 1..Len(f) : Single(f[i], "service", name[i], e, at)
    BY <1>5, PlainSingle
  <2>4. \A i, j \in 1..Len(f) : name[i] = name[j] => i = j
    BY <1>5, <2>2
  <2> QED BY <1>5, <2>3, <2>4, SinglesApart DEF c
<1>12. ~Shares(a, b) /\ ~Shares(a, c) /\ ~Shares(b, c)
  BY <1>2, <1>6, <1>7, NoneShared, TypesApart
<1> DEFINE s == <<a, b, c>>
<1>13. IsList(s) /\ Len(s) = 3 /\ s[1] = a /\ s[2] = b /\ s[3] = c
  BY TripleList
<1>14. IsList(a.regs) /\ IsList(b.regs) /\ IsList(c.regs)
  BY <1>2, <1>3, <1>6, FineList
<1>15. Once(Run(s))
  BY <1>2, <1>3, <1>11, <1>12, <1>14, TripleOnce
<1> HIDE DEF s
<1>16. \A i \in 1..Len(s) : i = 1 \/ i = 2 \/ i = 3
  BY <1>13
<1>17. \A i \in 1..Len(s) : Within(s[i], T) /\ IsList(s[i].regs)
  BY <1>2, <1>7, <1>8, <1>13, <1>14, <1>16
<1>18. Within(Run(s), T)
  BY <1>13, <1>17, RunWithin
<1>19. \A i \in 1..Len(s) : Reached(s, i) => Fine(s[i], e, at)
  <2> SUFFICES ASSUME NEW i \in 1..Len(s), Reached(s, i) PROVE Fine(s[i], e, at)
    OBVIOUS
  <2>1. CASE i = 1
    BY <1>2, <1>13, <2>1
  <2>2. CASE i = 2
    <3>1. a.err = "nil"
      BY <1>13, <2>2 DEF Reached
    <3> QED BY <1>2, <1>10, <1>13, <2>2, <3>1
  <2>3. CASE i = 3
    BY <1>6, <1>13, <2>3
  <2> QED BY <1>16, <2>1, <2>2, <2>3
<1>20. Fine(Run(s), e, at)
  BY <1>13, <1>17, <1>19, RunFine
<1> QED BY <1>1, <1>15, <1>18, <1>20 DEF s
-----------------------------------------------------------------------------
\* Run fails when a program does.
LEMMA RunErr ==
  ASSUME NEW steps, IsList(steps), \A i \in 1..Len(steps) : IsList(steps[i].regs)
  PROVE  Run(steps).err = "nil" <=> \A i \in 1..Len(steps) : steps[i].err = "nil"
BY RunFacts DEF Upto

\* Run: sound programs, and whether one failed.
LEMMA FineRun ==
  ASSUME NEW steps, IsList(steps), NEW e, NEW at, \A i \in 1..Len(steps) : Fine(steps[i], e, at)
  PROVE  /\ Fine(Run(steps), e, at)
         /\ Run(steps).err = "nil" <=> \A i \in 1..Len(steps) : steps[i].err = "nil"
<1>1. \A i \in 1..Len(steps) : IsList(steps[i].regs)
  BY FineList
<1> QED BY <1>1, RunErr, RunFine

\* The same of two programs.
LEMMA FineTwo ==
  ASSUME NEW a, NEW b, NEW e, NEW at, Fine(a, e, at), Fine(b, e, at)
  PROVE  /\ Fine(Run(<<a, b>>), e, at)
         /\ Run(<<a, b>>).err = "nil" <=> a.err = "nil" /\ b.err = "nil"
<1> DEFINE s == <<a, b>>
<1>1. IsList(s) /\ Len(s) = 2 /\ s[1] = a /\ s[2] = b
  BY PairList
<1> HIDE DEF s
<1>2. \A i \in 1..Len(s) : i = 1 \/ i = 2
  BY <1>1
<1>3. \A i \in 1..Len(s) : Fine(s[i], e, at)
  BY <1>1, <1>2
<1>4. 1 \in 1..Len(s) /\ 2 \in 1..Len(s)
  BY <1>1
<1>5. /\ Fine(Run(s), e, at)
      /\ Run(s).err = "nil" <=> \A i \in 1..Len(s) : s[i].err = "nil"
  BY <1>1, <1>3, FineRun
<1>6. Run(s).err = "nil" <=> a.err = "nil" /\ b.err = "nil"
  BY <1>1, <1>2, <1>4, <1>5
<1> QED BY <1>5, <1>6 DEF s

\* The same of three.
LEMMA FineThree ==
  ASSUME NEW a, NEW b, NEW c, NEW e, NEW at, Fine(a, e, at), Fine(b, e, at), Fine(c, e, at)
  PROVE  /\ Fine(Run(<<a, b, c>>), e, at)
         /\ Run(<<a, b, c>>).err = "nil" <=> a.err = "nil" /\ b.err = "nil" /\ c.err = "nil"
<1> DEFINE s == <<a, b, c>>
<1>1. IsList(s) /\ Len(s) = 3 /\ s[1] = a /\ s[2] = b /\ s[3] = c
  BY TripleList
<1> HIDE DEF s
<1>2. \A i \in 1..Len(s) : i = 1 \/ i = 2 \/ i = 3
  BY <1>1
<1>3. \A i \in 1..Len(s) : Fine(s[i], e, at)
  BY <1>1, <1>2
<1>4. 1 \in 1..Len(s) /\ 2 \in 1..Len(s) /\ 3 \in 1..Len(s)
  BY <1>1
<1>5. /\ Fine(Run(s), e, at)
      /\ Run(s).err = "nil" <=> \A i \in 1..Len(s) : s[i].err = "nil"
  BY <1>1, <1>3, FineRun
<1>6. Run(s).err = "nil" <=> a.err = "nil" /\ b.err = "nil" /\ c.err = "nil"
  BY <1>1, <1>2, <1>4, <1>5
<1> QED BY <1>5, <1>6 DEF s

\* What a block comes to: sound resources of its types, none named twice.
Makes(r, e, at, T) == Fine(r, e, at) /\ Within(r, T) /\ Once(r)

\* A program behind a check.
LEMMA CheckedMakes ==
  ASSUME NEW v, NEW b, NEW e, NEW at, NEW T, Fine(b, e, at), Within(b, T), v = "nil" => Once(b)
  PROVE  Makes(Run(<<Must(v), b>>), e, at, T)
<1> DEFINE a == Must(v)
<1>1. a.err = v /\ Fine(a, e, at) /\ Within(a, T) /\ Once(a) /\ Len(a.regs) = 0
  BY MustFacts
<1> HIDE DEF a
<1>2. Fine(Run(<<a, b>>), e, at) /\ Within(Run(<<a, b>>), T)
  BY <1>1, PairFine
<1>3. ~Shares(a, b) /\ IsList(a.regs) /\ IsList(b.regs)
  BY <1>1, NoneShared, FineList
<1>4. Once(Run(<<a, b>>))
  BY <1>1, <1>3, PairOnce
<1>5. Makes(Run(<<a, b>>), e, at, T)
  BY <1>2, <1>4 DEF Makes
<1> QED BY <1>5 DEF a

\* One resource behind a check.
LEMMA CheckedSingle ==
  ASSUME NEW v, NEW b, NEW t, NEW n, NEW e, NEW at, Single(b, t, n, e, at)
  PROVE  Makes(Run(<<Must(v), b>>), e, at, {t})
<1>1. Fine(b, e, at) /\ Within(b, {t}) /\ Once(b)
  BY DEF Single
<1> QED BY <1>1, CheckedMakes

\* datasets, registries, logsinks
LEMMA DatasetsMake ==
  ASSUME NEW cfg, NEW opts, NEW e, NEW at, Covered(opts, e)
  PROVE  Makes(DatasetsApply(cfg, opts), e, at, {"dataset"})
<1> DEFINE b == Resource("dataset", cfg.ID, Protect(opts), ~IsEphemeral(opts))
           v == DatasetsValidate(cfg)
<1>1. DatasetsApply(cfg, opts) = Run(<<Must(v), b>>)
  BY DEF DatasetsApply
<1>2. Single(b, "dataset", cfg.ID, e, at)
  <2>1. PICK p, g : p = Protect(opts) /\ b = Resource("dataset", cfg.ID, p, g)
    OBVIOUS
  <2>2. Kept(p, e)
    BY <2>1 DEF Covered
  <2> HIDE DEF b
  <2> QED BY <2>1, <2>2, ResourceSingle
<1> HIDE DEF b, v
<1> QED BY <1>1, <1>2, CheckedSingle

\* registries.Apply.
LEMMA RegistriesMake ==
  ASSUME NEW cfg, NEW opts, NEW e, NEW at, Covered(opts, e)
  PROVE  Makes(RegistriesApply(cfg, opts), e, at, {"registry"})
<1> DEFINE b == Resource("registry", cfg.ID, Protect(opts), ~IsEphemeral(opts))
           v == RegistriesValidate(cfg)
<1>1. RegistriesApply(cfg, opts) = Run(<<Must(v), b>>)
  BY DEF RegistriesApply
<1>2. Single(b, "registry", cfg.ID, e, at)
  <2>1. PICK p, g : p = Protect(opts) /\ b = Resource("registry", cfg.ID, p, g)
    OBVIOUS
  <2>2. Kept(p, e)
    BY <2>1 DEF Covered
  <2> HIDE DEF b
  <2> QED BY <2>1, <2>2, ResourceSingle
<1> HIDE DEF b, v
<1> QED BY <1>1, <1>2, CheckedSingle

\* logsinks.Apply.
LEMMA LogsinksMake ==
  ASSUME NEW cfg, NEW e, NEW at
  PROVE  Makes(LogsinksApply(cfg), e, at, {"sink"})
<1> DEFINE b == Plain("sink", cfg.Name)
           v == LogsinksValidate(cfg)
<1>1. LogsinksApply(cfg) = Run(<<Must(v), b>>)
  BY DEF LogsinksApply
<1>2. Single(b, "sink", cfg.Name, e, at)
  BY PlainSingle
<1> HIDE DEF b, v
<1> QED BY <1>1, <1>2, CheckedSingle
-----------------------------------------------------------------------------
\* folders
LEMMA FoldersMake ==
  ASSUME NEW cfg, NEW opts, NEW e, NEW at, Covered(opts, e), IsList(cfg.Children)
  PROVE  Makes(FoldersApply(cfg, opts), e, at, {"folder"})
<1> DEFINE items == cfg.Children
           c1 == ValidateBase(cfg)
           c2 == ValidateChildren(cfg)
           c3 == Check(cfg.RootName \notin ToSet(cfg.Children), "ErrDuplicateFolder")
           c4 == ParseScope(cfg.Parent).err
           v == First(<<c1, c2, c3, c4>>)
           a == Must(v)
           b == Resource("folder", cfg.RootName, Protect(opts), ~IsEphemeral(opts))
           f == [i \in DOMAIN items |->
                   Resource("folder", items[i], Protect(opts), ~IsEphemeral(opts))]
           c == Run(f)
<1>1. FoldersApply(cfg, opts) = Run(<<a, b, c>>)
  BY DEF FoldersApply, FoldersCheck, Each
<1>2. PICK p, g : p = Protect(opts) /\ g = ~IsEphemeral(opts)
  OBVIOUS
<1>3. Kept(p, e)
  BY <1>2 DEF Covered
<1>4. Single(b, "folder", cfg.RootName, e, at)
  <2>1. b = Resource("folder", cfg.RootName, p, g)
    BY <1>2
  <2> HIDE DEF b
  <2> QED BY <1>3, <2>1, ResourceSingle
<1>5. f = [i \in DOMAIN items |-> f[i]]
  OBVIOUS
<1>6. DOMAIN items = 1..Len(items)
  BY ListFacts
<1>7. \A i \in 1..Len(items) : f[i] = Resource("folder", items[i], p, g)
  BY <1>2, <1>6
<1> HIDE DEF f
<1>8. \A i \in 1..Len(items) : Single(f[i], "folder", items[i], e, at)
  BY <1>3, <1>7, ResourceSingle
<1>0. IsList(f) /\ Len(f) = Len(items)
  BY <1>5, MapList
<1>9. Fine(c, e, at) /\ Within(c, {"folder"})
  BY <1>0, <1>8, SinglesFine
<1>10. a.err = v /\ Fine(a, e, at) /\ Within(a, {"folder"}) /\ Once(a) /\ Len(a.regs) = 0
  BY MustFacts
<1>11. Fine(b, e, at) /\ Within(b, {"folder"}) /\ Once(b) /\ Len(b.regs) = 1
       /\ URN(b.regs[1]) = <<"folder", cfg.RootName>>
  <2> HIDE DEF b
  <2> QED BY <1>4 DEF Single
<1>12. v = "nil" => c2 = "nil" /\ c3 = "nil"
  <2> DEFINE q == <<c1, c2, c3, c4>>
  <2>1. q \in Seq({c1, c2, c3, c4}) /\ Len(q) = 4 /\ q[2] = c2 /\ q[3] = c3
    <3> HIDE DEF c1, c2, c3, c4
    <3> QED OBVIOUS
  <2>2. IsList(q) /\ v = First(q)
    BY <2>1 DEF IsList
  <2> HIDE DEF q, v
  <2>3. 2 \in 1..Len(q) /\ 3 \in 1..Len(q)
    BY <2>1
  <2>4. v = "nil" => q[2] = "nil" /\ q[3] = "nil"
    BY <2>2, <2>3, FirstFacts
  <2> QED BY <2>1, <2>4
<1>13. c2 = "nil" => \A i, j \in 1..Len(items) : items[i] = items[j] => i = j
  BY ListedFacts DEF ValidateChildren
<1>14. c3 = "nil" => \A i \in 1..Len(items) : items[i] # cfg.RootName
  BY <1>6 DEF Check, ToSet
<1> HIDE DEF a, b, v, c1, c2, c3, c4
<1>15. v = "nil" => Once(c)
  <2> SUFFICES ASSUME v = "nil" PROVE Once(c)
    OBVIOUS
  <2>1. \A i, j \in 1..Len(f) : items[i] = items[j] => i = j
    BY <1>0, <1>12, <1>13
  <2>2. \A i \in 1..Len(f) : Single(f[i], "folder", items[i], e, at)
    BY <1>0, <1>8
  <2> HIDE DEF items
  <2> QED BY <1>0, <2>1, <2>2, SinglesApart
<1>16. v = "nil" => ~Shares(b, c)
  <2> SUFFICES ASSUME v = "nil", Shares(b, c) PROVE FALSE
    OBVIOUS
  <2>1. \A i \in 1..Len(f) : IsList(f[i].regs) /\ Len(f[i].regs) = 1
                             /\ URN(f[i].regs[1]) = <<"folder", items[i]>>
    BY <1>5, <1>8, MapList, FineList DEF Single
  <2>2. IsList(f) /\ Len(f) = Len(items)
    BY <1>5, MapList
  <2>3. From(c, f, Len(f))
    BY <2>1, <2>2, RunFacts DEF Upto
  <2>4. PICK p1 \in 1..Len(b.regs), q1 \in 1..Len(c.regs) : URN(b.regs[p1]) = URN(c.regs[q1])
    BY DEF Shares
  <2>5. PICK j \in 1..Len(f) : \E q2 \in 1..Len(f[j].regs) : c.regs[q1] = f[j].regs[q2]
    BY <2>3 DEF From
  <2>6. c.regs[q1] = f[j].regs[1]
    BY <2>1, <2>5
  <2>7. p1 = 1
    BY <1>11
  <2>8. <<"folder", cfg.RootName>> = <<"folder", items[j]>>
    BY <1>11, <2>1, <2>4, <2>6, <2>7
  <2>9. cfg.RootName = items[j]
    BY <2>8
  <2> QED BY <1>12, <1>14, <2>2, <2>9
<1> HIDE DEF c
<1>17. Fine(Run(<<a, b, c>>), e, at) /\ Within(Run(<<a, b, c>>), {"folder"})
  BY <1>9, <1>10, <1>11, TripleFine
<1>18. ~Shares(a, b) /\ ~Shares(a, c) /\ IsList(a.regs) /\ IsList(b.regs) /\ IsList(c.regs)
  BY <1>9, <1>10, <1>11, NoneShared, FineList
<1>19. Once(Run(<<a, b, c>>))
  BY <1>10, <1>11, <1>15, <1>16, <1>18, TripleOnce
<1>20. Makes(Run(<<a, b, c>>), e, at, {"folder"})
  BY <1>17, <1>19 DEF Makes
<1> QED BY <1>1, <1>20
\* Named that differ.
Distinct(name, n) == \A i, j \in 1..n : name[i] = name[j] => i = j

\* One resource for each item, behind a check that their names differ.
LEMMA CheckedList ==
  ASSUME NEW v, NEW f, IsList(f), NEW t, NEW name, NEW e, NEW at,
         \A i \in 1..Len(f) : Single(f[i], t, name[i], e, at),
         v = "nil" => Distinct(name, Len(f))
  PROVE  Makes(Run(<<Must(v), Run(f)>>), e, at, {t})
<1>1. PICK b : b = Run(f)
  OBVIOUS
<1>2. Fine(b, e, at) /\ Within(b, {t})
  BY <1>1, SinglesFine
<1>3. v = "nil" => Once(b)
  BY <1>1, SinglesApart DEF Distinct
<1> QED BY <1>1, <1>2, <1>3, CheckedMakes

\* A list of one.
LEMMA OneList == ASSUME NEW a PROVE IsList(<<a>>) /\ Len(<<a>>) = 1 /\ <<a>>[1] = a
<1>1. <<a>> \in Seq({a})
  OBVIOUS
<1> QED BY <1>1 DEF IsList

\* A key that no earlier item has is no later one's either.
LEMMA Earlier ==
  ASSUME NEW n \in Nat, NEW key, \A i \in 1..n : \A j \in 1..(i - 1) : key[j] # key[i]
  PROVE  \A i, j \in 1..n : key[i] = key[j] => i = j
<1> SUFFICES ASSUME NEW i \in 1..n, NEW j \in 1..n, key[i] = key[j], i # j PROVE FALSE
  OBVIOUS
<1>1. CASE i < j
  <2>1. i \in 1..(j - 1)
    BY <1>1
  <2> QED BY <2>1
<1>2. CASE j < i
  <2>1. j \in 1..(i - 1)
    BY <1>2
  <2> QED BY <2>1
<1> QED BY <1>1, <1>2

\* tagkeys
LEMMA ValidateAllFacts ==
  ASSUME NEW dims, IsList(dims), ValidateAll(dims) = "nil"
  PROVE  \A i, j \in 1..Len(dims) : dims[i].ShortName = dims[j].ShortName => i = j
<1> DEFINE c == Check(dims # <<>>, "ErrNoDimensions")
           d(i) == Check(\A j \in 1 .. i - 1 : dims[j].ShortName # dims[i].ShortName,
                         "ErrDuplicateShortName")
           f == [i \in DOMAIN dims |-> First(<<DimensionValidate(dims[i]), d(i)>>)]
           x == <<c>> \o f
<1>1. First(x) = "nil"
  BY DEF ValidateAll
<1>2. f = [i \in DOMAIN dims |-> f[i]]
  OBVIOUS
<1>3. /\ IsList(f) /\ Len(f) = Len(dims) /\ DOMAIN dims = 1..Len(dims) /\ Len(dims) \in Nat
  <2> HIDE DEF f
  <2> QED BY <1>2, MapList
<1>4. \A i \in 1..Len(dims) : f[i] = First(<<DimensionValidate(dims[i]), d(i)>>)
  BY <1>3
<1>5. PICK o : o = <<c>> /\ IsList(o) /\ Len(o) = 1
  BY OneList
<1> HIDE DEF c, f
<1>6. /\ IsList(x) /\ Len(x) = 1 + Len(f) /\ \A i \in 1..Len(f) : x[1 + i] = f[i]
  <2>1. /\ IsList(o \o f) /\ Len(o \o f) = 1 + Len(f)
        /\ \A i \in 1..Len(f) : (o \o f)[1 + i] = f[i]
    BY <1>3, <1>5, ConcatList
  <2> QED BY <1>5, <2>1
<1> HIDE DEF x
<1>7. \A i \in 1..Len(x) : x[i] = "nil"
  BY <1>1, <1>6, FirstFacts
<1>8. \A i \in 1..Len(dims) : f[i] = "nil"
  <2> TAKE i \in 1..Len(dims)
  <2>1. 1 + i \in 1..Len(x)
    BY <1>3, <1>6
  <2> QED BY <1>3, <1>6, <1>7, <2>1
<1>9. \A i \in 1..Len(dims) : d(i) = "nil"
  <2> HIDE DEF d
  <2> QED BY <1>4, <1>8, PairFirst
<1>10. \A i \in 1..Len(dims) : \A j \in 1..(i - 1) : dims[j].ShortName # dims[i].ShortName
  BY <1>9 DEF Check
<1> DEFINE key == [i \in DOMAIN dims |-> dims[i].ShortName]
<1>11. \A i \in 1..Len(dims) : key[i] = dims[i].ShortName
  BY <1>3
<1>12. \A i \in 1..Len(dims) : \A j \in 1..(i - 1) : j \in 1..Len(dims)
  BY <1>3
<1> HIDE DEF key
<1>13. \A i \in 1..Len(dims) : \A j \in 1..(i - 1) : key[j] # key[i]
  BY <1>10, <1>11, <1>12
<1>14. \A i, j \in 1..Len(dims) : key[i] = key[j] => i = j
  BY <1>3, <1>13, Earlier
<1> QED BY <1>11, <1>14

\* tagkeys.Apply: validation has seen to it that short names differ.
LEMMA TagkeysMake ==
  ASSUME NEW orgID, NEW dims, IsList(dims), NEW opts, NEW e, NEW at, Covered(opts, e)
  PROVE  Makes(TagkeysApply(orgID, dims, opts), e, at, {"tagKey"})
<1> DEFINE v == First(<<Check(orgID # Empty, "ErrOrgIDRequired"), ValidateAll(dims)>>)
           f == [i \in DOMAIN dims |-> Resource("tagKey", dims[i].ShortName, Protect(opts), FALSE)]
           name == [i \in DOMAIN dims |-> dims[i].ShortName]
<1>1. TagkeysApply(orgID, dims, opts) = Run(<<Must(v), Run(f)>>)
  BY DEF TagkeysApply, TagkeysCheck, Each
<1>2. PICK p, g : p = Protect(opts) /\ g = FALSE
  OBVIOUS
<1>3. Kept(p, e)
  BY <1>2 DEF Covered
<1>4. f = [i \in DOMAIN dims |-> f[i]]
  OBVIOUS
<1>5. IsList(f) /\ Len(f) = Len(dims) /\ DOMAIN dims = 1..Len(dims)
  <2> HIDE DEF f
  <2> QED BY <1>4, MapList
<1>6. \A i \in 1..Len(f) : name[i] = dims[i].ShortName
  BY <1>5
<1>7. \A i \in 1..Len(f) : f[i] = Resource("tagKey", name[i], p, g)
  BY <1>2, <1>5
<1> HIDE DEF f, name
<1>8. \A i \in 1..Len(f) : Single(f[i], "tagKey", name[i], e, at)
  BY <1>3, <1>7, ResourceSingle
<1>9. v = "nil" => ValidateAll(dims) = "nil"
  BY PairFirst
<1> HIDE DEF v
<1>10. v = "nil" => Distinct(name, Len(f))
  <2> SUFFICES ASSUME v = "nil" PROVE \A i, j \in 1..Len(f) : name[i] = name[j] => i = j
    BY DEF Distinct
  <2>1. \A i, j \in 1..Len(dims) : dims[i].ShortName = dims[j].ShortName => i = j
    BY <1>9, ValidateAllFacts
  <2> QED BY <1>5, <1>6, <2>1
<1> QED BY <1>1, <1>5, <1>8, <1>10, CheckedList
\* tables
LEMMA TablesMake ==
  ASSUME NEW tt, IsList(tt), NEW opts, NEW e, NEW at, Covered(opts, e)
  PROVE  Makes(TablesApply(tt, opts), e, at, {"table"})
<1> DEFINE v == First([i \in DOMAIN tt |-> TablesValidate(tt[i])])
           w == Check(~Duplicate(tt, Name), "ErrDuplicateName")
           f == [i \in DOMAIN tt |-> Resource("table", tt[i].Name, Protect(opts),
                                       ~IsEphemeral(opts) \/ tt[i].DeletionProtection)]
           guard == [i \in DOMAIN tt |-> ~IsEphemeral(opts) \/ tt[i].DeletionProtection]
           name == [i \in DOMAIN tt |-> tt[i].Name]
           a == Must(v)
           b == Must(w)
           c == Run(f)
<1>1. TablesApply(tt, opts) = Run(<<a, b, c>>)
  BY DEF TablesApply, Each
<1>2. PICK p : p = Protect(opts)
  OBVIOUS
<1>3. Kept(p, e)
  BY <1>2 DEF Covered
<1>4. f = [i \in DOMAIN tt |-> f[i]]
  OBVIOUS
<1>5. IsList(f) /\ Len(f) = Len(tt) /\ DOMAIN tt = 1..Len(tt) /\ Len(tt) \in Nat
  <2> HIDE DEF f
  <2> QED BY <1>4, MapList
<1>6. \A i \in 1..Len(f) : name[i] = tt[i].Name
  BY <1>5
<1>7. \A i \in 1..Len(f) : f[i] = Resource("table", name[i], p, guard[i])
  BY <1>2, <1>5
<1> HIDE DEF f, name, guard
<1>8. \A i \in 1..Len(f) : Single(f[i], "table", name[i], e, at)
  BY <1>3, <1>7, ResourceSingle
<1>9. Fine(c, e, at) /\ Within(c, {"table"})
  BY <1>5, <1>8, SinglesFine
<1>10. w = "nil" => Once(c)
  <2> SUFFICES ASSUME w = "nil" PROVE Once(c)
    OBVIOUS
  <2>1. ~ \E i, j \in DOMAIN tt : i < j /\ tt[i].Name = tt[j].Name
    BY DEF Duplicate, Name, Check
  <2>2. \A i \in 1..Len(tt) : \A j \in 1..(i - 1) : j \in 1..Len(tt) /\ j < i
    BY <1>5
  <2>3. \A i \in 1..Len(tt) : \A j \in 1..(i - 1) : name[j] # name[i]
    BY <1>5, <1>6, <2>1, <2>2
  <2>4. \A i, j \in 1..Len(f) : name[i] = name[j] => i = j
    BY <1>5, <2>3, Earlier
  <2> QED BY <1>5, <1>8, <2>4, SinglesApart
<1>11. a.err = v /\ Fine(a, e, at) /\ Within(a, {"table"}) /\ Once(a) /\ Len(a.regs) = 0
  BY MustFacts
<1>12. b.err = w /\ Fine(b, e, at) /\ Within(b, {"table"}) /\ Once(b) /\ Len(b.regs) = 0
  BY MustFacts
<1> HIDE DEF a, b, c, v, w
<1>13. Fine(Run(<<a, b, c>>), e, at) /\ Within(Run(<<a, b, c>>), {"table"})
  BY <1>9, <1>11, <1>12, TripleFine
<1>14. /\ ~Shares(a, b) /\ ~Shares(a, c) /\ ~Shares(b, c)
       /\ IsList(a.regs) /\ IsList(b.regs) /\ IsList(c.regs)
  BY <1>9, <1>11, <1>12, NoneShared, FineList
<1>15. Once(Run(<<a, b, c>>))
  BY <1>10, <1>11, <1>12, <1>14, TripleOnce
<1> QED BY <1>1, <1>13, <1>15 DEF Makes

\* budgets
LEMMA BudgetsMake ==
  ASSUME NEW cfg, IsList(cfg.AlertEmails),
         \A i \in 1..Len(cfg.AlertEmails) : IsList(cfg.AlertEmails[i]), NEW e, NEW at
  PROVE  Makes(BudgetsApply(cfg), e, at, {"channel", "budget"})
<1> DEFINE mails == cfg.AlertEmails
           c1 == Need(cfg, <<"DisplayName">>)
           c2 == Check(cfg.Amount > 0, "ErrAmountNotPositive")
           c3 == Need(cfg, <<"BillingAccount", "Scope", "Thresholds", "AlertEmails">>)
           c4 == Check(~Duplicate(mails, LAMBDA m : m), "ErrDuplicateAlertEmail")
           v == First(<<c1, c2, c3, c4>>)
           T == {"channel", "budget"}
           name == [i \in DOMAIN mails |-> <<"alert">> \o mails[i]]
           f == [i \in DOMAIN mails |-> Plain("channel", <<"alert">> \o mails[i])]
           a == Must(v)
           b == Run(f)
           c == Plain("budget", cfg.DisplayName)
<1>1. BudgetsApply(cfg) = Run(<<a, b, c>>)
  BY DEF BudgetsApply, BudgetsValidate, Each
<1>2. f = [i \in DOMAIN mails |-> f[i]]
  OBVIOUS
<1>3. IsList(f) /\ Len(f) = Len(mails) /\ DOMAIN mails = 1..Len(mails) /\ Len(mails) \in Nat
  <2> HIDE DEF f
  <2> QED BY <1>2, MapList
<1>4. \A i \in 1..Len(f) : name[i] = <<"alert">> \o mails[i]
  BY <1>3
<1>5. \A i \in 1..Len(f) : f[i] = Plain("channel", name[i])
  BY <1>3
<1> HIDE DEF f, name
<1>6. \A i \in 1..Len(f) : Single(f[i], "channel", name[i], e, at)
  BY <1>5, PlainSingle
<1>7. Fine(b, e, at) /\ Within(b, {"channel"}) /\ Within(b, T)
  <2>1. Fine(b, e, at) /\ Within(b, {"channel"})
    BY <1>3, <1>6, SinglesFine
  <2> QED BY <2>1, WithinMore
<1>8. v = "nil" => c4 = "nil"
  <2> DEFINE q == <<c1, c2, c3, c4>>
  <2> HIDE DEF c1, c2, c3, c4
  <2>1. q \in Seq({c1, c2, c3, c4}) /\ Len(q) = 4 /\ q[4] = c4
    OBVIOUS
  <2>2. IsList(q) /\ v = First(q)
    BY <2>1 DEF IsList
  <2> HIDE DEF q, v
  <2>3. 4 \in 1..Len(q)
    BY <2>1
  <2>4. v = "nil" => q[4] = "nil"
    BY <2>2, <2>3, FirstFacts
  <2> QED BY <2>1, <2>4
<1>9. c4 = "nil" => ~ \E i, j \in DOMAIN mails : i < j /\ mails[i] = mails[j]
  BY DEF Duplicate, Check
<1>10. a.err = v /\ Fine(a, e, at) /\ Within(a, T) /\ Once(a) /\ Len(a.regs) = 0
  BY MustFacts
<1> HIDE DEF v, a, c4
<1>11. v = "nil" => Once(b)
  <2> SUFFICES ASSUME v = "nil" PROVE Once(b)
    OBVIOUS
  <2>1. \A i \in 1..Len(mails) : \A j \in 1..(i - 1) : j \in 1..Len(mails) /\ j < i
    BY <1>3
  <2>2. \A i \in 1..Len(mails) : \A j \in 1..(i - 1) : mails[j] # mails[i]
    BY <1>3, <1>8, <1>9, <2>1
  <2>3. \A i, j \in 1..Len(mails) : mails[i] = mails[j] => i = j
    BY <1>3, <2>2, Earlier
  <2>4. ASSUME NEW i \in 1..Len(f), NEW j \in 1..Len(f), name[i] = name[j]
        PROVE  i = j
    <3>1. PICK o : o = <<"alert">> /\ IsList(o)
      BY OneList
    <3>2. o \o mails[i] = o \o mails[j] /\ IsList(mails[i]) /\ IsList(mails[j])
      BY <1>3, <1>4, <2>4, <3>1
    <3>3. mails[i] = mails[j]
      BY <3>1, <3>2, ConcatCancel
    <3> QED BY <1>3, <2>3, <3>3
  <2> QED BY <1>3, <1>6, <2>4, SinglesApart
<1>12. Fine(c, e, at) /\ Within(c, {"budget"}) /\ Within(c, T) /\ Once(c)
  <2>1. Single(c, "budget", cfg.DisplayName, e, at)
    BY PlainSingle
  <2> HIDE DEF c
  <2>2. Fine(c, e, at) /\ Within(c, {"budget"}) /\ Once(c)
    BY <2>1 DEF Single
  <2> QED BY <2>2, WithinMore
<1> HIDE DEF b, c
<1>13. Fine(Run(<<a, b, c>>), e, at) /\ Within(Run(<<a, b, c>>), T)
  BY <1>7, <1>10, <1>12, TripleFine
<1>14. /\ ~Shares(a, b) /\ ~Shares(a, c)
       /\ IsList(a.regs) /\ IsList(b.regs) /\ IsList(c.regs)
  BY <1>7, <1>10, <1>12, NoneShared, FineList
<1>15. ~Shares(b, c)
  BY <1>7, <1>12, TypesApart
<1>16. Once(Run(<<a, b, c>>))
  BY <1>10, <1>11, <1>12, <1>14, <1>15, TripleOnce
<1> QED BY <1>1, <1>13, <1>16 DEF Makes
-----------------------------------------------------------------------------
\* A resource without data behind a check.
LEMMA CheckedPlain ==
  ASSUME NEW v, NEW t, t # "project", NEW n, NEW e, NEW at
  PROVE  Fine(Run(<<Must(v), Plain(t, n)>>), e, at)
<1>1. PICK b : b = Plain(t, n) /\ Single(b, t, n, e, at)
  BY PlainSingle
<1>2. Makes(Run(<<Must(v), b>>), e, at, {t})
  BY <1>1, CheckedSingle
<1> QED BY <1>1, <1>2 DEF Makes

\* A resource without data.
LEMMA PlainFine ==
  ASSUME NEW t, t # "project", NEW n, NEW e, NEW at
  PROVE  Fine(Plain(t, n), e, at) /\ Plain(t, n).err = "nil"
BY PlainSingle DEF Single

\* serviceaccounts, iambindings, triggers, connections
LEMMA ServiceaccountsFine ==
  ASSUME NEW accounts, IsList(accounts), NEW e, NEW at
  PROVE  Fine(ServiceaccountsApply(accounts), e, at)
<1> DEFINE f == [i \in DOMAIN accounts |-> Run(<<Must(AccountValidate(accounts[i])),
                                                 Plain("account", accounts[i].ID)>>)]
<1>1. ServiceaccountsApply(accounts) = Run(f)
  BY DEF ServiceaccountsApply, Each
<1>2. f = [i \in DOMAIN accounts |-> f[i]]
  OBVIOUS
<1>3. IsList(f) /\ Len(f) = Len(accounts) /\ DOMAIN accounts = 1..Len(accounts)
  <2> HIDE DEF f
  <2> QED BY <1>2, MapList
<1>4. \A i \in 1..Len(f) : f[i] = Run(<<Must(AccountValidate(accounts[i])),
                                        Plain("account", accounts[i].ID)>>)
  BY <1>3
<1> HIDE DEF f
<1>5. \A i \in 1..Len(f) : Fine(f[i], e, at)
  BY <1>4, CheckedPlain
<1> QED BY <1>1, <1>3, <1>5, FineRun

\* iambindings.Apply.
LEMMA IambindingsFine ==
  ASSUME NEW bs, IsList(bs), NEW e, NEW at
  PROVE  Fine(IambindingsApply(bs), e, at)
<1> DEFINE f == [i \in DOMAIN bs |-> Run(<<Must(BindingValidate(bs[i])),
                                           Plain("iamMember", bs[i].Name)>>)]
<1>1. IambindingsApply(bs) = Run(f)
  BY DEF IambindingsApply, Each
<1>2. f = [i \in DOMAIN bs |-> f[i]]
  OBVIOUS
<1>3. IsList(f) /\ Len(f) = Len(bs) /\ DOMAIN bs = 1..Len(bs)
  <2> HIDE DEF f
  <2> QED BY <1>2, MapList
<1>4. \A i \in 1..Len(f) : f[i] = Run(<<Must(BindingValidate(bs[i])),
                                        Plain("iamMember", bs[i].Name)>>)
  BY <1>3
<1> HIDE DEF f
<1>5. \A i \in 1..Len(f) : Fine(f[i], e, at)
  BY <1>4, CheckedPlain
<1> QED BY <1>1, <1>3, <1>5, FineRun

\* The bindings of a service account.
LEMMA SAIamFine ==
  ASSUME NEW bs, IsList(bs), NEW e, NEW at
  PROVE  Fine(ApplySAIam(bs), e, at)
<1> DEFINE f == [i \in DOMAIN bs |-> Plain("accountMember", bs[i].Name)]
<1>1. ApplySAIam(bs) = Run(f)
  BY DEF ApplySAIam, Each
<1>2. f = [i \in DOMAIN bs |-> f[i]]
  OBVIOUS
<1>3. IsList(f) /\ Len(f) = Len(bs) /\ DOMAIN bs = 1..Len(bs)
  <2> HIDE DEF f
  <2> QED BY <1>2, MapList
<1>4. \A i \in 1..Len(f) : f[i] = Plain("accountMember", bs[i].Name)
  BY <1>3
<1> HIDE DEF f
<1>5. \A i \in 1..Len(f) : Fine(f[i], e, at)
  BY <1>4, PlainFine
<1> QED BY <1>1, <1>3, <1>5, FineRun

\* connections.Apply.
LEMMA ConnectionsFine ==
  ASSUME NEW cfg, NEW e, NEW at PROVE Fine(ConnectionsApply(cfg), e, at)
<1>1. PICK a : a = Must(ConnectionsValidate(cfg)) /\ Fine(a, e, at)
  BY MustFacts
<1>2. PICK b : b = Must(Check(cfg.Provider = <<"github">>, "ErrUnsupportedProvider"))
               /\ Fine(b, e, at)
  BY MustFacts
<1>3. PICK c : c = Plain("connection", cfg.Name) /\ Fine(c, e, at)
  BY PlainFine
<1>4. ConnectionsApply(cfg) = Run(<<a, b, c>>)
  BY <1>1, <1>2, <1>3 DEF ConnectionsApply
<1> QED BY <1>1, <1>2, <1>3, <1>4, FineThree

\* connections.LinkRepo.
LEMMA LinkRepoFine == ASSUME NEW r, NEW e, NEW at PROVE Fine(LinkRepo(r), e, at)
BY CheckedPlain DEF LinkRepo

\* triggers.Apply.
LEMMA TriggersFine == ASSUME NEW cfg, NEW e, NEW at PROVE Fine(TriggersApply(cfg), e, at)
BY CheckedPlain DEF TriggersApply

\* secrets
LEMMA SecretsFine ==
  ASSUME NEW ss, IsList(ss), NEW opts, NEW e, NEW at, Covered(opts, e)
  PROVE  Fine(SecretsApply(ss, opts), e, at)
<1> DEFINE a == Must(SecretsValidateAll(ss))
           x(i) == Resource("secret", ss[i].Name, Protect(opts), ~IsEphemeral(opts))
           y(i) == Plain("secretVersion", ss[i].Name \o <<"v1">>)
           f == [i \in DOMAIN ss |-> Run(<<x(i), y(i)>>)]
           b == Run(f)
<1>1. SecretsApply(ss, opts) = Run(<<a, b>>)
  BY DEF SecretsApply, Each
<1>2. PICK p, g : p = Protect(opts) /\ g = ~IsEphemeral(opts)
  OBVIOUS
<1>3. Kept(p, e)
  BY <1>2 DEF Covered
<1>4. f = [i \in DOMAIN ss |-> f[i]]
  OBVIOUS
<1>5. IsList(f) /\ Len(f) = Len(ss) /\ DOMAIN ss = 1..Len(ss)
  <2> HIDE DEF f
  <2> QED BY <1>4, MapList
<1>6. \A i \in 1..Len(f) : f[i] = Run(<<x(i), y(i)>>)
  BY <1>5
<1> HIDE DEF f
<1>7. ASSUME NEW i \in 1..Len(f) PROVE Fine(f[i], e, at)
  <2>1. PICK x1, y1 : x1 = x(i) /\ y1 = y(i)
    OBVIOUS
  <2>2. x1 = Resource("secret", ss[i].Name, p, g)
    BY <1>2, <2>1
  <2>3. Single(x1, "secret", ss[i].Name, e, at)
    BY <1>3, <2>2, ResourceSingle
  <2>4. Fine(y1, e, at)
    BY <2>1, PlainFine
  <2>5. Fine(x1, e, at)
    BY <2>3 DEF Single
  <2>6. f[i] = Run(<<x1, y1>>)
    BY <1>6, <2>1
  <2> QED BY <2>4, <2>5, <2>6, FineTwo
<1>8. Fine(b, e, at)
  BY <1>5, <1>7, FineRun
<1>9. Fine(a, e, at)
  BY MustFacts
<1> HIDE DEF a, b
<1> QED BY <1>1, <1>8, <1>9, FineTwo
-----------------------------------------------------------------------------
\* The names in a result, and a name that is not in it.
Named(r, U) == IsList(r.regs) /\ \A p \in 1..Len(r.regs) : URN(r.regs[p]) \in U
Avoids(r, u) == IsList(r.regs) /\ \A p \in 1..Len(r.regs) : URN(r.regs[p]) # u

\* Run: the names of the programs are all there is.
LEMMA RunNames ==
  ASSUME NEW steps, IsList(steps), NEW U, \A i \in 1..Len(steps) : Named(steps[i], U)
  PROVE  Named(Run(steps), U)
<1>1. \A i \in 1..Len(steps) : IsList(steps[i].regs)
  BY DEF Named
<1>2. Upto(Run(steps), steps, Len(steps))
  BY <1>1, RunFacts
<1> QED BY <1>2 DEF Upto, From, Named

\* Run: a name no program has.
LEMMA RunAvoids ==
  ASSUME NEW steps, IsList(steps), NEW u, \A i \in 1..Len(steps) : Avoids(steps[i], u)
  PROVE  Avoids(Run(steps), u)
<1>1. \A i \in 1..Len(steps) : IsList(steps[i].regs)
  BY DEF Avoids
<1>2. Upto(Run(steps), steps, Len(steps))
  BY <1>1, RunFacts
<1> QED BY <1>2 DEF Upto, From, Avoids

\* The names of two programs.
LEMMA PairNames ==
  ASSUME NEW a, NEW b, NEW U, Named(a, U), Named(b, U)
  PROVE  Named(Run(<<a, b>>), U)
<1> DEFINE s == <<a, b>>
<1>1. IsList(s) /\ Len(s) = 2 /\ s[1] = a /\ s[2] = b
  BY PairList
<1> HIDE DEF s
<1>2. \A i \in 1..Len(s) : i = 1 \/ i = 2
  BY <1>1
<1>3. \A i \in 1..Len(s) : Named(s[i], U)
  BY <1>1, <1>2
<1>4. Named(Run(s), U)
  BY <1>1, <1>3, RunNames
<1> QED BY <1>4 DEF s

\* The names of three.
LEMMA TripleNames ==
  ASSUME NEW a, NEW b, NEW c, NEW U, Named(a, U), Named(b, U), Named(c, U)
  PROVE  Named(Run(<<a, b, c>>), U)
<1> DEFINE s == <<a, b, c>>
<1>1. IsList(s) /\ Len(s) = 3 /\ s[1] = a /\ s[2] = b /\ s[3] = c
  BY TripleList
<1> HIDE DEF s
<1>2. \A i \in 1..Len(s) : i = 1 \/ i = 2 \/ i = 3
  BY <1>1
<1>3. \A i \in 1..Len(s) : Named(s[i], U)
  BY <1>1, <1>2
<1>4. Named(Run(s), U)
  BY <1>1, <1>3, RunNames
<1> QED BY <1>4 DEF s

\* Names apart are not shared.
LEMMA NamesApart ==
  ASSUME NEW r, NEW s, NEW U, NEW V, Named(r, U), Named(s, V), U \cap V = {}
  PROVE  ~Shares(r, s)
BY DEF Named, Shares

\* More names are no harm.
LEMMA NamesMore ==
  ASSUME NEW r, NEW U, NEW V, Named(r, U), U \subseteq V
  PROVE  Named(r, V)
BY DEF Named

\* A name that is not among them.
LEMMA NamesAvoid ==
  ASSUME NEW r, NEW U, NEW u, Named(r, U), u \notin U
  PROVE  Avoids(r, u)
BY DEF Named, Avoids

\* The name of one resource.
LEMMA SingleNames ==
  ASSUME NEW r, NEW t, NEW n, NEW e, NEW at, Single(r, t, n, e, at)
  PROVE  Named(r, {<<t, n>>})
<1>1. IsList(r.regs) /\ Len(r.regs) = 1 /\ URN(r.regs[1]) = <<t, n>>
  BY FineList DEF Single
<1>2. \A p \in 1..Len(r.regs) : p = 1
  BY <1>1
<1> QED BY <1>1, <1>2 DEF Named

\* What registers nothing has no name.
LEMMA EmptyNames ==
  ASSUME NEW r, IsList(r.regs), Len(r.regs) = 0, NEW U, NEW u
  PROVE  Named(r, U) /\ Avoids(r, u)
BY DEF Named, Avoids

\* uptimechecks
Watch == {"uptimeCheck", "alertPolicy"}
Watched(d) == {<<"uptimeCheck", d>>, <<"alertPolicy", d \o <<"failing">>>>}

\* uptimechecks.Apply: the check and its alert.
LEMMA UptimeMakes ==
  ASSUME NEW cfg, NEW e, NEW at
  PROVE  Makes(UptimeApply(cfg), e, at, Watch) /\ Named(UptimeApply(cfg), Watched(cfg.DisplayName))
<1> DEFINE U == Watched(cfg.DisplayName)
           v == UptimeValidate(cfg)
           a == Must(v)
           b == Plain("uptimeCheck", cfg.DisplayName)
           c == Plain("alertPolicy", cfg.DisplayName \o <<"failing">>)
<1>1. UptimeApply(cfg) = Run(<<a, b, c>>)
  BY DEF UptimeApply
<1>2. Fine(a, e, at) /\ Within(a, Watch) /\ Once(a) /\ Len(a.regs) = 0
  BY MustFacts
<1>3. Single(b, "uptimeCheck", cfg.DisplayName, e, at)
  BY PlainSingle
<1>4. Single(c, "alertPolicy", cfg.DisplayName \o <<"failing">>, e, at)
  BY PlainSingle
<1> HIDE DEF a, b, c
<1>5. Fine(b, e, at) /\ Within(b, {"uptimeCheck"}) /\ Once(b)
  BY <1>3 DEF Single
<1>6. Fine(c, e, at) /\ Within(c, {"alertPolicy"}) /\ Once(c)
  BY <1>4 DEF Single
<1>7. Within(b, Watch)
  BY <1>5, WithinMore DEF Watch
<1>8. Within(c, Watch)
  BY <1>6, WithinMore DEF Watch
<1>9. Named(b, U)
  <2>1. Named(b, {<<"uptimeCheck", cfg.DisplayName>>})
    BY <1>3, SingleNames
  <2>2. {<<"uptimeCheck", cfg.DisplayName>>} \subseteq U
    BY DEF Watched
  <2> HIDE DEF U
  <2> QED BY <2>1, <2>2, NamesMore
<1>10. Named(c, U)
  <2>1. Named(c, {<<"alertPolicy", cfg.DisplayName \o <<"failing">>>>})
    BY <1>4, SingleNames
  <2>2. {<<"alertPolicy", cfg.DisplayName \o <<"failing">>>>} \subseteq U
    BY DEF Watched
  <2> HIDE DEF U
  <2> QED BY <2>1, <2>2, NamesMore
<1>11. IsList(a.regs) /\ IsList(b.regs) /\ IsList(c.regs) /\ ~Shares(a, b) /\ ~Shares(a, c)
  BY <1>2, <1>5, <1>6, FineList, NoneShared
<1>12. Named(a, U)
  BY <1>2, <1>11, EmptyNames
<1>13. ~Shares(b, c)
  BY <1>5, <1>6, TypesApart
<1> HIDE DEF U
<1>14. Fine(Run(<<a, b, c>>), e, at) /\ Within(Run(<<a, b, c>>), Watch)
  BY <1>2, <1>5, <1>6, <1>7, <1>8, TripleFine
<1>15. Once(Run(<<a, b, c>>))
  BY <1>2, <1>5, <1>6, <1>11, <1>13, TripleOnce
<1>16. Named(Run(<<a, b, c>>), U)
  BY <1>9, <1>10, <1>12, TripleNames
<1> QED BY <1>1, <1>14, <1>15, <1>16 DEF Makes, U

\* applyUptimeTarget makes what the block does.
LEMMA UptimeTargetMakes ==
  ASSUME NEW w, NEW t, NEW e, NEW at
  PROVE  /\ Makes(applyUptimeTarget(w, t), e, at, Watch)
         /\ Named(applyUptimeTarget(w, t), Watched(t.DisplayName))
<1> DEFINE U == Watched(t.DisplayName)
           x == Output(w, t.StackRef, Or(t.URLOutputKey, <<"frontendUrl">>))
           v == Check(x # Empty, "missing output")
           cfg == [DisplayName |-> t.DisplayName, Port |-> 0, Period |-> Empty,
                   Classes |-> IF t.StatusClasses = <<>> THEN <<<<"2xx">>, <<"3xx">>>>
                               ELSE t.StatusClasses]
           b == UptimeApply(cfg)
<1>1. applyUptimeTarget(w, t) = Run(<<Must(v), b>>)
  BY DEF applyUptimeTarget
<1>2. cfg.DisplayName = t.DisplayName
  OBVIOUS
<1> HIDE DEF cfg, v
<1>3. Makes(b, e, at, Watch) /\ Named(b, U)
  BY <1>2, UptimeMakes
<1>4. Fine(Must(v), e, at) /\ Len(Must(v).regs) = 0
  BY MustFacts
<1>5. Named(Must(v), U)
  BY <1>4, FineList, EmptyNames
<1> HIDE DEF b, U
<1>6. Makes(Run(<<Must(v), b>>), e, at, Watch)
  BY <1>3, CheckedMakes DEF Makes
<1>7. Named(Run(<<Must(v), b>>), U)
  BY <1>3, <1>5, PairNames
<1> QED BY <1>1, <1>6, <1>7 DEF U
-----------------------------------------------------------------------------
(* observability's monitoring: each stack is read through one reference.   *)

\* The stacks that have a reference before target i.
Refs(targets, asks, stack, i) ==
  {targets[j].StackRef : j \in 1 .. i - 1} \cup (IF asks THEN {stack} ELSE {})
Step(w, t, refs) == Run(<<stackReferenceFor(refs, t.StackRef), applyUptimeTarget(w, t)>>)
Ours(t) == Watched(t.DisplayName) \cup {<<"stackReference", t.StackRef>>}
Monitors == {"channel", "stackReference", "uptimeCheck", "alertPolicy"}

\* One target: its stack's reference unless there is one, then its check.
LEMMA StepMakes ==
  ASSUME NEW w, NEW t, NEW refs, NEW e, NEW at
  PROVE  /\ Makes(Step(w, t, refs), e, at, Watch \cup {"stackReference"})
         /\ Named(Step(w, t, refs), Ours(t))
         /\ t.StackRef \in refs => Named(Step(w, t, refs), Watched(t.DisplayName))
<1> DEFINE a == stackReferenceFor(refs, t.StackRef)
           b == applyUptimeTarget(w, t)
           T == Watch \cup {"stackReference"}
           U == Watched(t.DisplayName)
           u == <<"stackReference", t.StackRef>>
<1>1. Step(w, t, refs) = Run(<<a, b>>)
  BY DEF Step
<1>2. Makes(b, e, at, Watch) /\ Named(b, U)
  BY UptimeTargetMakes
<1>3. /\ Fine(a, e, at) /\ Within(a, {"stackReference"}) /\ Once(a) /\ Named(a, {u})
      /\ t.StackRef \in refs => Len(a.regs) = 0
  <2>1. CASE t.StackRef \in refs
    <3>1. a = Ok
      BY <2>1 DEF stackReferenceFor
    <3>2. Len(a.regs) = 0 /\ Fine(a, e, at) /\ Within(a, {"stackReference"}) /\ Once(a)
      BY <3>1, OkIsFine
    <3> HIDE DEF a
    <3>3. Named(a, {u})
      BY <3>2, FineList, EmptyNames
    <3> QED BY <3>2, <3>3
  <2>2. CASE t.StackRef \notin refs
    <3>1. a = Plain("stackReference", t.StackRef)
      BY <2>2 DEF stackReferenceFor, StackReference
    <3>2. Single(a, "stackReference", t.StackRef, e, at)
      BY <3>1, PlainSingle
    <3> HIDE DEF a
    <3>3. Named(a, {u})
      BY <3>2, SingleNames
    <3> QED BY <2>2, <3>2, <3>3 DEF Single
  <2> QED BY <2>1, <2>2
<1> HIDE DEF a, b, u, U
<1>4. Within(a, T) /\ Within(b, T)
  BY <1>2, <1>3, WithinMore DEF Makes
<1>5. ~Shares(a, b)
  <2>1. {"stackReference"} \cap Watch = {}
    BY DEF Watch
  <2> QED BY <1>2, <1>3, <2>1, TypesApart DEF Makes
<1> HIDE DEF T
<1>6. Fine(Run(<<a, b>>), e, at) /\ Within(Run(<<a, b>>), T)
  BY <1>2, <1>3, <1>4, PairFine DEF Makes
<1>7. Once(Run(<<a, b>>))
  <2>1. Once(a) /\ Once(b) /\ IsList(a.regs) /\ IsList(b.regs)
    BY <1>2, <1>3, FineList DEF Makes
  <2> QED BY <1>5, <2>1, PairOnce
<1>8. Named(Run(<<a, b>>), U \cup {u})
  <2>1. Named(a, U \cup {u})
    BY <1>3, NamesMore
  <2>2. Named(b, U \cup {u})
    BY <1>2, NamesMore
  <2> QED BY <2>1, <2>2, PairNames
<1>9. ASSUME t.StackRef \in refs PROVE Named(Run(<<a, b>>), U)
  <2>1. Named(a, U)
    BY <1>3, <1>9, FineList, EmptyNames
  <2> QED BY <1>2, <2>1, PairNames
<1> QED BY <1>1, <1>6, <1>7, <1>8, <1>9 DEF Makes, T, U, u, Ours

\* A later target of another name shares nothing with an earlier one.
LEMMA WatchedApart ==
  ASSUME NEW d, NEW f, IsList(d), IsList(f), d # f
  PROVE  Watched(d) \cap Watched(f) = {}
<1>1. PICK o : o = <<"failing">> /\ IsList(o)
  BY OneList
<1>2. d \o o # f \o o
  <2> SUFFICES ASSUME d \o o = f \o o PROVE FALSE
    OBVIOUS
  <2> DEFINE x == d \o o
             y == f \o o
  <2>1. /\ Len(x) = Len(d) + Len(o) /\ Len(d) \in Nat /\ Len(o) \in Nat
        /\ \A i \in 1..Len(d) : x[i] = d[i]
    BY <1>1, ConcatList
  <2>2. /\ Len(y) = Len(f) + Len(o) /\ Len(f) \in Nat
        /\ \A i \in 1..Len(f) : y[i] = f[i]
    BY <1>1, ConcatList
  <2>3. x = y
    OBVIOUS
  <2> HIDE DEF x, y
  <2>4. Len(d) = Len(f)
    BY <2>1, <2>2, <2>3
  <2>5. \A i \in 1..Len(d) : d[i] = f[i]
    BY <2>1, <2>2, <2>3, <2>4
  <2>6. PICK S, T : d \in Seq(S) /\ f \in Seq(T)
    BY DEF IsList
  <2>7. d \in Seq(S \cup T)
    BY <2>6, SeqDef
  <2>8. f \in Seq(S \cup T)
    BY <2>6, SeqDef
  <2> QED BY <2>4, <2>5, <2>7, <2>8, SeqEqual
<1>3. Watched(d) = {<<"uptimeCheck", d>>, <<"alertPolicy", d \o o>>}
  BY <1>1 DEF Watched
<1>4. Watched(f) = {<<"uptimeCheck", f>>, <<"alertPolicy", f \o o>>}
  BY <1>1 DEF Watched
<1>5. PICK x, y : x = d \o o /\ y = f \o o
  OBVIOUS
<1>6. /\ <<"uptimeCheck", d>> # <<"uptimeCheck", f>> /\ <<"uptimeCheck", d>> # <<"alertPolicy", y>>
      /\ <<"alertPolicy", x>> # <<"uptimeCheck", f>> /\ <<"alertPolicy", x>> # <<"alertPolicy", y>>
  BY <1>2, <1>5
<1> QED BY <1>3, <1>4, <1>5, <1>6
\* Two targets of different names share nothing, not even a reference.
LEMMA TargetsApart ==
  ASSUME NEW w, NEW targets, NEW asks, NEW stack, NEW i \in Nat, NEW j \in 1..(i - 1),
         IsList(targets[i].DisplayName), IsList(targets[j].DisplayName),
         targets[i].DisplayName # targets[j].DisplayName
  PROVE  ~Shares(Step(w, targets[j], Refs(targets, asks, stack, j)),
                 Step(w, targets[i], Refs(targets, asks, stack, i)))
<1>1. PICK x, y, t, u, R, Q :
        /\ x = targets[j] /\ y = targets[i]
        /\ Q = Refs(targets, asks, stack, j) /\ R = Refs(targets, asks, stack, i)
        /\ t = Step(w, x, Q) /\ u = Step(w, y, R)
  OBVIOUS
<1>2. x.StackRef \in R
  BY <1>1 DEF Refs
<1>3. Named(t, Ours(x)) /\ Named(u, Ours(y)) /\ (y.StackRef \in R => Named(u, Watched(y.DisplayName)))
  BY <1>1, StepMakes
<1>4. Watched(x.DisplayName) \cap Watched(y.DisplayName) = {}
  BY <1>1, WatchedApart
<1>5. \A d, s : <<"stackReference", s>> \notin Watched(d)
  BY DEF Watched
<1>6. CASE y.StackRef \in R
  <2>1. Ours(x) \cap Watched(y.DisplayName) = {}
    BY <1>4, <1>5 DEF Ours
  <2>2. ~Shares(t, u)
    BY <1>3, <1>6, <2>1, NamesApart
  <2> QED BY <1>1, <2>2
<1>7. CASE y.StackRef \notin R
  <2>1. x.StackRef # y.StackRef
    BY <1>2, <1>7
  <2>2. <<"stackReference", x.StackRef>> # <<"stackReference", y.StackRef>>
    BY <2>1
  <2>3. Ours(x) \cap Ours(y) = {}
    BY <1>4, <1>5, <2>2 DEF Ours
  <2>4. ~Shares(t, u)
    BY <1>3, <2>3, NamesApart
  <2> QED BY <1>1, <2>4
<1> QED BY <1>6, <1>7

\* applyMonitoring: no reference twice, nor the one of the placement again.
LEMMA MonitoringMakes ==
  ASSUME NEW w, NEW cfg, NEW place, NEW e, NEW at, NEW targets,
         targets = cfg.obj["uptimeTargets"].v, IsList(targets),
         \A i \in 1..Len(targets) : IsList(targets[i].DisplayName),
         NEW r, r = applyMonitoring(w, cfg, place)
  PROVE  /\ Fine(r, e, at) /\ Within(r, Monitors)
         /\ r.err = "nil" => cfg.obj["uptimeTargets"].ok
         /\ place.asks => Avoids(r, <<"stackReference", place.stack>>)
         /\ (\A i, j \in 1..Len(targets) : targets[i].DisplayName = targets[j].DisplayName => i = j)
            => Once(r)
<1> DEFINE a == IF cfg.text["alertEmail"] = Empty THEN Ok ELSE Plain("channel", <<"ops-email">>)
           v == Check(cfg.obj["uptimeTargets"].ok, "parse uptimeTargets")
           b == Must(v)
           refs(i) == Refs(targets, place.asks, place.stack, i)
           f == [i \in DOMAIN targets |-> Step(w, targets[i], refs(i))]
           s == <<a, b>> \o f
           n == Len(targets)
           u == <<"stackReference", place.stack>>
<1>1. r = Run(s)
  BY DEF applyMonitoring, uptimeTargetsFromConfig, Step, Refs
<1>2. f = [i \in DOMAIN targets |-> f[i]]
  OBVIOUS
<1>3. IsList(f) /\ Len(f) = n /\ DOMAIN targets = 1..n /\ n \in Nat
  <2> HIDE DEF f
  <2> QED BY <1>2, MapList
<1>4. \A i \in 1..n : f[i] = Step(w, targets[i], refs(i))
  BY <1>3
<1>5. /\ Fine(a, e, at) /\ Within(a, {"channel"}) /\ Once(a)
  <2>1. CASE cfg.text["alertEmail"] = Empty
    <3>1. a = Ok
      BY <2>1
    <3> QED BY <3>1, OkIsFine
  <2>2. CASE cfg.text["alertEmail"] # Empty
    <3>1. a = Plain("channel", <<"ops-email">>)
      BY <2>2
    <3>2. Single(a, "channel", <<"ops-email">>, e, at)
      BY <3>1, PlainSingle
    <3> HIDE DEF a
    <3> QED BY <3>2 DEF Single
  <2> QED BY <2>1, <2>2
<1>6. b.err = v /\ Fine(b, e, at) /\ Within(b, Monitors) /\ Once(b) /\ Len(b.regs) = 0
  BY MustFacts
<1>7. v = "nil" => cfg.obj["uptimeTargets"].ok
  BY DEF Check
<1> HIDE DEF a, b, v, f, refs
<1>8. /\ IsList(s) /\ Len(s) = 2 + n /\ s[1] = a /\ s[2] = b
      /\ \A i \in 1..n : s[2 + i] = f[i]
  <2>0. PICK o : o = <<a, b>>
    OBVIOUS
  <2>1. o = <<a, b>> /\ IsList(o) /\ Len(o) = 2 /\ o[1] = a /\ o[2] = b
    BY <2>0, PairList
  <2>2. /\ IsList(o \o f) /\ Len(o \o f) = 2 + Len(f)
        /\ \A i \in 1..2 : (o \o f)[i] = o[i]
        /\ \A i \in 1..Len(f) : (o \o f)[2 + i] = f[i]
    BY <1>3, <2>1, ConcatList
  <2>3. (o \o f)[1] = a /\ (o \o f)[2] = b
    BY <2>1, <2>2
  <2> QED BY <1>3, <2>1, <2>2, <2>3
<1> HIDE DEF s
<1>9. \A i \in 1..Len(s) : i = 1 \/ i = 2 \/ \E k \in 1..n : i = 2 + k
  <2> SUFFICES ASSUME NEW i \in 1..Len(s), i # 1, i # 2 PROVE \E k \in 1..n : i = 2 + k
    OBVIOUS
  <2>1. i - 2 \in 1..n /\ i = 2 + (i - 2)
    BY <1>3, <1>8
  <2> QED BY <2>1
<1>10. \A i \in 1..n : Fine(f[i], e, at) /\ Once(f[i]) /\ Within(f[i], Watch \cup {"stackReference"})
  BY <1>4, StepMakes DEF Makes
<1>11. Within(a, Monitors)
  BY <1>5, WithinMore DEF Monitors
<1>12. \A i \in 1..n : Within(f[i], Monitors)
  <2>1. Watch \cup {"stackReference"} \subseteq Monitors
    BY DEF Watch, Monitors
  <2> QED BY <1>10, <2>1, WithinMore
<1>13. \A i \in 1..Len(s) : Fine(s[i], e, at) /\ Within(s[i], Monitors)
  BY <1>5, <1>6, <1>8, <1>9, <1>10, <1>11, <1>12
<1>14. Fine(r, e, at) /\ Within(r, Monitors)
  BY <1>1, <1>8, <1>13, AllFine
<1>15. r.err = "nil" => cfg.obj["uptimeTargets"].ok
  <2>1. 2 \in 1..Len(s)
    BY <1>3, <1>8
  <2>2. r.err = "nil" => s[2].err = "nil"
    BY <1>1, <1>8, <1>13, <2>1, FineRun
  <2> QED BY <1>6, <1>7, <1>8, <2>2
<1>16. ASSUME place.asks PROVE Avoids(r, u)
  <2>1. Avoids(a, u)
    <3> SUFFICES ASSUME NEW p \in 1..Len(a.regs), URN(a.regs[p]) = u PROVE FALSE
      BY <1>5, FineList DEF Avoids
    <3>1. a.regs[p].type = "stackReference"
      BY DEF URN
    <3> QED BY <1>5, <3>1 DEF Within
  <2>2. Avoids(b, u)
    BY <1>6, FineList, EmptyNames
  <2>3. ASSUME NEW i \in 1..n PROVE Avoids(f[i], u)
    <3>1. PICK t, R : t = targets[i] /\ R = refs(i) /\ f[i] = Step(w, t, R)
      BY <1>4
    <3>2. place.stack \in R
      BY <1>16, <3>1 DEF refs, Refs
    <3>3. u \notin Watched(t.DisplayName)
      BY DEF Watched
    <3>4. CASE t.StackRef \in R
      <4>1. Named(f[i], Watched(t.DisplayName))
        BY <3>1, <3>4, StepMakes
      <4> QED BY <3>3, <4>1, NamesAvoid
    <3>5. CASE t.StackRef \notin R
      <4>1. Named(f[i], Ours(t))
        BY <3>1, StepMakes
      <4>2. t.StackRef # place.stack
        BY <3>2, <3>5
      <4>3. u \notin Ours(t)
        BY <3>3, <4>2 DEF Ours
      <4> QED BY <4>1, <4>3, NamesAvoid
    <3> QED BY <3>4, <3>5
  <2>4. \A i \in 1..Len(s) : Avoids(s[i], u)
    BY <1>8, <1>9, <2>1, <2>2, <2>3
  <2> QED BY <1>1, <1>8, <2>4, RunAvoids
<1>17. ASSUME \A i, j \in 1..n : targets[i].DisplayName = targets[j].DisplayName => i = j
       PROVE  Once(r)
  <2>1. \A i \in 1..n : ~Shares(a, f[i])
    <3>1. {"channel"} \cap (Watch \cup {"stackReference"}) = {}
      BY DEF Watch
    <3> QED BY <1>5, <1>10, <3>1, TypesApart
  <2>2. \A i \in 1..Len(s) : ~Shares(b, s[i]) /\ ~Shares(s[i], b)
    BY <1>6, NoneShared
  <2>3. ASSUME NEW i \in 1..n, NEW j \in 1..(i - 1) PROVE ~Shares(f[j], f[i])
    <3>1. j \in 1..n /\ j # i
      BY <1>3
    <3>2. targets[i].DisplayName # targets[j].DisplayName
      BY <1>17, <3>1
    <3>3. i \in Nat /\ IsList(targets[i].DisplayName) /\ IsList(targets[j].DisplayName)
      BY <1>3, <3>1
    <3>4. PICK x, y : x = place.asks /\ y = place.stack
      OBVIOUS
    <3>5. ~Shares(Step(w, targets[j], Refs(targets, x, y, j)),
                  Step(w, targets[i], Refs(targets, x, y, i)))
      BY <3>2, <3>3, TargetsApart
    <3>6. refs(i) = Refs(targets, x, y, i) /\ refs(j) = Refs(targets, x, y, j)
      BY <3>4 DEF refs
    <3> QED BY <1>4, <3>1, <3>5, <3>6
  <2>4. \A i \in 1..Len(s) : Once(s[i])
    BY <1>5, <1>6, <1>8, <1>9, <1>10
  <2>5. ASSUME NEW i \in 1..Len(s), NEW j \in 1..(i - 1) PROVE ~Shares(s[j], s[i])
    <3>1. j \in 1..Len(s) /\ j < i
      BY <1>3, <1>8
    <3>2. CASE i = 2 \/ j = 2
      BY <1>8, <2>2, <3>1, <3>2
    <3>3. CASE i # 2 /\ j # 2
      <4>1. PICK k \in 1..n : i = 2 + k
        BY <1>9, <3>1, <3>3
      <4>2. CASE j = 1
        BY <1>8, <2>1, <4>1, <4>2
      <4>3. CASE j # 1
        <5>1. PICK m \in 1..n : j = 2 + m
          BY <1>9, <3>1, <3>3, <4>3
        <5>2. m \in 1..(k - 1)
          BY <1>3, <3>1, <4>1, <5>1
        <5> QED BY <1>8, <2>3, <4>1, <5>1, <5>2
      <4> QED BY <4>2, <4>3
    <3> QED BY <3>2, <3>3
  <2>6. Apart(s, Len(s))
    BY <2>4, <2>5 DEF Apart
  <2>7. \A i \in 1..Len(s) : IsList(s[i].regs)
    BY <1>13, FineList
  <2> QED BY <1>1, <1>8, <2>6, <2>7, RunOnce
<1> QED BY <1>14, <1>15, <1>16, <1>17
-----------------------------------------------------------------------------
(* Placement.                                                              *)

\* A stack that was never brought up exports nothing.
LEMMA NoOutput == ASSUME NEW w, NEW stack, stack \notin DOMAIN w, NEW key PROVE Output(w, stack, key) = Empty
BY DEF Output, Empty

\* Placement makes one reference at most, of the governance stack.
LEMMA PlacementMakes ==
  ASSUME NEW w, NEW cfg, NEW params, NEW fields, NEW key, IsList(fields), NEW e, NEW at,
         NEW place, place = Placement(w, cfg, params, fields, key)
  PROVE  /\ Makes(place.run, e, at, {"stackReference"})
         /\ Named(place.run, {<<"stackReference", place.stack>>})
         /\ ~place.asks => Len(place.run.regs) = 0
<1>1. PICK a, v : place.run = Run(<<a, Must(v)>>)
                  /\ a = IF place.asks THEN StackReference(place.stack) ELSE Ok
  BY DEF Placement
<1>2. PICK b : b = Must(v)
  OBVIOUS
<1>3. Fine(b, e, at) /\ Within(b, {"stackReference"}) /\ Once(b) /\ Len(b.regs) = 0
  BY <1>2, MustFacts
<1> DEFINE u == <<"stackReference", place.stack>>
<1>4. /\ Fine(a, e, at) /\ Within(a, {"stackReference"}) /\ Once(a) /\ Named(a, {u})
      /\ ~place.asks => Len(a.regs) = 0
  <2>1. CASE place.asks
    <3>1. a = Plain("stackReference", place.stack)
      BY <1>1, <2>1 DEF StackReference
    <3>2. Single(a, "stackReference", place.stack, e, at)
      BY <3>1, PlainSingle
    <3>3. Named(a, {u})
      BY <3>2, SingleNames
    <3> QED BY <2>1, <3>2, <3>3 DEF Single
  <2>2. CASE ~place.asks
    <3>1. a = Ok
      BY <1>1, <2>2
    <3>2. Len(a.regs) = 0 /\ Fine(a, e, at) /\ Within(a, {"stackReference"}) /\ Once(a)
      BY <3>1, OkIsFine
    <3>3. Named(a, {u})
      BY <3>2, FineList, EmptyNames
    <3> QED BY <3>2, <3>3
  <2> QED BY <2>1, <2>2
<1> HIDE DEF u
<1>5. place.run = Run(<<a, b>>)
  BY <1>1, <1>2
<1>6. Fine(Run(<<a, b>>), e, at) /\ Within(Run(<<a, b>>), {"stackReference"})
  BY <1>3, <1>4, PairFine
<1>7. ~Shares(a, b) /\ IsList(a.regs) /\ IsList(b.regs)
  BY <1>3, <1>4, NoneShared, FineList
<1>8. Once(Run(<<a, b>>))
  BY <1>3, <1>4, <1>7, PairOnce
<1>9. Named(b, {u})
  BY <1>3, <1>7, EmptyNames
<1>10. Named(Run(<<a, b>>), {u})
  BY <1>4, <1>9, PairNames
<1>11. ASSUME ~place.asks PROVE Len(place.run.regs) = 0
  <2>1. Named(a, {}) /\ Named(b, {})
    BY <1>3, <1>4, <1>7, <1>11, EmptyNames
  <2>2. Named(Run(<<a, b>>), {})
    BY <2>1, PairNames
  <2>3. IsList(place.run.regs) /\ \A p \in 1..Len(place.run.regs) : FALSE
    BY <1>5, <2>2 DEF Named
  <2>4. Len(place.run.regs) \in Nat
    BY <2>3, ListFacts
  <2>5. 1 \in 1..Len(place.run.regs) \/ Len(place.run.regs) = 0
    BY <2>4
  <2> QED BY <2>3, <2>5
<1> QED BY <1>5, <1>6, <1>8, <1>10, <1>11 DEF Makes, u

\* The fields that are placed.
LEMMA SiteFields ==
  ASSUME NEW fields, fields = Site \/ fields = OrgSite
  PROVE  IsList(fields) /\ {"folderID", "billingAccount"} \subseteq ToSet(fields)
<1>1. IsList(Site) /\ IsList(OrgSite)
  BY PairList, TripleList DEF Site, OrgSite
<1>2. {"folderID", "billingAccount"} \subseteq ToSet(Site)
  <2>1. PICK s : s = <<"folderID", "billingAccount">>
    OBVIOUS
  <2>2. DOMAIN s = 1..2 /\ s[1] = "folderID" /\ s[2] = "billingAccount"
    BY <2>1
  <2>3. 1 \in 1..2 /\ 2 \in 1..2
    OBVIOUS
  <2>4. {"folderID", "billingAccount"} \subseteq ToSet(s)
    BY <2>2, <2>3 DEF ToSet
  <2> QED BY <2>1, <2>4 DEF Site
<1>3. {"folderID", "billingAccount"} \subseteq ToSet(OrgSite)
  <2>1. PICK s : s = <<"folderID", "billingAccount", "orgID">>
    OBVIOUS
  <2>2. DOMAIN s = 1..3 /\ s[1] = "folderID" /\ s[2] = "billingAccount"
    BY <2>1
  <2>3. 1 \in 1..3 /\ 2 \in 1..3
    OBVIOUS
  <2>4. {"folderID", "billingAccount"} \subseteq ToSet(s)
    BY <2>2, <2>3 DEF ToSet
  <2> QED BY <2>1, <2>4 DEF OrgSite
<1> QED BY <1>1, <1>2, <1>3

\* A value that was passed wins, then what governance exports, then the
\* configuration.
LEMMA PlacedAt ==
  ASSUME NEW w, Empty \notin DOMAIN w, NEW cfg, NEW params, NEW fields,
         fields = Site \/ fields = OrgSite, NEW key,
         NEW place, place = Placement(w, cfg, params, fields, key)
  PROVE  /\ place.at["folderID"] = Chosen(params["folderID"],
              Output(w, cfg.text["governanceStack"], key), cfg.text["folderID"])
         /\ place.at["billingAccount"] = Chosen(params["billingAccount"],
              Output(w, cfg.text["governanceStack"], <<"billingAccount">>),
              cfg.text["billingAccount"])
<1>1. "folderID" \in ToSet(fields) /\ "billingAccount" \in ToSet(fields)
  BY SiteFields
<1> DEFINE stack == cfg.text["governanceStack"]
           asks == stack # Empty /\ \E f \in ToSet(fields) : params[f] = Empty
           k(f) == IF f = "folderID" THEN key ELSE Exported[f]
           value(f) == IF params[f] # Empty THEN params[f]
                       ELSE IF asks THEN Or(Output(w, stack, k(f)), cfg.text[f])
                       ELSE cfg.text[f]
<1>2. place.at = [f \in ToSet(fields) |-> value(f)]
  BY DEF Placement
<1>3. place.at["folderID"] = value("folderID") /\ place.at["billingAccount"] = value("billingAccount")
  BY <1>1, <1>2
<1>4. k("folderID") = key /\ k("billingAccount") = <<"billingAccount">>
  BY DEF Exported
<1> HIDE DEF k
<1>5. ASSUME NEW f \in ToSet(fields)
      PROVE  value(f) = Chosen(params[f], Output(w, stack, k(f)), cfg.text[f])
  <2>1. CASE params[f] # Empty
    BY <2>1 DEF Chosen
  <2>2. CASE params[f] = Empty /\ stack # Empty
    <3>1. asks
      BY <2>2
    <3> QED BY <2>2, <3>1 DEF Chosen
  <2>3. CASE params[f] = Empty /\ stack = Empty
    <3>1. ~asks
      BY <2>3
    <3>2. Output(w, stack, k(f)) = Empty
      BY <2>3, NoOutput
    <3> QED BY <2>3, <3>1, <3>2 DEF Chosen, Or
  <2> QED BY <2>1, <2>2, <2>3
<1> HIDE DEF value, stack
<1> QED BY <1>1, <1>3, <1>4, <1>5 DEF stack
-----------------------------------------------------------------------------
\* A configuration's values are lists, whatever else they are.
LEMMA ConfigFacts ==
  ASSUME NEW cfg, IsConfig(cfg)
  PROVE  /\ \A k \in Keys : IsList(cfg.text[k])
         /\ \A k \in {"environments", "sinkExtraLogNames", "consumerSAs", "impersonators",
                      "consumerWorkloadStacks", "alertEmails"} :
              /\ IsList(cfg.obj[k].v) /\ cfg.obj[k].ok \in BOOLEAN
              /\ \A i \in 1..Len(cfg.obj[k].v) : IsList(cfg.obj[k].v[i])
         /\ \A k \in {"tagKeys", "uptimeTargets", "secrets", "serviceAccounts", "repositories",
                      "thresholds", "projects", "tables"} :
              IsList(cfg.obj[k].v) /\ cfg.obj[k].ok \in BOOLEAN
<1>1. \A k \in Keys : IsList(cfg.text[k])
  BY DEF IsConfig, Text, IsList
<1>2. ASSUME NEW k \in {"environments", "sinkExtraLogNames", "consumerSAs", "impersonators",
                        "consumerWorkloadStacks", "alertEmails"}
      PROVE  /\ IsList(cfg.obj[k].v) /\ cfg.obj[k].ok \in BOOLEAN
             /\ \A i \in 1..Len(cfg.obj[k].v) : IsList(cfg.obj[k].v[i])
  <2>1. cfg.obj[k] \in Block(Text)
    BY DEF IsConfig
  <2>2. cfg.obj[k].v \in Seq(Text) /\ cfg.obj[k].ok \in BOOLEAN
    BY <2>1 DEF Block
  <2>3. \A i \in 1..Len(cfg.obj[k].v) : cfg.obj[k].v[i] \in Text
    BY <2>2
  <2> QED BY <2>2, <2>3 DEF IsList, Text
<1>3. ASSUME NEW k \in {"tagKeys", "uptimeTargets", "secrets", "serviceAccounts", "repositories",
                        "thresholds", "projects", "tables"}
      PROVE  IsList(cfg.obj[k].v) /\ cfg.obj[k].ok \in BOOLEAN
  <2>1. \E S : cfg.obj[k] \in Block(S)
    BY DEF IsConfig
  <2> QED BY <2>1 DEF Block, IsList
<1> QED BY <1>1, <1>2, <1>3

\* A blueprint's project is put where its placement says.
LEMMA ProjectMakes ==
  ASSUME NEW name, IsList(name), NEW apis, IsList(apis), \A i \in 1..Len(apis) : IsList(apis[i]),
         NEW place, NEW e, NEW at, at = <<place.at["folderID"], place.at["billingAccount"]>>
  PROVE  Makes(Project(name, place, apis), e, at, {"project", "service"})
<1> DEFINE c == [Name |-> name, FolderID |-> place.at["folderID"],
                 BillingAccount |-> place.at["billingAccount"], APIs |-> apis]
<1>1. Project(name, place, apis) = ProjectsApply(c, <<>>)
  BY DEF Project
<1>2. c.Name = name /\ c.APIs = apis /\ at = <<c.FolderID, c.BillingAccount>>
  OBVIOUS
<1> HIDE DEF c
<1>3. PICK o : o = <<>> /\ Covered(o, e)
  BY NoOptions
<1>4. /\ Fine(ProjectsApply(c, o), e, at) /\ Within(ProjectsApply(c, o), {"project", "service"})
      /\ Once(ProjectsApply(c, o))
  BY <1>2, <1>3, ProjectFine
<1> QED BY <1>1, <1>3, <1>4 DEF Makes

\* Required and optional values.
LEMMA RequireFacts ==
  ASSUME NEW cfg, NEW key, NEW e, NEW at, NEW T
  PROVE  /\ Fine(Require(cfg, key), e, at) /\ Within(Require(cfg, key), T)
         /\ Len(Require(cfg, key).regs) = 0 /\ Once(Require(cfg, key))
BY MustFacts DEF Require

\* A block that was read is well formed, or the program has failed.
LEMMA ObjectFacts ==
  ASSUME NEW cfg, NEW key, key # "nil", NEW e, NEW at, NEW T
  PROVE  /\ Fine(RequireObject(cfg, key), e, at) /\ Within(RequireObject(cfg, key), T)
         /\ Len(RequireObject(cfg, key).regs) = 0 /\ Once(RequireObject(cfg, key))
         /\ RequireObject(cfg, key).err = "nil" => cfg.obj[key].ok
         /\ Fine(optionalObject(cfg, key), e, at) /\ Within(optionalObject(cfg, key), T)
         /\ Len(optionalObject(cfg, key).regs) = 0 /\ Once(optionalObject(cfg, key))
         /\ optionalObject(cfg, key).err = "nil" => cfg.obj[key].ok
<1>1. RequireObject(cfg, key).err = "nil" => cfg.obj[key].ok
  BY MustFacts DEF RequireObject, Check
<1>2. optionalObject(cfg, key).err = "nil" => cfg.obj[key].ok
  BY MustFacts DEF optionalObject, Check
<1>3. /\ Fine(RequireObject(cfg, key), e, at) /\ Within(RequireObject(cfg, key), T)
      /\ Len(RequireObject(cfg, key).regs) = 0 /\ Once(RequireObject(cfg, key))
  BY MustFacts DEF RequireObject
<1>4. /\ Fine(optionalObject(cfg, key), e, at) /\ Within(optionalObject(cfg, key), T)
      /\ Len(optionalObject(cfg, key).regs) = 0 /\ Once(optionalObject(cfg, key))
  BY MustFacts DEF optionalObject
<1> QED BY <1>1, <1>2, <1>3, <1>4

\* identity
LEMMA ApplySecretsFine ==
  ASSUME NEW cfg, IsConfig(cfg), NEW resolves, NEW e, NEW at
  PROVE  /\ Fine(applySecrets(cfg, resolves), e, at)
         /\ applySecrets(cfg, resolves).err = "nil" => cfg.obj["secrets"].ok
<1> DEFINE defs == cfg.obj["secrets"].v
           a == optionalObject(cfg, "secrets")
           v == First([i \in DOMAIN defs |-> Check(defs[i].Ref \in resolves, "resolve secret")])
           b == Must(v)
           l == [i \in DOMAIN defs |-> [Name |-> defs[i].Name, Value |-> defs[i].Ref]]
           c == IF defs = <<>> THEN Ok ELSE SecretsApply(l, <<>>)
<1>1. applySecrets(cfg, resolves) = Run(<<a, b, c>>)
  BY DEF applySecrets
<1>2. Fine(a, e, at) /\ (a.err = "nil" => cfg.obj["secrets"].ok)
  BY ObjectFacts
<1>3. Fine(b, e, at)
  BY MustFacts
<1>4. Fine(c, e, at)
  <2>1. CASE defs = <<>>
    BY <2>1, OkIsFine
  <2>2. CASE defs # <<>>
    <3>1. IsList(defs)
      BY ConfigFacts
    <3>2. l = [i \in DOMAIN defs |-> l[i]]
      OBVIOUS
    <3>3. c = SecretsApply(l, <<>>)
      BY <2>2
    <3> HIDE DEF l, defs, c
    <3>4. IsList(l)
      BY <3>1, <3>2, MapList
    <3>5. PICK o : o = <<>> /\ Covered(o, e)
      BY NoOptions
    <3>6. Fine(SecretsApply(l, o), e, at)
      BY <3>4, <3>5, SecretsFine
    <3> QED BY <3>3, <3>5, <3>6
  <2> QED BY <2>1, <2>2
<1> HIDE DEF a, b, c
<1> QED BY <1>1, <1>2, <1>3, <1>4, FineThree

\* applyConsumerAccess.
LEMMA ConsumerAccessFine ==
  ASSUME NEW cfg, IsConfig(cfg), NEW e, NEW at
  PROVE  /\ Fine(applyConsumerAccess(cfg), e, at)
         /\ applyConsumerAccess(cfg).err = "nil" => cfg.obj["consumerSAs"].ok
<1> DEFINE sas == cfg.obj["consumerSAs"].v
           a == RequireObject(cfg, "consumerSAs")
           l == [i \in DOMAIN sas |->
             [Name |-> <<"consumer-accessor", ToString(i - 1)>>,
              ProjectID |-> cfg.text["projectName"], Role |-> <<"secretAccessor">>,
              Member |-> <<"serviceAccount:">> \o sas[i]]]
           b == IambindingsApply(l)
<1>1. applyConsumerAccess(cfg) = Run(<<a, b>>)
  BY DEF applyConsumerAccess
<1>2. Fine(a, e, at) /\ (a.err = "nil" => cfg.obj["consumerSAs"].ok)
  BY ObjectFacts
<1>3. Fine(b, e, at)
  <2>1. IsList(sas)
    BY ConfigFacts
  <2>2. l = [i \in DOMAIN sas |-> l[i]]
    OBVIOUS
  <2> HIDE DEF l, sas
  <2>3. IsList(l)
    BY <2>1, <2>2, MapList
  <2> QED BY <2>3, IambindingsFine
<1> HIDE DEF a, b
<1> QED BY <1>1, <1>2, <1>3, FineTwo
\* A program before a list of them.
LEMMA AheadFine ==
  ASSUME NEW a, NEW f, IsList(f), NEW e, NEW at, Fine(a, e, at),
         \A i \in 1..Len(f) : Fine(f[i], e, at)
  PROVE  Fine(Run(<<a>> \o f), e, at) /\ (Run(<<a>> \o f).err = "nil" => a.err = "nil")
<1>0. PICK o : o = <<a>>
  OBVIOUS
<1>1. o = <<a>> /\ IsList(o) /\ Len(o) = 1 /\ o[1] = a
  BY <1>0, OneList
<1> DEFINE s == o \o f
<1>2. /\ IsList(s) /\ Len(s) = 1 + Len(f) /\ Len(f) \in Nat
      /\ \A i \in 1..1 : s[i] = o[i]
      /\ \A i \in 1..Len(f) : s[1 + i] = f[i]
  BY <1>1, ConcatList
<1> HIDE DEF s
<1>3. s[1] = a
  BY <1>1, <1>2
<1>4. \A i \in 1..Len(s) : i = 1 \/ \E k \in 1..Len(f) : i = 1 + k
  <2> SUFFICES ASSUME NEW i \in 1..Len(s), i # 1 PROVE \E k \in 1..Len(f) : i = 1 + k
    OBVIOUS
  <2>1. i - 1 \in 1..Len(f) /\ i = 1 + (i - 1)
    BY <1>2
  <2> QED BY <2>1
<1>5. \A i \in 1..Len(s) : Fine(s[i], e, at)
  BY <1>2, <1>3, <1>4
<1>6. 1 \in 1..Len(s)
  BY <1>2
<1>7. Fine(Run(s), e, at) /\ (Run(s).err = "nil" => a.err = "nil")
  BY <1>2, <1>3, <1>5, <1>6, FineRun
<1> QED BY <1>1, <1>7 DEF s

\* An export.
LEMMA ExportFine == ASSUME NEW key, NEW value, NEW e, NEW at PROVE Fine(Export(key, value), e, at)
BY ExportFacts

\* applyImpersonators.
LEMMA ImpersonatorsFine ==
  ASSUME NEW cfg, IsConfig(cfg), NEW accounts, IsList(accounts), NEW e, NEW at
  PROVE  /\ Fine(applyImpersonators(cfg, accounts), e, at)
         /\ applyImpersonators(cfg, accounts).err = "nil" => cfg.obj["impersonators"].ok
<1> DEFINE imps == cfg.obj["impersonators"].v
           name(i, x, r) == <<"impersonate">> \o x.ID \o <<ToString(i - 1), r>>
           three(i, x) == [k \in 1 .. 3 |-> [Name |-> name(i, x, <<"user", "token", "oidc">>[k])]]
           g(i) == [j \in DOMAIN accounts |-> ApplySAIam(three(i, accounts[j]))]
           a == optionalObject(cfg, "impersonators")
           f == [i \in DOMAIN imps |-> Run(g(i))]
<1>1. applyImpersonators(cfg, accounts) = Run(<<a>> \o f)
  BY DEF applyImpersonators, Each
<1>2. Fine(a, e, at) /\ (a.err = "nil" => cfg.obj["impersonators"].ok)
  BY ObjectFacts
<1>3. \A i, x : IsList(three(i, x))
  <2> TAKE i, x
  <2>1. PICK h : h = three(i, x)
    OBVIOUS
  <2>2. h = [k \in 1..3 |-> h[k]]
    BY <2>1
  <2> HIDE DEF three
  <2>3. h \in [1..3 -> {h[k] : k \in 1..3}]
    BY <2>2
  <2> QED BY <2>1, <2>3, FunList
<1> HIDE DEF three
<1>4. ASSUME NEW i PROVE Fine(Run(g(i)), e, at)
  <2>1. PICK h : h = g(i) /\ h = [j \in DOMAIN accounts |-> h[j]]
    OBVIOUS
  <2>2. IsList(h) /\ Len(h) = Len(accounts) /\ DOMAIN accounts = 1..Len(accounts)
    BY <2>1, MapList
  <2>3. \A j \in 1..Len(h) : h[j] = ApplySAIam(three(i, accounts[j]))
    BY <2>1, <2>2
  <2>4. \A j \in 1..Len(h) : Fine(h[j], e, at)
    BY <1>3, <2>3, SAIamFine
  <2> QED BY <2>1, <2>2, <2>4, FineRun
<1>5. IsList(imps)
  BY ConfigFacts
<1>6. f = [i \in DOMAIN imps |-> f[i]]
  OBVIOUS
<1>7. \A i \in DOMAIN imps : f[i] = Run(g(i))
  OBVIOUS
<1> HIDE DEF f, g, a, imps
<1>8. IsList(f) /\ Len(f) = Len(imps) /\ DOMAIN imps = 1..Len(imps)
  BY <1>5, <1>6, MapList
<1>9. \A i \in 1..Len(f) : Fine(f[i], e, at)
  BY <1>4, <1>7, <1>8
<1> QED BY <1>1, <1>2, <1>8, <1>9, AheadFine

\* applyServiceAccounts.
LEMMA ServiceAccountsFine ==
  ASSUME NEW cfg, IsConfig(cfg), NEW e, NEW at
  PROVE  /\ Fine(applyServiceAccounts(cfg), e, at)
         /\ applyServiceAccounts(cfg).err = "nil" =>
              /\ cfg.obj["serviceAccounts"].ok
              /\ cfg.obj["serviceAccounts"].v # <<>> => cfg.obj["impersonators"].ok
<1> DEFINE accounts == cfg.obj["serviceAccounts"].v
           a == optionalObject(cfg, "serviceAccounts")
           b == ServiceaccountsApply(accounts)
           f == [i \in DOMAIN accounts |-> Export(accounts[i].ID \o <<"email">>, accounts[i].ID)]
           c == Run(f)
           d == IF accounts = <<>> THEN Ok ELSE applyImpersonators(cfg, accounts)
           s == <<a, b, c, d>>
<1>1. applyServiceAccounts(cfg) = Run(s)
  BY DEF applyServiceAccounts, Each
<1>2. IsList(accounts)
  BY ConfigFacts
<1>3. Fine(a, e, at) /\ (a.err = "nil" => cfg.obj["serviceAccounts"].ok)
  BY ObjectFacts
<1>4. Fine(b, e, at)
  BY <1>2, ServiceaccountsFine
<1>5. Fine(c, e, at)
  <2>1. f = [i \in DOMAIN accounts |-> f[i]]
    OBVIOUS
  <2>2. \A i \in DOMAIN accounts : f[i] = Export(accounts[i].ID \o <<"email">>, accounts[i].ID)
    OBVIOUS
  <2> HIDE DEF f, accounts
  <2>3. IsList(f) /\ Len(f) = Len(accounts) /\ DOMAIN accounts = 1..Len(accounts)
    BY <1>2, <2>1, MapList
  <2>4. \A i \in 1..Len(f) : Fine(f[i], e, at)
    BY <2>2, <2>3, ExportFine
  <2> QED BY <2>3, <2>4, FineRun
<1>6. Fine(d, e, at) /\ (d.err = "nil" /\ accounts # <<>> => cfg.obj["impersonators"].ok)
  <2>1. CASE accounts = <<>>
    BY <2>1, OkIsFine
  <2>2. CASE accounts # <<>>
    BY <1>2, <2>2, ImpersonatorsFine
  <2> QED BY <2>1, <2>2
<1> HIDE DEF a, b, c, d
<1>7. s \in Seq({a, b, c, d}) /\ Len(s) = 4 /\ s[1] = a /\ s[2] = b /\ s[3] = c /\ s[4] = d
  OBVIOUS
<1>8. IsList(s)
  BY <1>7 DEF IsList
<1> HIDE DEF s
<1>9. \A i \in 1..Len(s) : i \in {1, 2, 3, 4}
  BY <1>7
<1>10. \A i \in 1..Len(s) : Fine(s[i], e, at)
  BY <1>3, <1>4, <1>5, <1>6, <1>7, <1>9
<1>11. 1 \in 1..Len(s) /\ 4 \in 1..Len(s)
  BY <1>7
<1>12. Fine(Run(s), e, at) /\ (Run(s).err = "nil" => a.err = "nil" /\ d.err = "nil")
  BY <1>7, <1>8, <1>10, <1>11, FineRun
<1> QED BY <1>1, <1>3, <1>6, <1>12
\* identity.Apply: sound, and what it reads is well formed unless it failed.
LEMMA IdentityFine ==
  ASSUME NEW w, NEW cfg, IsConfig(cfg), NEW params, NEW resolves, NEW e,
         NEW place, place = identityPlacement(w, cfg, params),
         NEW at, at = <<place.at["folderID"], place.at["billingAccount"]>>,
         NEW r, r = IdentityApply(w, cfg, params, resolves)
  PROVE  /\ Fine(r, e, at)
         /\ r.err = "nil" =>
              /\ cfg.obj["secrets"].ok /\ cfg.obj["consumerSAs"].ok /\ cfg.obj["serviceAccounts"].ok
              /\ cfg.obj["serviceAccounts"].v # <<>> => cfg.obj["impersonators"].ok
<1> DEFINE name == cfg.text["projectName"]
           apis == <<<<"secretmanager">>, <<"iam">>>>
           a1 == Require(cfg, "projectName")
           a2 == place.run
           a3 == Project(name, place, apis)
           a4 == applySecrets(cfg, resolves)
           a5 == applyConsumerAccess(cfg)
           a6 == applyServiceAccounts(cfg)
           a7 == ProjectId(name)
           s == <<a1, a2, a3, a4, a5, a6, a7>>
<1>1. r = Run(s)
  BY DEF IdentityApply
<1>2. IsList(name)
  BY ConfigFacts DEF Keys
<1>3. IsList(apis) /\ \A i \in 1..Len(apis) : IsList(apis[i])
  <2>1. IsList(apis) /\ Len(apis) = 2 /\ apis[1] = <<"secretmanager">> /\ apis[2] = <<"iam">>
    BY PairList
  <2>2. IsList(<<"secretmanager">>) /\ IsList(<<"iam">>)
    BY OneList
  <2> HIDE DEF apis
  <2>3. \A i \in 1..Len(apis) : i = 1 \/ i = 2
    BY <2>1
  <2> QED BY <2>1, <2>2, <2>3
<1>4. Fine(a1, e, at) /\ Fine(a7, e, at)
  BY RequireFacts, ExportFine DEF ProjectId
<1>5. Fine(a2, e, at)
  BY SiteFields, PlacementMakes DEF identityPlacement, Makes
<1>6. Fine(a3, e, at)
  <2> HIDE DEF name, apis
  <2>1. Makes(a3, e, at, {"project", "service"})
    BY <1>2, <1>3, ProjectMakes
  <2> QED BY <2>1 DEF Makes
<1>7. Fine(a4, e, at) /\ (a4.err = "nil" => cfg.obj["secrets"].ok)
  BY ApplySecretsFine
<1>8. Fine(a5, e, at) /\ (a5.err = "nil" => cfg.obj["consumerSAs"].ok)
  BY ConsumerAccessFine
<1>9. Fine(a6, e, at) /\ (a6.err = "nil" =>
              /\ cfg.obj["serviceAccounts"].ok
              /\ cfg.obj["serviceAccounts"].v # <<>> => cfg.obj["impersonators"].ok)
  BY ServiceAccountsFine
<1> HIDE DEF a1, a2, a3, a4, a5, a6, a7
<1>10. /\ s \in Seq({a1, a2, a3, a4, a5, a6, a7}) /\ Len(s) = 7
       /\ s[1] = a1 /\ s[2] = a2 /\ s[3] = a3 /\ s[4] = a4 /\ s[5] = a5 /\ s[6] = a6 /\ s[7] = a7
  OBVIOUS
<1>11. IsList(s)
  BY <1>10 DEF IsList
<1> HIDE DEF s
<1>12. \A i \in 1..Len(s) : i \in {1, 2, 3, 4, 5, 6, 7}
  BY <1>10
<1>13. \A i \in 1..Len(s) : Fine(s[i], e, at)
  BY <1>4, <1>5, <1>6, <1>7, <1>8, <1>9, <1>10, <1>12
<1>14. {4, 5, 6} \subseteq 1..Len(s)
  BY <1>10
<1>15. Fine(Run(s), e, at)
       /\ (Run(s).err = "nil" => a4.err = "nil" /\ a5.err = "nil" /\ a6.err = "nil")
  BY <1>10, <1>11, <1>13, <1>14, FineRun
<1> QED BY <1>1, <1>7, <1>8, <1>9, <1>15

\* delivery
LEMMA RegistryFine ==
  ASSUME NEW cfg, NEW region, NEW e, NEW at PROVE Fine(applyRegistry(cfg, region), e, at)
<1> DEFINE a == Require(cfg, "registryId")
           x == [ID |-> cfg.text["registryId"], Format |-> <<"DOCKER">>, Location |-> region]
           b == RegistriesApply(x, <<>>)
           c == applyBuildWriterGrants(cfg)
<1>1. applyRegistry(cfg, region) = Run(<<a, b, c>>)
  BY DEF applyRegistry
<1>2. Fine(a, e, at)
  BY RequireFacts
<1>3. Fine(b, e, at)
  <2> HIDE DEF x
  <2>1. PICK o : o = <<>> /\ Covered(o, e)
    BY NoOptions
  <2>2. Makes(RegistriesApply(x, o), e, at, {"registry"})
    BY <2>1, RegistriesMake
  <2> QED BY <2>1, <2>2 DEF Makes
<1>4. Fine(c, e, at)
  <2> DEFINE y == GrantWriter(<<"build-ar-writer">>)
             z == IF cfg.text["buildServiceAccount"] # Empty THEN Ok
                  ELSE GrantWriter(<<"build-ar-writer-compute">>)
  <2>1. c = Run(<<y, z>>)
    BY DEF applyBuildWriterGrants
  <2>2. Fine(y, e, at)
    BY PlainFine DEF GrantWriter
  <2>3. Fine(z, e, at)
    BY PlainFine, OkIsFine DEF GrantWriter
  <2> HIDE DEF y, z
  <2> QED BY <2>1, <2>2, <2>3, FineTwo
<1> HIDE DEF a, b, c
<1> QED BY <1>1, <1>2, <1>3, <1>4, FineThree

\* applyRepos.
LEMMA ReposFine ==
  ASSUME NEW cfg, IsConfig(cfg), NEW e, NEW at
  PROVE  /\ Fine(applyRepos(cfg), e, at)
         /\ applyRepos(cfg).err = "nil" => cfg.obj["repositories"].ok
<1> DEFINE repos == cfg.obj["repositories"].v
           g(i) == [k \in DOMAIN repos[i].Triggers |-> TriggersApply(repos[i].Triggers[k])]
           f == [i \in DOMAIN repos |-> Run(<<LinkRepo(repos[i]), Run(g(i))>>)]
           a == optionalObject(cfg, "repositories")
           b == Run(f)
<1>1. applyRepos(cfg) = Run(<<a, b>>)
  BY DEF applyRepos, Each
<1>2. Fine(a, e, at) /\ (a.err = "nil" => cfg.obj["repositories"].ok)
  BY ObjectFacts
<1>3. cfg.obj["repositories"] \in Block(Repository)
  BY DEF IsConfig
<1>4. repos \in Seq(Repository)
  BY <1>3 DEF Block
<1>5. f = [i \in DOMAIN repos |-> f[i]]
  OBVIOUS
<1>6. \A i \in DOMAIN repos : f[i] = Run(<<LinkRepo(repos[i]), Run(g(i))>>)
  OBVIOUS
<1> HIDE DEF f, a, repos
<1>7. IsList(f) /\ Len(f) = Len(repos) /\ DOMAIN repos = 1..Len(repos)
  BY <1>4, <1>5, MapList DEF IsList
<1>8. ASSUME NEW i \in 1..Len(f) PROVE Fine(f[i], e, at)
  <2>1. PICK h : h = g(i) /\ h = [k \in DOMAIN repos[i].Triggers |-> h[k]]
    OBVIOUS
  <2>2. repos[i] \in Repository
    BY <1>4, <1>7
  <2>3. IsList(repos[i].Triggers)
    BY <2>2 DEF Repository, IsList
  <2>4. IsList(h) /\ Len(h) = Len(repos[i].Triggers)
        /\ DOMAIN repos[i].Triggers = 1..Len(repos[i].Triggers)
    BY <2>1, <2>3, MapList
  <2>5. \A k \in 1..Len(h) : h[k] = TriggersApply(repos[i].Triggers[k])
    BY <2>1, <2>4
  <2>6. \A k \in 1..Len(h) : Fine(h[k], e, at)
    BY <2>5, TriggersFine
  <2>7. Fine(Run(h), e, at)
    BY <2>4, <2>6, FineRun
  <2>8. PICK x, y : x = LinkRepo(repos[i]) /\ y = Run(h) /\ Fine(x, e, at)
    BY LinkRepoFine
  <2>9. f[i] = Run(<<x, y>>)
    BY <1>6, <1>7, <2>1, <2>8
  <2> QED BY <2>7, <2>8, <2>9, FineTwo
<1>9. Fine(b, e, at)
  BY <1>7, <1>8, FineRun
<1> HIDE DEF b
<1> QED BY <1>1, <1>2, <1>9, FineTwo

\* applyGitHub.
LEMMA GitHubFine ==
  ASSUME NEW cfg, IsConfig(cfg), NEW region, NEW e, NEW at
  PROVE  /\ Fine(applyGitHub(cfg, region), e, at)
         /\ configured(cfg) /\ applyGitHub(cfg, region).err = "nil" => cfg.obj["repositories"].ok
<1>1. CASE ~configured(cfg)
  BY <1>1, ExportFine DEF applyGitHub
<1>2. CASE configured(cfg)
  <2> DEFINE x == [Name |-> Or(cfg.text["githubConnectionName"], <<"github">>),
                   Provider |-> <<"github">>, Region |-> region]
             a == ConnectionsApply(x)
             b == applySecretAccessor
             c == applyRepos(cfg)
  <2>1. applyGitHub(cfg, region) = Run(<<a, b, c>>)
    BY <1>2 DEF applyGitHub
  <2>2. Fine(a, e, at)
    BY ConnectionsFine
  <2>3. Fine(b, e, at)
    BY PlainFine DEF applySecretAccessor
  <2>4. Fine(c, e, at) /\ (c.err = "nil" => cfg.obj["repositories"].ok)
    BY ReposFine
  <2> HIDE DEF a, b, c
  <2> QED BY <2>1, <2>2, <2>3, <2>4, FineThree
<1> QED BY <1>1, <1>2
\* applyConsumerGrants.
LEMMA ConsumerGrantsFine ==
  ASSUME NEW w, NEW cfg, IsConfig(cfg), NEW e, NEW at
  PROVE  /\ Fine(applyConsumerGrants(w, cfg), e, at)
         /\ applyConsumerGrants(w, cfg).err = "nil" => cfg.obj["consumerWorkloadStacks"].ok
<1> DEFINE stacks == cfg.obj["consumerWorkloadStacks"].v
           a == optionalObject(cfg, "consumerWorkloadStacks")
           x(i) == StackReference(stacks[i])
           y(i) == Must(Check(Output(w, stacks[i], <<"compute", "ProjectNumber">>) # Empty,
                              "missing output"))
           z(i) == GrantReader(<<"ar-consumer", ToString(i - 1)>>)
           f == [i \in DOMAIN stacks |-> Run(<<x(i), y(i), z(i)>>)]
<1>1. applyConsumerGrants(w, cfg) = Run(<<a>> \o f)
  BY DEF applyConsumerGrants
<1>2. Fine(a, e, at) /\ (a.err = "nil" => cfg.obj["consumerWorkloadStacks"].ok)
  BY ObjectFacts
<1>3. IsList(stacks)
  BY ConfigFacts
<1>4. f = [i \in DOMAIN stacks |-> f[i]]
  OBVIOUS
<1>5. \A i \in DOMAIN stacks : f[i] = Run(<<x(i), y(i), z(i)>>)
  OBVIOUS
<1>6. \A i : Fine(x(i), e, at) /\ Fine(y(i), e, at) /\ Fine(z(i), e, at)
  <2> TAKE i
  <2>1. Fine(x(i), e, at)
    BY PlainFine DEF StackReference
  <2>2. Fine(y(i), e, at)
    BY MustFacts
  <2>3. Fine(z(i), e, at)
    BY PlainFine DEF GrantReader
  <2> QED BY <2>1, <2>2, <2>3
<1> HIDE DEF f, a, stacks, x, y, z
<1>7. IsList(f) /\ Len(f) = Len(stacks) /\ DOMAIN stacks = 1..Len(stacks)
  BY <1>3, <1>4, MapList
<1>8. \A i \in 1..Len(f) : Fine(f[i], e, at)
  BY <1>5, <1>6, <1>7, FineThree
<1> QED BY <1>1, <1>2, <1>7, <1>8, AheadFine

\* delivery.Apply: sound, and what it reads is well formed unless it failed.
LEMMA DeliveryFine ==
  ASSUME NEW w, NEW cfg, IsConfig(cfg), NEW params, NEW e,
         NEW place, place = deliveryPlacement(w, cfg, params),
         NEW at, at = <<place.at["folderID"], place.at["billingAccount"]>>,
         NEW r, r = DeliveryApply(w, cfg, params)
  PROVE  /\ Fine(r, e, at)
         /\ r.err = "nil" /\ configured(cfg) =>
              cfg.obj["repositories"].ok /\ cfg.obj["consumerWorkloadStacks"].ok
<1> DEFINE name == cfg.text["projectName"]
           region == Or(cfg.text["region"], <<"europe-west4">>)
           apis == <<<<"cloudbuild">>, <<"artifactregistry">>, <<"secretmanager">>, <<"iam">>,
                     <<"compute">>>>
           a1 == Require(cfg, "projectName")
           a2 == place.run
           a3 == Project(name, place, apis)
           a4 == applyRegistry(cfg, region)
           a5 == applyGitHub(cfg, region)
           a6 == IF configured(cfg) THEN applyConsumerGrants(w, cfg) ELSE Ok
           a7 == ProjectId(name)
           a8 == Export(<<"dockerRepoId">>, cfg.text["registryId"])
           s == <<a1, a2, a3, a4, a5, a6, a7, a8>>
<1>1. r = Run(s)
  BY DEF DeliveryApply
<1>2. IsList(name)
  BY ConfigFacts DEF Keys
<1>3. IsList(apis) /\ \A i \in 1..Len(apis) : IsList(apis[i])
  <2>1. PICK b1, b2, b3, b4, b5 :
          /\ b1 = <<"cloudbuild">> /\ b2 = <<"artifactregistry">> /\ b3 = <<"secretmanager">>
          /\ b4 = <<"iam">> /\ b5 = <<"compute">>
    OBVIOUS
  <2>2. IsList(b1) /\ IsList(b2) /\ IsList(b3) /\ IsList(b4) /\ IsList(b5)
    BY <2>1, OneList
  <2>3. PICK q : q = <<b1, b2, b3, b4, b5>>
    OBVIOUS
  <2>9. PICK B : B = {b1, b2, b3, b4, b5}
    OBVIOUS
  <2>10. <<b1, b2, b3, b4, b5>> \in Seq(B)
    BY <2>9
  <2>4. B = {b1, b2, b3, b4, b5} /\ q \in Seq(B)
    BY <2>3, <2>9, <2>10
  <2>5. \A i \in 1..Len(q) : q[i] \in B
    BY <2>4
  <2>6. \A b \in B : IsList(b)
    BY <2>2, <2>4
  <2>7. apis = q
    BY <2>1, <2>3
  <2> HIDE DEF apis
  <2>8. IsList(apis)
    BY <2>4, <2>7 DEF IsList
  <2> QED BY <2>5, <2>6, <2>7, <2>8
<1>4. Fine(a1, e, at) /\ Fine(a7, e, at) /\ Fine(a8, e, at)
  BY RequireFacts, ExportFine DEF ProjectId
<1>5. Fine(a2, e, at)
  BY SiteFields, PlacementMakes DEF deliveryPlacement, Makes
<1>6. Fine(a3, e, at)
  <2> HIDE DEF name, apis
  <2>1. Makes(a3, e, at, {"project", "service"})
    BY <1>2, <1>3, ProjectMakes
  <2> QED BY <2>1 DEF Makes
<1>7. Fine(a4, e, at)
  BY RegistryFine
<1>8. Fine(a5, e, at) /\ (configured(cfg) /\ a5.err = "nil" => cfg.obj["repositories"].ok)
  BY GitHubFine
<1>9. Fine(a6, e, at) /\ (configured(cfg) /\ a6.err = "nil" => cfg.obj["consumerWorkloadStacks"].ok)
  <2>1. CASE configured(cfg)
    BY <2>1, ConsumerGrantsFine
  <2>2. CASE ~configured(cfg)
    BY <2>2, OkIsFine
  <2> QED BY <2>1, <2>2
<1> HIDE DEF a1, a2, a3, a4, a5, a6, a7, a8
<1>10. /\ s \in Seq({a1, a2, a3, a4, a5, a6, a7, a8}) /\ Len(s) = 8
       /\ s[1] = a1 /\ s[2] = a2 /\ s[3] = a3 /\ s[4] = a4 /\ s[5] = a5 /\ s[6] = a6
       /\ s[7] = a7 /\ s[8] = a8
  OBVIOUS
<1>11. IsList(s)
  BY <1>10 DEF IsList
<1> HIDE DEF s
<1>12. \A i \in 1..Len(s) : i \in {1, 2, 3, 4, 5, 6, 7, 8}
  BY <1>10
<1>13. \A i \in 1..Len(s) : Fine(s[i], e, at)
  BY <1>4, <1>5, <1>6, <1>7, <1>8, <1>9, <1>10, <1>12
<1>14. {5, 6} \subseteq 1..Len(s)
  BY <1>10
<1>15. Fine(Run(s), e, at) /\ (Run(s).err = "nil" => a5.err = "nil" /\ a6.err = "nil")
  BY <1>10, <1>11, <1>13, <1>14, FineRun
<1> QED BY <1>1, <1>8, <1>9, <1>15

\* workloads
LEMMA WorkloadProjectFine ==
  ASSUME NEW cfg, NEW pc, pc \in Workload, NEW place, NEW e,
         NEW at, at = <<place.at["folderID"], place.at["billingAccount"]>>
  PROVE  Fine(applyProject(cfg, pc, place), e, at)
<1> DEFINE cs == pc.Concerns
           a == Project(pc.Name, place, pc.APIs)
           x(i) == Export(cs[i] \o <<"ProjectId">>, pc.Name)
           y(i) == Export(cs[i] \o <<"ProjectNumber">>, pc.Name)
           f == [i \in DOMAIN cs |-> Run(<<x(i), y(i)>>)]
           b == Run(f)
           bs == <<[Name |-> pc.Name \o <<"delivery-run-deployer">>,
                    ProjectID |-> pc.Name, Role |-> <<"run.developer">>,
                    Member |-> cfg.text["deliveryProjectNumber"]]>>
           c == IF cfg.text["deliveryProjectNumber"] = Empty THEN Ok ELSE IambindingsApply(bs)
<1>1. applyProject(cfg, pc, place) = Run(<<a, b, c>>)
  BY DEF applyProject, Each
<1>2. IsList(pc.Name) /\ IsList(cs) /\ pc.APIs \in Seq(Text)
  BY DEF Workload, Text, IsList
<1>3. IsList(pc.APIs) /\ \A i \in 1..Len(pc.APIs) : IsList(pc.APIs[i])
  BY <1>2 DEF Text, IsList
<1>4. Fine(a, e, at)
  <2>1. Makes(a, e, at, {"project", "service"})
    BY <1>2, <1>3, ProjectMakes
  <2> QED BY <2>1 DEF Makes
<1>5. f = [i \in DOMAIN cs |-> f[i]]
  OBVIOUS
<1>6. \A i \in DOMAIN cs : f[i] = Run(<<x(i), y(i)>>)
  OBVIOUS
<1>7. \A i : Fine(x(i), e, at) /\ Fine(y(i), e, at)
  BY ExportFine
<1>8. Fine(c, e, at)
  <2>1. IsList(bs)
    BY OneList
  <2> HIDE DEF bs
  <2>2. Fine(IambindingsApply(bs), e, at)
    BY <2>1, IambindingsFine
  <2> QED BY <2>2, OkIsFine
<1> HIDE DEF f, x, y, a, c, cs
<1>9. IsList(f) /\ Len(f) = Len(cs) /\ DOMAIN cs = 1..Len(cs)
  BY <1>2, <1>5, MapList
<1>10. \A i \in 1..Len(f) : Fine(f[i], e, at)
  BY <1>6, <1>7, <1>9, FineTwo
<1>11. Fine(b, e, at)
  BY <1>9, <1>10, FineRun
<1> HIDE DEF b
<1> QED BY <1>1, <1>4, <1>8, <1>11, FineThree

\* workloads.Apply: sound, and what it reads is well formed unless it failed.
LEMMA WorkloadsFine ==
  ASSUME NEW w, NEW cfg, IsConfig(cfg), NEW params, NEW e,
         NEW place, place = workloadsPlacement(w, cfg, params),
         NEW at, at = <<place.at["folderID"], place.at["billingAccount"]>>,
         NEW r, r = WorkloadsApply(w, cfg, params)
  PROVE  Fine(r, e, at) /\ (r.err = "nil" => cfg.obj["projects"].ok)
<1> DEFINE ps == cfg.obj["projects"].v
           a1 == Require(cfg, "environmentFolder")
           a2 == RequireObject(cfg, "projects")
           a3 == place.run
           f == [i \in DOMAIN ps |-> applyProject(cfg, ps[i], place)]
           a4 == Run(f)
           s == <<a1, a2, a3, a4>>
<1>1. r = Run(s)
  BY DEF WorkloadsApply, Each
<1>2. Fine(a1, e, at)
  BY RequireFacts
<1>3. Fine(a2, e, at) /\ (a2.err = "nil" => cfg.obj["projects"].ok)
  BY ObjectFacts
<1>4. Fine(a3, e, at)
  BY SiteFields, PlacementMakes DEF workloadsPlacement, Makes
<1>5. cfg.obj["projects"] \in Block(Workload)
  BY DEF IsConfig
<1>6. ps \in Seq(Workload)
  BY <1>5 DEF Block
<1>7. f = [i \in DOMAIN ps |-> f[i]]
  OBVIOUS
<1>8. \A i \in DOMAIN ps : f[i] = applyProject(cfg, ps[i], place)
  OBVIOUS
<1> HIDE DEF f, ps, a1, a2, a3
<1>9. IsList(f) /\ Len(f) = Len(ps) /\ DOMAIN ps = 1..Len(ps)
  BY <1>6, <1>7, MapList DEF IsList
<1>10. \A i \in 1..Len(f) : ps[i] \in Workload
  BY <1>6, <1>9
<1>11. \A i \in 1..Len(f) : Fine(f[i], e, at)
  BY <1>8, <1>9, <1>10, WorkloadProjectFine
<1>12. Fine(a4, e, at)
  BY <1>9, <1>11, FineRun
<1> HIDE DEF a4
<1>13. s \in Seq({a1, a2, a3, a4}) /\ Len(s) = 4 /\ s[1] = a1 /\ s[2] = a2 /\ s[3] = a3 /\ s[4] = a4
  OBVIOUS
<1>14. IsList(s)
  BY <1>13 DEF IsList
<1> HIDE DEF s
<1>15. \A i \in 1..Len(s) : i \in {1, 2, 3, 4}
  BY <1>13
<1>16. \A i \in 1..Len(s) : Fine(s[i], e, at)
  BY <1>2, <1>3, <1>4, <1>12, <1>13, <1>15
<1>17. 2 \in 1..Len(s)
  BY <1>13
<1>18. Fine(Run(s), e, at) /\ (Run(s).err = "nil" => a2.err = "nil")
  BY <1>13, <1>14, <1>16, <1>17, FineRun
<1> QED BY <1>1, <1>3, <1>18
-----------------------------------------------------------------------------
\* The steps that register something share no name with each other.
LEMMA SparseOnce ==
  ASSUME NEW steps, IsList(steps), \A i \in 1..Len(steps) : IsList(steps[i].regs), NEW K,
         \A i \in 1..Len(steps) : Once(steps[i]),
         \A i \in 1..Len(steps) : i \in K \/ Len(steps[i].regs) = 0,
         \A i, j \in K : j < i => ~Shares(steps[j], steps[i])
  PROVE  Once(Run(steps))
<1>1. Len(steps) \in Nat
  BY ListFacts
<1>2. ASSUME NEW i \in 1..Len(steps), NEW j \in 1..(i - 1) PROVE ~Shares(steps[j], steps[i])
  <2>1. j \in 1..Len(steps) /\ j < i
    BY <1>1
  <2>2. CASE i \in K /\ j \in K
    BY <2>1, <2>2
  <2>3. CASE i \notin K \/ j \notin K
    BY <2>1, <2>3, NoneShared
  <2> QED BY <2>2, <2>3
<1>3. Apart(steps, Len(steps))
  BY <1>2 DEF Apart
<1> QED BY <1>3, RunOnce

\* finops
LEMMA BudgetMakes ==
  ASSUME NEW cfg, IsConfig(cfg), NEW place, NEW e, NEW at,
         NEW r, r = applyBudget(cfg, place)
  PROVE  /\ Makes(r, e, at, {"channel", "budget"})
         /\ r.err = "nil" => cfg.obj["alertEmails"].ok /\ cfg.obj["thresholds"].ok
<1> DEFINE T == {"channel", "budget"}
           custom == cfg.obj["thresholds"].v
           name == cfg.text["projectName"] \o <<ToString(cfg.num["monthlyBudget"])>>
                   \o Or(cfg.text["currency"], <<"EUR">>)
           x == [DisplayName |-> name, Amount |-> cfg.num["monthlyBudget"],
                 BillingAccount |-> place.at["billingAccount"],
                 Scope |-> <<"organizations/">> \o place.at["orgID"],
                 Thresholds |-> IF custom = <<>> THEN <<50, 75, 90, 100>> ELSE custom,
                 AlertEmails |-> cfg.obj["alertEmails"].v]
           a1 == Must(Check(cfg.num["monthlyBudget"] # -1, "monthlyBudget"))
           a2 == RequireObject(cfg, "alertEmails")
           a3 == optionalObject(cfg, "thresholds")
           a4 == BudgetsApply(x)
           s == <<a1, a2, a3, a4>>
<1>1. r = Run(s)
  BY DEF applyBudget
<1>2. Fine(a1, e, at) /\ Within(a1, T) /\ Once(a1) /\ Len(a1.regs) = 0
  BY MustFacts
<1>3. /\ Fine(a2, e, at) /\ Within(a2, T) /\ Once(a2) /\ Len(a2.regs) = 0
      /\ a2.err = "nil" => cfg.obj["alertEmails"].ok
  BY ObjectFacts
<1>4. /\ Fine(a3, e, at) /\ Within(a3, T) /\ Once(a3) /\ Len(a3.regs) = 0
      /\ a3.err = "nil" => cfg.obj["thresholds"].ok
  BY ObjectFacts
<1>5. Fine(a4, e, at) /\ Within(a4, T) /\ Once(a4)
  <2>1. x.AlertEmails = cfg.obj["alertEmails"].v
    OBVIOUS
  <2> HIDE DEF x
  <2>2. IsList(x.AlertEmails) /\ \A i \in 1..Len(x.AlertEmails) : IsList(x.AlertEmails[i])
    BY <2>1, ConfigFacts
  <2>3. Makes(BudgetsApply(x), e, at, T)
    BY <2>2, BudgetsMake
  <2> QED BY <2>3 DEF Makes
<1> HIDE DEF a1, a2, a3, a4, T
<1>6. s \in Seq({a1, a2, a3, a4}) /\ Len(s) = 4 /\ s[1] = a1 /\ s[2] = a2 /\ s[3] = a3 /\ s[4] = a4
  OBVIOUS
<1>7. IsList(s)
  BY <1>6 DEF IsList
<1> HIDE DEF s
<1>8. \A i \in 1..Len(s) : i \in {1, 2, 3, 4}
  BY <1>6
<1>9. \A i \in 1..Len(s) : Fine(s[i], e, at) /\ Within(s[i], T)
  BY <1>2, <1>3, <1>4, <1>5, <1>6, <1>8
<1>10. \A i \in 1..Len(s) : Once(s[i]) /\ (i \in {4} \/ Len(s[i].regs) = 0)
  BY <1>2, <1>3, <1>4, <1>5, <1>6, <1>8
<1>11. \A i \in 1..Len(s) : IsList(s[i].regs)
  BY <1>9, FineList
<1>12. \A i, j \in {4} : j < i => ~Shares(s[j], s[i])
  OBVIOUS
<1>13. Once(Run(s))
  <2>1. PICK K : K = {4}
    OBVIOUS
  <2>2. \A i \in 1..Len(s) : Once(s[i])
    BY <1>10
  <2>3. \A i \in 1..Len(s) : i \in K \/ Len(s[i].regs) = 0
    BY <1>10, <2>1
  <2>4. \A i, j \in K : j < i => ~Shares(s[j], s[i])
    BY <1>12, <2>1
  <2> QED BY <1>7, <1>11, <2>2, <2>3, <2>4, SparseOnce
<1>14. Fine(Run(s), e, at) /\ Within(Run(s), T)
  BY <1>7, <1>9, AllFine
<1>15. 2 \in 1..Len(s) /\ 3 \in 1..Len(s)
  BY <1>6
<1>16. Run(s).err = "nil" => a2.err = "nil" /\ a3.err = "nil"
  BY <1>6, <1>7, <1>9, <1>15, FineRun
<1> QED BY <1>1, <1>3, <1>4, <1>13, <1>14, <1>16 DEF Makes, T

\* finops.Apply: sound, nothing twice, what it reads is well formed.
LEMMA FinopsMakes ==
  ASSUME NEW w, NEW cfg, IsConfig(cfg), NEW params, NEW e,
         NEW place, place = finopsPlacement(w, cfg, params),
         NEW at, at = <<place.at["folderID"], place.at["billingAccount"]>>,
         NEW r, r = FinopsApply(w, cfg, params)
  PROVE  /\ Fine(r, e, at) /\ Once(r)
         /\ r.err = "nil" => cfg.obj["alertEmails"].ok /\ cfg.obj["thresholds"].ok
<1> DEFINE name == cfg.text["projectName"]
           apis == <<<<"bigquery">>, <<"monitoring">>, <<"billingbudgets">>>>
           x == [ID |-> <<"billing_export">>, FriendlyName |-> <<"billing">>,
                 Location |-> Or(cfg.text["region"], <<"europe-west4">>)]
           a1 == Require(cfg, "projectName")
           a2 == place.run
           a3 == Project(name, place, apis)
           a4 == DatasetsApply(x, <<>>)
           a5 == applyBudget(cfg, place)
           a6 == ProjectId(name)
           a7 == Export(<<"billingDatasetId">>, <<"billing_export">>)
           s == <<a1, a2, a3, a4, a5, a6, a7>>
<1>1. r = Run(s)
  BY DEF FinopsApply
<1>2. IsList(name)
  BY ConfigFacts DEF Keys
<1>3. IsList(apis) /\ \A i \in 1..Len(apis) : IsList(apis[i])
  <2>1. PICK b1, b2, b3 : b1 = <<"bigquery">> /\ b2 = <<"monitoring">> /\ b3 = <<"billingbudgets">>
    OBVIOUS
  <2>2. IsList(b1) /\ IsList(b2) /\ IsList(b3)
    BY <2>1, OneList
  <2>3. PICK q : q = <<b1, b2, b3>>
    OBVIOUS
  <2>4. IsList(q) /\ Len(q) = 3 /\ q[1] = b1 /\ q[2] = b2 /\ q[3] = b3
    BY <2>3, TripleList
  <2>5. \A i \in 1..Len(q) : i = 1 \/ i = 2 \/ i = 3
    BY <2>4
  <2>6. apis = q
    BY <2>1, <2>3
  <2> HIDE DEF apis
  <2> QED BY <2>2, <2>4, <2>5, <2>6
<1>4. /\ Fine(a1, e, at) /\ Once(a1) /\ Len(a1.regs) = 0
      /\ Fine(a6, e, at) /\ Once(a6) /\ Len(a6.regs) = 0
      /\ Fine(a7, e, at) /\ Once(a7) /\ Len(a7.regs) = 0
  <2>1. Fine(a1, e, at) /\ Once(a1) /\ Len(a1.regs) = 0
    BY RequireFacts
  <2>2. Fine(a6, e, at) /\ Once(a6) /\ Len(a6.regs) = 0
    BY ExportFacts DEF ProjectId
  <2>3. Fine(a7, e, at) /\ Once(a7) /\ Len(a7.regs) = 0
    BY ExportFacts
  <2> QED BY <2>1, <2>2, <2>3
<1>5. Makes(a2, e, at, {"stackReference"})
  BY SiteFields, PlacementMakes DEF finopsPlacement
<1>6. Makes(a3, e, at, {"project", "service"})
  <2> HIDE DEF name, apis
  <2> QED BY <1>2, <1>3, ProjectMakes
<1>7. Makes(a4, e, at, {"dataset"})
  <2> HIDE DEF x
  <2>1. PICK o : o = <<>> /\ Covered(o, e)
    BY NoOptions
  <2>2. Makes(DatasetsApply(x, o), e, at, {"dataset"})
    BY <2>1, DatasetsMake
  <2> QED BY <2>1, <2>2
<1>8. /\ Makes(a5, e, at, {"channel", "budget"})
      /\ a5.err = "nil" => cfg.obj["alertEmails"].ok /\ cfg.obj["thresholds"].ok
  BY BudgetMakes
<1> HIDE DEF a1, a2, a3, a4, a5, a6, a7
<1>9. /\ s \in Seq({a1, a2, a3, a4, a5, a6, a7}) /\ Len(s) = 7
      /\ s[1] = a1 /\ s[2] = a2 /\ s[3] = a3 /\ s[4] = a4 /\ s[5] = a5 /\ s[6] = a6 /\ s[7] = a7
  OBVIOUS
<1>10. IsList(s)
  BY <1>9 DEF IsList
<1> HIDE DEF s
<1>11. \A i \in 1..Len(s) : i \in {1, 2, 3, 4, 5, 6, 7}
  BY <1>9
<1>12. \A i \in 1..Len(s) : Fine(s[i], e, at) /\ Once(s[i])
  BY <1>4, <1>5, <1>6, <1>7, <1>8, <1>9, <1>11 DEF Makes
<1>13. \A i \in 1..Len(s) : IsList(s[i].regs)
  BY <1>12, FineList
<1>14. \A i \in 1..Len(s) : i \in {2, 3, 4, 5} \/ Len(s[i].regs) = 0
  BY <1>4, <1>9, <1>11
<1>15. /\ ~Shares(a2, a3) /\ ~Shares(a2, a4) /\ ~Shares(a2, a5)
       /\ ~Shares(a3, a4) /\ ~Shares(a3, a5) /\ ~Shares(a4, a5)
  <2>1. /\ Within(a2, {"stackReference"}) /\ Within(a3, {"project", "service"})
        /\ Within(a4, {"dataset"}) /\ Within(a5, {"channel", "budget"})
    BY <1>5, <1>6, <1>7, <1>8 DEF Makes
  <2>2. ~Shares(a2, a3)
    BY <2>1, TypesApart
  <2>3. ~Shares(a2, a4)
    BY <2>1, TypesApart
  <2>4. ~Shares(a2, a5)
    BY <2>1, TypesApart
  <2>5. ~Shares(a3, a4)
    BY <2>1, TypesApart
  <2>6. ~Shares(a3, a5)
    BY <2>1, TypesApart
  <2>7. ~Shares(a4, a5)
    BY <2>1, TypesApart
  <2> QED BY <2>2, <2>3, <2>4, <2>5, <2>6, <2>7
<1>16. \A i, j \in {2, 3, 4, 5} : j < i => ~Shares(s[j], s[i])
  BY <1>9, <1>15
<1>17. Once(Run(s))
  <2>1. PICK K : K = {2, 3, 4, 5}
    OBVIOUS
  <2>2. \A i \in 1..Len(s) : Once(s[i])
    BY <1>12
  <2>3. \A i \in 1..Len(s) : i \in K \/ Len(s[i].regs) = 0
    BY <1>14, <2>1
  <2>4. \A i, j \in K : j < i => ~Shares(s[j], s[i])
    BY <1>16, <2>1
  <2> QED BY <1>10, <1>13, <2>2, <2>3, <2>4, SparseOnce
<1>18. 5 \in 1..Len(s)
  BY <1>9
<1>19. Fine(Run(s), e, at) /\ (Run(s).err = "nil" => a5.err = "nil")
  BY <1>9, <1>10, <1>12, <1>18, FineRun
<1> QED BY <1>1, <1>8, <1>17, <1>19
-----------------------------------------------------------------------------
\* The sink's filter holds no character that would end a clause.
Narrow(f) == /\ <<"quote", "ok", "quote">> \in ToSet(f)
             /\ \A i \in DOMAIN f : \A k \in DOMAIN f[i] : f[i][k] \notin {"bad", "%bad", "%"}

\* A log name that validates is clean, also when escapes are resolved.
LEMMA NameIsClean ==
  ASSUME NEW name, validateSinkLogName(name) = "nil"
  PROVE  \A k \in DOMAIN name : name[k] \notin {"bad", "%bad", "%"}
<1>1. /\ sinkLogNamePattern(name) /\ \A i \in DOMAIN name : name[i] # "%"
      /\ sinkLogNamePattern(Unescaped(name))
  BY DEF validateSinkLogName, Check
<1>2. \A i \in DOMAIN name : name[i] # "bad"
  BY <1>1 DEF sinkLogNamePattern
<1>3. \A i \in DOMAIN name : Unescaped(name)[i] # "bad"
  BY <1>1 DEF sinkLogNamePattern, Unescaped
<1>4. \A i \in DOMAIN name : name[i] # "%bad"
  BY <1>3 DEF Unescaped
<1> QED BY <1>1, <1>2, <1>4

\* Quoting adds nothing unclean.
LEMMA QuotedIsClean ==
  ASSUME NEW name, IsList(name), \A k \in DOMAIN name : name[k] \notin {"bad", "%bad", "%"}
  PROVE  \A k \in DOMAIN (<<"quote">> \o name \o <<"quote">>) :
           (<<"quote">> \o name \o <<"quote">>)[k] \notin {"bad", "%bad", "%"}
<1>1. PICK q : q = <<"quote">>
  OBVIOUS
<1>2. q = <<"quote">> /\ IsList(q) /\ Len(q) = 1 /\ q[1] = "quote"
  BY <1>1, OneList
<1> DEFINE x == q \o name
           y == x \o q
<1>3. /\ IsList(x) /\ Len(x) = 1 + Len(name) /\ Len(name) \in Nat
      /\ \A i \in 1..1 : x[i] = q[i]
      /\ \A i \in 1..Len(name) : x[1 + i] = name[i]
  BY <1>2, ConcatList
<1> HIDE DEF x
<1>4. /\ IsList(y) /\ Len(y) = Len(x) + 1 /\ Len(x) \in Nat
      /\ \A i \in 1..Len(x) : y[i] = x[i]
      /\ \A i \in 1..1 : y[Len(x) + i] = q[i]
  BY <1>2, <1>3, ConcatList
<1> HIDE DEF y
<1>5. DOMAIN y = 1..Len(y) /\ DOMAIN name = 1..Len(name)
  BY <1>4, ListFacts
<1>6. ASSUME NEW k \in DOMAIN y PROVE y[k] \notin {"bad", "%bad", "%"}
  <2>1. CASE k = 1
    <3>1. 1 \in 1..Len(x) /\ 1 \in 1..1
      BY <1>3
    <3>2. y[k] = "quote"
      BY <1>2, <1>3, <1>4, <2>1, <3>1
    <3> QED BY <3>2
  <2>2. CASE k \in 2..Len(x)
    <3>1. k \in 1..Len(x) /\ k - 1 \in 1..Len(name) /\ 1 + (k - 1) = k
      BY <1>3, <2>2
    <3>2. y[k] = name[k - 1]
      BY <1>3, <1>4, <3>1
    <3> QED BY <1>5, <3>1, <3>2
  <2>3. CASE k = Len(x) + 1
    <3>1. y[k] = "quote"
      BY <1>2, <1>4, <2>3
    <3> QED BY <3>1
  <2>4. k = 1 \/ k \in 2..Len(x) \/ k = Len(x) + 1
    BY <1>4, <1>5
  <2> QED BY <2>1, <2>2, <2>3, <2>4
<1>7. <<"quote">> \o name \o <<"quote">> = y
  BY <1>2 DEF y, x
<1> QED BY <1>6, <1>7

\* The clause of the audit logs.
LEMMA QuotedOk == <<"quote">> \o <<"ok">> \o <<"quote">> = <<"quote", "ok", "quote">>
<1>1. PICK q, o, z : q = <<"quote">> /\ o = <<"ok">> /\ z = <<"quote", "ok", "quote">>
  OBVIOUS
<1>2. IsList(q) /\ Len(q) = 1 /\ q[1] = "quote"
  BY <1>1, OneList
<1>3. IsList(o) /\ Len(o) = 1 /\ o[1] = "ok"
  BY <1>1, OneList
<1>4. IsList(z) /\ Len(z) = 3 /\ z[1] = "quote" /\ z[2] = "ok" /\ z[3] = "quote"
  BY <1>1, TripleList
<1> DEFINE x == q \o o
           y == x \o q
<1>5. IsList(x) /\ Len(x) = 2 /\ (\A i \in 1..1 : x[i] = q[i]) /\ \A i \in 1..1 : x[1 + i] = o[i]
  <2>1. /\ IsList(x) /\ Len(x) = Len(q) + Len(o)
        /\ \A i \in 1..Len(q) : x[i] = q[i]
        /\ \A i \in 1..Len(o) : x[Len(q) + i] = o[i]
    <3>1. IsList(q) /\ IsList(o)
      BY <1>2, <1>3
    <3> QED BY <3>1, ConcatList
  <2> HIDE DEF x
  <2> QED BY <1>2, <1>3, <2>1
<1>6. x[1] = "quote" /\ x[2] = "ok"
  BY <1>2, <1>3, <1>5
<1> HIDE DEF x
<1>7. IsList(y) /\ Len(y) = 3 /\ (\A i \in 1..2 : y[i] = x[i]) /\ \A i \in 1..1 : y[2 + i] = q[i]
  <2>1. /\ IsList(y) /\ Len(y) = Len(x) + Len(q)
        /\ \A i \in 1..Len(x) : y[i] = x[i]
        /\ \A i \in 1..Len(q) : y[Len(x) + i] = q[i]
    <3>1. IsList(x) /\ IsList(q)
      BY <1>2, <1>5
    <3> QED BY <3>1, ConcatList
  <2> HIDE DEF y
  <2> QED BY <1>2, <1>5, <2>1
<1>8. y[1] = "quote" /\ y[2] = "ok" /\ y[3] = "quote"
  BY <1>2, <1>6, <1>7
<1> HIDE DEF y
<1>9. \A i \in 1..3 : i \in {1, 2, 3}
  OBVIOUS
<1>10. \A i \in 1..3 : y[i] = z[i]
  BY <1>4, <1>8, <1>9
<1>11. PICK S, T : y \in Seq(S) /\ z \in Seq(T)
  BY <1>4, <1>7 DEF IsList
<1>12. y \in Seq(S \cup T)
  BY <1>11, SeqDef
<1>13. z \in Seq(S \cup T)
  BY <1>11, SeqDef
<1>14. y = z
  BY <1>4, <1>7, <1>10, <1>12, <1>13, SeqEqual
<1> QED BY <1>1, <1>14 DEF x, y

\* The filter of names that validated.
LEMMA FilterIsNarrow ==
  ASSUME NEW cfg, IsConfig(cfg), sinkLogNamesFromConfig(cfg).err = "nil"
  PROVE  Narrow(sinkFilter(sinkLogNamesFromConfig(cfg).names))
<1> DEFINE extra == cfg.obj["sinkExtraLogNames"].v
           c == Check(cfg.obj["sinkExtraLogNames"].ok, "parse sinkExtraLogNames")
           g == [i \in DOMAIN extra |-> validateSinkLogName(extra[i])]
           z == <<c>> \o g
<1>1. First(z) = "nil" /\ sinkLogNamesFromConfig(cfg).names = defaultSinkLogNames \o extra
  BY DEF sinkLogNamesFromConfig
<1>2. IsList(extra) /\ \A i \in 1..Len(extra) : IsList(extra[i])
  BY ConfigFacts
<1>3. g = [i \in DOMAIN extra |-> g[i]]
  OBVIOUS
<1>4. \A i \in DOMAIN extra : g[i] = validateSinkLogName(extra[i])
  OBVIOUS
<1> HIDE DEF g, extra, c
<1>5. IsList(g) /\ Len(g) = Len(extra) /\ DOMAIN extra = 1..Len(extra) /\ Len(extra) \in Nat
  BY <1>2, <1>3, MapList
<1>6. \A i \in 1..Len(extra) : g[i] = "nil"
  <2>1. PICK o : o = <<c>>
    OBVIOUS
  <2>2. o = <<c>> /\ IsList(o) /\ Len(o) = 1
    BY <2>1, OneList
  <2>3. IsList(z) /\ Len(z) = 1 + Len(g) /\ \A i \in 1..Len(g) : z[1 + i] = g[i]
    <3>1. /\ IsList(o \o g) /\ Len(o \o g) = 1 + Len(g)
          /\ \A i \in 1..Len(g) : (o \o g)[1 + i] = g[i]
      BY <1>5, <2>2, ConcatList
    <3> QED BY <2>2, <3>1
  <2> HIDE DEF z
  <2>4. \A i \in 1..Len(z) : z[i] = "nil"
    BY <1>1, <2>3, FirstFacts
  <2> TAKE i \in 1..Len(extra)
  <2>5. 1 + i \in 1..Len(z)
    BY <1>5, <2>3
  <2> QED BY <1>5, <2>3, <2>4, <2>5
<1>7. \A i \in 1..Len(extra) : \A k \in DOMAIN extra[i] : extra[i][k] \notin {"bad", "%bad", "%"}
  BY <1>4, <1>5, <1>6, NameIsClean
<1>8. PICK ok : ok = <<"ok">>
  OBVIOUS
<1>9. IsList(ok) /\ \A k \in DOMAIN ok : ok[k] \notin {"bad", "%bad", "%"}
  <2>1. IsList(ok) /\ DOMAIN ok = {1} /\ ok[1] = "ok"
    BY <1>8, OneList
  <2> QED BY <2>1
<1>10. PICK o : o = <<ok>>
  OBVIOUS
<1>11. o = <<ok>> /\ IsList(o) /\ Len(o) = 1 /\ o[1] = ok
  BY <1>10, OneList
<1> DEFINE names == o \o extra
<1>12. /\ IsList(names) /\ Len(names) = 1 + Len(extra)
       /\ \A i \in 1..1 : names[i] = o[i]
       /\ \A i \in 1..Len(extra) : names[1 + i] = extra[i]
  BY <1>2, <1>11, ConcatList
<1>13. sinkLogNamesFromConfig(cfg).names = names
  BY <1>1, <1>8, <1>11 DEF defaultSinkLogNames
<1> HIDE DEF names
<1>14. DOMAIN names = 1..Len(names)
  BY <1>12, ListFacts
<1>15. ASSUME NEW i \in DOMAIN names
       PROVE  IsList(names[i]) /\ \A k \in DOMAIN names[i] : names[i][k] \notin {"bad", "%bad", "%"}
  <2>1. CASE i = 1
    <3>1. names[i] = ok
      BY <1>11, <1>12, <2>1
    <3> QED BY <1>9, <3>1
  <2>2. CASE i # 1
    <3>1. i - 1 \in 1..Len(extra) /\ i = 1 + (i - 1)
      BY <1>5, <1>12, <1>14, <2>2
    <3>2. names[i] = extra[i - 1]
      BY <1>12, <3>1
    <3> QED BY <1>2, <1>7, <3>1, <3>2
  <2> QED BY <2>1, <2>2
<1> DEFINE f == sinkFilter(names)
<1>16. DOMAIN f = DOMAIN names
       /\ \A i \in DOMAIN names : f[i] = <<"quote">> \o names[i] \o <<"quote">>
  BY DEF sinkFilter
<1> HIDE DEF f
<1>17. \A i \in DOMAIN f : \A k \in DOMAIN f[i] : f[i][k] \notin {"bad", "%bad", "%"}
  BY <1>15, <1>16, QuotedIsClean
<1>18. <<"quote", "ok", "quote">> \in ToSet(f)
  <2>1. 1 \in DOMAIN names /\ names[1] = ok
    BY <1>5, <1>11, <1>12, <1>14
  <2>2. f[1] = <<"quote">> \o <<"ok">> \o <<"quote">>
    BY <1>8, <1>16, <2>1
  <2>5. f[1] = <<"quote", "ok", "quote">>
    BY <2>2, QuotedOk
  <2> QED BY <1>16, <2>1, <2>5 DEF ToSet
<1> QED BY <1>13, <1>17, <1>18 DEF Narrow, f
\* observability
LEMMA ObservabilityMakes ==
  ASSUME NEW w, NEW cfg, IsConfig(cfg), NEW params, NEW e,
         NEW place, place = observabilityPlacement(w, cfg, params),
         NEW at, at = <<place.at["folderID"], place.at["billingAccount"]>>,
         NEW targets, targets = cfg.obj["uptimeTargets"].v,
         NEW r, r = ObservabilityApply(w, cfg, params)
  PROVE  /\ Fine(r, e, at)
         /\ r.err = "nil" =>
              /\ cfg.obj["uptimeTargets"].ok /\ cfg.obj["sinkExtraLogNames"].ok
              /\ Narrow(sinkFilter(sinkLogNamesFromConfig(cfg).names))
         /\ (\A i, j \in 1..Len(targets) : targets[i].DisplayName = targets[j].DisplayName => i = j)
            => Once(r)
<1> DEFINE name == cfg.text["projectName"]
           apis == <<<<"bigquery">>, <<"logging">>, <<"monitoring">>>>
           x == [ID |-> <<"org_logs">>, FriendlyName |-> <<"logs">>,
                 Location |-> Or(cfg.text["region"], <<"europe-west4">>)]
           y == [Name |-> <<"org-audit-to-bigquery">>, OrgID |-> place.at["orgID"]]
           a1 == Require(cfg, "projectName")
           a2 == place.run
           a3 == Project(name, place, apis)
           a4 == DatasetsApply(x, <<>>)
           a5 == Must(sinkLogNamesFromConfig(cfg).err)
           a6 == LogsinksApply(y)
           a7 == applyMonitoring(w, cfg, place)
           a8 == ProjectId(name)
           a9 == Export(<<"logDatasetId">>, <<"org_logs">>)
           a10 == Export(<<"sinkWriterIdentity">>, <<"writer">>)
           s == <<a1, a2, a3, a4, a5, a6, a7, a8, a9, a10>>
<1>1. r = Run(s)
  BY DEF ObservabilityApply
<1>2. IsList(name)
  BY ConfigFacts DEF Keys
<1>3. IsList(apis) /\ \A i \in 1..Len(apis) : IsList(apis[i])
  <2>1. PICK b1, b2, b3 : b1 = <<"bigquery">> /\ b2 = <<"logging">> /\ b3 = <<"monitoring">>
    OBVIOUS
  <2>2. IsList(b1) /\ IsList(b2) /\ IsList(b3)
    BY <2>1, OneList
  <2>3. PICK q : q = <<b1, b2, b3>>
    OBVIOUS
  <2>4. IsList(q) /\ Len(q) = 3 /\ q[1] = b1 /\ q[2] = b2 /\ q[3] = b3
    BY <2>3, TripleList
  <2>5. \A i \in 1..Len(q) : i = 1 \/ i = 2 \/ i = 3
    BY <2>4
  <2>6. apis = q
    BY <2>1, <2>3
  <2> HIDE DEF apis
  <2> QED BY <2>2, <2>4, <2>5, <2>6
<1>4. /\ Fine(a1, e, at) /\ Once(a1) /\ Len(a1.regs) = 0
      /\ Fine(a5, e, at) /\ Once(a5) /\ Len(a5.regs) = 0
      /\ Fine(a8, e, at) /\ Once(a8) /\ Len(a8.regs) = 0
      /\ Fine(a9, e, at) /\ Once(a9) /\ Len(a9.regs) = 0
      /\ Fine(a10, e, at) /\ Once(a10) /\ Len(a10.regs) = 0
  <2>1. Fine(a1, e, at) /\ Once(a1) /\ Len(a1.regs) = 0
    BY RequireFacts
  <2>2. Fine(a8, e, at) /\ Once(a8) /\ Len(a8.regs) = 0
    BY ExportFacts DEF ProjectId
  <2>3. Fine(a9, e, at) /\ Once(a9) /\ Len(a9.regs) = 0
    BY ExportFacts
  <2>4. Fine(a10, e, at) /\ Once(a10) /\ Len(a10.regs) = 0
    BY ExportFacts
  <2>5. Fine(a5, e, at) /\ Once(a5) /\ Len(a5.regs) = 0
    BY MustFacts
  <2> QED BY <2>1, <2>2, <2>3, <2>4, <2>5
<1>5. /\ Makes(a2, e, at, {"stackReference"})
      /\ Named(a2, {<<"stackReference", place.stack>>})
      /\ ~place.asks => Len(a2.regs) = 0
  BY SiteFields, PlacementMakes DEF observabilityPlacement
<1>6. Makes(a3, e, at, {"project", "service"})
  <2> HIDE DEF name, apis
  <2> QED BY <1>2, <1>3, ProjectMakes
<1>7. Makes(a4, e, at, {"dataset"})
  <2> HIDE DEF x
  <2>1. PICK o : o = <<>> /\ Covered(o, e)
    BY NoOptions
  <2>2. Makes(DatasetsApply(x, o), e, at, {"dataset"})
    BY <2>1, DatasetsMake
  <2> QED BY <2>1, <2>2
<1>8. a5.err = "nil" => /\ cfg.obj["sinkExtraLogNames"].ok
                        /\ Narrow(sinkFilter(sinkLogNamesFromConfig(cfg).names))
  <2> SUFFICES ASSUME a5.err = "nil"
               PROVE  /\ cfg.obj["sinkExtraLogNames"].ok
                      /\ Narrow(sinkFilter(sinkLogNamesFromConfig(cfg).names))
    OBVIOUS
  <2>1. sinkLogNamesFromConfig(cfg).err = "nil"
    BY MustFacts
  <2>2. cfg.obj["sinkExtraLogNames"].ok
    <3> DEFINE c == Check(cfg.obj["sinkExtraLogNames"].ok, "parse sinkExtraLogNames")
               extra == cfg.obj["sinkExtraLogNames"].v
               g == [i \in DOMAIN extra |-> validateSinkLogName(extra[i])]
    <3>1. First(<<c>> \o g) = "nil"
      BY <2>1 DEF sinkLogNamesFromConfig
    <3>2. g = [i \in DOMAIN extra |-> g[i]]
      OBVIOUS
    <3>3. IsList(extra)
      BY ConfigFacts
    <3>4. c = "nil" => cfg.obj["sinkExtraLogNames"].ok
      BY DEF Check
    <3> HIDE DEF c, g, extra
    <3>5. IsList(g)
      BY <3>2, <3>3, MapList
    <3>6. PICK o : o = <<c>>
      OBVIOUS
    <3>7. IsList(o) /\ Len(o) = 1 /\ o[1] = c
      BY <3>6, OneList
    <3> DEFINE z == o \o g
    <3>8. IsList(z) /\ Len(z) = Len(o) + Len(g) /\ Len(g) \in Nat /\ \A i \in 1..Len(o) : z[i] = o[i]
      BY <3>5, <3>7, ConcatList
    <3> HIDE DEF z
    <3>9. z[1] = c /\ 1 \in 1..Len(z)
      BY <3>7, <3>8
    <3>10. First(z) = "nil"
      BY <3>1, <3>6 DEF z
    <3>11. z[1] = "nil"
      BY <3>8, <3>9, <3>10, FirstFacts
    <3> QED BY <3>4, <3>9, <3>11
  <2> QED BY <2>1, <2>2, FilterIsNarrow
<1>9. Makes(a6, e, at, {"sink"})
  BY LogsinksMake
<1>10. /\ Fine(a7, e, at) /\ Within(a7, Monitors)
       /\ a7.err = "nil" => cfg.obj["uptimeTargets"].ok
       /\ place.asks => Avoids(a7, <<"stackReference", place.stack>>)
       /\ (\A i, j \in 1..Len(targets) : targets[i].DisplayName = targets[j].DisplayName => i = j)
          => Once(a7)
  <2>1. cfg.obj["uptimeTargets"] \in Block(Target)
    BY DEF IsConfig
  <2>2. targets \in Seq(Target)
    BY <2>1 DEF Block
  <2>3. IsList(targets) /\ \A i \in 1..Len(targets) : IsList(targets[i].DisplayName)
    <3>1. \A i \in 1..Len(targets) : targets[i] \in Target
      BY <2>2
    <3>2. \A t \in Target : t.DisplayName \in Text
      BY DEF Target
    <3> QED BY <2>2, <3>1, <3>2 DEF IsList, Text
  <2> HIDE DEF a7
  <2> QED BY <2>3, MonitoringMakes DEF a7
<1> HIDE DEF a1, a2, a3, a4, a5, a6, a7, a8, a9, a10
<1>11. /\ s \in Seq({a1, a2, a3, a4, a5, a6, a7, a8, a9, a10}) /\ Len(s) = 10
       /\ s[1] = a1 /\ s[2] = a2 /\ s[3] = a3 /\ s[4] = a4 /\ s[5] = a5 /\ s[6] = a6 /\ s[7] = a7
       /\ s[8] = a8 /\ s[9] = a9 /\ s[10] = a10
  OBVIOUS
<1>12. IsList(s)
  BY <1>11 DEF IsList
<1> HIDE DEF s
<1>13. \A i \in 1..Len(s) : i \in {1, 2, 3, 4, 5, 6, 7, 8, 9, 10}
  BY <1>11
<1>14. \A i \in 1..Len(s) : Fine(s[i], e, at)
  BY <1>4, <1>5, <1>6, <1>7, <1>9, <1>10, <1>11, <1>13 DEF Makes
<1>15. 5 \in 1..Len(s) /\ 7 \in 1..Len(s)
  BY <1>11
<1>16. Fine(Run(s), e, at) /\ (Run(s).err = "nil" => a5.err = "nil" /\ a7.err = "nil")
  BY <1>11, <1>12, <1>14, <1>15, FineRun
<1>17. ASSUME \A i, j \in 1..Len(targets) : targets[i].DisplayName = targets[j].DisplayName => i = j
       PROVE  Once(Run(s))
  <2>1. \A i \in 1..Len(s) : Once(s[i])
    BY <1>4, <1>5, <1>6, <1>7, <1>9, <1>10, <1>11, <1>13, <1>17 DEF Makes
  <2>2. PICK K : K = {2, 3, 4, 6, 7}
    OBVIOUS
  <2>3. \A i \in 1..Len(s) : i \in K \/ Len(s[i].regs) = 0
    BY <1>4, <1>11, <1>13, <2>2
  <2>4. \A i \in 1..Len(s) : IsList(s[i].regs)
    BY <1>14, FineList
  <2>5. /\ Within(a2, {"stackReference"}) /\ Within(a3, {"project", "service"})
        /\ Within(a4, {"dataset"}) /\ Within(a6, {"sink"}) /\ Within(a7, Monitors)
    BY <1>5, <1>6, <1>7, <1>9, <1>10 DEF Makes
  <2>6. /\ {"project", "service"} \cap Monitors = {} /\ {"dataset"} \cap Monitors = {}
        /\ {"sink"} \cap Monitors = {}
    BY DEF Monitors
  <2>7. ~Shares(a2, a3)
    BY <2>5, TypesApart
  <2>8. ~Shares(a2, a4)
    BY <2>5, TypesApart
  <2>9. ~Shares(a2, a6)
    BY <2>5, TypesApart
  <2>10. ~Shares(a3, a4)
    BY <2>5, TypesApart
  <2>11. ~Shares(a3, a6)
    BY <2>5, TypesApart
  <2>12. ~Shares(a3, a7)
    BY <2>5, <2>6, TypesApart
  <2>13. ~Shares(a4, a6)
    BY <2>5, TypesApart
  <2>14. ~Shares(a4, a7)
    BY <2>5, <2>6, TypesApart
  <2>15. ~Shares(a6, a7)
    BY <2>5, <2>6, TypesApart
  <2>16. ~Shares(a2, a7)
    <3>1. CASE ~place.asks
      BY <1>5, <3>1, NoneShared
    <3>2. CASE place.asks
      BY <1>5, <1>10, <3>2 DEF Shares, Named, Avoids
    <3> QED BY <3>1, <3>2
  <2>17. \A i, j \in K : j < i => ~Shares(s[j], s[i])
    BY <1>11, <2>2, <2>7, <2>8, <2>9, <2>10, <2>11, <2>12, <2>13, <2>14, <2>15, <2>16
  <2> QED BY <1>12, <2>1, <2>3, <2>4, <2>17, SparseOnce
<1> QED BY <1>1, <1>8, <1>10, <1>16, <1>17
\* governance
LEMMA ExportsMake ==
  ASSUME NEW f, IsList(f), NEW e, NEW at, \A i \in 1..Len(f) : \E k, v : f[i] = Export(k, v)
  PROVE  Fine(Run(f), e, at) /\ Len(Run(f).regs) = 0
<1>1. \A i \in 1..Len(f) : Fine(f[i], e, at) /\ Len(f[i].regs) = 0
  BY ExportFacts
<1>2. Fine(Run(f), e, at)
  BY <1>1, FineRun
<1>3. \A i \in 1..Len(f) : Named(f[i], {})
  BY <1>1, FineList, EmptyNames
<1>4. Named(Run(f), {})
  BY <1>3, RunNames
<1>5. Len(Run(f).regs) \in Nat /\ ~(1 \in 1..Len(Run(f).regs))
  BY <1>4, ListFacts DEF Named
<1> QED BY <1>2, <1>5

\* governance.Apply on each tier: the plan was validated before anything is made.
LEMMA GovernanceMakes ==
  ASSUME NEW cfg, IsConfig(cfg), NEW e, NEW at, NEW r, r = GovernanceApply(cfg)
  PROVE  /\ Fine(r, e, at) /\ Once(r)
         /\ r.err = "nil" =>
              /\ cfg.text["tier"] # <<"starter">> => cfg.obj["environments"].ok
              /\ cfg.text["tier"] = <<"enterprise">> => cfg.obj["tagKeys"].ok
<1> DEFINE parent == cfg.text["parent"]
           root == cfg.text["rootFolder"]
           scope == ParseScope(parent)
           orgID == IF SupportsOrgExport(scope.scope) THEN OrgID(parent) ELSE Empty
           tier == cfg.text["tier"]
           p == CASE tier = <<"starter">> -> NewStarter(scope.scope, parent, root, orgID)
                  [] tier = <<"enterprise">> -> enterprisePlan(cfg, orgID)
                  [] OTHER -> NewStandard(scope.scope, parent, root,
                                          cfg.obj["environments"].v, orgID)
           tags == SupportsClassification(p.plan.Scope) /\ p.plan.Dimensions # <<>>
           id(n) == <<"id">> \o n
           ds == IF tags THEN p.plan.Dimensions ELSE <<>>
           cs == p.plan.Hierarchy.Children
           f == [i \in DOMAIN ds |-> Export(TagKeyID(ds[i].ShortName), id(ds[i].ShortName))]
           g == [i \in DOMAIN cs |-> Export(<<"folderIds">> \o cs[i], id(cs[i]))]
           a1 == Require(cfg, "parent")
           a2 == Require(cfg, "rootFolder")
           a3 == Must(scope.err)
           a4 == IF tier = <<"starter">> THEN Ok ELSE RequireObject(cfg, "environments")
           a5 == IF tier = <<"enterprise">> THEN optionalObject(cfg, "tagKeys") ELSE Ok
           a6 == Must(p.err)
           a7 == FoldersApply(p.plan.Hierarchy, <<>>)
           a8 == IF tags THEN TagkeysApply(p.plan.OrgID, p.plan.Dimensions, <<>>) ELSE Ok
           a9 == Run(f)
           a10 == IF p.plan.BillingAccount = Empty THEN Ok
                  ELSE Export(<<"billingAccount">>, p.plan.BillingAccount)
           a11 == Export(<<"rootFolderId">>, id(root))
           a12 == Run(g)
           a13 == IF SupportsOrgExport(p.plan.Scope) THEN Export(<<"orgId">>, p.plan.OrgID) ELSE Ok
           s == <<a1, a2, a3, a4, a5, a6, a7, a8, a9, a10, a11, a12, a13>>
<1>1. r = Run(s)
  BY DEF GovernanceApply, Each
<1>2. IsList(cs) /\ IsList(p.plan.Dimensions)
  <2>1. IsList(cfg.obj["environments"].v) /\ IsList(cfg.obj["tagKeys"].v) /\ IsList(<<>>)
    BY ConfigFacts, OkFacts
  <2>2. CASE tier = <<"starter">>
    BY <2>1, <2>2 DEF NewStarter, Checked
  <2>3. CASE tier # <<"starter">> /\ tier = <<"enterprise">>
    BY <2>1, <2>3 DEF enterprisePlan, NewEnterprise, Checked
  <2>4. CASE tier # <<"starter">> /\ tier # <<"enterprise">>
    BY <2>1, <2>4 DEF NewStandard, Checked
  <2> QED BY <2>2, <2>3, <2>4
<1> HIDE DEF p, scope, orgID, tier
<1>3. IsList(ds)
  BY <1>2, OkFacts
<1> DEFINE E(a) == Fine(a, e, at) /\ Once(a) /\ Len(a.regs) = 0
<1>4. E(a1) /\ E(a2)
  BY RequireFacts
<1>5. E(a3) /\ E(a6)
  BY MustFacts
<1>6. E(a4) /\ (a4.err = "nil" /\ tier # <<"starter">> => cfg.obj["environments"].ok)
  <2>1. CASE tier = <<"starter">>
    BY <2>1, OkIsFine
  <2>2. CASE tier # <<"starter">>
    BY <2>2, ObjectFacts
  <2> QED BY <2>1, <2>2
<1>7. E(a5) /\ (a5.err = "nil" /\ tier = <<"enterprise">> => cfg.obj["tagKeys"].ok)
  <2>1. CASE tier = <<"enterprise">>
    BY <2>1, ObjectFacts
  <2>2. CASE tier # <<"enterprise">>
    BY <2>2, OkIsFine
  <2> QED BY <2>1, <2>2
<1>8. PICK o : o = <<>> /\ Covered(o, e)
  BY NoOptions
<1>9. Makes(a7, e, at, {"folder"})
  <2>1. Makes(FoldersApply(p.plan.Hierarchy, o), e, at, {"folder"})
    BY <1>2, <1>8, FoldersMake
  <2> QED BY <1>8, <2>1
<1>10. Makes(a8, e, at, {"tagKey"})
  <2>1. CASE tags
    <3>1. Makes(TagkeysApply(p.plan.OrgID, p.plan.Dimensions, o), e, at, {"tagKey"})
      BY <1>2, <1>8, TagkeysMake
    <3> QED BY <1>8, <2>1, <3>1
  <2>2. CASE ~tags
    BY <2>2, OkIsFine DEF Makes
  <2> QED BY <2>1, <2>2
<1>11. f = [i \in DOMAIN ds |-> f[i]] /\ g = [i \in DOMAIN cs |-> g[i]]
  OBVIOUS
<1>12. \A i \in DOMAIN ds : \E k, v : f[i] = Export(k, v)
  OBVIOUS
<1>13. \A i \in DOMAIN cs : \E k, v : g[i] = Export(k, v)
  OBVIOUS
<1> HIDE DEF f, g, ds, cs
<1>14. IsList(f) /\ Len(f) = Len(ds) /\ DOMAIN ds = 1..Len(ds)
  BY <1>3, <1>11, MapList
<1>15. IsList(g) /\ Len(g) = Len(cs) /\ DOMAIN cs = 1..Len(cs)
  BY <1>2, <1>11, MapList
<1>16. E(a9)
  <2>1. Fine(a9, e, at) /\ Len(a9.regs) = 0
    BY <1>12, <1>14, ExportsMake
  <2> QED BY <2>1 DEF Once
<1>17. E(a12)
  <2>1. Fine(a12, e, at) /\ Len(a12.regs) = 0
    BY <1>13, <1>15, ExportsMake
  <2> QED BY <2>1 DEF Once
<1>18. E(a10) /\ E(a11) /\ E(a13)
  <2>1. E(a10)
    BY ExportFacts, OkIsFine
  <2>2. E(a11)
    BY ExportFacts
  <2>3. E(a13)
    BY ExportFacts, OkIsFine
  <2> QED BY <2>1, <2>2, <2>3
<1> HIDE DEF a1, a2, a3, a4, a5, a6, a7, a8, a9, a10, a11, a12, a13
<1>19. /\ s \in Seq({a1, a2, a3, a4, a5, a6, a7, a8, a9, a10, a11, a12, a13}) /\ Len(s) = 13
       /\ s[1] = a1 /\ s[2] = a2 /\ s[3] = a3 /\ s[4] = a4 /\ s[5] = a5 /\ s[6] = a6 /\ s[7] = a7
       /\ s[8] = a8 /\ s[9] = a9 /\ s[10] = a10 /\ s[11] = a11 /\ s[12] = a12 /\ s[13] = a13
  OBVIOUS
<1>20. IsList(s)
  BY <1>19 DEF IsList
<1> HIDE DEF s
<1>21. \A i \in 1..Len(s) : i \in {1, 2, 3, 4, 5, 6, 7, 8, 9, 10, 11, 12, 13}
  BY <1>19
<1>22. \A i \in 1..Len(s) : E(s[i]) \/ (i = 7 /\ s[i] = a7) \/ (i = 8 /\ s[i] = a8)
  <2> HIDE DEF E
  <2> QED BY <1>4, <1>5, <1>6, <1>7, <1>16, <1>17, <1>18, <1>19, <1>21
<1>23. \A i \in 1..Len(s) : Fine(s[i], e, at) /\ Once(s[i])
  BY <1>9, <1>10, <1>22 DEF Makes
<1>24. {4, 5} \subseteq 1..Len(s)
  BY <1>19
<1>25. Fine(Run(s), e, at) /\ (Run(s).err = "nil" => a4.err = "nil" /\ a5.err = "nil")
  BY <1>19, <1>20, <1>23, <1>24, FineRun
<1>26. Once(Run(s))
  <2>1. PICK K : K = {7, 8}
    OBVIOUS
  <2>2. \A i \in 1..Len(s) : Once(s[i]) /\ IsList(s[i].regs)
    BY <1>23, FineList
  <2>3. \A i \in 1..Len(s) : i \in K \/ Len(s[i].regs) = 0
    BY <1>22, <2>1
  <2>4. ~Shares(a7, a8)
    BY <1>9, <1>10, TypesApart DEF Makes
  <2>5. \A i, j \in K : j < i => ~Shares(s[j], s[i])
    BY <1>19, <2>1, <2>4
  <2> QED BY <1>20, <2>2, <2>3, <2>5, SparseOnce
<1> QED BY <1>1, <1>6, <1>7, <1>25, <1>26 DEF tier
-----------------------------------------------------------------------------
\* Where a project of a case goes, and the cases that may name one twice.
PlaceOf(w, c) ==
  <<Chosen(c.params["folderID"], Output(w, c.cfg.text["governanceStack"], FolderKey(c)),
           c.cfg.text["folderID"]),
    Chosen(c.params["billingAccount"],
           Output(w, c.cfg.text["governanceStack"], <<"billingAccount">>),
           c.cfg.text["billingAccount"])>>
MayRepeat(c) ==
  \/ c.blueprint \notin {"governance", "observability", "finops", "tables"}
  \/ /\ c.blueprint = "observability"
     /\ Duplicate(c.cfg.obj["uptimeTargets"].v, LAMBDA t : t.DisplayName)
AllRead(c) == \A k \in Reads(c) : c.cfg.obj[k].ok

\* What the program of a case comes to.
ProgramIs(r, w, c, e) ==
  /\ Fine(r, e, PlaceOf(w, c))
  /\ Once(r) \/ MayRepeat(c)
  /\ r.err = "nil" =>
       /\ AllRead(c)
       /\ c.blueprint = "observability" =>
            Narrow(sinkFilter(sinkLogNamesFromConfig(c.cfg).names))

\* Duplicate found none.
LEMMA NoDuplicates ==
  ASSUME NEW items, IsList(items), ~Duplicate(items, LAMBDA t : t.DisplayName)
  PROVE  \A i, j \in 1..Len(items) : items[i].DisplayName = items[j].DisplayName => i = j
<1>1. DOMAIN items = 1..Len(items) /\ Len(items) \in Nat
  BY ListFacts
<1>2. \A i, j \in DOMAIN items : i < j => items[i].DisplayName # items[j].DisplayName
  BY DEF Duplicate
<1> QED BY <1>1, <1>2

\* Program: governance.
LEMMA GovernanceIs ==
  ASSUME NEW w, NEW c, IsConfig(c.cfg), NEW e, c.blueprint = "governance"
  PROVE  ProgramIs(Program(w, c), w, c, e)
<1>1. PICK at : at = PlaceOf(w, c)
  OBVIOUS
<1>2. PICK r : r = GovernanceApply(c.cfg)
  OBVIOUS
<1>3. /\ Fine(r, e, at) /\ Once(r)
      /\ r.err = "nil" =>
           /\ c.cfg.text["tier"] # <<"starter">> => c.cfg.obj["environments"].ok
           /\ c.cfg.text["tier"] = <<"enterprise">> => c.cfg.obj["tagKeys"].ok
  BY <1>2, GovernanceMakes
<1>4. Program(w, c) = r
  BY <1>2 DEF Program
<1>5. r.err = "nil" => AllRead(c)
  BY <1>3 DEF AllRead, Reads
<1> QED BY <1>1, <1>3, <1>4, <1>5 DEF ProgramIs

\* Program: observability.
LEMMA ObservabilityIs ==
  ASSUME NEW w, Empty \notin DOMAIN w, NEW c, IsConfig(c.cfg), NEW e,
         c.blueprint = "observability"
  PROVE  ProgramIs(Program(w, c), w, c, e)
<1>1. PICK place : place = observabilityPlacement(w, c.cfg, c.params)
  OBVIOUS
<1>2. PICK at : at = <<place.at["folderID"], place.at["billingAccount"]>>
  OBVIOUS
<1>3. PICK r : r = ObservabilityApply(w, c.cfg, c.params)
  OBVIOUS
<1>4. PICK targets : targets = c.cfg.obj["uptimeTargets"].v
  OBVIOUS
<1>5. /\ Fine(r, e, at)
      /\ r.err = "nil" =>
           /\ c.cfg.obj["uptimeTargets"].ok /\ c.cfg.obj["sinkExtraLogNames"].ok
           /\ Narrow(sinkFilter(sinkLogNamesFromConfig(c.cfg).names))
      /\ (\A i, j \in 1..Len(targets) : targets[i].DisplayName = targets[j].DisplayName => i = j)
         => Once(r)
  BY <1>1, <1>2, <1>3, <1>4, ObservabilityMakes
<1>6. FolderKey(c) = sharedFolder(c.cfg)
  BY DEF FolderKey
<1>7. at = PlaceOf(w, c)
  BY <1>1, <1>2, <1>6, PlacedAt DEF observabilityPlacement, PlaceOf
<1>8. Program(w, c) = r
  BY <1>3 DEF Program
<1>9. Reads(c) = {"uptimeTargets", "sinkExtraLogNames"}
  BY DEF Reads
<1>10. r.err = "nil" => AllRead(c)
  BY <1>5, <1>9 DEF AllRead
<1>11. IsList(targets)
  BY <1>4, ConfigFacts
<1>12. Once(r) \/ MayRepeat(c)
  <2>1. Duplicate(targets, LAMBDA t : t.DisplayName) => MayRepeat(c)
    BY <1>4 DEF MayRepeat
  <2>2. ~Duplicate(targets, LAMBDA t : t.DisplayName) => Once(r)
    BY <1>5, <1>11, NoDuplicates
  <2> QED BY <2>1, <2>2
<1> QED BY <1>5, <1>7, <1>8, <1>10, <1>12 DEF ProgramIs

\* Program: identity.
LEMMA IdentityIs ==
  ASSUME NEW w, Empty \notin DOMAIN w, NEW c, IsConfig(c.cfg), NEW e, c.blueprint = "identity"
  PROVE  ProgramIs(Program(w, c), w, c, e)
<1>1. PICK place : place = identityPlacement(w, c.cfg, c.params)
  OBVIOUS
<1>2. PICK at : at = <<place.at["folderID"], place.at["billingAccount"]>>
  OBVIOUS
<1>3. PICK r : r = IdentityApply(w, c.cfg, c.params, Resolves)
  OBVIOUS
<1>4. /\ Fine(r, e, at)
      /\ r.err = "nil" =>
           /\ c.cfg.obj["secrets"].ok /\ c.cfg.obj["consumerSAs"].ok
           /\ c.cfg.obj["serviceAccounts"].ok
           /\ c.cfg.obj["serviceAccounts"].v # <<>> => c.cfg.obj["impersonators"].ok
  BY <1>1, <1>2, <1>3, IdentityFine
<1>5. FolderKey(c) = sharedFolder(c.cfg)
  BY DEF FolderKey
<1>6. at = PlaceOf(w, c)
  BY <1>1, <1>2, <1>5, PlacedAt DEF identityPlacement, PlaceOf
<1>7. Program(w, c) = r
  BY <1>3 DEF Program
<1>8. Reads(c) = {"secrets", "consumerSAs", "serviceAccounts"}
        \cup (IF c.cfg.obj["serviceAccounts"].v = <<>> THEN {} ELSE {"impersonators"})
  BY DEF Reads
<1>9. r.err = "nil" => AllRead(c)
  BY <1>4, <1>8 DEF AllRead
<1> QED BY <1>4, <1>6, <1>7, <1>9 DEF ProgramIs, MayRepeat

\* Program: delivery.
LEMMA DeliveryIs ==
  ASSUME NEW w, Empty \notin DOMAIN w, NEW c, IsConfig(c.cfg), NEW e, c.blueprint = "delivery"
  PROVE  ProgramIs(Program(w, c), w, c, e)
<1>1. PICK place : place = deliveryPlacement(w, c.cfg, c.params)
  OBVIOUS
<1>2. PICK at : at = <<place.at["folderID"], place.at["billingAccount"]>>
  OBVIOUS
<1>3. PICK r : r = DeliveryApply(w, c.cfg, c.params)
  OBVIOUS
<1>4. /\ Fine(r, e, at)
      /\ r.err = "nil" /\ configured(c.cfg) =>
           c.cfg.obj["repositories"].ok /\ c.cfg.obj["consumerWorkloadStacks"].ok
  BY <1>1, <1>2, <1>3, DeliveryFine
<1>5. FolderKey(c) = sharedFolder(c.cfg)
  BY DEF FolderKey
<1>6. at = PlaceOf(w, c)
  BY <1>1, <1>2, <1>5, PlacedAt DEF deliveryPlacement, PlaceOf
<1>7. Program(w, c) = r
  BY <1>3 DEF Program
<1>8. Reads(c) = IF configured(c.cfg) THEN {"repositories", "consumerWorkloadStacks"} ELSE {}
  BY DEF Reads
<1>9. r.err = "nil" => AllRead(c)
  BY <1>4, <1>8 DEF AllRead
<1> QED BY <1>4, <1>6, <1>7, <1>9 DEF ProgramIs, MayRepeat

\* Program: finops.
LEMMA FinopsIs ==
  ASSUME NEW w, Empty \notin DOMAIN w, NEW c, IsConfig(c.cfg), NEW e, c.blueprint = "finops"
  PROVE  ProgramIs(Program(w, c), w, c, e)
<1>1. PICK place : place = finopsPlacement(w, c.cfg, c.params)
  OBVIOUS
<1>2. PICK at : at = <<place.at["folderID"], place.at["billingAccount"]>>
  OBVIOUS
<1>3. PICK r : r = FinopsApply(w, c.cfg, c.params)
  OBVIOUS
<1>4. /\ Fine(r, e, at) /\ Once(r)
      /\ r.err = "nil" => c.cfg.obj["alertEmails"].ok /\ c.cfg.obj["thresholds"].ok
  BY <1>1, <1>2, <1>3, FinopsMakes
<1>5. FolderKey(c) = <<"rootFolderId">>
  BY DEF FolderKey
<1>6. at = PlaceOf(w, c)
  BY <1>1, <1>2, <1>5, PlacedAt DEF finopsPlacement, PlaceOf
<1>7. Program(w, c) = r
  BY <1>3 DEF Program
<1>8. Reads(c) = {"alertEmails", "thresholds"}
  BY DEF Reads
<1>9. r.err = "nil" => AllRead(c)
  BY <1>4, <1>8 DEF AllRead
<1> QED BY <1>4, <1>6, <1>7, <1>9 DEF ProgramIs

\* Program: workloads.
LEMMA WorkloadsIs ==
  ASSUME NEW w, Empty \notin DOMAIN w, NEW c, IsConfig(c.cfg), NEW e, c.blueprint = "workloads"
  PROVE  ProgramIs(Program(w, c), w, c, e)
<1>1. PICK place : place = workloadsPlacement(w, c.cfg, c.params)
  OBVIOUS
<1>2. PICK at : at = <<place.at["folderID"], place.at["billingAccount"]>>
  OBVIOUS
<1>3. PICK r : r = WorkloadsApply(w, c.cfg, c.params)
  OBVIOUS
<1>4. Fine(r, e, at) /\ (r.err = "nil" => c.cfg.obj["projects"].ok)
  BY <1>1, <1>2, <1>3, WorkloadsFine
<1>5. FolderKey(c) = <<"folderIds">> \o c.cfg.text["environmentFolder"]
  BY DEF FolderKey
<1>6. at = PlaceOf(w, c)
  BY <1>1, <1>2, <1>5, PlacedAt DEF workloadsPlacement, PlaceOf
<1>7. Program(w, c) = r
  BY <1>3 DEF Program
<1>8. Reads(c) = {"projects"}
  BY DEF Reads
<1>9. r.err = "nil" => AllRead(c)
  BY <1>4, <1>8 DEF AllRead
<1> QED BY <1>4, <1>6, <1>7, <1>9 DEF ProgramIs, MayRepeat

\* Program, whatever the blueprint.
LEMMA ProgramFacts ==
  ASSUME NEW w, Empty \notin DOMAIN w, NEW c, IsConfig(c.cfg), NEW e, Covered(c.opts, e)
  PROVE  ProgramIs(Program(w, c), w, c, e)
<1>1. CASE c.blueprint \in {"governance", "observability", "identity", "delivery", "finops",
                            "workloads"}
  BY <1>1, GovernanceIs, ObservabilityIs, IdentityIs, DeliveryIs, FinopsIs, WorkloadsIs
<1>2. CASE c.blueprint \notin {"governance", "observability", "identity", "delivery", "finops",
                               "workloads"}
  <2>1. PICK tt : tt = c.cfg.obj["tables"].v
    OBVIOUS
  <2>2. IsList(tt)
    BY <2>1, ConfigFacts
  <2>3. PICK opts : opts = c.opts
    OBVIOUS
  <2>4. PICK at : at = PlaceOf(w, c)
    OBVIOUS
  <2>5. Covered(opts, e)
    BY <2>3
  <2>6. Makes(TablesApply(tt, opts), e, at, {"table"})
    BY <2>2, <2>5, TablesMake
  <2>7. Program(w, c) = TablesApply(tt, opts)
    BY <1>2, <2>1, <2>3 DEF Program
  <2>8. Reads(c) = {}
    BY <1>2 DEF Reads
  <2> QED BY <1>2, <2>4, <2>6, <2>7, <2>8 DEF ProgramIs, Makes, AllRead
<1> QED BY <1>1, <1>2
-----------------------------------------------------------------------------
\* A resource in a stack's state: data is protected or of a disposable stack,
\* a project is in a folder and paid for.
Safe(x) ==
  /\ x.data => Kept(x.protect, x.eph)
  /\ x.type = "project" => x.at # Empty /\ x.at[1] # Empty /\ x.at[2] # Empty

\* Registered: what the state gets is what the program registered, and nothing
\* came twice if the program names nothing twice.
LEMMA RegisteredFacts ==
  ASSUME NEW r, IsList(r.regs), NEW opts, NEW at, NEW e, e = IsEphemeral(opts), Fine(r, e, at),
         NEW m, m = Registered(r, opts)
  PROVE  /\ \A x \in m.regs : Safe(x) /\ (x.type = "project" => x.at = at)
         /\ Once(r) => ~m.twice
<1> DEFINE q == r.regs
           bad == {j \in DOMAIN q : \E i \in 1 .. j - 1 : URN(q[i]) = URN(q[j])}
           upto == {i \in DOMAIN q : \A j \in bad : i < j}
           rec(i) == [type |-> q[i].type, name |-> q[i].name, protect |-> q[i].protect,
                      guard |-> q[i].guard, data |-> q[i].data, at |-> q[i].at,
                      eph |-> IsEphemeral(opts)]
<1>1. m.regs = {rec(i) : i \in upto} /\ m.twice = (bad # {})
  BY DEF Registered
<1>2. DOMAIN q = 1..Len(q) /\ Len(q) \in Nat
  BY ListFacts
<1>3. ASSUME NEW x \in m.regs PROVE Safe(x) /\ (x.type = "project" => x.at = at)
  <2>1. PICK i \in upto : x = rec(i)
    BY <1>1
  <2>2. i \in 1..Len(q)
    BY <1>2
  <2>3. Sturdy(q[i], e, at)
    BY <2>2 DEF Fine
  <2>4. /\ x.type = q[i].type /\ x.protect = q[i].protect /\ x.data = q[i].data
        /\ x.at = q[i].at /\ x.eph = IsEphemeral(opts)
    BY <2>1
  <2> HIDE DEF rec, upto, bad, q
  <2>5. x.data => Kept(x.protect, x.eph)
    BY <2>3, <2>4 DEF Sturdy
  <2> QED BY <2>3, <2>4, <2>5 DEF Safe, Sturdy
<1>4. Once(r) => bad = {}
  BY <1>2 DEF Once
<1> QED BY <1>1, <1>3, <1>4

\* An update, as its outcome has it.
LEMMA OutcomeFacts ==
  ASSUME NEW w, Empty \notin DOMAIN w, NEW c, IsConfig(c.cfg), NEW o, o = Outcome(w, c),
         \A x \in held[c.stack] : Safe(x)
  PROVE  \E regs :
           /\ \A x \in regs : Safe(x) /\ (x.type = "project" => x.at = PlaceOf(w, c))
           /\ o.all = Merged(held[c.stack], regs) /\ o.gone = o.all \ regs
           /\ o.free \subseteq o.gone
           /\ o.end \in {"twice", "failed", "refused", "stuck", "up"}
           /\ o.end = "twice" => MayRepeat(c)
           /\ o.end \in {"stuck", "up"} =>
                /\ \A g \in o.gone : ~g.protect
                /\ AllRead(c)
                /\ c.blueprint = "observability" =>
                     Narrow(sinkFilter(sinkLogNamesFromConfig(c.cfg).names))
<1>1. PICK r : r = Program(w, c)
  OBVIOUS
<1>2. PICK m : m = Registered(r, c.opts)
  OBVIOUS
<1>3. PICK e : e = IsEphemeral(c.opts)
  OBVIOUS
<1>4. Covered(c.opts, e)
  BY <1>3 DEF Covered, Kept, Protect
<1>5. ProgramIs(r, w, c, e)
  BY <1>1, <1>4, ProgramFacts
<1>6. PICK at : at = PlaceOf(w, c)
  OBVIOUS
<1>7. Fine(r, e, at) /\ IsList(r.regs)
  BY <1>5, <1>6 DEF ProgramIs, Fine
<1>8. /\ \A x \in m.regs : Safe(x) /\ (x.type = "project" => x.at = at)
      /\ Once(r) => ~m.twice
  BY <1>2, <1>3, <1>7, RegisteredFacts
<1> DEFINE all == Merged(held[c.stack], m.regs)
           gone == all \ m.regs
           free == {g \in gone : ~g.guard}
<1>9. /\ o.all = all /\ o.gone = gone /\ o.free = free
      /\ o.end = IF m.twice THEN "twice"
                 ELSE IF r.err # "nil" THEN "failed"
                 ELSE IF \E g \in gone : g.protect THEN "refused"
                 ELSE IF free # gone THEN "stuck" ELSE "up"
  BY <1>1, <1>2 DEF Outcome
<1> HIDE DEF all
<1>10. /\ o.end \in {"twice", "failed", "refused", "stuck", "up"}
       /\ o.end = "twice" => m.twice
       /\ o.end \in {"stuck", "up"} => r.err = "nil" /\ \A g \in gone : ~g.protect
  <2> HIDE DEF free, gone
  <2> QED BY <1>9
<1>11. o.end = "twice" => MayRepeat(c)
  BY <1>5, <1>8, <1>10 DEF ProgramIs
<1>12. o.end \in {"stuck", "up"} =>
         /\ AllRead(c)
         /\ c.blueprint = "observability" =>
              Narrow(sinkFilter(sinkLogNamesFromConfig(c.cfg).names))
  BY <1>5, <1>10 DEF ProgramIs
<1>13. o.free \subseteq o.gone /\ o.gone = o.all \ m.regs
  BY <1>9
<1>14. o.all = Merged(held[c.stack], m.regs)
  BY <1>9 DEF all
<1>15. \A x \in m.regs : Safe(x) /\ (x.type = "project" => x.at = PlaceOf(w, c))
  BY <1>6, <1>8
<1>16. o.end \in {"stuck", "up"} => \A g \in o.gone : ~g.protect
  BY <1>9, <1>10
<1> HIDE DEF gone, free
<1> WITNESS m.regs
<1> QED BY <1>10, <1>11, <1>12, <1>13, <1>14, <1>15, <1>16
\* The stacks: the inductive invariant.
StacksAreSafe == \A s \in Stacks : \A x \in held[s] : Safe(x)
StackInv == Sound /\ StacksAreSafe

\* No stack has the empty name.
LEMMA ReadableFacts == Empty \notin DOMAIN Readable
<1>1. Empty \notin Stacks
  BY CasesAssumption DEF Stacks
<1> QED BY <1>1 DEF Readable

\* What an update of c does: it reads w, comes to the outcome o with regs
\* registered, and takes away dead.
Updates(c, w, o, regs, dead) ==
  /\ \A x \in regs : Safe(x) /\ (x.type = "project" => x.at = PlaceOf(w, c))
  /\ o.all = Merged(held[c.stack], regs) /\ o.gone = o.all \ regs
  /\ dead \subseteq o.gone
  /\ o.end \in {"twice", "failed", "refused", "stuck", "up"}
  /\ o.end = "twice" => MayRepeat(c)
  /\ o.end \in {"stuck", "up"} =>
       /\ \A g \in o.gone : ~g.protect
       /\ AllRead(c)
       /\ c.blueprint = "observability" =>
            Narrow(sinkFilter(sinkLogNamesFromConfig(c.cfg).names))
  /\ o.end = "up" => dead = o.gone
  /\ o.end \notin {"stuck", "up"} => dead = {}
  /\ last' = [case |-> c, read |-> w, end |-> o.end]
  /\ \/ o.end \notin {"stuck", "up"} /\ held' = held
     \/ held' = [held EXCEPT ![c.stack] = o.all \ dead]
  /\ DOMAIN world' = DOMAIN world /\ ups' \in 0 .. MaxUps

\* An update, one of its steps.
LEMMA UpFacts ==
  ASSUME StackInv, NEW c \in Cases, Up(c)
  PROVE  \E w, o, regs, dead : Updates(c, w, o, regs, dead)
<1>1. c.stack \in Stacks /\ IsConfig(c.cfg)
  BY CasesAssumption DEF Stacks
<1>2. PICK w : w = Readable
  OBVIOUS
<1>3. PICK o : o = Outcome(w, c)
  OBVIOUS
<1>4. PICK preview \in BOOLEAN, dead \in SUBSET o.free :
          /\ ups' = ups + 1
          /\ last' = [case |-> c, read |-> w, end |-> o.end]
          /\ CASE o.end = "up" -> dead = o.gone
               [] o.end = "stuck" -> TRUE
               [] OTHER -> dead = {}
          /\ IF preview /\ o.end \in {"twice", "failed", "refused"}
             THEN UNCHANGED <<held, world>>
             ELSE /\ held' = [held EXCEPT ![c.stack] = o.all \ dead]
                  /\ world' = [world EXCEPT ![c.stack] =
                                  IF o.end \in {"twice", "failed"} THEN @ ELSE o.outs]
  BY <1>2, <1>3 DEF Up
<1>5. Empty \notin DOMAIN w
  BY <1>2, ReadableFacts
<1>6. \A x \in held[c.stack] : Safe(x)
  BY <1>1 DEF StackInv, StacksAreSafe
<1>7. PICK regs :
           /\ \A x \in regs : Safe(x) /\ (x.type = "project" => x.at = PlaceOf(w, c))
           /\ o.all = Merged(held[c.stack], regs) /\ o.gone = o.all \ regs
           /\ o.free \subseteq o.gone
           /\ o.end \in {"twice", "failed", "refused", "stuck", "up"}
           /\ o.end = "twice" => MayRepeat(c)
           /\ o.end \in {"stuck", "up"} =>
                /\ \A g \in o.gone : ~g.protect
                /\ AllRead(c)
                /\ c.blueprint = "observability" =>
                     Narrow(sinkFilter(sinkLogNamesFromConfig(c.cfg).names))
  BY <1>1, <1>3, <1>5, <1>6, OutcomeFacts
<1>8. o.end = "up" => dead = o.gone
  BY <1>4
<1>9. o.end \notin {"stuck", "up"} => dead = {}
  BY <1>4
<1>10. \/ o.end \notin {"stuck", "up"} /\ held' = held
       \/ held' = [held EXCEPT ![c.stack] = o.all \ dead]
  BY <1>4
<1>11. DOMAIN world' = DOMAIN world
  BY <1>4
<1>12. ups' \in 0 .. MaxUps
  <2>1. ups \in 0 .. MaxUps /\ ups < MaxUps
    BY DEF StackInv, Sound, TypeOK, Up
  <2> QED BY <1>4, <2>1, UpsAssumption
<1>13. last' = [case |-> c, read |-> w, end |-> o.end]
  BY <1>4
<1>14. dead \subseteq o.gone
  BY <1>7
<1>15. Updates(c, w, o, regs, dead)
  BY <1>7, <1>8, <1>9, <1>10, <1>11, <1>12, <1>13, <1>14 DEF Updates
<1> QED BY <1>15

\* Data leaves a stack only with an update that found everything in order, and
\* nothing protected leaves with that.
LEMMA UpKeepsData ==
  ASSUME StackInv, NEW c \in Cases, Up(c)
  PROVE  KeepsData
<1>0. PICK w, o, regs, dead : Updates(c, w, o, regs, dead)
  BY UpFacts
<1>1. /\ o.all = Merged(held[c.stack], regs) /\ o.gone = o.all \ regs
      /\ dead \subseteq o.gone
      /\ o.end \in {"stuck", "up"} => AllRead(c) /\ \A g \in o.gone : ~g.protect
      /\ o.end \notin {"stuck", "up"} => dead = {}
      /\ last' = [case |-> c, read |-> w, end |-> o.end]
      /\ \/ o.end \notin {"stuck", "up"} /\ held' = held
         \/ held' = [held EXCEPT ![c.stack] = o.all \ dead]
  BY <1>0 DEF Updates
<1> SUFFICES ASSUME NEW s \in Stacks, NEW r \in held[s],
                    \A n \in held'[s] : URN(n) # URN(r)
             PROVE  /\ r.data => r.eph
                    /\ \A k \in Reads(last'.case) : last'.case.cfg.obj[k].ok
  BY DEF KeepsData
<1>2. held'[s] # held[s]
  OBVIOUS
<1>3. DOMAIN held = Stacks
  BY DEF StackInv, Sound, TypeOK
<1>4. held' = [held EXCEPT ![c.stack] = o.all \ dead]
  BY <1>1, <1>2
<1>5. s = c.stack /\ held'[s] = o.all \ dead
  BY <1>2, <1>3, <1>4
<1>6. \A x \in regs : URN(x) # URN(r)
  BY <1>1, <1>5 DEF Merged
<1>7. r \in dead
  BY <1>1, <1>5, <1>6 DEF Merged
<1>8. ~r.protect /\ AllRead(c)
  BY <1>1, <1>7
<1>9. Safe(r)
  BY DEF StackInv, StacksAreSafe
<1>10. r.data => r.eph
  BY <1>8, <1>9 DEF Safe, Kept
<1>11. last'.case = c
  BY <1>1
<1> QED BY <1>8, <1>10, <1>11 DEF AllRead

\* An update preserves the invariant.
LEMMA UpKeepsInv ==
  ASSUME StackInv, NEW c \in Cases, Up(c)
  PROVE  StackInv'
<1>0. PICK w, o, regs, dead : Updates(c, w, o, regs, dead)
  BY UpFacts
<1>1. /\ \A x \in regs : Safe(x) /\ (x.type = "project" => x.at = PlaceOf(w, c))
      /\ o.all = Merged(held[c.stack], regs) /\ o.gone = o.all \ regs
      /\ dead \subseteq o.gone
      /\ o.end \in {"twice", "failed", "refused", "stuck", "up"}
      /\ o.end = "twice" => MayRepeat(c)
      /\ o.end = "up" /\ c.blueprint = "observability" =>
                Narrow(sinkFilter(sinkLogNamesFromConfig(c.cfg).names))
      /\ o.end = "up" => dead = o.gone
      /\ last' = [case |-> c, read |-> w, end |-> o.end]
      /\ \/ o.end \notin {"stuck", "up"} /\ held' = held
         \/ held' = [held EXCEPT ![c.stack] = o.all \ dead]
      /\ DOMAIN world' = DOMAIN world /\ ups' \in 0 .. MaxUps
  BY <1>0 DEF Updates
<1>2. DOMAIN held = Stacks /\ DOMAIN world = Stacks /\ c.stack \in Stacks
  BY DEF StackInv, Sound, TypeOK, Stacks
<1>3. last'.case = c /\ last'.read = w /\ last'.end = o.end
  BY <1>1
<1>4. TypeOK'
  BY <1>1, <1>2, <1>3 DEF TypeOK
<1>5. \A x \in o.all : Safe(x)
  BY <1>1, <1>2 DEF Merged, StackInv, StacksAreSafe
<1>6. StacksAreSafe'
  <2> SUFFICES ASSUME NEW s \in Stacks, NEW x \in held'[s] PROVE Safe(x)
    BY DEF StacksAreSafe
  <2>1. x \in held[s] \/ x \in o.all
    BY <1>1, <1>2
  <2> QED BY <1>5, <2>1 DEF StackInv, StacksAreSafe
<1>7. Placed'
  <2>1. \A s \in Stacks : \A r \in held'[s] :
          r.type = "project" => r.at # Empty /\ r.at[1] # Empty /\ r.at[2] # Empty
    BY <1>6 DEF StacksAreSafe, Safe
  <2>2. ASSUME o.end = "up", NEW r \in held'[c.stack], r.type = "project"
        PROVE  r.at = PlaceOf(w, c)
    <3>1. held'[c.stack] = o.all \ dead /\ dead = o.all \ regs
      BY <1>1, <1>2, <2>2
    <3>2. r \in regs
      BY <2>2, <3>1
    <3> QED BY <1>1, <2>2, <3>2
  <2>3. ASSUME o.end = "up", NEW r \in held'[c.stack], r.type = "project"
        PROVE  /\ r.at[1] = Chosen(c.params["folderID"],
                    Output(w, c.cfg.text["governanceStack"], FolderKey(c)), c.cfg.text["folderID"])
               /\ r.at[2] = Chosen(c.params["billingAccount"],
                    Output(w, c.cfg.text["governanceStack"], <<"billingAccount">>),
                    c.cfg.text["billingAccount"])
    BY <2>2, <2>3 DEF PlaceOf
  <2> QED BY <1>3, <2>1, <2>3 DEF Placed
<1>8. NeverTwice'
  <2>1. last'.end = "twice" => MayRepeat(last'.case)
    BY <1>1, <1>3
  <2> QED BY <2>1 DEF NeverTwice, MayRepeat, Duplicate
<1>9. SinkIsNarrow'
  <2>1. last'.end = "up" /\ last'.case.blueprint = "observability" =>
          Narrow(sinkFilter(sinkLogNamesFromConfig(last'.case.cfg).names))
    BY <1>1, <1>3
  <2> QED BY <2>1 DEF SinkIsNarrow, Narrow
<1> QED BY <1>4, <1>6, <1>7, <1>8, <1>9 DEF StackInv, Sound

\* A validated plan can be carried out.
LEMMA QuadFirst ==
  ASSUME NEW a, NEW b, NEW c, NEW d
  PROVE  First(<<a, b, c, d>>) = "nil" <=> a = "nil" /\ b = "nil" /\ c = "nil" /\ d = "nil"
<1>1. PICK s : s = <<a, b, c, d>>
  OBVIOUS
<1>2. s \in Seq({a, b, c, d}) /\ Len(s) = 4 /\ s[1] = a /\ s[2] = b /\ s[3] = c /\ s[4] = d
  BY <1>1
<1>3. IsList(s)
  BY <1>2 DEF IsList
<1>4. \A i \in 1..Len(s) : i \in {1, 2, 3, 4}
  BY <1>2
<1>5. {1, 2, 3, 4} \subseteq 1..Len(s)
  BY <1>2
<1>6. First(s) = "nil" <=> \A i \in 1..Len(s) : s[i] = "nil"
  BY <1>3, FirstFacts
<1>7. (\A i \in 1..Len(s) : s[i] = "nil") <=> a = "nil" /\ b = "nil" /\ c = "nil" /\ d = "nil"
  <2>1. ASSUME \A i \in 1..Len(s) : s[i] = "nil"
        PROVE  a = "nil" /\ b = "nil" /\ c = "nil" /\ d = "nil"
    BY <1>2, <1>5, <2>1
  <2>2. ASSUME a = "nil" /\ b = "nil" /\ c = "nil" /\ d = "nil", NEW i \in 1..Len(s)
        PROVE  s[i] = "nil"
    BY <1>2, <1>4, <2>2
  <2> QED BY <2>1, <2>2
<1> QED BY <1>1, <1>6, <1>7

\* What comes before the same suffix is the same.
LEMMA SuffixCancels ==
  ASSUME NEW s, NEW t, NEW u, IsList(s), IsList(t), IsList(u), s \o u = t \o u
  PROVE  s = t
<1>1. /\ Len(s \o u) = Len(s) + Len(u) /\ Len(s) \in Nat /\ Len(u) \in Nat
      /\ \A i \in 1..Len(s) : (s \o u)[i] = s[i]
  BY ConcatList
<1>2. /\ Len(t \o u) = Len(t) + Len(u) /\ Len(t) \in Nat
      /\ \A i \in 1..Len(t) : (t \o u)[i] = t[i]
  BY ConcatList
<1>3. Len(s) = Len(t)
  BY <1>1, <1>2
<1>4. \A i \in 1..Len(s) : s[i] = t[i]
  BY <1>1, <1>2, <1>3
<1>5. PICK S, T : s \in Seq(S) /\ t \in Seq(T)
  BY DEF IsList
<1>6. s \in Seq(S \cup T)
  BY <1>5, SeqDef
<1>7. t \in Seq(S \cup T)
  BY <1>5, SeqDef
<1> QED BY <1>3, <1>4, <1>6, <1>7, SeqEqual

\* ParseTier reads back what Tier.String writes.
LEMMA TiersReadBack ==
  ASSUME NEW t \in 0 .. 2
  PROVE  ParseTier(TierString(t)) = [err |-> "nil", tier |-> t]
<1>1. /\ TierString(0) = "starter" /\ TierString(1) = "standard" /\ TierString(2) = "enterprise"
  BY DEF TierString, Starter, Standard, Enterprise
<1>2. \A u \in 0 .. 2 : u \in {0, 1, 2}
  OBVIOUS
<1>3. \A u \in 0 .. 2 : TierString(u) = TierString(t) => u = t
  BY <1>1, <1>2
<1>4. (CHOOSE u \in 0 .. 2 : TierString(u) = TierString(t)) = t
  BY <1>3
<1> QED BY <1>4 DEF ParseTier

\* plan.Validate, on every tier and scope: what passes holds only what its tier
\* and scope have, its tag keys are made, and its folders are unless a child is
\* named like the root or the parent is neither an organisation nor a folder.
THEOREM PlansAreCoherent ==
  ASSUME NEW p, IsList(p.Hierarchy.Children), IsList(p.Dimensions),
         \A i \in 1..Len(p.Dimensions) : IsList(p.Dimensions[i].ShortName)
  PROVE  PlanIsCoherent(p)
<1> SUFFICES ASSUME PlanValidate(p) = "nil", p.Tier \in 0 .. 2
             PROVE  /\ p.Dimensions # <<>> =>
                         /\ SupportsClassification(p.Scope)
                         /\ TagkeysCheck(p.OrgID, p.Dimensions) = "nil"
                    /\ p.BillingAccount # Empty => p.Tier = Enterprise /\ p.OrgID # Empty
                    /\ IsInjective(p.Hierarchy.Children)
                    /\ p.Tier # Starter <=> HierarchyValidate(p.Hierarchy) = "nil"
                    /\ FoldersCheck(p.Hierarchy) = "nil" <=>
                         /\ p.Hierarchy.RootName \notin ToSet(p.Hierarchy.Children)
                         /\ ParseScope(p.Hierarchy.Parent).err = "nil"
                    /\ IsInjective([i \in DOMAIN p.Dimensions |-> TagKeyID(p.Dimensions[i].ShortName)])
                    /\ ParseTier(TierString(p.Tier)) = [err |-> "nil", tier |-> p.Tier]
  BY DEF PlanIsCoherent
<1> DEFINE h == p.Hierarchy
           kids == p.Hierarchy.Children
           dims == p.Dimensions
           some == Tier(kids # <<>>)
           noDims == Tier(dims = <<>>)
           noBill == Tier(p.BillingAccount = Empty)
           org == Tier(p.Scope = Organization)
           allDims == IF dims = <<>> THEN "nil" ELSE ValidateAll(dims)
<1>1. ValidateBase(h) = "nil" /\ validateTier(p) = "nil" /\ validateScope(p) = "nil"
  BY TripleFirst DEF PlanValidate
<1>2. SupportsOrgExport(p.Scope) <=> p.OrgID # Empty
  BY <1>1 DEF validateScope, Check
<1>3. /\ some = "nil" <=> kids # <<>>
      /\ noDims = "nil" <=> dims = <<>>
      /\ noBill = "nil" <=> p.BillingAccount = Empty
      /\ org = "nil" <=> p.Scope = Organization
  BY DEF Tier, Check
<1> HIDE DEF some, noDims, noBill, org, allDims
<1>4. p.Tier = Starter => kids = <<>> /\ dims = <<>> /\ p.BillingAccount = Empty
  <2> SUFFICES ASSUME p.Tier = Starter PROVE kids = <<>> /\ dims = <<>> /\ p.BillingAccount = Empty
    OBVIOUS
  <2>1. validateStarter(p) = "nil"
    BY <1>1 DEF validateTier, Starter, Standard, Enterprise
  <2>2. PICK none : none = Tier(kids = <<>>) /\ (none = "nil" <=> kids = <<>>)
    BY DEF Tier, Check
  <2>3. First(<<none, noDims, noBill>>) = "nil"
    BY <2>1, <2>2 DEF validateStarter, noDims, noBill
  <2>4. none = "nil" /\ noDims = "nil" /\ noBill = "nil"
    BY <2>3, TripleFirst
  <2> QED BY <1>3, <2>2, <2>4
<1>5. p.Tier = Standard =>
        /\ kids # <<>> /\ ValidateChildren(h) = "nil" /\ dims = <<>> /\ p.BillingAccount = Empty
  <2> SUFFICES ASSUME p.Tier = Standard
               PROVE  /\ kids # <<>> /\ ValidateChildren(h) = "nil" /\ dims = <<>>
                      /\ p.BillingAccount = Empty
    OBVIOUS
  <2>1. validateStandard(p) = "nil"
    BY <1>1 DEF validateTier, Starter, Standard, Enterprise
  <2>2. First(<<some, ValidateChildren(h), noDims, noBill>>) = "nil"
    BY <2>1 DEF validateStandard, some, noDims, noBill
  <2>3. some = "nil" /\ ValidateChildren(h) = "nil" /\ noDims = "nil" /\ noBill = "nil"
    BY <2>2, QuadFirst
  <2> QED BY <1>3, <2>3
<1>6. p.Tier = Enterprise =>
        /\ kids # <<>> /\ ValidateChildren(h) = "nil" /\ p.Scope = Organization
        /\ dims # <<>> => ValidateAll(dims) = "nil"
  <2> SUFFICES ASSUME p.Tier = Enterprise
               PROVE  /\ kids # <<>> /\ ValidateChildren(h) = "nil" /\ p.Scope = Organization
                      /\ dims # <<>> => ValidateAll(dims) = "nil"
    OBVIOUS
  <2>1. validateEnterprise(p) = "nil"
    BY <1>1 DEF validateTier, Starter, Standard, Enterprise
  <2>2. First(<<org, some, ValidateChildren(h), allDims>>) = "nil"
    BY <2>1 DEF validateEnterprise, some, org, allDims
  <2>3. org = "nil" /\ some = "nil" /\ ValidateChildren(h) = "nil" /\ allDims = "nil"
    BY <2>2, QuadFirst
  <2> QED BY <1>3, <2>3 DEF allDims
<1>7. p.Tier = Starter \/ p.Tier = Standard \/ p.Tier = Enterprise
  BY DEF Starter, Standard, Enterprise
<1>8. dims # <<>> => SupportsClassification(p.Scope) /\ ValidateAll(dims) = "nil"
  BY <1>4, <1>5, <1>6, <1>7 DEF SupportsClassification
<1>9. p.BillingAccount # Empty => p.Tier = Enterprise /\ p.OrgID # Empty
  BY <1>2, <1>4, <1>5, <1>6, <1>7 DEF SupportsOrgExport
<1>10. IsInjective(kids)
  <2>1. CASE kids = <<>>
    BY <2>1 DEF IsInjective
  <2>2. CASE ValidateChildren(h) = "nil"
    <3>1. PICK a, b : /\ a = "ErrEmptyChild" /\ b = "ErrDuplicateChild" /\ a # "nil" /\ b # "nil"
      OBVIOUS
    <3>2. Listed(kids, a, b) = "nil"
      BY <2>2, <3>1 DEF ValidateChildren
    <3>3. \A i, j \in 1..Len(kids) : kids[i] = kids[j] => i = j
      BY <3>1, <3>2, ListedFacts
    <3>4. DOMAIN kids = 1..Len(kids)
      BY ListFacts
    <3> QED BY <3>3, <3>4 DEF IsInjective
  <2> QED BY <1>4, <1>5, <1>6, <1>7, <2>1, <2>2
<1>11. p.Tier # Starter <=> HierarchyValidate(h) = "nil"
  <2>1. PICK full : full = Check(kids # <<>>, "ErrNoChildren") /\ (full = "nil" <=> kids # <<>>)
    BY DEF Check
  <2>2. HierarchyValidate(h) = First(<<ValidateBase(h), full, ValidateChildren(h)>>)
    BY <2>1 DEF HierarchyValidate
  <2>3. HierarchyValidate(h) = "nil" <=>
          ValidateBase(h) = "nil" /\ full = "nil" /\ ValidateChildren(h) = "nil"
    BY <2>2, TripleFirst
  <2> QED BY <1>1, <1>4, <1>5, <1>6, <1>7, <2>1, <2>3
<1>12. IsInjective([i \in DOMAIN dims |-> TagKeyID(dims[i].ShortName)])
  <2>1. DOMAIN dims = 1..Len(dims)
    BY ListFacts
  <2>2. ASSUME NEW i \in DOMAIN dims, NEW j \in DOMAIN dims,
               TagKeyID(dims[i].ShortName) = TagKeyID(dims[j].ShortName)
        PROVE  i = j
    <3>1. PICK u : u = <<"TagKeyId">>
      OBVIOUS
    <3>2. IsList(u)
      BY <3>1, OneList
    <3>3. PICK s, t : s = dims[i].ShortName /\ t = dims[j].ShortName
      OBVIOUS
    <3>4. IsList(s) /\ IsList(t) /\ s \o u = t \o u
      BY <2>1, <2>2, <3>1, <3>3 DEF TagKeyID
    <3>5. s = t
      BY <3>2, <3>4, SuffixCancels
    <3>6. dims # <<>>
      BY <2>1
    <3>7. ValidateAll(dims) = "nil"
      BY <1>8, <3>6
    <3>8. \A k, l \in 1..Len(dims) : dims[k].ShortName = dims[l].ShortName => k = l
      BY <3>7, ValidateAllFacts
    <3> QED BY <2>1, <3>3, <3>5, <3>8
  <2> QED BY <2>2 DEF IsInjective
<1>13. ParseTier(TierString(p.Tier)) = [err |-> "nil", tier |-> p.Tier]
  BY TiersReadBack
<1>14. dims # <<>> => TagkeysCheck(p.OrgID, dims) = "nil"
  <2> SUFFICES ASSUME dims # <<>> PROVE TagkeysCheck(p.OrgID, dims) = "nil"
    OBVIOUS
  <2>1. PICK id : id = Check(p.OrgID # Empty, "ErrOrgIDRequired") /\ (p.OrgID # Empty => id = "nil")
    BY DEF Check
  <2>2. p.OrgID # Empty
    BY <1>2, <1>8 DEF SupportsClassification, SupportsOrgExport
  <2>3. PICK all : all = ValidateAll(dims)
    OBVIOUS
  <2>4. First(<<id, all>>) = "nil"
    BY <1>8, <2>1, <2>2, <2>3, PairFirst
  <2> QED BY <2>1, <2>3, <2>4 DEF TagkeysCheck
<1>15. ValidateChildren(h) = "nil"
  <2>1. CASE kids = <<>>
    <3>1. PICK f : /\ f = ValidateChildren(h)
                   /\ f = IF {i \in {} : TRUE} = {} THEN "nil" ELSE "other"
      BY <2>1 DEF ValidateChildren, Listed, First
    <3> QED BY <3>1
  <2> QED BY <1>4, <1>5, <1>6, <1>7, <2>1
<1>16. FoldersCheck(h) = "nil" <=> /\ h.RootName \notin ToSet(kids)
                                  /\ ParseScope(h.Parent).err = "nil"
  <2>1. PICK dup : /\ dup = Check(h.RootName \notin ToSet(kids), "ErrDuplicateFolder")
                   /\ dup = "nil" <=> h.RootName \notin ToSet(kids)
    BY DEF Check
  <2>2. PICK base, some1, form : /\ base = ValidateBase(h) /\ some1 = ValidateChildren(h)
                                 /\ form = ParseScope(h.Parent).err
    OBVIOUS
  <2>3. First(<<base, some1, dup, form>>) = "nil" <=>
          base = "nil" /\ some1 = "nil" /\ dup = "nil" /\ form = "nil"
    BY QuadFirst
  <2>4. FoldersCheck(h) = First(<<base, some1, dup, form>>)
    BY <2>1, <2>2 DEF FoldersCheck
  <2> QED BY <1>1, <1>15, <2>1, <2>2, <2>3, <2>4
<1> QED BY <1>8, <1>9, <1>10, <1>11, <1>12, <1>13, <1>14, <1>16

\* Before the first update.
LEMMA StacksBegin == Init => StackInv
<1> SUFFICES ASSUME Init PROVE StackInv
  OBVIOUS
<1>1. last.end = "none" /\ \A s \in Stacks : held[s] = {}
  BY DEF Init
<1>2. TypeOK
  BY <1>1, UpsAssumption DEF Init, TypeOK
<1> QED BY <1>1, <1>2 DEF StackInv, Sound, Placed, NeverTwice, SinkIsNarrow, StacksAreSafe
=============================================================================
