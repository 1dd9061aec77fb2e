----------------------------- MODULE SheetProofs -----------------------------
(***************************************************************************)
(* The theorem about SheetSync, part of MCWorkspace, for every set of      *)
(* processes, every document at first and every set of specifications.     *)
(* What a sync has done so far is a fact about its own record and its own  *)
(* document (Good), which its own calls keep whether they are answered,    *)
(* repeated or given up, and which another's call either leaves alone or   *)
(* turns into the fact of an overtaken sync.                               *)
(***************************************************************************)
EXTENDS MCWorkspace, TLAPS, SequenceTheorems

Pcs == {"idle", "create", "get", "tab", "add", "resize", "clear", "write", "format",
        "links", "prune", "move", "nil", "failed"}
\* The places of ReplaceTab with a tab in hand.
OnTab == {"resize", "clear", "write", "format", "links"}
Found == [id : Int, title : STRING, bands : SUBSET Nat, big : BOOLEAN]

\* A call of SyncDocument has the fields it should have.
Shape(r) ==
  /\ r \in [pc : Pcs, file : Nat \ {0}, spec : Sheets!DocumentSpec, k : Nat, tab : Found,
            batch : Nat, done : Seq(Int), before : {r.before}, overlapped : BOOLEAN]

\* Where a sync is: the tabs that are done are those before the k-th, and a
\* batch is one of the tab's.
Place(r) ==
  /\ ~r.spec.create => r.file = 1 /\ (r.pc # "idle" => r.spec \in Specs)
  /\ r.pc \in {"create", "move"} => r.spec.create
  /\ r.pc \in {"get", "prune"} => ~r.spec.create
  /\ r.pc \in OnTab \cup {"tab", "add"} =>
       r.k \in 1..Len(r.spec.tabs) /\ Len(r.done) = r.k - 1
  /\ r.pc \in {"create", "get"} => r.k = 1 /\ r.done = <<>> /\ DOMAIN r.before = {}
  /\ r.pc = "create" => r.file = 1 /\ r.spec.tabs # <<>>
  /\ r.pc \in {"prune", "move", "nil"} => Len(r.done) = Len(r.spec.tabs)
  /\ r.pc \in {"add", "resize", "clear"} => r.batch = 1
  /\ r.pc = "add" => r.tab = Sheets!NoTab
  /\ r.pc = "write" => /\ r.batch \in 1..r.spec.tabs[r.k].batches
                       /\ r.spec.tabs[r.k].data # ""

\* A tab that is named by the identifier of a sheet that is kept.
ByGid(spec) == spec.title = "" /\ Sheets!Kept(spec.gid)

\* Such a tab is resolved to that sheet, whatever others do, and a prune sees
\* the sheets of the start with their titles.
Pinned(r) ==
  ~r.spec.create /\ r.pc # "idle" =>
    /\ \A n \in DOMAIN r.before : n \in DOMAIN Start => r.before[n].title = Start[n].title
    /\ Len(r.done) <= Len(r.spec.tabs)
    /\ \A i \in 1..Len(r.done) : ByGid(r.spec.tabs[i]) => r.done[i] = r.spec.tabs[i].gid
    /\ r.pc \in OnTab /\ ByGid(r.spec.tabs[r.k]) => r.tab.id = r.spec.tabs[r.k].gid
    /\ r.pc = "add" => ~ByGid(r.spec.tabs[r.k])

\* Tab i of the spec is done for good: no later one is the same sheet.
Final(r, i) == /\ \A j \in 1..Len(r.done) : j > i => r.done[j] # r.done[i]
               /\ r.pc \in OnTab => r.done[i] # r.tab.id

\* The values of a sheet but for those of a batch, and those of the first n.
Beside(content, b) == {x \in content : x[2] # b}
FirstBatches(data, n) == {<<data, c>> : c \in 1..n}

\* The sheets that a sync has worked on are in its document as it left them.
Worked(r, d) ==
  /\ \A i \in 1..Len(r.done) : r.done[i] \in DOMAIN d
  /\ \A i \in 1..Len(r.done) : Final(r, i) =>
       /\ d[r.done[i]].content = Sheets!Data(r.spec.tabs[i])
       /\ r.spec.tabs[i].big => d[r.done[i]].big

\* The tab in hand: large enough once it was resized, and with the batches
\* that were written and nothing else.
Working(r, d) ==
  r.pc \in OnTab =>
    /\ r.tab.id \in DOMAIN d /\ d[r.tab.id].title = r.tab.title
    /\ IF r.pc = "resize" THEN r.tab.big => d[r.tab.id].big
       ELSE r.spec.tabs[r.k].big => d[r.tab.id].big
    /\ r.pc = "write" => Beside(d[r.tab.id].content, r.batch)
                           = FirstBatches(r.spec.tabs[r.k].data, r.batch - 1)
    /\ r.pc \in {"format", "links"} =>
         d[r.tab.id].content = Sheets!Data(r.spec.tabs[r.k])

\* A sheet of the document that was not there at first is one of the sync's.
Accounted(r, d) ==
  ~r.spec.create =>
    /\ \A n \in DOMAIN d : n \in DOMAIN r.before => d[n].title = r.before[n].title
    /\ \A n \in DOMAIN d : n \in DOMAIN r.before
         \/ (\E i \in 1..Len(r.done) : r.done[i] = n)
         \/ (r.pc \in OnTab /\ n = r.tab.id)
         \/ (r.pc = "add" /\ d[n].title = Sheets!Title(r.spec.tabs[r.k]))
    /\ r.pc \in OnTab \cup {"tab", "add"} => DOMAIN r.before \subseteq DOMAIN d

\* The sheets of a document that the sync made are its tabs, in order.
Made(r, d) ==
  r.spec.create =>
    /\ \A i \in 1..Len(r.spec.tabs) : /\ r.spec.tabs[i].gid \in DOMAIN d /\ r.spec.tabs[i].gid > 0
                                      /\ d[r.spec.tabs[i].gid].title = Sheets!Title(r.spec.tabs[i])
    /\ \A n \in DOMAIN d : \E i \in 1..Len(r.spec.tabs) : r.spec.tabs[i].gid = n
    /\ Len(r.done) <= Len(r.spec.tabs)
    /\ \A i \in 1..Len(r.done) : r.done[i] = r.spec.tabs[i].gid
    /\ r.pc \in OnTab => r.tab.id = r.spec.tabs[r.k].gid
    /\ r.pc # "add"

\* After a prune nothing else is there.
Pruned(r, d) ==
  r.pc = "nil" /\ r.spec.prune =>
    \A n \in DOMAIN d : \/ \E i \in 1..Len(r.done) : r.done[i] = n
                        \/ \E i \in 1..Len(r.spec.tabs) : r.spec.tabs[i].title = d[n].title

Own(r, d) ==
  r.pc \notin {"idle", "create", "get", "failed"} =>
    Worked(r, d) /\ Working(r, d) /\ Accounted(r, d) /\ Made(r, d) /\ Pruned(r, d)

\* While every call was answered: the bandings that were read are the ones
\* there, a title that was not found is not taken, and nothing is gone.
Quiet(r, d) ==
  /\ r.pc \in OnTab \ {"links"} => d[r.tab.id].bands = r.tab.bands
  /\ r.pc = "add" /\ r.spec.tabs[r.k].title # "" =>
       ~Sheets!Taken(d, r.spec.tabs[r.k].title)
  /\ r.pc \notin {"idle", "create", "nil", "failed"} => DOMAIN r.before \subseteq DOMAIN d

\* A call r of SyncDocument on the document d after f faults.
Good(r, d, f) ==
  /\ Shape(r) /\ Place(r) /\ Pinned(r)
  /\ ~r.overlapped => Own(r, d) /\ (f = 0 => Quiet(r, d))
  /\ r.pc = "failed" /\ Sheets!Sensible(r.spec) => f > 0 \/ r.overlapped

\* A document: sheets below the next identifier, of titles of their own.
Document(d, n) ==
  /\ d \in [DOMAIN d -> Sheets!Sheet] /\ DOMAIN d \subseteq 0..(n - 1)
  /\ \A i, j \in DOMAIN d : d[i].title = d[j].title => i = j

\* The first document has the sheets that are kept, and those of the start
\* that it has are as they were named.
Rooted(d) ==
  /\ \A id \in DOMAIN Start : Sheets!Kept(id) => id \in DOMAIN d
  /\ \A n \in DOMAIN d : n \in DOMAIN Start => d[n].title = Start[n].title

DocsInv(ds, n) ==
  /\ n \in Nat /\ n >= Sheets!FirstId
  /\ ds \in Seq({ds[f] : f \in 1..Len(ds)}) /\ Len(ds) > 0
  /\ \A f \in 1..Len(ds) : Document(ds[f], n)
  /\ Rooted(ds[1])

\* SyncDocument: what every step keeps.
SheetsInv ==
  /\ DocsInv(docs, nextId)
  /\ faults \in 0..MaxFaults
  /\ proc \in [Procs -> {proc[p] : p \in Procs}]
  /\ \A p \in Procs : proc[p].file \in 1..Len(docs) /\ Good(proc[p], docs[proc[p].file], faults)
-----------------------------------------------------------------------------
\* The fields of a call.
LEMMA Fields ==
  ASSUME NEW r, Shape(r)
  PROVE  /\ r.pc \in Pcs /\ r.file \in Nat \ {0} /\ r.k \in Nat /\ r.batch \in Nat
         /\ r.spec \in Sheets!DocumentSpec /\ r.tab \in Found /\ r.done \in Seq(Int)
         /\ r.overlapped \in BOOLEAN
         /\ r.spec.tabs \in Seq(Sheets!TabSpec) /\ r.spec.create \in BOOLEAN
         /\ r.spec.prune \in BOOLEAN
         /\ Len(r.spec.tabs) \in Nat /\ DOMAIN r.spec.tabs = 1..Len(r.spec.tabs)
         /\ Len(r.done) \in Nat /\ DOMAIN r.done = 1..Len(r.done)
         /\ \A i \in 1..Len(r.spec.tabs) : r.spec.tabs[i] \in Sheets!TabSpec
         /\ \A i \in 1..Len(r.done) : r.done[i] \in Int
<1>1. /\ r.pc \in Pcs /\ r.file \in Nat \ {0} /\ r.k \in Nat /\ r.batch \in Nat
      /\ r.spec \in Sheets!DocumentSpec /\ r.tab \in Found /\ r.done \in Seq(Int)
      /\ r.overlapped \in BOOLEAN
  BY DEF Shape
<1>2. /\ r.spec.tabs \in Seq(Sheets!TabSpec) /\ r.spec.create \in BOOLEAN
      /\ r.spec.prune \in BOOLEAN
  BY <1>1 DEF Sheets!DocumentSpec
<1> QED BY <1>1, <1>2, LenProperties, ElementOfSeq

\* s is r but for where it is.
Same(s, r) ==
  /\ s.file = r.file /\ s.spec = r.spec /\ s.k = r.k /\ s.tab = r.tab
  /\ s.batch = r.batch /\ s.done = r.done /\ s.before = r.before
  /\ s.overlapped = r.overlapped

\* A call that goes on.
LEMMA PcMoves ==
  ASSUME NEW r, Shape(r), NEW x \in Pcs, NEW s, s = [r EXCEPT !.pc = x]
  PROVE  Shape(s) /\ s.pc = x /\ Same(s, r)
<1>1. s.pc = x /\ Same(s, r)
  BY DEF Shape, Same
<1>2. s \in [pc : Pcs, file : Nat \ {0}, spec : Sheets!DocumentSpec, k : Nat, tab : Found,
            batch : Nat, done : Seq(Int), before : {r.before}, overlapped : BOOLEAN]
  BY DEF Shape
<1> QED BY <1>1, <1>2 DEF Shape, Same

\* One more fault takes nothing away.
LEMMA Faulted ==
  ASSUME NEW r, NEW d, NEW f \in Nat, Good(r, d, f)
  PROVE  Good(r, d, f + 1)
<1>1. f + 1 # 0 /\ f + 1 > 0
  OBVIOUS
<1> QED BY <1>1 DEF Good

\* A call that fails, for a reason, owes nothing any more.
LEMMA FailsThere ==
  ASSUME NEW r, NEW d, NEW e, NEW f \in Nat, NEW g \in Nat, Good(r, d, f), r.pc # "idle",
         NEW s, s = [r EXCEPT !.pc = "failed"],
         g > 0 \/ r.overlapped \/ ~Sheets!Sensible(r.spec)
  PROVE  Good(s, e, g) /\ s.file = r.file
<1>0. Shape(r) /\ Place(r) /\ Pinned(r)
  BY DEF Good
<1>1. Shape(s) /\ s.pc = "failed" /\ Same(s, r)
  BY <1>0, PcMoves DEF Pcs
<1>2. Place(s)
  BY <1>0, <1>1 DEF Place, Same, OnTab
<1>3. Pinned(s)
  BY <1>0, <1>1 DEF Pinned, Same, OnTab
<1>4. Own(s, e) /\ Quiet(s, e)
  BY <1>1 DEF Own, Quiet, OnTab
<1> QED BY <1>1, <1>2, <1>3, <1>4 DEF Good, Same

\* A call that was overtaken owes nothing of its document.
LEMMA Overtaken ==
  ASSUME NEW r, NEW d, NEW e, NEW f, NEW g, Good(r, d, f),
         NEW s, s = [r EXCEPT !.overlapped = TRUE]
  PROVE  Good(s, e, g) /\ s.file = r.file
<1>0. Shape(r) /\ Place(r) /\ Pinned(r)
  BY DEF Good
<1>1. /\ s.pc = r.pc /\ s.file = r.file /\ s.spec = r.spec /\ s.k = r.k /\ s.tab = r.tab
      /\ s.batch = r.batch /\ s.done = r.done /\ s.before = r.before
      /\ s.overlapped = TRUE
  BY <1>0 DEF Shape
<1>2. Shape(s)
  BY <1>0, <1>1 DEF Shape
<1>3. Place(s)
  BY <1>0, <1>1 DEF Place
<1>5. Pinned(s)
  BY <1>0, <1>1 DEF Pinned
<1>4. s.overlapped
  BY <1>1
<1> QED BY <1>1, <1>2, <1>3, <1>4, <1>5 DEF Good

\* p goes on as rec while its documents become ds: the others are left alone
\* or overtaken.
LEMMA Lands ==
  ASSUME SheetsInv, NEW p \in Procs, NEW rec,
         Sheets!Goes(p, rec), DocsInv(docs', nextId'), Len(docs) <= Len(docs'),
         faults' \in {faults, faults + 1}, faults' \in 0..MaxFaults,
         rec.file \in 1..Len(docs'), Good(rec, docs'[rec.file], faults')
  PROVE  SheetsInv'
<1>1. /\ proc' = [q \in Procs |->
             IF q = p THEN rec
             ELSE IF docs'[proc[q].file] # docs[proc[q].file]
             THEN [proc[q] EXCEPT !.overlapped = TRUE]
             ELSE proc[q]]
  BY DEF Sheets!Goes
<1>2. ASSUME NEW q \in Procs
      PROVE  proc'[q].file \in 1..Len(docs') /\ Good(proc'[q], docs'[proc'[q].file], faults')
  <2>0. /\ proc[q].file \in 1..Len(docs) /\ Good(proc[q], docs[proc[q].file], faults)
        /\ faults \in Nat /\ Len(docs) \in Nat /\ Len(docs') \in Nat
    <3>1. Len(docs) \in Nat /\ Len(docs') \in Nat
      BY LenProperties DEF SheetsInv, DocsInv
    <3> QED BY <3>1 DEF SheetsInv
  <2>1. CASE q = p
    BY <1>1, <2>1
  <2>2. CASE q # p /\ docs'[proc[q].file] # docs[proc[q].file]
    <3>1. proc'[q] = [proc[q] EXCEPT !.overlapped = TRUE]
      BY <1>1, <2>2
    <3>2. \A e : Good(proc'[q], e, faults') /\ proc'[q].file = proc[q].file
      BY <2>0, <3>1, Overtaken
    <3> QED BY <2>0, <3>2
  <2>3. CASE q # p /\ docs'[proc[q].file] = docs[proc[q].file]
    <3>1. proc'[q] = proc[q]
      BY <1>1, <2>3
    <3>2. Good(proc[q], docs[proc[q].file], faults')
      BY <2>0, Faulted
    <3> QED BY <2>0, <2>3, <3>1, <3>2
  <2> QED BY <2>1, <2>2, <2>3
<1>3. proc' \in [Procs -> {proc'[q] : q \in Procs}]
  BY <1>1
<1> QED BY <1>2, <1>3 DEF SheetsInv

\* An attempt of a call: answered, repeated or given up.
LEMMA Attempt ==
  ASSUME SheetsInv, NEW p \in Procs, NEW ok, NEW ds, Sheets!Call(p, ok, ds),
         proc[p].pc # "idle", MaxFaults \in Nat,
         DocsInv(ds, nextId'), DocsInv(docs, nextId'), Len(docs) <= Len(ds),
         ok.file \in 1..Len(ds), Good(ok, ds[ok.file], faults),
         Good(proc[p], ds[proc[p].file], faults + 1)
  PROVE  SheetsInv'
<1>0. /\ faults \in 0..MaxFaults /\ Len(docs) \in Nat /\ Len(ds) \in Nat
      /\ proc[p].file \in 1..Len(docs) /\ Good(proc[p], docs[proc[p].file], faults)
  <2>1. Len(docs) \in Nat /\ Len(ds) \in Nat
    BY LenProperties DEF DocsInv
  <2> QED BY <2>1 DEF SheetsInv
<1>1. CASE docs' = ds /\ Sheets!Goes(p, ok) /\ faults' = faults
  BY <1>0, <1>1, Lands
<1>2. ASSUME faults < MaxFaults, faults' = faults + 1, NEW lost \in BOOLEAN, NEW last \in BOOLEAN,
             docs' = IF lost THEN ds ELSE docs,
             Sheets!Goes(p, IF last THEN [proc[p] EXCEPT !.pc = "failed"] ELSE proc[p])
      PROVE  SheetsInv'
  <2>1. faults' \in 0..MaxFaults /\ faults' \in Nat /\ faults' > 0
    BY <1>0, <1>2
  <2>2. DocsInv(docs', nextId') /\ Len(docs) <= Len(docs')
    BY <1>0, <1>2
  <2>3. Good(proc[p], docs'[proc[p].file], faults') /\ proc[p].file \in 1..Len(docs')
    <3>1. Good(proc[p], docs[proc[p].file], faults + 1)
      BY <1>0, Faulted
    <3>2. CASE lost
      BY <1>0, <1>2, <3>2
    <3>3. CASE ~lost
      BY <1>0, <1>2, <3>1, <3>3
    <3> QED BY <3>2, <3>3
  <2>4. CASE last
    <3>1. PICK rec : rec = [proc[p] EXCEPT !.pc = "failed"]
      OBVIOUS
    <3>2. Good(rec, docs'[proc[p].file], faults') /\ rec.file = proc[p].file
      BY <2>1, <2>3, <3>1, FailsThere
    <3>3. Sheets!Goes(p, rec)
      BY <1>2, <2>4, <3>1
    <3> QED BY <1>2, <2>1, <2>2, <2>3, <3>2, <3>3, Lands
  <2>5. CASE ~last
    <3>1. Sheets!Goes(p, proc[p])
      BY <1>2, <2>5
    <3> QED BY <1>2, <2>1, <2>2, <2>3, <3>1, Lands
  <2> QED BY <2>4, <2>5
<1> QED BY <1>1, <1>2 DEF Sheets!Call

\* A step without a call.
LEMMA Skipped ==
  ASSUME SheetsInv, NEW p \in Procs, NEW rec, Sheets!Skips(p, rec), DocsInv(docs, nextId'),
         rec.file \in 1..Len(docs), Good(rec, docs[rec.file], faults)
  PROVE  SheetsInv'
<1>1. docs' = docs /\ faults' = faults /\ Sheets!Goes(p, rec)
  BY DEF Sheets!Skips
<1>2. Len(docs) \in Nat /\ faults \in 0..MaxFaults
  BY LenProperties DEF SheetsInv, DocsInv
<1> QED BY <1>1, <1>2, Lands

\* A call that is refused, for a reason.
LEMMA RefusedOnce ==
  ASSUME SheetsInv, NEW p \in Procs, Sheets!Refused(p), DocsInv(docs, nextId'),
         proc[p].pc # "idle",
         faults > 0 \/ proc[p].overlapped \/ ~Sheets!Sensible(proc[p].spec)
  PROVE  SheetsInv'
<1>1. PICK rec : rec = [proc[p] EXCEPT !.pc = "failed"]
  OBVIOUS
<1>2. Sheets!Skips(p, rec)
  BY <1>1 DEF Sheets!Refused
<1>3. /\ proc[p].file \in 1..Len(docs) /\ Good(proc[p], docs[proc[p].file], faults)
      /\ faults \in Nat
  BY DEF SheetsInv
<1>4. Good(rec, docs[proc[p].file], faults) /\ rec.file = proc[p].file
  BY <1>1, <1>3, FailsThere
<1> QED BY <1>2, <1>3, <1>4, Skipped
-----------------------------------------------------------------------------
\* e is d with the sheet id, at most, changed, and its title kept.
Rewrites(e, d, id) ==
  /\ DOMAIN e = DOMAIN d
  /\ \A n \in DOMAIN d : e[n].title = d[n].title /\ (n # id => e[n] = d[n])

\* A document stays one when a sheet is changed.
LEMMA Rewritten ==
  ASSUME NEW n \in Nat, NEW d, Document(d, n), NEW id \in DOMAIN d,
         NEW s \in Sheets!Sheet, s.title = d[id].title, NEW e, e = [d EXCEPT ![id] = s]
  PROVE  Document(e, n) /\ Rewrites(e, d, id) /\ e[id] = s /\ (Rooted(d) => Rooted(e))
<1>1. d \in [DOMAIN d -> Sheets!Sheet] /\ DOMAIN d \subseteq 0..(n - 1)
  BY DEF Document
<1>2. e \in [DOMAIN d -> Sheets!Sheet] /\ DOMAIN e = DOMAIN d /\ e[id] = s
      /\ \A i \in DOMAIN d : i # id => e[i] = d[i]
  BY <1>1
<1>3. \A i \in DOMAIN d : e[i].title = d[i].title
  BY <1>2
<1>4. Document(e, n)
  BY <1>1, <1>2, <1>3 DEF Document
<1>5. Rooted(d) => Rooted(e)
  BY <1>2, <1>3 DEF Rooted
<1> QED BY <1>2, <1>3, <1>4, <1>5 DEF Rewrites

\* Identifiers only grow.
LEMMA DocumentGrows ==
  ASSUME NEW n \in Nat, NEW m \in Nat, n <= m, NEW d, Document(d, n)
  PROVE  Document(d, m)
<1>1. 0..(n - 1) \subseteq 0..(m - 1)
  OBVIOUS
<1> QED BY <1>1 DEF Document

\* So do the documents.
LEMMA DocsGrow ==
  ASSUME NEW n \in Nat, NEW m \in Nat, n <= m, NEW ds, DocsInv(ds, n)
  PROVE  DocsInv(ds, m)
<1>1. \A f \in 1..Len(ds) : Document(ds[f], m)
  BY DocumentGrows DEF DocsInv
<1>2. m >= Sheets!FirstId
  BY DEF DocsInv, Sheets!FirstId
<1> QED BY <1>1, <1>2 DEF DocsInv

\* One of them is changed.
LEMMA DocsWith ==
  ASSUME NEW n \in Nat, NEW ds, DocsInv(ds, n), NEW f \in 1..Len(ds), NEW d, Document(d, n),
         f = 1 => Rooted(d), NEW es, es = [ds EXCEPT ![f] = d]
  PROVE  DocsInv(es, n) /\ Len(es) = Len(ds) /\ es[f] = d
<1>1. /\ ds \in Seq({ds[i] : i \in 1..Len(ds)}) /\ Len(ds) \in Nat /\ Len(ds) > 0
      /\ DOMAIN ds = 1..Len(ds) /\ ds = [i \in 1..Len(ds) |-> ds[i]]
  <2>1. ds \in Seq({ds[i] : i \in 1..Len(ds)}) /\ Len(ds) > 0
    BY DEF DocsInv
  <2>2. Len(ds) \in Nat /\ DOMAIN ds = 1..Len(ds)
        /\ ds \in [1..Len(ds) -> {ds[i] : i \in 1..Len(ds)}]
    BY <2>1, LenProperties
  <2> QED BY <2>1, <2>2
<1>2. /\ es[f] = d /\ \A i \in 1..Len(ds) : i # f => es[i] = ds[i]
      /\ DOMAIN es = 1..Len(ds)
  BY <1>1
<1>3. es \in [1..Len(ds) -> {es[i] : i \in 1..Len(ds)}]
  BY <1>1
<1>4. es \in Seq({es[i] : i \in 1..Len(ds)}) /\ Len(es) = Len(ds)
  <2>1. PICK S : S = {es[i] : i \in 1..Len(ds)}
    OBVIOUS
  <2>2. es \in [1..Len(ds) -> S]
    BY <1>3, <2>1
  <2>3. es \in Seq(S)
    <3>1. es = [i \in 1..Len(ds) |-> es[i]] /\ Len(ds) \in Nat
      BY <1>1, <2>2
    <3>2. \A i \in 1..Len(ds) : es[i] \in S
      BY <2>2
    <3>3. [i \in 1..Len(ds) |-> es[i]] \in Seq(S)
      BY <3>1, <3>2, IsASeq
    <3> QED BY <3>1, <3>3
  <2> QED BY <1>1, <1>2, <2>1, <2>3, LenProperties
<1>5. \A i \in 1..Len(ds) : Document(es[i], n)
  BY <1>2 DEF DocsInv
<1>6. Rooted(es[1])
  BY <1>1, <1>2 DEF DocsInv
<1>7. n \in Nat /\ n >= Sheets!FirstId
  BY DEF DocsInv
<1> QED BY <1>1, <1>2, <1>4, <1>5, <1>6, <1>7 DEF DocsInv

\* With its own document only.
LEMMA WithOwn ==
  ASSUME SheetsInv, NEW p \in Procs, NEW d, NEW m \in Nat, nextId <= m, Document(d, m),
         Rooted(docs[1]) /\ proc[p].file = 1 => Rooted(d)
  PROVE  /\ DocsInv(Sheets!With(p, d), m) /\ DocsInv(docs, m)
         /\ Len(Sheets!With(p, d)) = Len(docs)
         /\ Sheets!With(p, d)[proc[p].file] = d
<1>1. nextId \in Nat /\ DocsInv(docs, nextId) /\ proc[p].file \in 1..Len(docs)
  BY DEF SheetsInv, DocsInv
<1>2. DocsInv(docs, m)
  BY <1>1, DocsGrow
<1>3. proc[p].file = 1 => Rooted(d)
  BY <1>1 DEF DocsInv
<1> QED BY <1>1, <1>2, <1>3, DocsWith DEF Sheets!With

\* A call on its own document.
LEMMA OwnAttempt ==
  ASSUME SheetsInv, NEW p \in Procs, NEW ok, NEW d, Sheets!Call(p, ok, Sheets!With(p, d)),
         proc[p].pc # "idle", nextId' \in Nat, nextId <= nextId', Document(d, nextId'),
         Rooted(docs[1]) /\ proc[p].file = 1 => Rooted(d),
         ok.file = proc[p].file, Good(ok, d, faults), Good(proc[p], d, faults + 1)
  PROVE  SheetsInv'
<1>1. /\ DocsInv(Sheets!With(p, d), nextId') /\ DocsInv(docs, nextId')
      /\ Len(Sheets!With(p, d)) = Len(docs)
      /\ Sheets!With(p, d)[proc[p].file] = d
  BY WithOwn
<1>2. PICK ds : ds = Sheets!With(p, d)
  OBVIOUS
<1>3. proc[p].file \in 1..Len(ds) /\ Len(docs) <= Len(ds)
  <2>1. Len(docs) \in Nat
    BY LenProperties DEF SheetsInv, DocsInv
  <2> QED BY <1>1, <1>2, <2>1 DEF SheetsInv
<1>4. MaxFaults \in Nat
  BY WorkspaceAssumption DEF WorkspaceAssumption
<1>5. /\ Sheets!Call(p, ok, ds) /\ DocsInv(ds, nextId') /\ DocsInv(docs, nextId')
      /\ ds[proc[p].file] = d
  BY <1>1, <1>2
<1>6. ok.file \in 1..Len(ds) /\ Good(ok, ds[ok.file], faults)
      /\ Good(proc[p], ds[proc[p].file], faults + 1)
  BY <1>3, <1>5
<1> QED BY <1>3, <1>4, <1>5, <1>6, Attempt

\* A call that reads.
LEMMA ReadAttempt ==
  ASSUME SheetsInv, NEW p \in Procs, NEW ok, Sheets!Call(p, ok, docs), nextId' = nextId,
         proc[p].pc # "idle", ok.file = proc[p].file,
         Good(ok, docs[proc[p].file], faults)
  PROVE  SheetsInv'
<1>1. /\ proc[p].file \in 1..Len(docs) /\ Good(proc[p], docs[proc[p].file], faults)
      /\ faults \in Nat /\ DocsInv(docs, nextId)
  BY DEF SheetsInv
<1>2. Good(proc[p], docs[proc[p].file], faults + 1)
  BY <1>1, Faulted
<1>3. Len(docs) <= Len(docs) /\ MaxFaults \in Nat
  BY <1>1, LenProperties, WorkspaceAssumption DEF WorkspaceAssumption, DocsInv
<1> QED BY <1>1, <1>2, <1>3, Attempt
-----------------------------------------------------------------------------
\* The sheets of a document that a sync made stay its tabs.
LEMMA MadeStays ==
  ASSUME NEW r, NEW s, NEW d, NEW e, NEW id, Made(r, d), Rewrites(e, d, id),
         s.spec = r.spec, s.done = r.done, s.pc # "add",
         s.pc \in OnTab /\ s.spec.create => s.tab.id = s.spec.tabs[s.k].gid
  PROVE  Made(s, e)
<1>0. SUFFICES ASSUME s.spec.create PROVE Made(s, e)
  BY DEF Made
<1>1. /\ \A i \in 1..Len(r.spec.tabs) :
           /\ r.spec.tabs[i].gid \in DOMAIN d /\ r.spec.tabs[i].gid > 0
           /\ d[r.spec.tabs[i].gid].title = Sheets!Title(r.spec.tabs[i])
      /\ \A n \in DOMAIN d : \E i \in 1..Len(r.spec.tabs) : r.spec.tabs[i].gid = n
      /\ Len(r.done) <= Len(r.spec.tabs)
      /\ \A i \in 1..Len(r.done) : r.done[i] = r.spec.tabs[i].gid
  BY <1>0 DEF Made
<1>2. \A i \in 1..Len(r.spec.tabs) :
           /\ r.spec.tabs[i].gid \in DOMAIN e /\ r.spec.tabs[i].gid > 0
           /\ e[r.spec.tabs[i].gid].title = Sheets!Title(r.spec.tabs[i])
  BY <1>1 DEF Rewrites
<1>3. \A n \in DOMAIN e : \E i \in 1..Len(r.spec.tabs) : r.spec.tabs[i].gid = n
  BY <1>1 DEF Rewrites
<1> QED BY <1>0, <1>1, <1>2, <1>3 DEF Made

\* What a sync did is kept while only the tab in hand is changed.
LEMMA TabInHand ==
  ASSUME NEW r, NEW s, NEW d, NEW e, NEW f, Good(r, d, f), r.pc \in OnTab,
         Shape(s), Place(s), s.pc \in OnTab,
         s.file = r.file, s.spec = r.spec, s.k = r.k, s.tab = r.tab, s.done = r.done,
         s.before = r.before, s.overlapped = r.overlapped,
         ~r.overlapped => /\ Rewrites(e, d, r.tab.id) /\ Working(s, e)
                          /\ f = 0 => Quiet(s, e)
  PROVE  Good(s, e, f)
<1>0. /\ Shape(r) /\ Place(r) /\ Pinned(r) /\ r.pc # "idle" /\ s.pc # "idle"
      /\ s.pc # "failed" /\ s.pc # "nil" /\ s.pc # "add"
      /\ r.pc \notin {"idle", "create", "get", "failed", "nil", "add"}
  BY DEF Good, OnTab
<1>1. Pinned(s)
  BY <1>0 DEF Pinned
<1>2. ASSUME ~r.overlapped PROVE Own(s, e)
  <2>1. Worked(r, d) /\ Working(r, d) /\ Accounted(r, d) /\ Made(r, d)
    BY <1>0, <1>2 DEF Good, Own
  <2>2. Rewrites(e, d, r.tab.id)
    BY <1>2
  <2>3. Worked(s, e)
    <3>1. \A i \in 1..Len(s.done) : s.done[i] \in DOMAIN e
      BY <2>1, <2>2 DEF Worked, Rewrites
    <3>2. ASSUME NEW i \in 1..Len(s.done), Final(s, i)
          PROVE  /\ e[s.done[i]].content = Sheets!Data(s.spec.tabs[i])
                 /\ s.spec.tabs[i].big => e[s.done[i]].big
      <4>1. Final(r, i) /\ r.done[i] # r.tab.id /\ r.done[i] \in DOMAIN d
        BY <2>1, <3>2 DEF Final, Worked
      <4>2. e[s.done[i]] = d[r.done[i]]
        BY <2>2, <4>1 DEF Rewrites
      <4> QED BY <2>1, <4>1, <4>2 DEF Worked
    <3> QED BY <3>1, <3>2 DEF Worked
  <2>4. Accounted(s, e)
    BY <1>0, <2>1, <2>2 DEF Accounted, Rewrites
  <2>5. Made(s, e)
    <3>1. s.pc \in OnTab /\ s.spec.create => s.tab.id = s.spec.tabs[s.k].gid
      BY <2>1 DEF Made
    <3> QED BY <1>0, <2>1, <2>2, <3>1, MadeStays
  <2>6. Pruned(s, e)
    BY <1>0 DEF Pruned
  <2> QED BY <1>2, <2>3, <2>4, <2>5, <2>6 DEF Own
<1> QED BY <1>0, <1>1, <1>2 DEF Good

\* The tab in hand and its specification.
LEMMA InHand ==
  ASSUME NEW r, NEW d, NEW f, NEW n \in Nat, Good(r, d, f), Document(d, n), r.pc \in OnTab
  PROVE  /\ Shape(r) /\ Place(r) /\ r.pc # "idle"
         /\ r.k \in 1..Len(r.spec.tabs) /\ r.spec.tabs[r.k] \in Sheets!TabSpec
         /\ r.spec.tabs[r.k].big \in BOOLEAN /\ r.spec.tabs[r.k].skip \in BOOLEAN
         /\ r.spec.tabs[r.k].data \in STRING /\ r.spec.tabs[r.k].batches \in Nat \ {0}
         /\ r.tab.big \in BOOLEAN /\ r.tab.title \in STRING
         /\ \A m \in DOMAIN d : d[m] \in Sheets!Sheet
         /\ ~r.overlapped => /\ Working(r, d) /\ r.tab.id \in DOMAIN d
                             /\ d[r.tab.id].title = r.tab.title
                             /\ f = 0 => Quiet(r, d)
                             /\ Sheets!Named(d, r.tab.title) = r.tab.id
<1>1. Shape(r) /\ Place(r) /\ r.pc # "idle"
      /\ r.k \in 1..Len(r.spec.tabs)
  BY DEF Good, Place, OnTab
<1>2. r.spec.tabs[r.k] \in Sheets!TabSpec /\ r.tab \in Found
  BY <1>1, Fields
<1>3. /\ r.spec.tabs[r.k].big \in BOOLEAN /\ r.spec.tabs[r.k].skip \in BOOLEAN
      /\ r.spec.tabs[r.k].data \in STRING /\ r.spec.tabs[r.k].batches \in Nat \ {0}
      /\ r.tab.big \in BOOLEAN /\ r.tab.title \in STRING
  BY <1>2 DEF Sheets!TabSpec, Found
<1>4. \A m \in DOMAIN d : d[m] \in Sheets!Sheet
  BY DEF Document
<1>5. ASSUME ~r.overlapped
      PROVE  /\ Working(r, d) /\ r.tab.id \in DOMAIN d /\ d[r.tab.id].title = r.tab.title
             /\ f = 0 => Quiet(r, d)
             /\ Sheets!Named(d, r.tab.title) = r.tab.id
  <2>1. Own(r, d) /\ (f = 0 => Quiet(r, d))
    BY <1>5 DEF Good
  <2>2. Working(r, d)
    BY <2>1 DEF Own, OnTab
  <2>3. r.tab.id \in DOMAIN d /\ d[r.tab.id].title = r.tab.title
    BY <2>2 DEF Working
  <2>4. \A m \in DOMAIN d : d[m].title = r.tab.title <=> m = r.tab.id
    BY <2>3 DEF Document
  <2>5. Sheets!Taken(d, r.tab.title)
    BY <2>3 DEF Sheets!Taken
  <2>6. (CHOOSE m \in DOMAIN d : d[m].title = r.tab.title) = r.tab.id
    BY <2>3, <2>4
  <2> QED BY <2>1, <2>2, <2>3, <2>5, <2>6 DEF Sheets!Named
<1> QED BY <1>1, <1>2, <1>3, <1>4, <1>5

\* A call on a sheet, which only another's prune can have deleted.
LEMMA OnSheetKeeps ==
  ASSUME SheetsInv, NEW p \in Procs, NEW next, NEW n, NEW s, Sheets!OnSheet(p, next, n, s),
         proc[p].pc # "idle", next.file = proc[p].file,
         NEW e, e = [Sheets!Doc(p) EXCEPT ![n] = s],
         n \in DOMAIN Sheets!Doc(p) =>
           /\ s \in Sheets!Sheet /\ s.title = Sheets!Doc(p)[n].title
           /\ Good(next, e, faults) /\ Good(proc[p], e, faults + 1),
         n \notin DOMAIN Sheets!Doc(p) => proc[p].overlapped
  PROVE  SheetsInv'
<1>0. /\ nextId' = nextId /\ nextId \in Nat /\ nextId <= nextId
      /\ DocsInv(docs, nextId) /\ proc[p].file \in 1..Len(docs)
  BY DEF Sheets!OnSheet, SheetsInv, DocsInv
<1>1. PICK d : d = Sheets!Doc(p)
  OBVIOUS
<1>2. Document(d, nextId) /\ (Rooted(docs[1]) /\ proc[p].file = 1 => Rooted(d))
  BY <1>0, <1>1 DEF DocsInv, Sheets!Doc
<1>3. CASE n \in DOMAIN d
  <2>1. Sheets!Call(p, next, Sheets!With(p, e))
    BY <1>1, <1>3 DEF Sheets!OnSheet
  <2>2. Document(e, nextId) /\ (Rooted(d) => Rooted(e))
    BY <1>0, <1>1, <1>2, <1>3, Rewritten
  <2> QED BY <1>0, <1>1, <1>2, <1>3, <2>1, <2>2, OwnAttempt
<1>4. CASE n \notin DOMAIN d
  <2>1. Sheets!Refused(p)
    BY <1>1, <1>4 DEF Sheets!OnSheet
  <2> QED BY <1>0, <1>1, <1>4, <2>1, RefusedOnce
<1> QED BY <1>3, <1>4

\* What is known of a sync that takes a step, and of its document.
LEMMA Stepping ==
  ASSUME SheetsInv, NEW p \in Procs
  PROVE  /\ Good(proc[p], Sheets!Doc(p), faults) /\ Good(proc[p], Sheets!Doc(p), faults + 1)
         /\ Document(Sheets!Doc(p), nextId) /\ nextId \in Nat /\ faults \in Nat
         /\ proc[p].file \in 1..Len(docs) /\ DocsInv(docs, nextId)
         /\ DocsInv(docs, nextId + 1)
         /\ nextId <= nextId + 1 /\ nextId + 1 \in Nat
         /\ Rooted(docs[1]) /\ (proc[p].file = 1 => Sheets!Doc(p) = docs[1])
<1>1. /\ proc[p].file \in 1..Len(docs) /\ DocsInv(docs, nextId) /\ nextId \in Nat
      /\ Good(proc[p], docs[proc[p].file], faults) /\ faults \in Nat
      /\ Document(docs[proc[p].file], nextId) /\ Rooted(docs[1])
  BY DEF SheetsInv, DocsInv
<1>2. Good(proc[p], docs[proc[p].file], faults + 1)
  BY <1>1, Faulted
<1>3. nextId <= nextId + 1 /\ nextId + 1 \in Nat
  BY <1>1
<1>4. DocsInv(docs, nextId + 1)
  BY <1>1, <1>3, DocsGrow
<1> QED BY <1>1, <1>2, <1>3, <1>4 DEF Sheets!Doc

\* The fields of a sheet, and one with some of them changed.
LEMMA SheetFields ==
  ASSUME NEW s \in Sheets!Sheet
  PROVE  /\ s.title \in STRING /\ s.content \in SUBSET (STRING \X Nat) /\ s.big \in BOOLEAN
         /\ s.bands \in SUBSET Nat /\ s.links \in STRING
  BY DEF Sheets!Sheet

LEMMA Grown ==
  ASSUME NEW s \in Sheets!Sheet, NEW b \in BOOLEAN, NEW t, t = [s EXCEPT !.big = b]
  PROVE  /\ t \in Sheets!Sheet /\ t.title = s.title /\ t.content = s.content
         /\ t.bands = s.bands /\ t.big = b
  BY DEF Sheets!Sheet

LEMMA Filled ==
  ASSUME NEW s \in Sheets!Sheet, NEW c \in SUBSET (STRING \X Nat),
         NEW t, t = [s EXCEPT !.content = c]
  PROVE  /\ t \in Sheets!Sheet /\ t.title = s.title /\ t.content = c
         /\ t.bands = s.bands /\ t.big = s.big
  BY DEF Sheets!Sheet

LEMMA Banded ==
  ASSUME NEW s \in Sheets!Sheet, NEW c \in SUBSET Nat, NEW t, t = [s EXCEPT !.bands = c]
  PROVE  /\ t \in Sheets!Sheet /\ t.title = s.title /\ t.content = s.content /\ t.big = s.big
  BY DEF Sheets!Sheet

LEMMA Linked ==
  ASSUME NEW s \in Sheets!Sheet, NEW c \in STRING, NEW t, t = [s EXCEPT !.links = c]
  PROVE  /\ t \in Sheets!Sheet /\ t.title = s.title /\ t.content = s.content /\ t.big = s.big
  BY DEF Sheets!Sheet

\* A repetition after a lost reply finds its tab as the first attempt left it.
LEMMA Repeated ==
  ASSUME NEW r, NEW d, NEW e, NEW f \in Nat, Good(r, d, f), r.pc \in OnTab,
         ~r.overlapped => Rewrites(e, d, r.tab.id) /\ Working(r, e)
  PROVE  Good(r, e, f + 1)
<1>1. Good(r, d, f + 1) /\ f + 1 # 0
  BY Faulted
<1>2. Shape(r) /\ Place(r)
  BY DEF Good
<1> QED BY <1>1, <1>2, TabInHand

\* resizeTab.
LEMMA Resizes ==
  ASSUME SheetsInv, NEW p \in Procs, Sheets!resizeTab(p)
  PROVE  SheetsInv'
<1>1. PICK r : r = proc[p]
  OBVIOUS
<1>2. PICK d : d = Sheets!Doc(p)
  OBVIOUS
<1>3. PICK spec : spec = r.spec.tabs[r.k]
  OBVIOUS
<1>4. PICK s : s = [r EXCEPT !.pc = "clear"]
  OBVIOUS
<1>0. /\ r.pc = "resize" /\ r.pc \in OnTab /\ "clear" \in Pcs /\ "clear" \in OnTab
      /\ Good(r, d, faults) /\ Document(d, nextId) /\ nextId \in Nat /\ faults \in Nat
      /\ r.file \in 1..Len(docs)
  BY <1>1, <1>2, Stepping DEF Sheets!resizeTab, OnTab, Pcs
<1>5. /\ Shape(r) /\ Place(r) /\ r.pc # "idle"
      /\ r.k \in 1..Len(r.spec.tabs) /\ spec.big \in BOOLEAN
      /\ r.tab.big \in BOOLEAN
      /\ \A m \in DOMAIN d : d[m] \in Sheets!Sheet
      /\ ~r.overlapped => /\ Working(r, d) /\ r.tab.id \in DOMAIN d
                          /\ d[r.tab.id].title = r.tab.title
                          /\ faults = 0 => Quiet(r, d)
  BY <1>0, <1>3, InHand
<1>6. Shape(s) /\ s.pc = "clear" /\ Same(s, r)
  BY <1>0, <1>4, <1>5, PcMoves
<1>7. Place(s)
  BY <1>0, <1>5, <1>6 DEF Place, Same, OnTab
<1>8. CASE spec.skip /\ (r.tab.big \/ ~spec.big)
  <2>1. Sheets!Skips(p, s) /\ nextId' = nextId
    BY <1>1, <1>3, <1>4, <1>8 DEF Sheets!resizeTab, Sheets!Spec
  <2>2. ASSUME ~r.overlapped
        PROVE  /\ Rewrites(d, d, r.tab.id) /\ Working(s, d) /\ (faults = 0 => Quiet(s, d))
    <3>1. Rewrites(d, d, r.tab.id)
      BY DEF Rewrites
    <3>2. Working(s, d)
      BY <1>0, <1>3, <1>5, <1>6, <1>8, <2>2 DEF Working, Same
    <3>3. faults = 0 => Quiet(s, d)
      BY <1>0, <1>5, <1>6, <2>2 DEF Quiet, Same, OnTab
    <3> QED BY <3>1, <3>2, <3>3
  <2>3. Good(s, d, faults)
    BY <1>0, <1>6, <1>7, <2>2, TabInHand DEF Same
  <2> QED BY <1>0, <1>1, <1>2, <1>6, <2>1, <2>3, Stepping, Skipped DEF Same, Sheets!Doc
<1>9. CASE ~(spec.skip /\ (r.tab.big \/ ~spec.big))
  <2>1. PICK b : b = (d[r.tab.id].big \/ spec.big)
    OBVIOUS
  <2>2. PICK t : t = [d[r.tab.id] EXCEPT !.big = b]
    OBVIOUS
  <2>3. PICK e : e = [d EXCEPT ![r.tab.id] = t]
    OBVIOUS
  <2>4. Sheets!OnSheet(p, s, r.tab.id, t)
    BY <1>1, <1>2, <1>3, <1>4, <1>9, <2>1, <2>2 DEF Sheets!resizeTab, Sheets!Spec
  <2>5. ASSUME r.tab.id \in DOMAIN d
        PROVE  /\ t \in Sheets!Sheet /\ t.title = d[r.tab.id].title
               /\ Good(s, e, faults) /\ Good(r, e, faults + 1)
    <3>0. d[r.tab.id] \in Sheets!Sheet /\ d[r.tab.id].big \in BOOLEAN
      BY <1>5, <2>5, SheetFields
    <3>1. b \in BOOLEAN
      BY <2>1, Zenon
    <3>2. /\ t \in Sheets!Sheet /\ t.title = d[r.tab.id].title /\ t.content = d[r.tab.id].content
          /\ t.bands = d[r.tab.id].bands /\ t.big = b
      BY <2>2, <3>0, <3>1, Grown
    <3>3. Rewrites(e, d, r.tab.id) /\ e[r.tab.id] = t
      <4>1. Document(d, nextId) /\ nextId \in Nat
        BY <1>0
      <4>2. r.tab.id \in DOMAIN d /\ t \in Sheets!Sheet /\ t.title = d[r.tab.id].title
        BY <2>5, <3>2
      <4> QED BY <2>3, <4>1, <4>2, Rewritten
    <3>4. ASSUME ~r.overlapped PROVE Working(s, e) /\ Working(r, e) /\ (faults = 0 => Quiet(s, e))
      <4>1. r.tab.id \in DOMAIN e /\ e[r.tab.id].title = r.tab.title
        BY <1>5, <2>5, <3>2, <3>3, <3>4 DEF Rewrites
      <4>2. Working(s, e)
        BY <1>3, <1>6, <2>1, <3>2, <3>3, <4>1 DEF Working, Same
      <4>3. r.tab.big => d[r.tab.id].big
        BY <1>0, <1>5, <3>4 DEF Working
      <4>4. Working(r, e)
        BY <1>0, <2>1, <3>2, <3>3, <4>1, <4>3 DEF Working
      <4>5. faults = 0 => Quiet(s, e)
        <5>1. faults = 0 => /\ d[r.tab.id].bands = r.tab.bands
                            /\ DOMAIN r.before \subseteq DOMAIN d
          BY <1>0, <1>5, <3>4 DEF Quiet, OnTab
        <5> QED BY <1>6, <3>2, <3>3, <5>1 DEF Quiet, Same, OnTab, Rewrites
      <4> QED BY <4>2, <4>4, <4>5
    <3>5. Good(s, e, faults)
      BY <1>0, <1>6, <1>7, <3>3, <3>4, TabInHand DEF Same
    <3>6. Good(r, e, faults + 1)
      BY <1>0, <3>3, <3>4, Repeated
    <3> QED BY <3>2, <3>5, <3>6
  <2>6. r.tab.id \notin DOMAIN d => r.overlapped
    BY <1>5
  <2>7. s.file = r.file
    BY <1>6 DEF Same
  <2> QED BY <1>1, <1>2, <1>5, <2>3, <2>4, <2>5, <2>6, <2>7, OnSheetKeeps
<1> QED BY <1>8, <1>9

\* clearTab.
LEMMA Clears ==
  ASSUME SheetsInv, NEW p \in Procs, Sheets!clearTab(p)
  PROVE  SheetsInv'
<1>1. PICK r : r = proc[p]
  OBVIOUS
<1>2. PICK d : d = Sheets!Doc(p)
  OBVIOUS
<1>3. PICK spec : spec = r.spec.tabs[r.k]
  OBVIOUS
<1>x. PICK x : x = IF spec.data = "" THEN "format" ELSE "write"
  OBVIOUS
<1>4. PICK s : s = [r EXCEPT !.pc = x]
  OBVIOUS
<1>n. PICK n : n = Sheets!Named(d, r.tab.title)
  OBVIOUS
<1>t. PICK t : t = [d[n] EXCEPT !.content = {}]
  OBVIOUS
<1>e. PICK e : e = [d EXCEPT ![n] = t]
  OBVIOUS
<1>0. /\ r.pc = "clear" /\ r.pc \in OnTab /\ x \in Pcs /\ x \in OnTab
      /\ Good(r, d, faults) /\ Document(d, nextId) /\ nextId \in Nat /\ faults \in Nat
  BY <1>1, <1>2, <1>x, Stepping DEF Sheets!clearTab, OnTab, Pcs
<1>5. /\ Shape(r) /\ Place(r) /\ r.pc # "idle"
      /\ r.k \in 1..Len(r.spec.tabs) /\ spec.big \in BOOLEAN
      /\ spec.batches \in Nat \ {0}
      /\ \A m \in DOMAIN d : d[m] \in Sheets!Sheet
      /\ ~r.overlapped => /\ Working(r, d) /\ r.tab.id \in DOMAIN d
                          /\ d[r.tab.id].title = r.tab.title
                          /\ faults = 0 => Quiet(r, d)
                          /\ n = r.tab.id
  BY <1>0, <1>3, <1>n, InHand
<1>6. Shape(s) /\ s.pc = x /\ Same(s, r) /\ s.file = r.file
  BY <1>0, <1>4, <1>5, PcMoves DEF Same
<1>7. Place(s)
  <2>1. r.batch = 1 /\ 1 \in 1..spec.batches
    BY <1>0, <1>5 DEF Place
  <2> QED BY <1>0, <1>3, <1>5, <1>6, <1>x, <2>1 DEF Place, Same, OnTab
<1>8. Sheets!OnSheet(p, s, n, t)
  BY <1>1, <1>2, <1>3, <1>4, <1>n, <1>t, <1>x DEF Sheets!clearTab, Sheets!Spec
<1>9. ASSUME n \in DOMAIN d
      PROVE  /\ t \in Sheets!Sheet /\ t.title = d[n].title
             /\ Good(s, e, faults) /\ Good(r, e, faults + 1)
  <2>2. /\ t \in Sheets!Sheet /\ t.title = d[n].title /\ t.content = {}
        /\ t.bands = d[n].bands /\ t.big = d[n].big
    <3>1. PICK u \in Sheets!Sheet : u = d[n]
      BY <1>5, <1>9
    <3>2. PICK c \in SUBSET (STRING \X Nat) : c = {}
      BY Zenon
    <3>3. t = [u EXCEPT !.content = c]
      BY <1>t, <3>1, <3>2
    <3>4. /\ t \in Sheets!Sheet /\ t.title = u.title /\ t.content = c
          /\ t.bands = u.bands /\ t.big = u.big
      BY <3>3, Filled
    <3> QED BY <3>1, <3>2, <3>4
  <2>3. Rewrites(e, d, n) /\ e[n] = t
    <3>1. Document(d, nextId) /\ nextId \in Nat
      BY <1>0
    <3> QED BY <1>9, <1>e, <2>2, <3>1, Rewritten
  <2>4. ASSUME ~r.overlapped
        PROVE  /\ Rewrites(e, d, r.tab.id) /\ Working(s, e) /\ Working(r, e)
               /\ faults = 0 => Quiet(s, e)
    <3>0. n = r.tab.id /\ e[r.tab.id] = t
      BY <1>5, <2>3, <2>4
    <3>1. r.tab.id \in DOMAIN e /\ e[r.tab.id].title = r.tab.title
      BY <1>5, <2>2, <2>3, <2>4, <3>0 DEF Rewrites
    <3>2. spec.big => e[r.tab.id].big
      BY <1>0, <1>3, <1>5, <2>2, <2>4, <3>0 DEF Working
    <3>3. Working(r, e)
      BY <1>0, <1>3, <3>1, <3>2 DEF Working
    <3>4. Working(s, e)
      <4>1. x = "format" => Sheets!Data(spec) = {}
        BY <1>x DEF Sheets!Data
      <4>2. x = "write" => s.batch = 1
        BY <1>0, <1>5, <1>6 DEF Place, Same
      <4>3. Beside({}, 1) = {} /\ FirstBatches(spec.data, 1 - 1) = {}
        BY DEF Beside, FirstBatches
      <4>4. s.spec.tabs[s.k] = spec /\ s.tab = r.tab
        BY <1>3, <1>6 DEF Same
      <4>5. s.pc = "format" \/ s.pc = "write"
        BY <1>6, <1>x
      <4> QED BY <1>6, <2>2, <3>0, <3>1, <3>2, <4>1, <4>2, <4>3, <4>4, <4>5 DEF Working
    <3>5. faults = 0 => Quiet(s, e)
      <4>1. faults = 0 => /\ d[r.tab.id].bands = r.tab.bands
                          /\ DOMAIN r.before \subseteq DOMAIN d
        BY <1>0, <1>5, <2>4 DEF Quiet, OnTab
      <4> QED BY <1>6, <1>x, <2>2, <2>3, <3>0, <4>1 DEF Quiet, Same, OnTab, Rewrites
    <3> QED BY <2>3, <3>0, <3>3, <3>4, <3>5
  <2>5. Good(s, e, faults)
    BY <1>0, <1>6, <1>7, <2>4, TabInHand DEF Same
  <2>6. Good(r, e, faults + 1)
    BY <1>0, <2>4, Repeated
  <2> QED BY <2>2, <2>5, <2>6
<1>10. n \notin DOMAIN d => r.overlapped
  BY <1>5
<1> QED BY <1>1, <1>2, <1>5, <1>6, <1>8, <1>9, <1>10, <1>e, OnSheetKeeps

\* The values after a batch: the batches before it and itself, also when it is
\* written twice.
LEMMA BatchWritten ==
  ASSUME NEW c, NEW b \in Nat \ {0}, NEW data, Beside(c, b) = FirstBatches(data, b - 1),
         NEW w, w = Beside(c, b) \cup {<<data, b>>}, NEW m, m = b + 1
  PROVE  /\ w = FirstBatches(data, b)
         /\ Beside(w, b) = FirstBatches(data, b - 1)
         /\ Beside(w, m) = FirstBatches(data, m - 1)
<1>1. w = FirstBatches(data, b)
  BY DEF FirstBatches
<1>2. Beside(w, b) = FirstBatches(data, b - 1)
  BY <1>1 DEF FirstBatches, Beside
<1>3. Beside(w, m) = FirstBatches(data, m - 1)
  BY <1>1 DEF FirstBatches, Beside
<1> QED BY <1>1, <1>2, <1>3

\* writeTabBatches.
LEMMA Writes ==
  ASSUME SheetsInv, NEW p \in Procs, Sheets!writeTabBatches(p)
  PROVE  SheetsInv'
<1>1. PICK r : r = proc[p]
  OBVIOUS
<1>2. PICK d : d = Sheets!Doc(p)
  OBVIOUS
<1>3. PICK spec : spec = r.spec.tabs[r.k]
  OBVIOUS
<1>x. PICK x : x = IF r.batch = spec.batches THEN "format" ELSE "write"
  OBVIOUS
<1>0. /\ r.pc = "write" /\ r.pc \in OnTab /\ x \in Pcs /\ x \in OnTab
      /\ Good(r, d, faults) /\ Document(d, nextId) /\ nextId \in Nat /\ faults \in Nat
  BY <1>1, <1>2, <1>x, Stepping DEF Sheets!writeTabBatches, OnTab, Pcs
<1>n. PICK n : n = Sheets!Named(d, r.tab.title)
  OBVIOUS
<1>5. /\ Shape(r) /\ Place(r) /\ r.pc # "idle"
      /\ r.k \in 1..Len(r.spec.tabs) /\ spec.big \in BOOLEAN
      /\ spec.batches \in Nat \ {0} /\ spec.data \in STRING
      /\ \A m \in DOMAIN d : d[m] \in Sheets!Sheet
      /\ ~r.overlapped => /\ Working(r, d) /\ r.tab.id \in DOMAIN d
                          /\ d[r.tab.id].title = r.tab.title
                          /\ faults = 0 => Quiet(r, d)
                          /\ n = r.tab.id
  BY <1>0, <1>3, <1>n, InHand
<1>b. /\ r.batch \in 1..spec.batches /\ r.batch \in Nat \ {0} /\ r.batch + 1 \in Nat
      /\ (x = "write" => r.batch + 1 \in 1..spec.batches)
      /\ spec.data # ""
  <2>1. r.batch \in 1..spec.batches /\ spec.data # ""
    BY <1>0, <1>3, <1>5 DEF Place
  <2>2. PICK b, m : b = r.batch /\ m = spec.batches
    OBVIOUS
  <2>3. m \in Nat /\ b \in 1..m
    BY <1>5, <2>1, <2>2
  <2>4. b \in Nat \ {0} /\ b + 1 \in Nat /\ (b # m => b + 1 \in 1..m)
    BY <2>3
  <2>5. x = "write" => b # m
    BY <1>x, <2>2
  <2> QED BY <2>1, <2>2, <2>4, <2>5
<1>m. PICK more \in Nat : more = r.batch + 1
  BY <1>b
<1>4. PICK s : s = [r EXCEPT !.batch = more, !.pc = x]
  OBVIOUS
<1>w. PICK w : w = Beside(d[n].content, r.batch) \cup {<<spec.data, r.batch>>}
  OBVIOUS
<1>t. PICK t : t = [d[n] EXCEPT !.content = w]
  OBVIOUS
<1>e. PICK e : e = [d EXCEPT ![n] = t]
  OBVIOUS
<1>6. /\ s.pc = x /\ s.batch = more /\ s.file = r.file /\ s.spec = r.spec /\ s.k = r.k
      /\ s.tab = r.tab /\ s.done = r.done /\ s.before = r.before
      /\ s.overlapped = r.overlapped
  BY <1>4, <1>5 DEF Shape
<1>s. Shape(s)
  BY <1>0, <1>4, <1>5, <1>6 DEF Shape
<1>7. Place(s)
  BY <1>0, <1>3, <1>5, <1>6, <1>b, <1>m, <1>x DEF Place, OnTab
<1>8. Sheets!OnSheet(p, s, n, t)
  BY <1>1, <1>2, <1>3, <1>4, <1>m, <1>n, <1>t, <1>w, <1>x
    DEF Sheets!writeTabBatches, Sheets!Spec, Beside
<1>9. ASSUME n \in DOMAIN d
      PROVE  /\ t \in Sheets!Sheet /\ t.title = d[n].title
             /\ Good(s, e, faults) /\ Good(r, e, faults + 1)
  <2>1. d[n] \in Sheets!Sheet /\ w \in SUBSET (STRING \X Nat)
    <3>1. d[n] \in Sheets!Sheet
      BY <1>5, <1>9
    <3>2. d[n].content \in SUBSET (STRING \X Nat)
      BY <3>1, SheetFields
    <3>3. Beside(d[n].content, r.batch) \subseteq STRING \X Nat
      BY <3>2 DEF Beside
    <3>4. <<spec.data, r.batch>> \in STRING \X Nat
      BY <1>5, <1>b
    <3> QED BY <1>w, <3>1, <3>3, <3>4
  <2>2. /\ t \in Sheets!Sheet /\ t.title = d[n].title /\ t.content = w
        /\ t.bands = d[n].bands /\ t.big = d[n].big
    <3>1. PICK u \in Sheets!Sheet : u = d[n]
      BY <2>1
    <3>2. t = [u EXCEPT !.content = w]
      BY <1>t, <3>1
    <3>3. /\ t \in Sheets!Sheet /\ t.title = u.title /\ t.content = w
          /\ t.bands = u.bands /\ t.big = u.big
      BY <2>1, <3>2, Filled
    <3> QED BY <3>1, <3>3
  <2>3. Rewrites(e, d, n) /\ e[n] = t
    <3>1. Document(d, nextId) /\ nextId \in Nat
      BY <1>0
    <3> QED BY <1>9, <1>e, <2>2, <3>1, Rewritten
  <2>4. ASSUME ~r.overlapped
        PROVE  /\ Rewrites(e, d, r.tab.id) /\ Working(s, e) /\ Working(r, e)
               /\ faults = 0 => Quiet(s, e)
    <3>0. n = r.tab.id /\ e[r.tab.id] = t
      BY <1>5, <2>3, <2>4
    <3>1. r.tab.id \in DOMAIN e /\ e[r.tab.id].title = r.tab.title
      BY <1>5, <2>2, <2>3, <2>4, <3>0 DEF Rewrites
    <3>2. /\ spec.big => e[r.tab.id].big
          /\ Beside(d[n].content, r.batch) = FirstBatches(spec.data, r.batch - 1)
      BY <1>0, <1>3, <1>5, <2>2, <2>4, <3>0 DEF Working
    <3>w. /\ w = FirstBatches(spec.data, r.batch)
          /\ Beside(w, r.batch) = FirstBatches(spec.data, r.batch - 1)
          /\ Beside(w, more) = FirstBatches(spec.data, more - 1)
      <4>1. PICK c, b, q : c = d[n].content /\ b = r.batch /\ q = spec.data
        OBVIOUS
      <4>2. /\ b \in Nat \ {0} /\ Beside(c, b) = FirstBatches(q, b - 1)
            /\ w = Beside(c, b) \cup {<<q, b>>} /\ more = b + 1
        BY <1>b, <1>m, <1>w, <3>2, <4>1
      <4>3. /\ w = FirstBatches(q, b) /\ Beside(w, b) = FirstBatches(q, b - 1)
            /\ Beside(w, more) = FirstBatches(q, more - 1)
        BY <4>2, BatchWritten
      <4> QED BY <4>1, <4>3
    <3>3. Working(r, e)
      BY <1>0, <1>3, <2>2, <3>0, <3>1, <3>2, <3>w DEF Working
    <3>4. Working(s, e)
      <4>1. x = "format" => Sheets!Data(spec) = w
        BY <1>b, <1>x, <3>w DEF Sheets!Data, FirstBatches
      <4>4. s.spec.tabs[s.k] = spec /\ s.tab = r.tab
        BY <1>3, <1>6
      <4>5. s.pc = "format" \/ s.pc = "write"
        BY <1>6, <1>x
      <4> QED BY <1>6, <2>2, <3>0, <3>1, <3>2, <4>1, <3>w, <4>4, <4>5 DEF Working
    <3>5. faults = 0 => Quiet(s, e)
      <4>1. faults = 0 => /\ d[r.tab.id].bands = r.tab.bands
                          /\ DOMAIN r.before \subseteq DOMAIN d
        BY <1>0, <1>5, <2>4 DEF Quiet, OnTab
      <4> QED BY <1>6, <1>x, <2>2, <2>3, <3>0, <4>1 DEF Quiet, OnTab, Rewrites
    <3> QED BY <2>3, <3>0, <3>3, <3>4, <3>5
  <2>5. Good(s, e, faults)
    BY <1>0, <1>6, <1>7, <1>s, <2>4, TabInHand
  <2>6. Good(r, e, faults + 1)
    BY <1>0, <2>4, Repeated
  <2> QED BY <2>2, <2>5, <2>6
<1>10. n \notin DOMAIN d => r.overlapped
  BY <1>5
<1> QED BY <1>1, <1>2, <1>5, <1>6, <1>8, <1>9, <1>10, <1>e, OnSheetKeeps

\* applyTabFormatting.
LEMMA Formats ==
  ASSUME SheetsInv, NEW p \in Procs, Sheets!applyTabFormatting(p)
  PROVE  SheetsInv'
<1>1. PICK r : r = proc[p]
  OBVIOUS
<1>2. PICK d : d = Sheets!Doc(p)
  OBVIOUS
<1>3. PICK spec : spec = r.spec.tabs[r.k]
  OBVIOUS
<1>4. PICK s : s = [r EXCEPT !.pc = "links"]
  OBVIOUS
<1>0. /\ r.pc = "format" /\ r.pc \in OnTab /\ "links" \in Pcs /\ "links" \in OnTab
      /\ Good(r, d, faults) /\ Document(d, nextId) /\ nextId \in Nat /\ faults \in Nat
      /\ r.file \in 1..Len(docs) /\ nextId' = nextId + 1
      /\ nextId <= nextId' /\ nextId' \in Nat /\ DocsInv(docs, nextId')
      /\ Rooted(docs[1]) /\ r.file = 1 => Rooted(d)
  BY <1>1, <1>2, Stepping DEF Sheets!applyTabFormatting, OnTab, Pcs
<1>5. /\ Shape(r) /\ Place(r) /\ r.pc # "idle"
      /\ r.k \in 1..Len(r.spec.tabs) /\ spec.big \in BOOLEAN
      /\ \A m \in DOMAIN d : d[m] \in Sheets!Sheet
      /\ ~r.overlapped => /\ Working(r, d) /\ r.tab.id \in DOMAIN d
                          /\ d[r.tab.id].title = r.tab.title
                          /\ faults = 0 => Quiet(r, d)
  BY <1>0, <1>3, InHand
<1>6. Shape(s) /\ s.pc = "links" /\ Same(s, r) /\ s.file = r.file
  BY <1>0, <1>4, <1>5, PcMoves DEF Same
<1>7. Place(s)
  BY <1>0, <1>5, <1>6 DEF Place, Same, OnTab
<1>8. CASE spec.skip
  <2>1. Sheets!Skips(p, s)
    BY <1>1, <1>3, <1>4, <1>8 DEF Sheets!applyTabFormatting, Sheets!Spec
  <2>2. ASSUME ~r.overlapped
        PROVE  /\ Rewrites(d, d, r.tab.id) /\ Working(s, d) /\ (faults = 0 => Quiet(s, d))
    <3>1. Rewrites(d, d, r.tab.id)
      BY DEF Rewrites
    <3>2. Working(s, d)
      BY <1>0, <1>3, <1>5, <1>6, <2>2 DEF Working, Same
    <3>3. faults = 0 => Quiet(s, d)
      BY <1>0, <1>5, <1>6, <2>2 DEF Quiet, Same, OnTab
    <3> QED BY <3>1, <3>2, <3>3
  <2>3. Good(s, d, faults)
    BY <1>0, <1>6, <1>7, <2>2, TabInHand DEF Same
  <2> QED BY <1>0, <1>1, <1>2, <1>6, <2>1, <2>3, Skipped DEF Sheets!Doc
<1>9. CASE ~spec.skip /\ (r.tab.id \notin DOMAIN d \/ d[r.tab.id].bands # r.tab.bands)
  <2>1. Sheets!Refused(p)
    BY <1>1, <1>2, <1>3, <1>9 DEF Sheets!applyTabFormatting, Sheets!Spec
  <2>2. faults > 0 \/ r.overlapped
    BY <1>0, <1>5, <1>9 DEF Quiet, OnTab
  <2> QED BY <1>0, <1>1, <1>5, <2>1, <2>2, RefusedOnce
<1>10. CASE ~spec.skip /\ r.tab.id \in DOMAIN d /\ d[r.tab.id].bands = r.tab.bands
  <2>1. PICK t : t = [d[r.tab.id] EXCEPT !.bands = {nextId}]
    OBVIOUS
  <2>2. PICK e : e = [d EXCEPT ![r.tab.id] = t]
    OBVIOUS
  <2>3. Sheets!Call(p, s, Sheets!With(p, e))
    <3>1. e = [Sheets!Doc(p) EXCEPT ![proc[p].tab.id].bands = {nextId}]
      BY <1>1, <1>2, <2>1, <2>2
    <3> QED
      BY <1>1, <1>2, <1>3, <1>4, <1>10, <3>1 DEF Sheets!applyTabFormatting, Sheets!Spec
  <2>4. d[r.tab.id] \in Sheets!Sheet /\ {nextId} \in SUBSET Nat
    BY <1>0, <1>5, <1>10
  <2>5. /\ t \in Sheets!Sheet /\ t.title = d[r.tab.id].title
        /\ t.content = d[r.tab.id].content /\ t.big = d[r.tab.id].big
    <3>1. PICK u \in Sheets!Sheet : u = d[r.tab.id]
      BY <2>4
    <3>2. PICK c \in SUBSET Nat : c = {nextId}
      BY <2>4
    <3>3. t = [u EXCEPT !.bands = c]
      BY <2>1, <3>1, <3>2
    <3>4. t \in Sheets!Sheet /\ t.title = u.title /\ t.content = u.content /\ t.big = u.big
      BY <3>3, Banded
    <3> QED BY <3>1, <3>4
  <2>6. Document(e, nextId) /\ Rewrites(e, d, r.tab.id) /\ e[r.tab.id] = t
        /\ (Rooted(d) => Rooted(e))
    <3>1. PICK n \in Nat : n = nextId
      BY <1>0
    <3>2. PICK id \in DOMAIN d : id = r.tab.id
      BY <1>10
    <3>3. Document(d, n) /\ t \in Sheets!Sheet /\ t.title = d[id].title /\ e = [d EXCEPT ![id] = t]
      BY <1>0, <2>2, <2>5, <3>1, <3>2
    <3>4. Document(e, n) /\ Rewrites(e, d, id) /\ e[id] = t /\ (Rooted(d) => Rooted(e))
      BY <3>3, Rewritten
    <3> QED BY <3>1, <3>2, <3>4
  <2>7. Document(e, nextId')
    BY <1>0, <2>6, DocumentGrows
  <2>8. ASSUME ~r.overlapped
        PROVE  Working(s, e) /\ Working(r, e) /\ (faults = 0 => Quiet(s, e))
    <3>1. /\ r.tab.id \in DOMAIN e /\ e[r.tab.id].title = r.tab.title
          /\ spec.big => e[r.tab.id].big
          /\ e[r.tab.id].content = Sheets!Data(spec)
      BY <1>0, <1>3, <1>5, <1>10, <2>5, <2>6, <2>8 DEF Working, Rewrites
    <3>2. Working(s, e)
      BY <1>3, <1>6, <3>1 DEF Working, Same
    <3>3. Working(r, e)
      BY <1>0, <1>3, <3>1 DEF Working
    <3>4. faults = 0 => Quiet(s, e)
      <4>1. faults = 0 => DOMAIN r.before \subseteq DOMAIN d
        BY <1>0, <1>5, <2>8 DEF Quiet
      <4> QED BY <1>6, <2>6, <4>1 DEF Quiet, Same, OnTab, Rewrites
    <3> QED BY <3>2, <3>3, <3>4
  <2>9. Good(s, e, faults)
    BY <1>0, <1>6, <1>7, <2>6, <2>8, TabInHand DEF Same
  <2>10. Good(r, e, faults + 1)
    BY <1>0, <2>6, <2>8, Repeated
  <2> QED BY <1>0, <1>1, <1>5, <1>6, <2>3, <2>6, <2>7, <2>9, <2>10, OwnAttempt
<1> QED BY <1>8, <1>9, <1>10, <1>5

\* A tab is done.
LEMMA Completes ==
  ASSUME NEW r, NEW d, NEW e, NEW f, Good(r, d, f), r.pc = "links",
         ~r.overlapped => /\ Rewrites(e, d, r.tab.id)
                          /\ e[r.tab.id].content = d[r.tab.id].content
                          /\ e[r.tab.id].big = d[r.tab.id].big,
         NEW s, s = [r EXCEPT !.pc = Sheets!After(r.spec, r.k), !.k = @ + 1,
                              !.done = Append(@, r.tab.id)]
  PROVE  Good(s, e, f) /\ s.file = r.file
<1>0. /\ Shape(r) /\ Place(r) /\ Pinned(r) /\ r.pc \in OnTab
      /\ r.k \in 1..Len(r.spec.tabs) /\ Len(r.done) = r.k - 1
      /\ r.tab.id \in Int /\ Len(r.spec.tabs) \in Nat /\ r.k \in Nat /\ r.done \in Seq(Int)
      /\ r.spec.create \in BOOLEAN
  <2>1. Shape(r) /\ Place(r) /\ Pinned(r) /\ r.pc \in OnTab
    BY DEF Good, OnTab
  <2>2. r.tab \in Found /\ Len(r.spec.tabs) \in Nat /\ r.k \in Nat /\ r.done \in Seq(Int)
        /\ r.spec.create \in BOOLEAN
    BY <2>1, Fields
  <2>3. r.tab.id \in Int
    BY <2>2 DEF Found
  <2> QED BY <2>1, <2>2, <2>3 DEF Place
<1>1. PICK k \in Nat : k = r.k
  BY <1>0
<1>2. PICK l \in Seq(Int) : l = Append(r.done, r.tab.id)
  <2>1. Append(r.done, r.tab.id) \in Seq(Int)
    BY <1>0, AppendProperties
  <2> QED BY <2>1, Zenon
<1>3. /\ Len(l) = k /\ l[k] = r.tab.id /\ \A i \in 1..Len(r.done) : l[i] = r.done[i]
      /\ \A i \in 1..k : i # k => i \in 1..Len(r.done)
      /\ 1..Len(r.done) \subseteq 1..k /\ k \in 1..k
  <2>1. Len(l) = Len(r.done) + 1 /\ l[Len(r.done) + 1] = r.tab.id
        /\ \A i \in 1..Len(r.done) : l[i] = r.done[i]
    BY <1>0, <1>2, AppendProperties
  <2>2. Len(r.done) = k - 1 /\ k >= 1
    BY <1>0, <1>1
  <2> QED BY <2>1, <2>2
<1>4. PICK x : x = Sheets!After(r.spec, k)
  OBVIOUS
<1>5. /\ x \in {"tab", "move", "prune"} /\ (x = "move" => r.spec.create)
      /\ (x = "prune" => ~r.spec.create) /\ (x = "tab" => k < Len(r.spec.tabs))
      /\ (x # "tab" => k = Len(r.spec.tabs))
  BY <1>0, <1>1, <1>4 DEF Sheets!After
<1>6. PICK m \in Nat : m = k + 1
  BY <1>1
<1>7. s = [r EXCEPT !.pc = x, !.k = m, !.done = l]
  BY <1>0, <1>1, <1>2, <1>4, <1>6 DEF Shape
<1>8. /\ s.pc = x /\ s.k = m /\ s.done = l /\ s.file = r.file /\ s.spec = r.spec
      /\ s.tab = r.tab /\ s.batch = r.batch /\ s.before = r.before
      /\ s.overlapped = r.overlapped
  BY <1>0, <1>7 DEF Shape
<1>9. Shape(s)
  <2>1. x \in Pcs
    BY <1>5 DEF Pcs
  <2> QED BY <1>0, <1>7, <1>8, <2>1 DEF Shape
<1>10. s.pc \notin OnTab /\ s.pc \notin {"idle", "create", "get", "add", "nil", "failed"}
  BY <1>5, <1>8 DEF OnTab
<1>11. Place(s)
  <2>1. x = "tab" => m \in 1..Len(r.spec.tabs) /\ Len(l) = m - 1
    BY <1>0, <1>3, <1>5, <1>6
  <2>2. x # "tab" => Len(l) = Len(r.spec.tabs)
    BY <1>3, <1>5
  <2>3. ~r.spec.create => r.file = 1 /\ r.spec \in Specs
    BY <1>0 DEF Place
  <2> QED BY <1>5, <1>8, <1>10, <2>1, <2>2, <2>3 DEF Place
<1>12. Pinned(s)
  <2>0. SUFFICES ASSUME ~r.spec.create PROVE Pinned(s)
    BY <1>8 DEF Pinned
  <2>1. /\ \A n \in DOMAIN r.before : n \in DOMAIN Start => r.before[n].title = Start[n].title
        /\ \A i \in 1..Len(r.done) : ByGid(r.spec.tabs[i]) => r.done[i] = r.spec.tabs[i].gid
        /\ ByGid(r.spec.tabs[k]) => r.tab.id = r.spec.tabs[k].gid
    BY <1>0, <1>1, <2>0 DEF Pinned
  <2>2. \A i \in 1..k : ByGid(r.spec.tabs[i]) => l[i] = r.spec.tabs[i].gid
    BY <1>3, <2>1
  <2>3. k <= Len(r.spec.tabs)
    BY <1>0, <1>1
  <2> QED BY <1>3, <1>8, <1>10, <2>1, <2>2, <2>3 DEF Pinned
<1>13. ASSUME ~r.overlapped PROVE Own(s, e) /\ (f = 0 => Quiet(s, e))
  <2>0. Worked(r, d) /\ Working(r, d) /\ Accounted(r, d) /\ Made(r, d) /\ (f = 0 => Quiet(r, d))
    BY <1>13 DEF Good, Own
  <2>1. /\ Rewrites(e, d, r.tab.id) /\ r.tab.id \in DOMAIN d
        /\ e[r.tab.id].content = Sheets!Data(r.spec.tabs[k])
        /\ (r.spec.tabs[k].big => e[r.tab.id].big)
    BY <1>0, <1>1, <1>13, <2>0 DEF Working
  <2>2. Worked(s, e)
    <3>1. ASSUME NEW i \in 1..k PROVE l[i] \in DOMAIN e
      <4>1. CASE i = k
        BY <1>3, <2>1, <4>1 DEF Rewrites
      <4>2. CASE i # k
        BY <1>3, <2>0, <2>1, <4>2 DEF Worked, Rewrites
      <4> QED BY <4>1, <4>2
    <3>2. ASSUME NEW i \in 1..k, Final(s, i)
          PROVE  /\ e[l[i]].content = Sheets!Data(r.spec.tabs[i])
                 /\ r.spec.tabs[i].big => e[l[i]].big
      <4>1. CASE i = k
        BY <1>3, <2>1, <4>1
      <4>2. CASE i # k
        <5>1. i \in 1..Len(r.done) /\ l[i] = r.done[i] /\ k > i
          BY <1>3, <4>2
        <5>2. \A j \in 1..k : j > i => l[j] # l[i]
          BY <1>3, <1>8, <3>2 DEF Final
        <5>3. r.done[i] # r.tab.id
          BY <1>3, <5>1, <5>2
        <5>4. Final(r, i)
          BY <1>3, <5>1, <5>2, <5>3 DEF Final
        <5>5. /\ r.done[i] \in DOMAIN d /\ d[r.done[i]].content = Sheets!Data(r.spec.tabs[i])
              /\ r.spec.tabs[i].big => d[r.done[i]].big
          BY <2>0, <5>1, <5>4 DEF Worked
        <5>6. e[r.done[i]] = d[r.done[i]]
          BY <2>1, <5>3, <5>5 DEF Rewrites
        <5> QED BY <5>1, <5>5, <5>6
      <4> QED BY <4>1, <4>2
    <3> QED BY <1>3, <1>8, <3>1, <3>2 DEF Worked
  <2>3. Working(s, e)
    BY <1>10 DEF Working
  <2>4. Accounted(s, e)
    <3>0. SUFFICES ASSUME ~r.spec.create PROVE Accounted(s, e)
      BY <1>8 DEF Accounted
    <3>1. \A n \in DOMAIN e : n \in DOMAIN r.before => e[n].title = r.before[n].title
      BY <2>0, <2>1, <3>0 DEF Accounted, Rewrites
    <3>2. ASSUME NEW n \in DOMAIN e
          PROVE  n \in DOMAIN r.before \/ \E i \in 1..k : l[i] = n
      <4>1. n \in DOMAIN r.before \/ (\E i \in 1..Len(r.done) : r.done[i] = n) \/ n = r.tab.id
        BY <1>0, <2>0, <2>1, <3>0 DEF Accounted, Rewrites, OnTab
      <4> QED BY <1>3, <4>1
    <3>3. DOMAIN r.before \subseteq DOMAIN e
      BY <1>0, <2>0, <2>1, <3>0 DEF Accounted, Rewrites
    <3> QED BY <1>3, <1>8, <3>1, <3>2, <3>3 DEF Accounted
  <2>5. Made(s, e)
    <3>0. SUFFICES ASSUME r.spec.create PROVE Made(s, e)
      BY <1>8 DEF Made
    <3>1. /\ \A i \in 1..Len(r.spec.tabs) :
               /\ r.spec.tabs[i].gid \in DOMAIN d /\ r.spec.tabs[i].gid > 0
               /\ d[r.spec.tabs[i].gid].title = Sheets!Title(r.spec.tabs[i])
          /\ \A n \in DOMAIN d : \E i \in 1..Len(r.spec.tabs) : r.spec.tabs[i].gid = n
          /\ \A i \in 1..Len(r.done) : r.done[i] = r.spec.tabs[i].gid
          /\ r.tab.id = r.spec.tabs[k].gid
      BY <1>0, <1>1, <2>0, <3>0 DEF Made
    <3>2. \A i \in 1..Len(r.spec.tabs) :
               /\ r.spec.tabs[i].gid \in DOMAIN e /\ r.spec.tabs[i].gid > 0
               /\ e[r.spec.tabs[i].gid].title = Sheets!Title(r.spec.tabs[i])
      BY <2>1, <3>1 DEF Rewrites
    <3>3. \A n \in DOMAIN e : \E i \in 1..Len(r.spec.tabs) : r.spec.tabs[i].gid = n
      BY <2>1, <3>1 DEF Rewrites
    <3>4. \A i \in 1..k : l[i] = r.spec.tabs[i].gid
      BY <1>3, <3>1
    <3>5. k <= Len(r.spec.tabs)
      BY <1>0, <1>1
    <3>6. \A i \in 1..Len(s.spec.tabs) :
               /\ s.spec.tabs[i].gid \in DOMAIN e /\ s.spec.tabs[i].gid > 0
               /\ e[s.spec.tabs[i].gid].title = Sheets!Title(s.spec.tabs[i])
      BY <1>8, <3>2
    <3>7. \A n \in DOMAIN e : \E i \in 1..Len(s.spec.tabs) : s.spec.tabs[i].gid = n
      BY <1>8, <3>3
    <3>8. /\ Len(s.done) <= Len(s.spec.tabs)
          /\ \A i \in 1..Len(s.done) : s.done[i] = s.spec.tabs[i].gid
      BY <1>3, <1>8, <3>4, <3>5
    <3> QED BY <1>10, <3>6, <3>7, <3>8 DEF Made
  <2>6. Pruned(s, e)
    BY <1>10 DEF Pruned
  <2>7. f = 0 => Quiet(s, e)
    <3>1. f = 0 => DOMAIN r.before \subseteq DOMAIN e
      BY <1>0, <2>0, <2>1 DEF Quiet, Rewrites, OnTab
    <3> QED BY <1>8, <1>10, <3>1 DEF Quiet
  <2> QED BY <2>2, <2>3, <2>4, <2>5, <2>6, <2>7 DEF Own
<1> QED BY <1>8, <1>9, <1>10, <1>11, <1>12, <1>13 DEF Good

\* applyRichLinks.
LEMMA Links ==
  ASSUME SheetsInv, NEW p \in Procs, Sheets!applyRichLinks(p)
  PROVE  SheetsInv'
<1>1. PICK r : r = proc[p]
  OBVIOUS
<1>2. PICK d : d = Sheets!Doc(p)
  OBVIOUS
<1>3. PICK spec : spec = r.spec.tabs[r.k]
  OBVIOUS
<1>4. PICK s : s = [r EXCEPT !.pc = Sheets!After(r.spec, r.k), !.k = @ + 1,
                             !.done = Append(@, r.tab.id)]
  OBVIOUS
<1>0. /\ r.pc = "links" /\ r.pc \in OnTab
      /\ Good(r, d, faults) /\ Document(d, nextId) /\ nextId \in Nat /\ faults \in Nat
      /\ r.file \in 1..Len(docs) /\ nextId' = nextId /\ DocsInv(docs, nextId)
  BY <1>1, <1>2, Stepping DEF Sheets!applyRichLinks, OnTab, Sheets!OnSheet
<1>5. /\ r.pc # "idle" /\ spec.data \in STRING
      /\ \A m \in DOMAIN d : d[m] \in Sheets!Sheet
      /\ ~r.overlapped => /\ Working(r, d) /\ r.tab.id \in DOMAIN d
                          /\ d[r.tab.id].title = r.tab.title
  BY <1>0, <1>3, InHand
<1>6. CASE spec.data = ""
  <2>1. Sheets!Skips(p, s)
    BY <1>1, <1>3, <1>4, <1>6 DEF Sheets!applyRichLinks, Sheets!Spec
  <2>2. Rewrites(d, d, r.tab.id)
    BY DEF Rewrites
  <2>3. Good(s, d, faults) /\ s.file = r.file
    BY <1>0, <1>4, <2>2, Completes
  <2> QED BY <1>0, <1>1, <1>2, <2>1, <2>3, Skipped DEF Sheets!Doc
<1>7. CASE spec.data # ""
  <2>1. PICK t : t = [d[r.tab.id] EXCEPT !.links = spec.data]
    OBVIOUS
  <2>2. PICK e : e = [d EXCEPT ![r.tab.id] = t]
    OBVIOUS
  <2>3. Sheets!OnSheet(p, s, r.tab.id, t)
    BY <1>1, <1>2, <1>3, <1>4, <1>7, <2>1 DEF Sheets!applyRichLinks, Sheets!Spec
  <2>4. ASSUME r.tab.id \in DOMAIN d
        PROVE  /\ t \in Sheets!Sheet /\ t.title = d[r.tab.id].title
               /\ Good(s, e, faults) /\ Good(r, e, faults + 1)
    <3>1. PICK u \in Sheets!Sheet : u = d[r.tab.id]
      BY <1>5, <2>4
    <3>2. PICK c \in STRING : c = spec.data
      BY <1>5
    <3>3. t = [u EXCEPT !.links = c]
      BY <2>1, <3>1, <3>2
    <3>4. t \in Sheets!Sheet /\ t.title = u.title /\ t.content = u.content /\ t.big = u.big
      BY <3>3, Linked
    <3>5. Rewrites(e, d, r.tab.id) /\ e[r.tab.id] = t
      <4>1. Document(d, nextId) /\ nextId \in Nat
        BY <1>0
      <4>2. r.tab.id \in DOMAIN d /\ t \in Sheets!Sheet /\ t.title = d[r.tab.id].title
        BY <2>4, <3>1, <3>4
      <4> QED BY <2>2, <4>1, <4>2, Rewritten
    <3>6. e[r.tab.id].content = d[r.tab.id].content /\ e[r.tab.id].big = d[r.tab.id].big
      BY <3>1, <3>4, <3>5
    <3>7. Good(s, e, faults)
      BY <1>0, <1>4, <3>5, <3>6, Completes
    <3>8. ~r.overlapped => Working(r, e)
      BY <1>0, <1>5, <3>1, <3>4, <3>5, <3>6 DEF Working, Rewrites
    <3>9. Good(r, e, faults + 1)
      BY <1>0, <3>5, <3>8, Repeated
    <3> QED BY <3>1, <3>4, <3>7, <3>9
  <2>5. r.tab.id \notin DOMAIN d => r.overlapped
    BY <1>5
  <2>6. s.file = r.file
    <3>1. Shape(r)
      BY <1>0 DEF Good
    <3> QED BY <1>4, <3>1 DEF Shape
  <2> QED BY <1>1, <1>2, <1>5, <2>2, <2>3, <2>4, <2>5, <2>6, OnSheetKeeps
<1> QED BY <1>6, <1>7
-----------------------------------------------------------------------------
\* At most two sheets match: the one with the title and the one with the
\* identifier.
LEMMA OneIsFirst ==
  ASSUME NEW d, NEW n \in Nat, Document(d, n), NEW spec \in Sheets!TabSpec,
         NEW ms, ms = {m \in DOMAIN d : Sheets!Matches(m, d[m], spec)}, ms # {}
  PROVE  \E m \in ms : \A i \in ms : m <= i
<1>1. PICK a : a \in ms
  OBVIOUS
<1>2. CASE \A i \in ms : a <= i
  BY <1>1, <1>2
<1>3. CASE \E b \in ms : ~(a <= b)
  <2>1. PICK b \in ms : ~(a <= b)
    BY <1>3
  <2>2. \A i \in ms : i \in DOMAIN d /\ i \in Int
    <3>1. DOMAIN d \subseteq 0..(n - 1)
      BY DEF Document
    <3> QED BY <3>1
  <2>3. a \in Int /\ b \in Int /\ b < a
    BY <1>1, <2>1, <2>2
  <2>4. \A i \in ms : d[i].title = spec.title \/ i = spec.gid
    BY DEF Sheets!Matches
  <2>5. ASSUME NEW i \in ms PROVE b <= i
    <3>1. \A j, l \in ms : d[j].title = d[l].title => j = l
      BY <2>2 DEF Document
    <3>2. i = a \/ i = b
      <4>1. CASE d[a].title = spec.title
        <5>1. b = spec.gid
          BY <1>1, <2>1, <2>3, <2>4, <3>1, <4>1
        <5> QED BY <1>1, <2>4, <3>1, <4>1, <5>1
      <4>2. CASE a = spec.gid
        <5>1. d[b].title = spec.title
          BY <2>1, <2>3, <2>4, <4>2
        <5> QED BY <2>1, <2>4, <3>1, <4>2, <5>1
      <4> QED BY <1>1, <2>4, <4>1, <4>2
    <3> QED BY <2>2, <2>3, <3>2
  <2> QED BY <2>1, <2>5
<1> QED BY <1>2, <1>3

\* The absent tab has a tab's fields.
LEMMA NothingFound == Sheets!NoTab \in Found
<1>1. FALSE \in BOOLEAN /\ {} \in SUBSET Nat
  BY Zenon
<1>2. PICK id \in Int : id = -1
  OBVIOUS
<1>3. PICK no \in BOOLEAN : no = FALSE
  BY <1>1, Zenon
<1>4. PICK none \in SUBSET Nat : none = {}
  BY <1>1, Zenon
<1>5. PICK t \in STRING : t = ""
  <2>1. "" \in STRING
    BY SheetsAssumption DEF SheetsAssumption
  <2> QED BY <2>1, Zenon
<1>6. PICK tab : tab = [id |-> id, title |-> t, bands |-> none, big |-> no]
  OBVIOUS
<1>7. tab \in Found
  BY <1>6 DEF Found
<1>8. tab = Sheets!NoTab
  BY <1>2, <1>3, <1>4, <1>5, <1>6, Zenon DEF Sheets!NoTab
<1> QED BY <1>7, <1>8

\* Numbers of tabs, and identifiers.
LEMMA Fewer ==
  ASSUME NEW m \in Nat, NEW k \in 1..m, NEW l, l = k - 1
  PROVE  l <= m
  OBVIOUS

LEMMA NotBelow ==
  ASSUME NEW n \in Nat, NEW d, Document(d, n), NEW g \in DOMAIN d
  PROVE  g >= 0 /\ g \in Nat
  BY DEF Document

\* tab is a sheet of d that matches, or there is none.
Hits(tab, d, spec) ==
  \/ tab = Sheets!NoTab /\ \A m \in DOMAIN d : ~Sheets!Matches(m, d[m], spec)
  \/ /\ tab # Sheets!NoTab /\ tab.id \in DOMAIN d
     /\ Sheets!Matches(tab.id, d[tab.id], spec)
     /\ tab.title = d[tab.id].title /\ tab.bands = d[tab.id].bands
     /\ tab.big = d[tab.id].big

\* What findMatchingSheet finds.
LEMMA Finds ==
  ASSUME NEW d, NEW n \in Nat, Document(d, n), NEW spec \in Sheets!TabSpec,
         NEW tab, tab = Sheets!findMatchingSheet(d, spec)
  PROVE  tab \in Found /\ Hits(tab, d, spec)
<1>1. PICK ms : ms = {m \in DOMAIN d : Sheets!Matches(m, d[m], spec)}
  OBVIOUS
<1>2. CASE ms = {}
  <2>1. tab = Sheets!NoTab
    BY <1>1, <1>2 DEF Sheets!findMatchingSheet
  <2>2. \A m \in DOMAIN d : ~Sheets!Matches(m, d[m], spec)
    BY <1>1, <1>2
  <2>3. tab \in Found
    BY <2>1, NothingFound
  <2> QED BY <2>1, <2>2, <2>3 DEF Hits
<1>3. CASE ms # {}
  <2>1. PICK first : first = CHOOSE m \in ms : \A i \in ms : m <= i
    OBVIOUS
  <2>2. first \in ms
    <3>1. \E m \in ms : \A i \in ms : m <= i
      BY <1>1, <1>3, OneIsFirst
    <3> QED BY <2>1, <3>1
  <2>3. first \in DOMAIN d /\ Sheets!Matches(first, d[first], spec)
    BY <1>1, <2>2
  <2>4. d[first] \in Sheets!Sheet /\ first \in Int /\ first # -1
    <3>1. DOMAIN d \subseteq 0..(n - 1) /\ d \in [DOMAIN d -> Sheets!Sheet]
      BY DEF Document
    <3> QED BY <2>3, <3>1
  <2>5. tab = [id |-> first, title |-> d[first].title, bands |-> d[first].bands,
               big |-> d[first].big]
    BY <1>1, <1>3, <2>1 DEF Sheets!findMatchingSheet
  <2>6. tab \in Found
    <3>1. d[first].title \in STRING /\ d[first].bands \in SUBSET Nat /\ d[first].big \in BOOLEAN
      BY <2>4, SheetFields
    <3> QED BY <2>4, <2>5, <3>1 DEF Found
  <2>7. tab # Sheets!NoTab
    <3>1. tab.id = first
      BY <2>5
    <3>2. Sheets!NoTab.id = -1
      BY DEF Sheets!NoTab
    <3> QED BY <2>4, <3>1, <3>2
  <2> QED BY <2>3, <2>5, <2>6, <2>7 DEF Hits
<1> QED BY <1>2, <1>3

\* A tab that is named by the identifier of a kept sheet.
LEMMA KeptIsThere ==
  ASSUME SheetsInv, NEW p \in Procs, proc[p].file = 1, NEW id, Sheets!Kept(id)
  PROVE  id \in DOMAIN Sheets!Doc(p) /\ id \in Nat
<1>1. Rooted(docs[1]) /\ Sheets!Doc(p) = docs[1] /\ Document(Sheets!Doc(p), nextId)
      /\ nextId \in Nat
  BY Stepping
<1>2. id \in DOMAIN docs[1]
  BY <1>1 DEF Rooted, Sheets!Kept
<1>3. DOMAIN docs[1] \subseteq 0..(nextId - 1)
  BY <1>1 DEF Document
<1> QED BY <1>1, <1>2, <1>3

\* A sync looks for its next tab.
LEMMA Looks ==
  ASSUME NEW r, NEW d, NEW f \in Nat, NEW n \in Nat, Good(r, d, f), Document(d, n),
         r.pc = "tab", ~r.spec.create /\ ByGid(r.spec.tabs[r.k]) => r.spec.tabs[r.k].gid \in DOMAIN d,
         ~(r.spec.tabs[r.k].title = "" /\ r.spec.tabs[r.k].gid < 0),
         NEW tab \in Found, Hits(tab, d, r.spec.tabs[r.k]),
         NEW s, Shape(s), s.pc \in {"resize", "failed", "add"},
         tab # Sheets!NoTab <=> s.pc = "resize", s.pc = "failed" => r.spec.create,
         s.tab = tab, s.batch = 1, s.file = r.file, s.spec = r.spec, s.k = r.k,
         s.done = r.done, s.before = r.before, s.overlapped = r.overlapped
  PROVE  Good(s, d, f)
<1>1. PICK spec : spec = r.spec.tabs[r.k]
  OBVIOUS
<1>0. /\ Shape(r) /\ Place(r) /\ Pinned(r) /\ r.k \in 1..Len(r.spec.tabs)
      /\ Len(r.done) = r.k - 1 /\ spec \in Sheets!TabSpec /\ spec.gid \in Int
      /\ spec.title \in STRING /\ r.done \in Seq(Int) /\ Len(r.done) \in Nat
      /\ Len(r.done) <= Len(r.spec.tabs)
  <2>1. Shape(r) /\ Place(r) /\ Pinned(r) /\ r.k \in 1..Len(r.spec.tabs)
        /\ Len(r.done) = r.k - 1
    BY DEF Good, Place
  <2>2. spec \in Sheets!TabSpec /\ r.done \in Seq(Int) /\ Len(r.spec.tabs) \in Nat
        /\ Len(r.done) \in Nat
    BY <1>1, <2>1, Fields
  <2>3. spec.gid \in Int /\ spec.title \in STRING
    BY <2>2 DEF Sheets!TabSpec
  <2>4. Len(r.done) <= Len(r.spec.tabs)
    BY <2>1, <2>2, Fewer
  <2> QED BY <2>1, <2>2, <2>3, <2>4
<1>2. tab \in Found
      /\ \/ tab = Sheets!NoTab /\ \A m \in DOMAIN d : ~Sheets!Matches(m, d[m], spec)
         \/ /\ tab # Sheets!NoTab /\ tab.id \in DOMAIN d
            /\ Sheets!Matches(tab.id, d[tab.id], spec)
            /\ tab.title = d[tab.id].title /\ tab.bands = d[tab.id].bands
            /\ tab.big = d[tab.id].big
  BY <1>0, <1>1 DEF Hits
<1>3. PICK x : x = s.pc
  OBVIOUS
<1>4. x \in {"resize", "failed", "add"} /\ (tab # Sheets!NoTab <=> x = "resize")
      /\ (x = "failed" => r.spec.create)
  BY <1>3
<1>6. Place(s)
  <2>1. ~r.spec.create => r.file = 1 /\ r.spec \in Specs
    BY <1>0 DEF Place
  <2> QED BY <1>0, <1>3, <1>4, <2>1 DEF Place, OnTab
<1>7. Pinned(s)
  <2>0. SUFFICES ASSUME ~r.spec.create PROVE Pinned(s)
    BY <1>3, <1>4 DEF Pinned
  <2>1. /\ \A m \in DOMAIN r.before : m \in DOMAIN Start => r.before[m].title = Start[m].title
        /\ \A i \in 1..Len(r.done) : ByGid(r.spec.tabs[i]) => r.done[i] = r.spec.tabs[i].gid
    BY <1>0, <2>0 DEF Pinned
  <2>2. ASSUME ByGid(spec) PROVE x = "resize" /\ tab.id = spec.gid
    <3>1. spec.title = "" /\ spec.gid \in DOMAIN d /\ spec.gid >= 0
      <4>1. spec.title = "" /\ spec.gid \in DOMAIN d
        BY <1>1, <2>0, <2>2 DEF ByGid
      <4> QED BY <4>1, NotBelow
    <3>2. \A m \in DOMAIN d : Sheets!Matches(m, d[m], spec) <=> m = spec.gid
      BY <1>0, <3>1 DEF Sheets!Matches
    <3> QED BY <1>2, <1>3, <3>1, <3>2
  <2>3. x \in OnTab => x = "resize"
    BY <1>3 DEF OnTab
  <2>4. /\ (x \in OnTab /\ ByGid(r.spec.tabs[r.k]) => tab.id = r.spec.tabs[r.k].gid)
        /\ (x = "add" => ~ByGid(r.spec.tabs[r.k]))
    BY <1>1, <2>2, <2>3
  <2>5. /\ \A m \in DOMAIN s.before : m \in DOMAIN Start => s.before[m].title = Start[m].title
        /\ \A i \in 1..Len(s.done) : ByGid(s.spec.tabs[i]) => s.done[i] = s.spec.tabs[i].gid
    BY <1>3, <1>4, <2>1
  <2>6. Len(s.done) <= Len(s.spec.tabs)
    BY <1>0, <1>3, <1>4
  <2>7. s.pc \in OnTab /\ ByGid(s.spec.tabs[s.k]) => s.tab.id = s.spec.tabs[s.k].gid
    BY <1>3, <1>4, <2>4
  <2>8. s.pc = "add" => ~ByGid(s.spec.tabs[s.k])
    BY <1>3, <1>4, <2>4
  <2> QED BY <2>5, <2>6, <2>7, <2>8 DEF Pinned
<1>8. ASSUME ~r.overlapped, r.spec.create PROVE tab # Sheets!NoTab /\ tab.id = spec.gid
  <2>1. Made(r, d)
    BY <1>8 DEF Good, Own
  <2>2. spec.gid \in DOMAIN d /\ spec.gid > 0 /\ d[spec.gid].title = Sheets!Title(spec)
    BY <1>0, <1>1, <1>8, <2>1 DEF Made
  <2>3. Sheets!Matches(spec.gid, d[spec.gid], spec)
    BY <2>2 DEF Sheets!Matches
  <2>4. \A m \in DOMAIN d : Sheets!Matches(m, d[m], spec) => m = spec.gid
    BY <2>2 DEF Sheets!Matches, Sheets!Title, Document
  <2> QED BY <1>2, <2>2, <2>3, <2>4
<1>9. ASSUME ~r.overlapped, x # "failed" PROVE Own(s, d) /\ (f = 0 => Quiet(s, d))
  <2>0. Worked(r, d) /\ Accounted(r, d) /\ Made(r, d) /\ (f = 0 => Quiet(r, d))
    BY <1>9 DEF Good, Own
  <2>1. x = "resize" \/ x = "add"
    BY <1>3, <1>9
  <2>2. Worked(s, d)
    <3>1. r.pc \notin OnTab
      BY DEF OnTab
    <3>2. \A i : Final(s, i) => Final(r, i)
      BY <1>3, <1>4, <3>1 DEF Final
    <3> QED BY <1>3, <1>4, <2>0, <3>2 DEF Worked
  <2>3. Working(s, d)
    <3>1. x \in OnTab => x = "resize"
      BY <2>1 DEF OnTab
    <3> QED BY <1>2, <1>3, <1>4, <3>1 DEF Working
  <2>4. Accounted(s, d)
    <3>0. SUFFICES ASSUME ~r.spec.create PROVE Accounted(s, d)
      BY <1>3, <1>4 DEF Accounted
    <3>1. /\ \A m \in DOMAIN d : m \in DOMAIN r.before => d[m].title = r.before[m].title
          /\ \A m \in DOMAIN d : m \in DOMAIN r.before \/ \E i \in 1..Len(r.done) : r.done[i] = m
          /\ DOMAIN r.before \subseteq DOMAIN d
      BY <2>0, <3>0 DEF Accounted, OnTab
    <3>2. /\ \A m \in DOMAIN d : m \in DOMAIN s.before => d[m].title = s.before[m].title
          /\ \A m \in DOMAIN d : m \in DOMAIN s.before \/ \E i \in 1..Len(s.done) : s.done[i] = m
          /\ DOMAIN s.before \subseteq DOMAIN d
      BY <1>3, <1>4, <3>1
    <3> QED BY <3>2 DEF Accounted
  <2>5. Made(s, d)
    <3>0. SUFFICES ASSUME r.spec.create PROVE Made(s, d)
      BY <1>3, <1>4 DEF Made
    <3>1. x = "resize" /\ tab.id = r.spec.tabs[r.k].gid
      BY <1>1, <1>3, <1>8, <1>9, <3>0
    <3>2. Rewrites(d, d, tab.id)
      BY DEF Rewrites
    <3>3. s.tab.id = s.spec.tabs[s.k].gid /\ s.pc # "add"
      BY <1>3, <1>4, <3>1
    <3> QED BY <2>0, <3>2, <3>3, MadeStays
  <2>6. Pruned(s, d)
    BY <1>3, <1>4, <2>1 DEF Pruned
  <2>7. f = 0 => Quiet(s, d)
    <3>1. x = "resize" => tab.bands = d[tab.id].bands
      BY <1>2, <1>3
    <3>2. x = "add" /\ spec.title # "" => ~Sheets!Taken(d, spec.title)
      <4>1. x = "add" => \A m \in DOMAIN d : ~Sheets!Matches(m, d[m], spec)
        BY <1>2, <1>3
      <4> QED BY <4>1 DEF Sheets!Matches, Sheets!Taken
    <3>3. f = 0 => DOMAIN r.before \subseteq DOMAIN d
      BY <2>0 DEF Quiet
    <3>4. x \in OnTab => x = "resize"
      BY <2>1 DEF OnTab
    <3> QED BY <1>1, <1>3, <1>4, <2>1, <3>1, <3>2, <3>3, <3>4 DEF Quiet
  <2> QED BY <2>2, <2>3, <2>4, <2>5, <2>6, <2>7 DEF Own
<1>10. x = "failed" => r.overlapped
  BY <1>3, <1>8
<1>11. x = "failed" => Own(s, d) /\ Quiet(s, d)
  BY <1>3, <1>4 DEF Own, Quiet, OnTab
<1> QED BY <1>3, <1>4, <1>6, <1>7, <1>9, <1>10, <1>11 DEF Good

\* A negative identifier is none.
LEMMA NotBoth ==
  ASSUME NEW g \in Int, g < 0, g > 0 \/ g \in Nat
  PROVE  FALSE
  OBVIOUS

\* resolveOrCreateTab.
LEMMA Resolves ==
  ASSUME SheetsInv, NEW p \in Procs, Sheets!resolveOrCreateTab(p)
  PROVE  SheetsInv'
<1>1. PICK r : r = proc[p]
  OBVIOUS
<1>2. PICK d : d = Sheets!Doc(p)
  OBVIOUS
<1>3. PICK spec : spec = r.spec.tabs[r.k]
  OBVIOUS
<1>n. PICK n \in Nat : n = nextId
  BY Stepping
<1>f. PICK f \in Nat : f = faults
  BY Stepping
<1>0. /\ r.pc = "tab" /\ r.pc # "idle" /\ Good(r, d, f) /\ Document(d, n)
      /\ r.file \in 1..Len(docs) /\ nextId' = nextId /\ DocsInv(docs, nextId)
      /\ docs[r.file] = d
  BY <1>1, <1>2, <1>n, <1>f, Stepping DEF Sheets!resolveOrCreateTab, Sheets!Doc
<1>4. /\ Shape(r) /\ Place(r) /\ r.k \in 1..Len(r.spec.tabs) /\ spec \in Sheets!TabSpec
      /\ spec.gid \in Int /\ (~r.spec.create => r.file = 1)
      /\ DOMAIN r.spec.tabs = 1..Len(r.spec.tabs)
  <2>1. Shape(r) /\ Place(r) /\ r.k \in 1..Len(r.spec.tabs) /\ (~r.spec.create => r.file = 1)
    BY <1>0 DEF Good, Place
  <2>2. spec \in Sheets!TabSpec /\ DOMAIN r.spec.tabs = 1..Len(r.spec.tabs)
    BY <1>3, <2>1, Fields
  <2>3. spec.gid \in Int
    BY <2>2 DEF Sheets!TabSpec
  <2> QED BY <2>1, <2>2, <2>3
<1>5. ~r.spec.create /\ Sheets!Kept(spec.gid) => spec.gid \in DOMAIN d /\ spec.gid \in Nat
  BY <1>1, <1>2, <1>4, KeptIsThere
<1>6. CASE spec.title = "" /\ spec.gid < 0
  <2>1. Sheets!Refused(p)
    BY <1>1, <1>3, <1>6 DEF Sheets!resolveOrCreateTab, Sheets!Spec
  <2>2. r.overlapped \/ ~Sheets!Sensible(r.spec)
    <3>1. CASE r.spec.create /\ ~r.overlapped
      <4>1. Made(r, d)
        BY <1>0, <3>1 DEF Good, Own
      <4>2. spec.gid > 0
        BY <1>3, <1>4, <3>1, <4>1 DEF Made
      <4>3. spec.gid < 0
        BY <1>6
      <4> QED BY <1>4, <4>2, <4>3, NotBoth
    <3>2. CASE ~r.spec.create /\ Sheets!Sensible(r.spec)
      <4>1. spec.title # "" \/ Sheets!Kept(spec.gid)
        BY <1>3, <1>4, <3>2 DEF Sheets!Sensible
      <4>2. spec.gid \in Nat /\ spec.gid < 0
        BY <1>5, <1>6, <3>2, <4>1
      <4> QED BY <1>4, <4>2, NotBoth
    <3> QED BY <3>1, <3>2
  <2> QED BY <1>0, <1>1, <2>1, <2>2, RefusedOnce
<1>7. CASE ~(spec.title = "" /\ spec.gid < 0)
  <2>1. PICK tab : tab = Sheets!findMatchingSheet(d, spec)
    OBVIOUS
  <2>2. tab \in Found /\ Hits(tab, d, spec)
    <3>1. spec \in Sheets!TabSpec /\ Document(d, n)
      BY <1>0, <1>4
    <3> QED BY <2>1, <3>1, Finds
  <2>3. PICK x : x = IF tab = Sheets!NoTab
                     THEN IF r.spec.create /\ ~spec.create THEN "failed" ELSE "add"
                     ELSE "resize"
    OBVIOUS
  <2>4. /\ x \in {"resize", "failed", "add"} /\ (tab # Sheets!NoTab <=> x = "resize")
        /\ (x = "failed" => r.spec.create) /\ x \in Pcs
    BY <2>3 DEF Pcs
  <2>5. PICK s : s = [r EXCEPT !.pc = x, !.tab = tab, !.batch = 1]
    OBVIOUS
  <2>6. /\ s.pc = x /\ s.tab = tab /\ s.batch = 1 /\ s.file = r.file /\ s.spec = r.spec
        /\ s.k = r.k /\ s.done = r.done /\ s.before = r.before
        /\ s.overlapped = r.overlapped
    BY <1>4, <2>5 DEF Shape
  <2>7. Shape(s)
    BY <1>4, <2>2, <2>4, <2>5, <2>6 DEF Shape
  <2>8. Sheets!Call(p, s, docs)
    BY <1>1, <1>2, <1>3, <1>7, <2>1, <2>3, <2>5 DEF Sheets!resolveOrCreateTab, Sheets!Spec
  <2>9. Good(s, d, f)
    <3>1. ~r.spec.create /\ ByGid(r.spec.tabs[r.k]) => r.spec.tabs[r.k].gid \in DOMAIN d
      BY <1>3, <1>5 DEF ByGid
    <3>2. Hits(tab, d, r.spec.tabs[r.k])
          /\ ~(r.spec.tabs[r.k].title = "" /\ r.spec.tabs[r.k].gid < 0)
      BY <1>3, <1>7, <2>2
    <3> QED BY <1>0, <2>2, <2>4, <2>6, <2>7, <3>1, <3>2, Looks
  <2> QED BY <1>0, <1>1, <1>f, <2>6, <2>8, <2>9, ReadAttempt
<1> QED BY <1>6, <1>7

\* A new sheet.
LEMMA FreshSheet ==
  ASSUME NEW title \in STRING
  PROVE  /\ Sheets!Fresh(title) \in Sheets!Sheet /\ Sheets!Fresh(title).title = title
         /\ Sheets!Fresh(title).bands = {} /\ Sheets!Fresh(title).content = {}
<1>1. PICK no \in BOOLEAN : no = FALSE
  BY Zenon
<1>2. PICK none \in SUBSET Nat : none = {}
  BY Zenon
<1>3. PICK empty \in SUBSET (STRING \X Nat) : empty = {}
  BY Zenon
<1>4. PICK t \in STRING : t = ""
  <2>1. "" \in STRING
    BY SheetsAssumption DEF SheetsAssumption
  <2> QED BY <2>1, Zenon
<1>5. PICK s : s = [title |-> title, content |-> empty, big |-> no, bands |-> none, links |-> t]
  OBVIOUS
<1>6. s \in Sheets!Sheet /\ s.title = title /\ s.bands = none /\ s.content = empty
  BY <1>5 DEF Sheets!Sheet
<1>7. s = Sheets!Fresh(title)
  BY <1>1, <1>2, <1>3, <1>4, <1>5, Zenon DEF Sheets!Fresh
<1> QED BY <1>2, <1>3, <1>6, <1>7

\* The title of a tab.
LEMMA Titles ==
  ASSUME NEW spec \in Sheets!TabSpec
  PROVE  Sheets!Title(spec) \in STRING
<1>1. spec.title \in STRING
  BY DEF Sheets!TabSpec
<1>2. CASE spec.title = ""
  <2>1. Sheets!Title(spec) = Sheets!DefaultSheetTitle
    BY <1>2 DEF Sheets!Title
  <2> QED BY <2>1, SheetsAssumption DEF SheetsAssumption
<1>3. CASE spec.title # ""
  BY <1>1, <1>3 DEF Sheets!Title
<1> QED BY <1>2, <1>3

\* A document with one sheet more.
LEMMA Extended ==
  ASSUME NEW n \in Nat, n >= Sheets!FirstId, NEW d, Document(d, n),
         NEW t \in Sheets!Sheet, ~Sheets!Taken(d, t.title), NEW m, m = n + 1,
         NEW e, e = [i \in DOMAIN d \cup {n} |-> IF i = n THEN t ELSE d[i]]
  PROVE  /\ Document(e, m) /\ (Rooted(d) => Rooted(e)) /\ n \notin DOMAIN d
         /\ DOMAIN e = DOMAIN d \cup {n} /\ e[n] = t /\ \A i \in DOMAIN d : e[i] = d[i]
<1>1. d \in [DOMAIN d -> Sheets!Sheet] /\ DOMAIN d \subseteq 0..(n - 1)
      /\ \A i, j \in DOMAIN d : d[i].title = d[j].title => i = j
  BY DEF Document
<1>2. n \notin DOMAIN d
  BY <1>1
<1>3. DOMAIN e = DOMAIN d \cup {n} /\ e[n] = t /\ \A i \in DOMAIN d : e[i] = d[i]
  BY <1>2
<1>4. \A i \in DOMAIN e : e[i] \in Sheets!Sheet
  BY <1>1, <1>3
<1>5. e \in [DOMAIN e -> Sheets!Sheet]
  BY <1>3, <1>4
<1>6. DOMAIN e \subseteq 0..(m - 1)
  BY <1>1, <1>3
<1>7. \A i, j \in DOMAIN e : e[i].title = e[j].title => i = j
  BY <1>1, <1>3 DEF Sheets!Taken
<1>8. Rooted(d) => Rooted(e)
  <2>1. n \notin DOMAIN Start
    <3>1. DOMAIN Start \subseteq 0..(10 - 1)
      BY SheetsAssumption DEF SheetsAssumption, Sheets!FirstId
    <3>2. n >= 10
      BY DEF Sheets!FirstId
    <3> QED BY <3>1, <3>2
  <2> QED BY <1>3, <2>1 DEF Rooted
<1>9. Document(e, m)
  BY <1>5, <1>6, <1>7 DEF Document
<1> QED BY <1>2, <1>3, <1>8, <1>9

\* A sync adds a tab.
LEMMA Adds ==
  ASSUME NEW r, NEW d, NEW e, NEW f \in Nat, NEW n \in Nat, Good(r, d, f), Document(d, n),
         r.pc = "add", NEW title, title = Sheets!Title(r.spec.tabs[r.k]),
         ~Sheets!Taken(d, title), n \notin DOMAIN d, DOMAIN e = DOMAIN d \cup {n},
         e[n].title = title, e[n].bands = {}, \A i \in DOMAIN d : e[i] = d[i],
         NEW s, Shape(s), s.pc = "resize", s.tab.id = n, s.tab.title = title,
         s.tab.bands = {}, ~s.tab.big, s.batch = 1, s.file = r.file, s.spec = r.spec,
         s.k = r.k, s.done = r.done, s.before = r.before, s.overlapped = r.overlapped
  PROVE  Good(s, e, f) /\ Good(r, e, f + 1)
<1>0. /\ Shape(r) /\ Place(r) /\ Pinned(r) /\ f + 1 > 0 /\ f + 1 # 0
      /\ "resize" \in OnTab /\ r.pc \notin OnTab
  BY DEF Good, OnTab
<1>1. Place(s)
  BY <1>0 DEF Place, OnTab
<1>2. Pinned(s)
  <2>0. SUFFICES ASSUME ~r.spec.create PROVE Pinned(s)
    BY DEF Pinned
  <2>1. /\ \A m \in DOMAIN r.before : m \in DOMAIN Start => r.before[m].title = Start[m].title
        /\ \A i \in 1..Len(r.done) : ByGid(r.spec.tabs[i]) => r.done[i] = r.spec.tabs[i].gid
        /\ Len(r.done) <= Len(r.spec.tabs) /\ ~ByGid(r.spec.tabs[r.k])
    BY <1>0, <2>0 DEF Pinned
  <2> QED BY <2>1 DEF Pinned
<1>3. ASSUME ~r.overlapped
      PROVE  Own(s, e) /\ (f = 0 => Quiet(s, e)) /\ Own(r, e)
  <2>0. Worked(r, d) /\ Accounted(r, d) /\ Made(r, d) /\ (f = 0 => Quiet(r, d))
    BY <1>3 DEF Good, Own
  <2>1. ~r.spec.create
    BY <2>0 DEF Made
  <2>2. \A i \in 1..Len(r.done) : r.done[i] \in DOMAIN d /\ r.done[i] \in DOMAIN e
                                  /\ e[r.done[i]] = d[r.done[i]]
    BY <2>0 DEF Worked
  <2>3. \A i : Final(s, i) => Final(r, i)
    BY <1>0 DEF Final
  <2>4. Worked(r, e)
    BY <2>0, <2>2 DEF Worked
  <2>5. Worked(s, e)
    BY <2>0, <2>2, <2>3 DEF Worked
  <2>6. Working(r, e) /\ Working(s, e)
    BY <1>0 DEF Working
  <2>7. /\ \A m \in DOMAIN e : m \in DOMAIN r.before => e[m].title = r.before[m].title
        /\ \A m \in DOMAIN e : m \in DOMAIN r.before \/ m = n
                               \/ \E i \in 1..Len(r.done) : r.done[i] = m
        /\ DOMAIN r.before \subseteq DOMAIN e
    <3>1. /\ \A m \in DOMAIN d : m \in DOMAIN r.before => d[m].title = r.before[m].title
          /\ DOMAIN r.before \subseteq DOMAIN d
      BY <2>0, <2>1 DEF Accounted
    <3>2. \A m \in DOMAIN d : m \in DOMAIN r.before \/ \E i \in 1..Len(r.done) : r.done[i] = m
      BY <1>0, <2>0, <2>1 DEF Accounted, Sheets!Taken
    <3> QED BY <3>1, <3>2
  <2>8. Accounted(r, e)
    BY <2>7 DEF Accounted
  <2>9. Accounted(s, e)
    BY <1>0, <2>7 DEF Accounted
  <2>10. Made(s, e) /\ Made(r, e) /\ Pruned(s, e) /\ Pruned(r, e)
    BY <2>1 DEF Made, Pruned
  <2>11. f = 0 => Quiet(s, e)
    BY <2>7 DEF Quiet, OnTab
  <2> QED BY <2>4, <2>5, <2>6, <2>8, <2>9, <2>10, <2>11 DEF Own
<1>4. Good(s, e, f)
  BY <1>1, <1>2, <1>3 DEF Good
<1>5. Good(r, e, f + 1)
  BY <1>0, <1>3 DEF Good
<1> QED BY <1>4, <1>5

\* createNewTab.
LEMMA Creates ==
  ASSUME SheetsInv, NEW p \in Procs, Sheets!createNewTab(p)
  PROVE  SheetsInv'
<1>1. PICK r : r = proc[p]
  OBVIOUS
<1>2. PICK d : d = Sheets!Doc(p)
  OBVIOUS
<1>3. PICK spec : spec = r.spec.tabs[r.k]
  OBVIOUS
<1>n. PICK n \in Nat : n = nextId
  BY Stepping
<1>f. PICK f \in Nat : f = faults
  BY Stepping
<1>t. PICK title : title = Sheets!Title(spec)
  OBVIOUS
<1>m. PICK m \in Nat : m = n + 1
  OBVIOUS
<1>0. /\ r.pc = "add" /\ r.pc # "idle" /\ Good(r, d, f) /\ Document(d, n)
      /\ nextId' = m /\ DocsInv(docs, m) /\ n >= Sheets!FirstId /\ nextId <= m
      /\ (Rooted(docs[1]) /\ r.file = 1 => Rooted(d))
  <2>1. r.pc = "add" /\ nextId' = m
    BY <1>1, <1>n, <1>m DEF Sheets!createNewTab
  <2>2. n >= Sheets!FirstId
    BY <1>n, Stepping DEF DocsInv
  <2>3. /\ Good(r, d, f) /\ Document(d, n) /\ DocsInv(docs, m) /\ nextId <= m
        /\ (Rooted(docs[1]) /\ r.file = 1 => Rooted(d))
    BY <1>1, <1>2, <1>n, <1>f, <1>m, Stepping
  <2> QED BY <2>1, <2>2, <2>3
<1>4. /\ Shape(r) /\ Place(r) /\ Pinned(r) /\ r.k \in 1..Len(r.spec.tabs)
      /\ spec \in Sheets!TabSpec /\ title \in STRING
      /\ DOMAIN r.spec.tabs = 1..Len(r.spec.tabs) /\ r.tab = Sheets!NoTab /\ r.batch = 1
  <2>1. Shape(r) /\ Place(r) /\ Pinned(r) /\ r.k \in 1..Len(r.spec.tabs)
        /\ r.tab = Sheets!NoTab /\ r.batch = 1
    BY <1>0 DEF Good, Place
  <2>2. spec \in Sheets!TabSpec /\ DOMAIN r.spec.tabs = 1..Len(r.spec.tabs)
    BY <1>3, <2>1, Fields
  <2>3. title \in STRING
    BY <1>t, <2>2, Titles
  <2> QED BY <2>1, <2>2, <2>3
<1>5. CASE Sheets!Taken(d, title)
  <2>1. Sheets!Refused(p)
    BY <1>1, <1>2, <1>3, <1>t, <1>5 DEF Sheets!createNewTab, Sheets!Spec
  <2>2. ASSUME f = 0, ~r.overlapped, Sheets!Sensible(r.spec) PROVE FALSE
    <3>1. Made(r, d) /\ Quiet(r, d)
      BY <1>0, <2>2 DEF Good, Own
    <3>2. ~r.spec.create
      BY <1>0, <3>1 DEF Made
    <3>3. spec.title # "" \/ Sheets!Kept(spec.gid)
      BY <1>3, <1>4, <2>2, <3>2 DEF Sheets!Sensible
    <3>4. ~ByGid(spec)
      BY <1>0, <1>3, <1>4, <3>2 DEF Pinned
    <3>5. spec.title # ""
      BY <3>3, <3>4 DEF ByGid
    <3>6. title = spec.title /\ ~Sheets!Taken(d, spec.title)
      BY <1>0, <1>3, <1>t, <3>1, <3>5 DEF Quiet, Sheets!Title
    <3> QED BY <1>5, <3>6
  <2>3. faults > 0 \/ r.overlapped \/ ~Sheets!Sensible(r.spec)
    BY <1>f, <2>2
  <2> QED BY <1>0, <1>1, <2>1, <2>3, RefusedOnce
<1>6. CASE ~Sheets!Taken(d, title)
  <2>1. PICK t \in Sheets!Sheet : t = Sheets!Fresh(title) /\ t.title = title /\ t.bands = {}
    BY <1>4, FreshSheet
  <2>2. PICK e : e = [i \in DOMAIN d \cup {n} |-> IF i = n THEN t ELSE d[i]]
    OBVIOUS
  <2>3. /\ Document(e, m) /\ (Rooted(d) => Rooted(e)) /\ n \notin DOMAIN d
        /\ DOMAIN e = DOMAIN d \cup {n} /\ e[n] = t /\ \A i \in DOMAIN d : e[i] = d[i]
    <3>1. ~Sheets!Taken(d, t.title) /\ Document(d, n) /\ n >= Sheets!FirstId
      BY <1>0, <1>6, <2>1
    <3> QED BY <1>m, <2>2, <3>1, Extended
  <2>4. PICK tab : tab = [Sheets!NoTab EXCEPT !.id = n, !.title = title]
    OBVIOUS
  <2>5. tab \in Found /\ tab.id = n /\ tab.title = title /\ tab.bands = {} /\ ~tab.big
    <3>1. PICK no : no = Sheets!NoTab
      OBVIOUS
    <3>2. no \in Found /\ no.bands = {} /\ no.big = FALSE
      BY <3>1, NothingFound DEF Sheets!NoTab
    <3>3. tab = [no EXCEPT !.id = n, !.title = title] /\ n \in Int
      BY <2>4, <3>1
    <3>4. tab.id = n /\ tab.title = title /\ tab.bands = no.bands /\ tab.big = no.big
      BY <3>2, <3>3 DEF Found
    <3>5. tab \in Found
      BY <1>4, <3>2, <3>3 DEF Found
    <3> QED BY <3>2, <3>4, <3>5
  <2>6. PICK s : s = [r EXCEPT !.pc = "resize", !.tab = tab]
    OBVIOUS
  <2>7. /\ s.pc = "resize" /\ s.tab = tab /\ s.batch = r.batch /\ s.file = r.file
        /\ s.spec = r.spec /\ s.k = r.k /\ s.done = r.done /\ s.before = r.before
        /\ s.overlapped = r.overlapped
    BY <1>4, <2>6 DEF Shape
  <2>8. Shape(s)
    <3>1. "resize" \in Pcs
      BY DEF Pcs
    <3> QED BY <1>4, <2>5, <2>6, <2>7, <3>1 DEF Shape
  <2>9. Sheets!Call(p, s, Sheets!With(p, e))
    <3>1. s = [proc[p] EXCEPT !.pc = "resize", !.tab.id = nextId, !.tab.title = title]
      BY <1>1, <1>4, <1>n, <2>4, <2>6 DEF Shape, Sheets!NoTab
    <3>2. e = [i \in DOMAIN Sheets!Doc(p) \cup {nextId} |->
                 IF i = nextId THEN Sheets!Fresh(title) ELSE Sheets!Doc(p)[i]]
      BY <1>2, <1>n, <2>1, <2>2
    <3> QED BY <1>1, <1>2, <1>3, <1>t, <1>6, <3>1, <3>2 DEF Sheets!createNewTab, Sheets!Spec
  <2>10. Good(s, e, f) /\ Good(r, e, f + 1)
    <3>1. title = Sheets!Title(r.spec.tabs[r.k]) /\ e[n].title = title /\ e[n].bands = {}
      BY <1>3, <1>t, <2>1, <2>3
    <3>2. /\ s.tab.id = n /\ s.tab.title = title /\ s.tab.bands = {} /\ ~s.tab.big
          /\ s.batch = 1
      BY <1>4, <2>5, <2>7
    <3>3. n \notin DOMAIN d /\ DOMAIN e = DOMAIN d \cup {n} /\ \A i \in DOMAIN d : e[i] = d[i]
      BY <2>3
    <3> QED BY <1>0, <1>6, <2>7, <2>8, <3>1, <3>2, <3>3, Adds
  <2> QED BY <1>0, <1>1, <1>f, <2>3, <2>7, <2>9, <2>10, OwnAttempt
<1> QED BY <1>5, <1>6

\* A sync returns: nothing of its own is gone.
LEMMA Closes ==
  ASSUME NEW r, NEW d, NEW e, NEW f \in Nat, Good(r, d, f), r.pc \in {"prune", "move"},
         DOMAIN e \subseteq DOMAIN d, \A n \in DOMAIN e : e[n] = d[n],
         r.spec.create => e = d,
         \A i \in 1..Len(r.done) : r.done[i] \in DOMAIN d => r.done[i] \in DOMAIN e,
         ~r.overlapped /\ r.spec.prune =>
           \A n \in DOMAIN e : \/ \E i \in 1..Len(r.done) : r.done[i] = n
                               \/ \E i \in 1..Len(r.spec.tabs) : r.spec.tabs[i].title = e[n].title,
         NEW s, Shape(s), s.pc = "nil", Same(s, r)
  PROVE  Good(s, e, f) /\ Good(r, e, f + 1)
<1>0. /\ Shape(r) /\ Place(r) /\ Pinned(r) /\ f + 1 > 0 /\ f + 1 # 0 /\ r.pc \notin OnTab
      /\ s.pc \notin OnTab /\ r.pc \notin {"idle", "create", "get", "failed", "nil", "tab", "add"}
      /\ Len(r.done) = Len(r.spec.tabs)
  <2>1. Shape(r) /\ Place(r) /\ Pinned(r)
    BY DEF Good
  <2>2. f + 1 > 0 /\ f + 1 # 0
    OBVIOUS
  <2>3. r.pc \notin OnTab /\ s.pc \notin OnTab
        /\ r.pc \notin {"idle", "create", "get", "failed", "nil", "tab", "add"}
    BY DEF OnTab
  <2>4. Len(r.done) = Len(r.spec.tabs)
    BY <2>1 DEF Place
  <2> QED BY <2>1, <2>2, <2>3, <2>4
<1>1. /\ s.file = r.file /\ s.spec = r.spec /\ s.k = r.k /\ s.tab = r.tab /\ s.batch = r.batch
      /\ s.done = r.done /\ s.before = r.before /\ s.overlapped = r.overlapped
  BY DEF Same
<1>2. Place(s)
  BY <1>0, <1>1 DEF Place, OnTab
<1>3. Pinned(s)
  <2>0. SUFFICES ASSUME ~r.spec.create PROVE Pinned(s)
    BY <1>1 DEF Pinned
  <2>1. /\ \A m \in DOMAIN r.before : m \in DOMAIN Start => r.before[m].title = Start[m].title
        /\ \A i \in 1..Len(r.done) : ByGid(r.spec.tabs[i]) => r.done[i] = r.spec.tabs[i].gid
        /\ Len(r.done) <= Len(r.spec.tabs)
    BY <1>0, <2>0 DEF Pinned
  <2> QED BY <1>0, <1>1, <2>1 DEF Pinned
<1>4. ASSUME ~r.overlapped PROVE Own(s, e) /\ Own(r, e)
  <2>0. Worked(r, d) /\ Accounted(r, d) /\ Made(r, d)
    BY <1>0, <1>4 DEF Good, Own
  <2>1. \A i \in 1..Len(r.done) : r.done[i] \in DOMAIN e /\ e[r.done[i]] = d[r.done[i]]
    BY <2>0 DEF Worked
  <2>2. \A i : Final(s, i) => Final(r, i)
    BY <1>0, <1>1 DEF Final
  <2>3. Worked(r, e)
    BY <2>0, <2>1 DEF Worked
  <2>4. Worked(s, e)
    BY <1>1, <2>0, <2>1, <2>2 DEF Worked
  <2>5. Working(r, e) /\ Working(s, e)
    BY <1>0 DEF Working
  <2>6. Accounted(r, e) /\ Accounted(s, e)
    <3>0. SUFFICES ASSUME ~r.spec.create PROVE Accounted(r, e) /\ Accounted(s, e)
      BY <1>1 DEF Accounted
    <3>1. /\ \A m \in DOMAIN e : m \in DOMAIN r.before => e[m].title = r.before[m].title
          /\ \A m \in DOMAIN e : m \in DOMAIN r.before \/ \E i \in 1..Len(r.done) : r.done[i] = m
      BY <1>0, <2>0, <3>0 DEF Accounted
    <3>2. Accounted(r, e)
      BY <1>0, <3>1 DEF Accounted
    <3>3. Accounted(s, e)
      BY <1>0, <1>1, <3>1 DEF Accounted
    <3> QED BY <3>2, <3>3
  <2>7. Made(r, e) /\ Made(s, e)
    <3>0. SUFFICES ASSUME r.spec.create PROVE Made(r, e) /\ Made(s, e)
      BY <1>1 DEF Made
    <3>1. e = d /\ Rewrites(e, d, r.tab.id)
      BY <3>0 DEF Rewrites
    <3>2. Made(s, e)
      BY <1>0, <1>1, <2>0, <3>1, MadeStays
    <3> QED BY <2>0, <3>1, <3>2
  <2>8. Pruned(r, e)
    BY <1>0 DEF Pruned
  <2>9. Pruned(s, e)
    BY <1>1, <1>4 DEF Pruned
  <2> QED BY <2>3, <2>4, <2>5, <2>6, <2>7, <2>8, <2>9 DEF Own
<1>5. Quiet(s, e)
  BY <1>0 DEF Quiet
<1>6. Good(s, e, f)
  BY <1>1, <1>2, <1>3, <1>4, <1>5 DEF Good
<1>7. Good(r, e, f + 1)
  BY <1>0, <1>4 DEF Good
<1> QED BY <1>6, <1>7

\* relocateToFolder.
LEMMA Relocates ==
  ASSUME SheetsInv, NEW p \in Procs, Sheets!relocateToFolder(p)
  PROVE  SheetsInv'
<1>1. PICK r : r = proc[p]
  OBVIOUS
<1>2. PICK d : d = Sheets!Doc(p)
  OBVIOUS
<1>f. PICK f \in Nat : f = faults
  BY Stepping
<1>4. PICK s : s = [r EXCEPT !.pc = "nil"]
  OBVIOUS
<1>0. /\ r.pc = "move" /\ Good(r, d, f) /\ nextId' = nextId /\ DocsInv(docs, nextId)
      /\ r.file \in 1..Len(docs) /\ docs[r.file] = d /\ "nil" \in Pcs
  BY <1>1, <1>2, <1>f, Stepping DEF Sheets!relocateToFolder, Sheets!Doc, Pcs
<1>5. Shape(r) /\ r.spec.create /\ Len(r.done) = Len(r.spec.tabs)
  BY <1>0 DEF Good, Place
<1>6. Shape(s) /\ s.pc = "nil" /\ Same(s, r)
  BY <1>0, <1>4, <1>5, PcMoves
<1>7. ASSUME ~r.overlapped
      PROVE  \A n \in DOMAIN d : \E i \in 1..Len(r.done) : r.done[i] = n
  <2>1. Made(r, d)
    BY <1>0, <1>7 DEF Good, Own
  <2> QED BY <1>5, <2>1 DEF Made
<1>8. Good(s, d, f)
  BY <1>0, <1>5, <1>6, <1>7, Closes
<1>9. Sheets!Skips(p, s)
  BY <1>1, <1>4 DEF Sheets!relocateToFolder
<1>10. s.file = r.file
  BY <1>6 DEF Same
<1> QED BY <1>0, <1>f, <1>8, <1>9, <1>10, Skipped

\* pruneStaleTabs.
LEMMA Prunes ==
  ASSUME SheetsInv, NEW p \in Procs, Sheets!pruneStaleTabs(p)
  PROVE  SheetsInv'
<1>1. PICK r : r = proc[p]
  OBVIOUS
<1>2. PICK d : d = Sheets!Doc(p)
  OBVIOUS
<1>n. PICK n \in Nat : n = nextId
  BY Stepping
<1>f. PICK f \in Nat : f = faults
  BY Stepping
<1>4. PICK s : s = [r EXCEPT !.pc = "nil"]
  OBVIOUS
<1>i. PICK ids : ids = Sheets!Stale(r)
  OBVIOUS
<1>0. /\ r.pc = "prune" /\ r.pc # "idle" /\ Good(r, d, f) /\ Document(d, n)
      /\ nextId' = nextId /\ DocsInv(docs, nextId)
      /\ r.file \in 1..Len(docs) /\ docs[r.file] = d /\ "nil" \in Pcs
      /\ Rooted(docs[1]) /\ (r.file = 1 => d = docs[1])
  BY <1>1, <1>2, <1>n, <1>f, Stepping DEF Sheets!pruneStaleTabs, Sheets!Doc, Pcs
<1>5. /\ Shape(r) /\ Place(r) /\ Pinned(r) /\ ~r.spec.create /\ r.spec \in Specs
      /\ Len(r.done) = Len(r.spec.tabs) /\ r.file = 1 /\ Rooted(d)
      /\ DOMAIN r.spec.tabs = 1..Len(r.spec.tabs) /\ DOMAIN r.done = 1..Len(r.done)
      /\ r.spec.prune \in BOOLEAN
  <2>1. /\ Shape(r) /\ Place(r) /\ Pinned(r) /\ ~r.spec.create /\ r.spec \in Specs
        /\ Len(r.done) = Len(r.spec.tabs) /\ r.file = 1
    BY <1>0 DEF Good, Place
  <2>2. DOMAIN r.spec.tabs = 1..Len(r.spec.tabs) /\ DOMAIN r.done = 1..Len(r.done)
        /\ r.spec.prune \in BOOLEAN
    BY <2>1, Fields
  <2> QED BY <1>0, <2>1, <2>2
<1>6. Shape(s) /\ s.pc = "nil" /\ Same(s, r) /\ s.file = r.file
  BY <1>0, <1>4, <1>5, PcMoves DEF Same
<1>7. \A i \in 1..Len(r.done) : r.done[i] \notin ids
  BY <1>5, <1>i DEF Sheets!Stale
<1>8. ASSUME ~r.overlapped, r.spec.prune, NEW m \in DOMAIN d, m \notin ids
      PROVE  \/ \E i \in 1..Len(r.done) : r.done[i] = m
             \/ \E i \in 1..Len(r.spec.tabs) : r.spec.tabs[i].title = d[m].title
  <2>1. Accounted(r, d)
    BY <1>0, <1>8 DEF Good, Own
  <2>2. /\ m \in DOMAIN r.before \/ \E i \in 1..Len(r.done) : r.done[i] = m
        /\ m \in DOMAIN r.before => d[m].title = r.before[m].title
    BY <1>0, <1>5, <1>8, <2>1 DEF Accounted, OnTab
  <2>3. CASE m \in DOMAIN r.before
    <3>1. \/ \E i \in 1..Len(r.done) : r.done[i] = m
          \/ \E i \in 1..Len(r.spec.tabs) : r.spec.tabs[i].title = r.before[m].title
      BY <1>5, <1>8, <1>i, <2>3 DEF Sheets!Stale
    <3> QED BY <2>2, <2>3, <3>1
  <2> QED BY <2>2, <2>3
<1>9. CASE ~r.spec.prune \/ ids = {}
  <2>1. Sheets!Skips(p, s)
    BY <1>1, <1>4, <1>i, <1>9 DEF Sheets!pruneStaleTabs
  <2>2. ~r.overlapped /\ r.spec.prune =>
           \A m \in DOMAIN d : \/ \E i \in 1..Len(r.done) : r.done[i] = m
                               \/ \E i \in 1..Len(r.spec.tabs) : r.spec.tabs[i].title = d[m].title
    BY <1>8, <1>9
  <2>3. Good(s, d, f)
    BY <1>0, <1>6, <2>2, Closes
  <2> QED BY <1>0, <1>6, <1>f, <2>1, <2>3, Skipped
<1>10. PICK left : left = DOMAIN d \ ids
  OBVIOUS
<1>11. CASE ~(~r.spec.prune \/ ids = {}) /\ (~(ids \subseteq DOMAIN d) \/ left = {})
  <2>1. Sheets!Refused(p)
    BY <1>1, <1>2, <1>i, <1>10, <1>11 DEF Sheets!pruneStaleTabs
  <2>2. ASSUME f = 0, ~r.overlapped, Sheets!Sensible(r.spec) PROVE FALSE
    <3>1. Worked(r, d) /\ Quiet(r, d)
      BY <1>0, <2>2 DEF Good, Own
    <3>2. DOMAIN r.before \subseteq DOMAIN d
      BY <1>0, <3>1 DEF Quiet
    <3>3. ids \subseteq DOMAIN d
      BY <1>i, <3>2 DEF Sheets!Stale
    <3>4. r.spec.tabs # <<>> /\ r.spec.tabs \in Seq(Sheets!TabSpec)
      BY <1>5, <2>2, Fields DEF Sheets!Sensible
    <3>5. 1 \in 1..Len(r.done)
      <4>1. Len(r.spec.tabs) \in Nat /\ Len(r.spec.tabs) # 0
        BY <3>4, EmptySeq, LenProperties
      <4> QED BY <1>5, <4>1
    <3>6. r.done[1] \in left
      BY <1>7, <1>10, <3>1, <3>5 DEF Worked
    <3> QED BY <1>11, <3>3, <3>6
  <2>3. faults > 0 \/ r.overlapped \/ ~Sheets!Sensible(r.spec)
    BY <1>f, <2>2
  <2> QED BY <1>0, <1>1, <2>1, <2>3, RefusedOnce
<1>12. CASE ~(~r.spec.prune \/ ids = {}) /\ ids \subseteq DOMAIN d /\ left # {}
  <2>1. PICK e : e = [m \in left |-> d[m]]
    OBVIOUS
  <2>2. Sheets!Call(p, s, Sheets!With(p, e))
    BY <1>1, <1>2, <1>4, <1>i, <1>10, <1>12, <2>1 DEF Sheets!pruneStaleTabs
  <2>3. DOMAIN e = left /\ left \subseteq DOMAIN d /\ \A m \in left : e[m] = d[m]
    BY <1>10, <2>1
  <2>4. Document(e, n)
    <3>1. d \in [DOMAIN d -> Sheets!Sheet] /\ DOMAIN d \subseteq 0..(n - 1)
          /\ \A i, j \in DOMAIN d : d[i].title = d[j].title => i = j
      BY <1>0 DEF Document
    <3>2. e \in [left -> Sheets!Sheet]
      BY <2>1, <2>3, <3>1
    <3>3. \A i, j \in DOMAIN e : e[i].title = e[j].title => i = j
      BY <2>3, <3>1
    <3> QED BY <2>3, <3>1, <3>2, <3>3 DEF Document
  <2>5. Rooted(e)
    <3>1. ASSUME NEW id \in DOMAIN Start, Sheets!Kept(id) PROVE id \in left
      <4>1. id \in DOMAIN d
        BY <1>5, <3>1 DEF Rooted
      <4>2. ASSUME id \in ids PROVE FALSE
        <5>1. /\ id \in DOMAIN r.before
              /\ \A i \in 1..Len(r.spec.tabs) : r.spec.tabs[i].title # r.before[id].title
          BY <1>5, <1>i, <4>2 DEF Sheets!Stale
        <5>2. r.before[id].title = Start[id].title
          BY <1>0, <1>5, <5>1 DEF Pinned
        <5>3. PICK i \in 1..Len(r.spec.tabs) :
                \/ r.spec.tabs[i].title = Start[id].title
                \/ r.spec.tabs[i].title = "" /\ r.spec.tabs[i].gid = id
          BY <1>5, <1>12, <3>1 DEF Sheets!Kept
        <5>4. ByGid(r.spec.tabs[i]) /\ r.spec.tabs[i].gid = id
          BY <3>1, <5>1, <5>2, <5>3 DEF ByGid
        <5>5. r.done[i] = id /\ i \in 1..Len(r.done)
          BY <1>0, <1>5, <5>4 DEF Pinned
        <5> QED BY <1>7, <4>2, <5>5
      <4> QED BY <1>10, <4>1, <4>2
    <3>2. \A m \in left : m \in DOMAIN Start => e[m].title = Start[m].title
      BY <1>5, <2>3 DEF Rooted
    <3> QED BY <2>3, <3>1, <3>2 DEF Rooted
  <2>6. \A i \in 1..Len(r.done) : r.done[i] \in DOMAIN d => r.done[i] \in DOMAIN e
    BY <1>7, <1>10, <2>3
  <2>7. ~r.overlapped /\ r.spec.prune =>
           \A m \in DOMAIN e : \/ \E i \in 1..Len(r.done) : r.done[i] = m
                               \/ \E i \in 1..Len(r.spec.tabs) : r.spec.tabs[i].title = e[m].title
    BY <1>8, <1>10, <2>3
  <2>8. Good(s, e, f) /\ Good(r, e, f + 1)
    <3>1. r.pc \in {"prune", "move"} /\ ~r.spec.create
      BY <1>0, <1>5
    <3> QED BY <1>0, <1>6, <2>3, <2>6, <2>7, <3>1, Closes
  <2>9. nextId' \in Nat /\ nextId <= nextId' /\ Document(e, nextId')
    BY <1>0, <1>n, <2>4
  <2> QED BY <1>0, <1>1, <1>6, <1>f, <2>2, <2>5, <2>8, <2>9, OwnAttempt
<1> QED BY <1>9, <1>11, <1>12

\* GetDocument.
LEMMA Gets ==
  ASSUME SheetsInv, NEW p \in Procs, Sheets!GetDocument(p)
  PROVE  SheetsInv'
<1>1. PICK r : r = proc[p]
  OBVIOUS
<1>2. PICK d : d = Sheets!Doc(p)
  OBVIOUS
<1>f. PICK f \in Nat : f = faults
  BY Stepping
<1>0. /\ r.pc = "get" /\ r.pc # "idle" /\ Good(r, d, f) /\ nextId' = nextId
      /\ docs[r.file] = d /\ Rooted(docs[1]) /\ (r.file = 1 => d = docs[1])
  BY <1>1, <1>2, <1>f, Stepping DEF Sheets!GetDocument, Sheets!Doc
<1>3. /\ Shape(r) /\ Place(r) /\ ~r.spec.create /\ r.file = 1 /\ r.spec \in Specs
      /\ r.k = 1 /\ r.done = <<>> /\ Rooted(d) /\ Len(r.spec.tabs) \in Nat
  <2>1. /\ Shape(r) /\ Place(r) /\ ~r.spec.create /\ r.file = 1 /\ r.spec \in Specs
        /\ r.k = 1 /\ r.done = <<>>
    BY <1>0 DEF Good, Place
  <2>2. Len(r.spec.tabs) \in Nat
    BY <2>1, Fields
  <2> QED BY <1>0, <2>1, <2>2
<1>4. PICK x : x = Sheets!After(r.spec, 0)
  OBVIOUS
<1>5. /\ x \in {"tab", "prune"} /\ (x = "tab" => 1 \in 1..Len(r.spec.tabs))
      /\ (x = "prune" => Len(r.spec.tabs) = 0) /\ x \in Pcs /\ x \notin OnTab
  BY <1>3, <1>4 DEF Sheets!After, Pcs, OnTab
<1>6. PICK s : s = [r EXCEPT !.pc = x, !.before = d]
  OBVIOUS
<1>7. /\ s.pc = x /\ s.before = d /\ s.file = r.file /\ s.spec = r.spec /\ s.k = r.k
      /\ s.tab = r.tab /\ s.batch = r.batch /\ s.done = r.done
      /\ s.overlapped = r.overlapped
  BY <1>3, <1>6 DEF Shape
<1>8. Shape(s)
  BY <1>3, <1>5, <1>6, <1>7 DEF Shape
<1>9. s.done = <<>> /\ Len(s.done) = 0 /\ 1..Len(s.done) = {} /\ ~s.spec.create
  BY <1>3, <1>7
<1>10. Place(s)
  <2>1. s.pc = "tab" => s.k \in 1..Len(s.spec.tabs) /\ Len(s.done) = s.k - 1
    BY <1>3, <1>5, <1>7, <1>9
  <2>2. s.pc = "prune" => Len(s.done) = Len(s.spec.tabs)
    BY <1>5, <1>7, <1>9
  <2>3. s.pc \in {"tab", "prune"} /\ s.pc \notin OnTab /\ s.file = 1 /\ s.spec \in Specs
    BY <1>3, <1>5, <1>7
  <2> QED BY <1>9, <2>1, <2>2, <2>3 DEF Place
<1>11. Pinned(s)
  <2>1. Len(s.done) <= Len(s.spec.tabs)
    BY <1>3, <1>7, <1>9
  <2>2. \A m \in DOMAIN s.before : m \in DOMAIN Start => s.before[m].title = Start[m].title
    BY <1>3, <1>7 DEF Rooted
  <2>3. s.pc \notin OnTab /\ s.pc # "add"
    BY <1>5, <1>7
  <2> QED BY <1>9, <2>1, <2>2, <2>3 DEF Pinned
<1>12. Own(s, d)
  <2>1. Worked(s, d)
    BY <1>9 DEF Worked
  <2>2. Working(s, d) /\ Pruned(s, d)
    BY <1>5, <1>7 DEF Working, Pruned
  <2>3. Accounted(s, d)
    BY <1>7 DEF Accounted
  <2>4. Made(s, d)
    BY <1>9 DEF Made
  <2> QED BY <2>1, <2>2, <2>3, <2>4 DEF Own
<1>13. Quiet(s, d)
  BY <1>5, <1>7 DEF Quiet
<1>14. Good(s, d, f)
  BY <1>5, <1>7, <1>8, <1>10, <1>11, <1>12, <1>13 DEF Good
<1>15. Sheets!Call(p, s, docs)
  BY <1>1, <1>2, <1>4, <1>6 DEF Sheets!GetDocument
<1> QED BY <1>0, <1>1, <1>f, <1>7, <1>14, <1>15, ReadAttempt

\* A call of SyncDocument that has done nothing yet.
LEMMA Begun ==
  ASSUME NEW x \in Pcs, NEW spec \in Sheets!DocumentSpec, NEW k \in Nat, NEW at \in Nat \ {0},
         NEW tab \in Found, NEW none \in Seq(Int), NEW no \in BOOLEAN, NEW batch \in Nat,
         NEW r, r = [pc |-> x, file |-> at, spec |-> spec, k |-> k, tab |-> tab,
                     batch |-> batch, done |-> none, before |-> none, overlapped |-> no]
  PROVE  /\ Shape(r) /\ r.pc = x /\ r.spec = spec /\ r.k = k /\ r.file = at
         /\ r.done = none /\ r.before = none /\ r.overlapped = no
<1>1. /\ r.pc = x /\ r.spec = spec /\ r.k = k /\ r.file = at
      /\ r.done = none /\ r.before = none /\ r.overlapped = no
  OBVIOUS
<1>2. Shape(r)
  BY <1>1 DEF Shape
<1> QED BY <1>1, <1>2

LEMMA IdleFields ==
  ASSUME NEW x \in Pcs, NEW spec \in Sheets!DocumentSpec, NEW k \in Nat
  PROVE  \E r : /\ r = [pc |-> x, file |-> 1, spec |-> spec, k |-> k, tab |-> Sheets!NoTab,
                        batch |-> 0, done |-> <<>>, before |-> <<>>, overlapped |-> FALSE]
                /\ Shape(r) /\ r.pc = x /\ r.spec = spec /\ r.k = k /\ r.file = 1
                /\ r.done = <<>> /\ r.before = <<>> /\ ~r.overlapped
<1>1. PICK no \in BOOLEAN : no = FALSE
  BY Zenon
<1>2. PICK none \in Seq(Int) : none = <<>>
  BY EmptySeq, Zenon
<1>3. PICK at \in Nat \ {0} : at = 1
  <2>1. 1 \in Nat \ {0}
    OBVIOUS
  <2> QED BY <2>1, Zenon
<1>4. PICK batch \in Nat : batch = 0
  <2>1. 0 \in Nat
    OBVIOUS
  <2> QED BY <2>1, Zenon
<1>t. PICK tab \in Found : tab = Sheets!NoTab
  BY NothingFound, Zenon
<1>5. PICK r : r = [pc |-> x, file |-> at, spec |-> spec, k |-> k, tab |-> tab,
                    batch |-> batch, done |-> none, before |-> none, overlapped |-> no]
  OBVIOUS
<1>6. /\ Shape(r) /\ r.pc = x /\ r.spec = spec /\ r.k = k /\ r.file = at
      /\ r.done = none /\ r.before = none /\ r.overlapped = no
  BY <1>5, Begun
<1>7. r = [pc |-> x, file |-> 1, spec |-> spec, k |-> k, tab |-> Sheets!NoTab,
           batch |-> 0, done |-> <<>>, before |-> <<>>, overlapped |-> FALSE]
  BY <1>1, <1>2, <1>3, <1>4, <1>5, <1>t, Zenon
<1> QED BY <1>1, <1>2, <1>3, <1>6, <1>7, Zenon

\* SyncDocument.
LEMMA Syncs ==
  ASSUME SheetsInv, NEW p \in Procs, NEW spec \in Specs, Sheets!SyncDocument(p, spec)
  PROVE  SheetsInv'
<1>1. PICK x : x = CASE ~spec.create -> "get"
                     [] spec.create /\ spec.tabs = <<>> -> "failed"
                     [] OTHER -> "create"
  OBVIOUS
<1>0. spec \in Sheets!DocumentSpec /\ spec.create \in BOOLEAN
  <2>1. spec \in Sheets!DocumentSpec
    BY SheetsAssumption DEF SheetsAssumption
  <2> QED BY <2>1 DEF Sheets!DocumentSpec
<1>2. /\ x \in {"get", "failed", "create"} /\ x \in Pcs /\ x \notin OnTab
      /\ (x = "get" <=> ~spec.create) /\ (x = "failed" => spec.tabs = <<>>)
      /\ (x = "create" => spec.tabs # <<>>)
  BY <1>0, <1>1 DEF Pcs, OnTab
<1>3. PICK r : r = [Sheets!Idle EXCEPT !.spec = spec, !.k = 1, !.pc = x]
  OBVIOUS
<1>4. /\ Shape(r) /\ r.pc = x /\ r.spec = spec /\ r.k = 1 /\ r.file = 1 /\ r.done = <<>>
      /\ r.before = <<>> /\ ~r.overlapped
  <2>1. r = [pc |-> x, file |-> 1, spec |-> spec, k |-> 1, tab |-> Sheets!NoTab,
             batch |-> 0, done |-> <<>>, before |-> <<>>, overlapped |-> FALSE]
    BY <1>3 DEF Sheets!Idle
  <2>2. PICK k \in Nat : k = 1
    OBVIOUS
  <2>3. PICK q : /\ q = [pc |-> x, file |-> 1, spec |-> spec, k |-> k, tab |-> Sheets!NoTab,
                         batch |-> 0, done |-> <<>>, before |-> <<>>, overlapped |-> FALSE]
                 /\ Shape(q) /\ q.pc = x /\ q.spec = spec /\ q.k = k /\ q.file = 1
                 /\ q.done = <<>> /\ q.before = <<>> /\ ~q.overlapped
    BY <1>0, <1>2, IdleFields
  <2>4. r = q
    BY <2>1, <2>2, <2>3, Zenon
  <2> QED BY <2>2, <2>3, <2>4, Zenon
<1>5. DOMAIN r.before = {} /\ Len(r.done) = 0 /\ 1..Len(r.done) = {}
  BY <1>4
<1>6. Place(r)
  BY <1>2, <1>4, <1>5 DEF Place
<1>7. Pinned(r)
  <2>1. Len(r.done) <= Len(r.spec.tabs)
    BY <1>4, <1>5, Fields
  <2> QED BY <1>2, <1>4, <1>5, <2>1 DEF Pinned
<1>8. \A d : Own(r, d) /\ Quiet(r, d)
  BY <1>2, <1>4, <1>5 DEF Own, Quiet
<1>9. r.pc = "failed" => ~Sheets!Sensible(r.spec)
  BY <1>2, <1>4 DEF Sheets!Sensible
<1>10. Good(r, docs[1], faults)
  BY <1>4, <1>6, <1>7, <1>8, <1>9 DEF Good
<1>11. Sheets!Skips(p, r) /\ nextId' = nextId
  BY <1>1, <1>3 DEF Sheets!SyncDocument
<1>12. DocsInv(docs, nextId) /\ 1 \in 1..Len(docs)
  BY LenProperties DEF SheetsInv, DocsInv
<1> QED BY <1>4, <1>10, <1>11, <1>12, Skipped

\* Init.
LEMMA SheetsInit ==
  ASSUME Sheets!Init
  PROVE  SheetsInv
<1>0. docs = <<Start>> /\ nextId = 10 /\ faults = 0 /\ proc = [p \in Procs |-> Sheets!Idle]
  BY DEF Sheets!Init, Sheets!FirstId
<1>1. Document(Start, 10) /\ Rooted(Start)
  BY SheetsAssumption DEF SheetsAssumption, Document, Rooted, Sheets!FirstId, Sheets!Kept
<1>2. DocsInv(docs, nextId)
  <2>1. PICK ds : ds = <<Start>>
    OBVIOUS
  <2>2. Len(ds) = 1 /\ ds[1] = Start /\ 1..Len(ds) = {1}
    BY <2>1
  <2>3. ds \in Seq({Start}) /\ {ds[f] : f \in 1..Len(ds)} = {Start}
    BY <2>1, <2>2
  <2>4. 10 >= Sheets!FirstId
    BY DEF Sheets!FirstId
  <2> QED BY <1>0, <1>1, <2>1, <2>2, <2>3, <2>4 DEF DocsInv
<1>3. PICK r : r = Sheets!Idle
  OBVIOUS
<1>4. /\ Shape(r) /\ r.pc = "idle" /\ r.spec = Sheets!NoSpec /\ r.k = 0 /\ r.file = 1
      /\ r.done = <<>> /\ r.before = <<>> /\ ~r.overlapped
  <2>1. Sheets!NoSpec \in Sheets!DocumentSpec
    <3>1. PICK no \in BOOLEAN : no = FALSE
      BY Zenon
    <3>2. PICK tabs \in Seq(Sheets!TabSpec) : tabs = <<>>
      BY EmptySeq, Zenon
    <3>3. PICK spec : spec = [tabs |-> tabs, prune |-> no, create |-> no]
      OBVIOUS
    <3>4. spec \in Sheets!DocumentSpec
      BY <3>3 DEF Sheets!DocumentSpec
    <3>5. spec = Sheets!NoSpec
      BY <3>1, <3>2, <3>3, Zenon DEF Sheets!NoSpec
    <3> QED BY <3>4, <3>5
  <2>2. r = [pc |-> "idle", file |-> 1, spec |-> Sheets!NoSpec, k |-> 0, tab |-> Sheets!NoTab,
             batch |-> 0, done |-> <<>>, before |-> <<>>, overlapped |-> FALSE]
    BY <1>3, Zenon DEF Sheets!Idle
  <2>3. PICK x \in Pcs : x = "idle"
    BY DEF Pcs
  <2>4. PICK k \in Nat : k = 0
    OBVIOUS
  <2>5. PICK spec \in Sheets!DocumentSpec : spec = Sheets!NoSpec
    BY <2>1, Zenon
  <2>6. PICK q : /\ q = [pc |-> x, file |-> 1, spec |-> spec, k |-> k, tab |-> Sheets!NoTab,
                         batch |-> 0, done |-> <<>>, before |-> <<>>, overlapped |-> FALSE]
                 /\ Shape(q) /\ q.pc = x /\ q.spec = spec /\ q.k = k /\ q.file = 1
                 /\ q.done = <<>> /\ q.before = <<>> /\ ~q.overlapped
    BY IdleFields
  <2>7. r = q
    BY <2>2, <2>3, <2>4, <2>5, <2>6, Zenon
  <2> QED BY <2>3, <2>4, <2>5, <2>6, <2>7, Zenon
<1>5. Good(r, Start, 0)
  <2>1. Place(r)
    BY <1>4 DEF Place, OnTab
  <2>2. Pinned(r)
    BY <1>4 DEF Pinned
  <2>3. Own(r, Start) /\ Quiet(r, Start)
    BY <1>4 DEF Own, Quiet, OnTab
  <2> QED BY <1>4, <2>1, <2>2, <2>3 DEF Good
<1>6. \A p \in Procs : proc[p] = r
  BY <1>0, <1>3
<1>7. Len(docs) = 1 /\ docs[1] = Start /\ 1 \in 1..Len(docs)
  BY <1>0
<1>8. \A p \in Procs : proc[p].file \in 1..Len(docs) /\ Good(proc[p], docs[proc[p].file], faults)
  BY <1>0, <1>4, <1>5, <1>6, <1>7
<1>9. faults \in 0..MaxFaults
  BY <1>0, WorkspaceAssumption DEF WorkspaceAssumption
<1>10. proc \in [Procs -> {proc[p] : p \in Procs}]
  BY <1>0
<1> QED BY <1>2, <1>8, <1>9, <1>10 DEF SheetsInv

\* A sequence is one of its own elements.
LEMMA OwnSeq ==
  ASSUME NEW T, NEW es \in Seq(T)
  PROVE  es \in Seq({es[i] : i \in 1..Len(es)})
<1>1. PICK m \in Nat : m = Len(es)
  BY LenProperties
<1>2. PICK S : S = {es[i] : i \in 1..m}
  OBVIOUS
<1>3. es = [i \in 1..m |-> es[i]]
  BY <1>1, LenProperties
<1>4. \A i \in 1..m : es[i] \in S
  BY <1>2
<1>5. es \in [1..m -> S]
  BY <1>3, <1>4
<1>6. es \in Seq(S)
  BY <1>1, <1>5, SeqDef
<1> QED BY <1>1, <1>2, <1>6

\* es is ds and d.
OneMore(es, ds, d) == es = Append(ds, d)

\* The documents with one more.
LEMMA DocsAppend ==
  ASSUME NEW n \in Nat, NEW ds, DocsInv(ds, n), NEW d, Document(d, n),
         NEW es, OneMore(es, ds, d)
  PROVE  /\ DocsInv(es, n) /\ Len(es) = Len(ds) + 1 /\ es[Len(ds) + 1] = d
         /\ \A i \in 1..Len(ds) : es[i] = ds[i]
<1>1. PICK T : T = {ds[i] : i \in 1..Len(ds)} \cup {d}
  OBVIOUS
<1>2. /\ ds \in Seq({ds[i] : i \in 1..Len(ds)}) /\ Len(ds) \in Nat /\ Len(ds) > 0
      /\ ds = [i \in 1..Len(ds) |-> ds[i]]
  <2>1. ds \in Seq({ds[i] : i \in 1..Len(ds)}) /\ Len(ds) > 0
    BY DEF DocsInv
  <2>2. Len(ds) \in Nat /\ DOMAIN ds = 1..Len(ds)
        /\ ds \in [1..Len(ds) -> {ds[i] : i \in 1..Len(ds)}]
    BY <2>1, LenProperties
  <2> QED BY <2>1, <2>2
<1>3. ds \in Seq(T)
  <2>1. \A i \in 1..Len(ds) : ds[i] \in T
    BY <1>1
  <2>2. [i \in 1..Len(ds) |-> ds[i]] \in Seq(T)
    BY <1>2, <2>1, IsASeq
  <2> QED BY <1>2, <2>2
<1>4. /\ es \in Seq(T) /\ Len(es) = Len(ds) + 1 /\ es[Len(ds) + 1] = d
      /\ \A i \in 1..Len(ds) : es[i] = ds[i]
  <2>1. d \in T
    BY <1>1
  <2>2. es = Append(ds, d)
    BY DEF OneMore
  <2> QED BY <1>3, <2>1, <2>2, AppendProperties
<1>6. es \in Seq({es[i] : i \in 1..Len(es)})
  BY <1>4, OwnSeq
<1>7. \A i \in 1..Len(es) : i \in 1..Len(ds) \/ i = Len(ds) + 1
  BY <1>2, <1>4
<1>8. \A i \in 1..Len(es) : Document(es[i], n)
  BY <1>4, <1>7 DEF DocsInv
<1>9. Rooted(es[1]) /\ Len(es) > 0
  <2>1. 1 \in 1..Len(ds) /\ Len(ds) + 1 > 0
    BY <1>2
  <2> QED BY <1>4, <2>1 DEF DocsInv
<1>10. n \in Nat /\ n >= Sheets!FirstId
  BY DEF DocsInv
<1> QED BY <1>4, <1>6, <1>8, <1>9, <1>10 DEF DocsInv

\* e is the document made for tabs, and gids are the tabs with its sheets.
MadeOf(e, gids, tabs, n) ==
  /\ e = [i \in n + 1 .. n + Len(tabs) |-> Sheets!Fresh(Sheets!Title(tabs[i - n]))]
  /\ gids = [i \in DOMAIN tabs |-> [tabs[i] EXCEPT !.gid = n + i]]

\* The document that a sync makes: a sheet for each tab.
LEMMA MadeDocument ==
  ASSUME NEW n \in Nat, NEW tabs \in Seq(Sheets!TabSpec), Sheets!Distinct(tabs),
         NEW m, m = n + Len(tabs) + 1,
         NEW e, NEW gids, MadeOf(e, gids, tabs, n)
  PROVE  /\ Document(e, m) /\ gids \in Seq(Sheets!TabSpec) /\ Len(gids) = Len(tabs)
         /\ \A i \in 1..Len(gids) : /\ gids[i].gid \in DOMAIN e /\ gids[i].gid > 0
                                    /\ e[gids[i].gid].title = Sheets!Title(gids[i])
         /\ \A j \in DOMAIN e : \E i \in 1..Len(gids) : gids[i].gid = j
<1>0. /\ e = [i \in n + 1 .. n + Len(tabs) |-> Sheets!Fresh(Sheets!Title(tabs[i - n]))]
      /\ gids = [i \in DOMAIN tabs |-> [tabs[i] EXCEPT !.gid = n + i]]
  BY DEF MadeOf
<1>1. PICK l \in Nat : l = Len(tabs)
  BY LenProperties
<1>2. DOMAIN tabs = 1..l /\ \A i \in 1..l : tabs[i] \in Sheets!TabSpec
  BY <1>1, LenProperties, ElementOfSeq
<1>3. ASSUME NEW i \in 1..l
      PROVE  /\ gids[i] \in Sheets!TabSpec /\ gids[i].gid = n + i
             /\ gids[i].title = tabs[i].title
             /\ Sheets!Title(gids[i]) = Sheets!Title(tabs[i])
  <2>1. PICK t \in Sheets!TabSpec : t = tabs[i]
    BY <1>2
  <2>2. PICK g \in Int : g = n + i
    OBVIOUS
  <2>3. PICK u : u = [t EXCEPT !.gid = g]
    OBVIOUS
  <2>4. u \in Sheets!TabSpec /\ u.gid = g /\ u.title = t.title
    BY <2>3 DEF Sheets!TabSpec
  <2>5. gids[i] = u
    BY <1>0, <1>2, <2>1, <2>2, <2>3
  <2> QED BY <2>1, <2>2, <2>4, <2>5 DEF Sheets!Title
<1>4. gids \in Seq(Sheets!TabSpec) /\ Len(gids) = l
  <2>1. gids = [i \in 1..l |-> gids[i]]
    BY <1>0, <1>2
  <2>2. gids \in [1..l -> Sheets!TabSpec]
    BY <1>3, <2>1
  <2>3. gids \in Seq(Sheets!TabSpec) /\ DOMAIN gids = 1..l
    BY <1>1, <2>2, SeqDef
  <2> QED BY <2>3, LenProperties
<1>5. DOMAIN e = n + 1 .. n + l
  BY <1>0, <1>1
<1>6. ASSUME NEW j \in DOMAIN e
      PROVE  /\ j - n \in 1..l /\ e[j] \in Sheets!Sheet
             /\ e[j].title = Sheets!Title(tabs[j - n])
  <2>1. PICK i \in 1..l : i = j - n
    BY <1>5, <1>6
  <2>2. tabs[i] \in Sheets!TabSpec
    BY <1>2
  <2>3. PICK t \in STRING : t = Sheets!Title(tabs[i])
    BY <2>2, Titles
  <2>4. e[j] = Sheets!Fresh(t)
    BY <1>0, <1>1, <1>5, <1>6, <2>1, <2>3
  <2>5. e[j] \in Sheets!Sheet /\ e[j].title = t
    BY <2>4, FreshSheet
  <2> QED BY <2>1, <2>3, <2>5
<1>7. Document(e, m)
  <2>1. \A j \in DOMAIN e : e[j] \in Sheets!Sheet
    BY <1>6
  <2>2. e \in [DOMAIN e -> Sheets!Sheet]
    BY <1>0, <2>1
  <2>3. DOMAIN e \subseteq 0..(m - 1)
    BY <1>1, <1>5
  <2>4. ASSUME NEW i \in DOMAIN e, NEW j \in DOMAIN e, e[i].title = e[j].title PROVE i = j
    <3>1. i - n \in 1..l /\ j - n \in 1..l /\ Sheets!Title(tabs[i - n]) = Sheets!Title(tabs[j - n])
      BY <1>6, <2>4
    <3>2. i - n = j - n
      BY <1>2, <3>1 DEF Sheets!Distinct
    <3> QED BY <1>5, <3>2
  <2> QED BY <2>2, <2>3, <2>4 DEF Document
<1>8. ASSUME NEW i \in 1..l
      PROVE  /\ gids[i].gid \in DOMAIN e /\ gids[i].gid > 0
             /\ e[gids[i].gid].title = Sheets!Title(gids[i])
  <2>1. PICK j \in DOMAIN e : j = n + i
    BY <1>5
  <2>2. j > 0 /\ j - n = i
    BY <2>1
  <2>3. gids[i].gid = j /\ Sheets!Title(gids[i]) = Sheets!Title(tabs[i])
    BY <1>3, <2>1
  <2>4. e[j].title = Sheets!Title(tabs[i])
    BY <1>6, <2>2
  <2> QED BY <2>1, <2>2, <2>3, <2>4
<1>9. ASSUME NEW j \in DOMAIN e PROVE \E i \in 1..l : gids[i].gid = j
  <2>1. j - n \in 1..l /\ n + (j - n) = j
    BY <1>5, <1>6
  <2> QED BY <1>3, <2>1
<1> QED BY <1>1, <1>4, <1>7, <1>8, <1>9

\* CreateSpreadsheet.
LEMMA Makes ==
  ASSUME SheetsInv, NEW p \in Procs, Sheets!CreateSpreadsheet(p)
  PROVE  SheetsInv'
<1>1. PICK r : r = proc[p]
  OBVIOUS
<1>2. PICK d : d = docs[r.file]
  OBVIOUS
<1>n. PICK n \in Nat : n = nextId
  BY Stepping
<1>f. PICK f \in Nat : f = faults
  BY Stepping
<1>0. /\ r.pc = "create" /\ r.pc # "idle" /\ Good(r, d, f) /\ Good(r, d, f + 1)
      /\ r.file \in 1..Len(docs) /\ DocsInv(docs, n)
  BY <1>1, <1>2, <1>n, <1>f, Stepping DEF Sheets!CreateSpreadsheet, Sheets!Doc
<1>3. /\ Shape(r) /\ Place(r) /\ r.spec.create /\ r.k = 1 /\ r.done = <<>>
      /\ DOMAIN r.before = {} /\ r.spec.tabs # <<>>
  BY <1>0 DEF Good, Place
<1>t. PICK tabs \in Seq(Sheets!TabSpec) : tabs = r.spec.tabs
  BY <1>3, Fields
<1>m. PICK m \in Nat : m = n + Len(tabs) + 1
  BY LenProperties
<1>4. nextId' = m /\ DocsInv(docs, m) /\ n <= m
  <2>1. nextId' = m
    BY <1>1, <1>n, <1>m, <1>t DEF Sheets!CreateSpreadsheet
  <2>2. n <= m
    BY <1>m, LenProperties
  <2> QED BY <1>0, <2>1, <2>2, DocsGrow
<1>5. CASE ~Sheets!Distinct(tabs)
  <2>1. Sheets!Refused(p)
    BY <1>1, <1>t, <1>5 DEF Sheets!CreateSpreadsheet
  <2>2. ~Sheets!Sensible(r.spec)
    BY <1>3, <1>t, <1>5 DEF Sheets!Sensible
  <2> QED BY <1>0, <1>1, <1>4, <2>1, <2>2, RefusedOnce
<1>6. CASE Sheets!Distinct(tabs)
  <2>1. PICK e : e = [i \in n + 1 .. n + Len(tabs) |-> Sheets!Fresh(Sheets!Title(tabs[i - n]))]
    OBVIOUS
  <2>2. PICK gids : gids = [i \in DOMAIN tabs |-> [tabs[i] EXCEPT !.gid = n + i]]
    OBVIOUS
  <2>3. /\ Document(e, m) /\ gids \in Seq(Sheets!TabSpec) /\ Len(gids) = Len(tabs)
        /\ \A i \in 1..Len(gids) : /\ gids[i].gid \in DOMAIN e /\ gids[i].gid > 0
                                   /\ e[gids[i].gid].title = Sheets!Title(gids[i])
        /\ \A j \in DOMAIN e : \E i \in 1..Len(gids) : gids[i].gid = j
    <3>1. n \in Nat /\ tabs \in Seq(Sheets!TabSpec) /\ Sheets!Distinct(tabs)
      BY <1>6, <1>n, <1>t
    <3>2. m = n + Len(tabs) + 1
      BY <1>m
    <3>3. MadeOf(e, gids, tabs, n)
      BY <2>1, <2>2 DEF MadeOf
    <3> QED BY <3>1, <3>2, <3>3, MadeDocument
  <2>4. PICK ds : ds = Append(docs, e)
    OBVIOUS
  <2>5. /\ DocsInv(ds, m) /\ Len(ds) = Len(docs) + 1 /\ ds[Len(docs) + 1] = e
        /\ \A i \in 1..Len(docs) : ds[i] = docs[i]
    <3>1. PICK os : os = docs
      OBVIOUS
    <3>2. DocsInv(os, m) /\ OneMore(ds, os, e)
      BY <1>4, <2>4, <3>1 DEF OneMore
    <3>3. /\ DocsInv(ds, m) /\ Len(ds) = Len(os) + 1 /\ ds[Len(os) + 1] = e
          /\ \A i \in 1..Len(os) : ds[i] = os[i]
      <4>1. Document(e, m)
        BY <2>3
      <4>2. m \in Nat
        BY <1>m
      <4> QED BY <3>2, <4>1, <4>2, DocsAppend
    <3> QED BY <3>1, <3>3
  <2>6. PICK at \in Nat \ {0} : at = Len(docs) + 1
    BY <1>0, LenProperties DEF DocsInv
  <2>7. PICK spec : spec = [r.spec EXCEPT !.tabs = gids]
    OBVIOUS
  <2>8. spec \in Sheets!DocumentSpec /\ spec.tabs = gids /\ spec.create
    <3>1. PICK o \in Sheets!DocumentSpec : o = r.spec
      BY <1>3, Fields
    <3>2. spec = [o EXCEPT !.tabs = gids]
      BY <2>7, <3>1
    <3>3. spec \in Sheets!DocumentSpec /\ spec.tabs = gids /\ spec.create = o.create
      BY <2>3, <3>2 DEF Sheets!DocumentSpec
    <3> QED BY <1>3, <3>1, <3>3
  <2>9. PICK no \in BOOLEAN : no = FALSE
    BY Zenon
  <2>10. PICK s : s = [r EXCEPT !.pc = "tab", !.spec = spec, !.file = at, !.overlapped = no]
    OBVIOUS
  <2>11. /\ s.pc = "tab" /\ s.spec = spec /\ s.file = at /\ s.overlapped = no /\ s.k = r.k
         /\ s.tab = r.tab /\ s.batch = r.batch /\ s.done = r.done /\ s.before = r.before
    BY <1>3, <2>10 DEF Shape
  <2>12. Shape(s)
    <3>1. "tab" \in Pcs
      BY DEF Pcs
    <3> QED BY <1>3, <2>8, <2>10, <2>11, <3>1 DEF Shape
  <2>13. Sheets!Call(p, s, ds)
    <3>1. s = [proc[p] EXCEPT !.pc = "tab", !.spec.tabs = gids, !.file = Len(docs) + 1,
                              !.overlapped = FALSE]
      BY <1>1, <1>3, <2>6, <2>7, <2>9, <2>10 DEF Shape
    <3>2. ds = Append(docs, [i \in nextId + 1 .. nextId + Len(proc[p].spec.tabs) |->
                               Sheets!Fresh(Sheets!Title(proc[p].spec.tabs[i - nextId]))])
      BY <1>1, <1>n, <1>t, <2>1, <2>4
    <3>3. gids = [i \in DOMAIN proc[p].spec.tabs |->
                    [proc[p].spec.tabs[i] EXCEPT !.gid = nextId + i]]
      BY <1>1, <1>n, <1>t, <2>2
    <3>4. Sheets!Distinct(proc[p].spec.tabs)
      BY <1>1, <1>t, <1>6
    <3> QED BY <3>1, <3>2, <3>3, <3>4 DEF Sheets!CreateSpreadsheet
  <2>14. Good(s, e, f)
    <3>1. s.done = <<>> /\ Len(s.done) = 0 /\ 1..Len(s.done) = {} /\ s.k = 1
          /\ DOMAIN s.before = {} /\ s.spec.create /\ s.spec.tabs = gids
      BY <1>3, <2>8, <2>11
    <3>2. 1 \in 1..Len(gids) /\ Len(gids) \in Nat
      <4>1. Len(tabs) \in Nat /\ Len(tabs) # 0
        BY <1>3, <1>t, EmptySeq, LenProperties
      <4> QED BY <2>3, <4>1
    <3>3. Place(s)
      BY <2>11, <3>1, <3>2 DEF Place, OnTab
    <3>4. Pinned(s)
      BY <3>1 DEF Pinned
    <3>5. Made(s, e)
      BY <2>3, <2>11, <3>1, <3>2 DEF Made, OnTab
    <3>6. Worked(s, e) /\ Working(s, e) /\ Accounted(s, e) /\ Pruned(s, e)
      BY <2>11, <3>1 DEF Worked, Working, Accounted, Pruned, OnTab
    <3>7. Quiet(s, e)
      BY <2>11, <3>1 DEF Quiet, OnTab
    <3> QED BY <2>11, <2>12, <3>3, <3>4, <3>5, <3>6, <3>7 DEF Good, Own
  <2>15. /\ s.file \in 1..Len(ds) /\ ds[s.file] = e /\ ds[r.file] = d /\ Len(docs) <= Len(ds)
    <3>1. Len(docs) \in Nat
      BY <1>0, LenProperties DEF DocsInv
    <3> QED BY <1>0, <1>2, <2>5, <2>6, <2>11, <3>1
  <2>16. MaxFaults \in Nat
    BY WorkspaceAssumption DEF WorkspaceAssumption
  <2>17. Good(s, ds[s.file], faults) /\ Good(proc[p], ds[proc[p].file], faults + 1)
         /\ DocsInv(ds, nextId') /\ DocsInv(docs, nextId') /\ proc[p].pc # "idle"
    BY <1>0, <1>1, <1>4, <1>f, <2>5, <2>14, <2>15
  <2> QED BY <2>13, <2>15, <2>16, <2>17, Attempt
<1> QED BY <1>5, <1>6
-----------------------------------------------------------------------------
\* SyncDocument: the invariant is kept.
LEMMA SheetsNext ==
  ASSUME SheetsInv, Sheets!Next
  PROVE  SheetsInv'
<1>1. PICK p \in Procs : (\E spec \in Specs : Sheets!SyncDocument(p, spec)) \/ Sheets!Step(p)
  BY DEF Sheets!Next
<1>2. CASE \E spec \in Specs : Sheets!SyncDocument(p, spec)
  BY <1>2, Syncs
<1>3. CASE Sheets!CreateSpreadsheet(p)
  BY <1>3, Makes
<1>4. CASE Sheets!GetDocument(p)
  BY <1>4, Gets
<1>5. CASE Sheets!resolveOrCreateTab(p)
  BY <1>5, Resolves
<1>6. CASE Sheets!createNewTab(p)
  BY <1>6, Creates
<1>7. CASE Sheets!resizeTab(p)
  BY <1>7, Resizes
<1>8. CASE Sheets!clearTab(p)
  BY <1>8, Clears
<1>9. CASE Sheets!writeTabBatches(p)
  BY <1>9, Writes
<1>10. CASE Sheets!applyTabFormatting(p)
  BY <1>10, Formats
<1>11. CASE Sheets!applyRichLinks(p)
  BY <1>11, Links
<1>12. CASE Sheets!pruneStaleTabs(p)
  BY <1>12, Prunes
<1>13. CASE Sheets!relocateToFolder(p)
  BY <1>13, Relocates
<1> QED
  BY <1>1, <1>2, <1>3, <1>4, <1>5, <1>6, <1>7, <1>8, <1>9, <1>10, <1>11, <1>12, <1>13
    DEF Sheets!Step, Sheets!ReplaceTab

\* A step of another part keeps it.
LEMMA SheetsStays ==
  ASSUME SheetsInv, UNCHANGED ofSheets
  PROVE  SheetsInv'
<1>1. docs' = docs /\ nextId' = nextId /\ faults' = faults /\ proc' = proc
  BY DEF ofSheets
<1> QED BY <1>1 DEF SheetsInv

\* It is what the run asks of a sync.
LEMMA SheetsSafe ==
  ASSUME SheetsInv
  PROVE  SheetsSound
<1>1. Sheets!TypeOK
  <2>1. nextId \in Nat /\ faults \in 0..MaxFaults
    BY DEF SheetsInv, DocsInv
  <2>2. DOMAIN docs = 1..Len(docs)
    BY LenProperties DEF SheetsInv, DocsInv
  <2>3. \A f \in 1..Len(docs) : Document(docs[f], nextId)
    BY DEF SheetsInv, DocsInv
  <2> QED BY <2>1, <2>2, <2>3 DEF Sheets!TypeOK, Document
<1>2. Sheets!Repeatable
  BY DEF SheetsInv, Good, Sheets!Repeatable
<1>3. Sheets!SyncIsExact
  <2>1. SUFFICES ASSUME NEW p \in Procs, proc[p].pc = "nil", ~proc[p].overlapped
        PROVE /\ Len(proc[p].done) = Len(proc[p].spec.tabs)
              /\ \A k \in DOMAIN proc[p].done :
                   /\ proc[p].done[k] \in DOMAIN Sheets!Doc(p)
                   /\ (\A j \in DOMAIN proc[p].done : j > k => proc[p].done[j] # proc[p].done[k]) =>
                        /\ Sheets!Doc(p)[proc[p].done[k]].content
                             = Sheets!Data(proc[p].spec.tabs[k])
                        /\ proc[p].spec.tabs[k].big => Sheets!Doc(p)[proc[p].done[k]].big
              /\ proc[p].spec.prune => \A n \in DOMAIN Sheets!Doc(p) :
                   \/ \E k \in DOMAIN proc[p].done : proc[p].done[k] = n
                   \/ \E i \in DOMAIN proc[p].spec.tabs :
                        proc[p].spec.tabs[i].title = Sheets!Doc(p)[n].title
    BY DEF Sheets!SyncIsExact
  <2>2. PICK r : r = proc[p]
    OBVIOUS
  <2>3. PICK d : d = Sheets!Doc(p)
    OBVIOUS
  <2>4. Good(r, d, faults) /\ r.pc = "nil" /\ ~r.overlapped
    BY <2>1, <2>2, <2>3, Stepping
  <2>5. Shape(r) /\ Len(r.done) = Len(r.spec.tabs) /\ Worked(r, d) /\ Pruned(r, d)
    BY <2>4 DEF Good, Place, Own
  <2>6. DOMAIN r.spec.tabs = 1..Len(r.spec.tabs) /\ DOMAIN r.done = 1..Len(r.done)
    BY <2>5, Fields
  <2>7. ASSUME NEW k \in 1..Len(r.done)
        PROVE  /\ r.done[k] \in DOMAIN d
               /\ (\A j \in 1..Len(r.done) : j > k => r.done[j] # r.done[k]) =>
                    /\ d[r.done[k]].content = Sheets!Data(r.spec.tabs[k])
                    /\ r.spec.tabs[k].big => d[r.done[k]].big
    <3>1. r.pc \notin OnTab
      BY <2>4 DEF OnTab
    <3> QED BY <2>5, <3>1 DEF Worked, Final
  <2>8. r.spec.prune => \A n \in DOMAIN d :
          \/ \E k \in 1..Len(r.done) : r.done[k] = n
          \/ \E i \in 1..Len(r.spec.tabs) : r.spec.tabs[i].title = d[n].title
    BY <2>4, <2>5 DEF Pruned
  <2> QED BY <2>2, <2>3, <2>5, <2>6, <2>7, <2>8
<1> QED BY <1>1, <1>2, <1>3 DEF SheetsSound, Sheets!Sound

\* SyncDocument, CreateSpreadsheet and ReplaceTab, for every number of
\* processes, every document at first, all specifications and any number of
\* failed calls: a sync that returns nil, and that nobody overtook, left
\* exactly the values of its specification in the document, whatever earlier
\* syncs left half done, and nothing else after a prune; and a sync of a
\* sensible specification that is answered and left alone does not fail.
THEOREM SheetsAreSound == Spec => []SheetsSound
<1>1. Init => SheetsInv
  BY SheetsInit DEF Init
<1>2. SheetsInv /\ [Next]_vars => SheetsInv'
  BY SheetsNext, SheetsStays DEF Next, vars
<1>3. SheetsInv => SheetsSound
  BY SheetsSafe
<1> QED
  BY <1>1, <1>2, <1>3, PTL DEF Spec
=============================================================================
