------------------------------ MODULE SheetSync ------------------------------
(***************************************************************************)
(* google/workspace/sheets: SyncDocument, CreateSpreadsheet and            *)
(* ReplaceTab.  A sync is a sequence of API calls on one spreadsheet, each *)
(* under gcp.WithRetry: an attempt may fail without effect, or take effect *)
(* and lose its reply, and is then repeated or given up.  Callers sync     *)
(* again after a failure, and several of them may sync at once.            *)
(***************************************************************************)
EXTENDS Integers, Sequences, FiniteSets

CONSTANTS
  Procs,      \* processes that sync the spreadsheet
  Specs,      \* the DocumentSpecs they use: [tabs, prune, create]
  Start,      \* the spreadsheet's sheets at first
  MaxFaults,  \* bound: attempts that fail or lose their reply
  MaxSyncs,   \* bound: calls of SyncDocument
  MaxIds      \* bound: sheets ever made

DefaultSheetTitle == "Sheet1"
FirstId == 10  \* identifiers below it are those of Start

\* A sheet; of its values only which batch of which data they are.
Sheet == [title : STRING, content : SUBSET (STRING \X Nat), big : BOOLEAN,
          bands : SUBSET Nat, links : STRING]
TabSpec == [title : STRING, gid : Int, create : BOOLEAN, skip : BOOLEAN,
            data : STRING, big : BOOLEAN, batches : Nat \ {0}]
DocumentSpec == [tabs : Seq(TabSpec), prune : BOOLEAN, create : BOOLEAN]

VARIABLES
  docs,    \* spreadsheets; a spreadsheet is a function from the identifiers
           \* of its sheets to the sheets.  Identifiers are numbered in the
           \* order of the sheets: a new one comes last.
  nextId,  \* the next sheet or banding identifier
  faults, syncs,
  proc     \* process -> its call of SyncDocument

vars == <<docs, nextId, faults, syncs, proc>>

NoTab == [id |-> -1, title |-> "", bands |-> {}, big |-> FALSE]
NoSpec == [tabs |-> <<>>, prune |-> FALSE, create |-> FALSE]
Idle == [pc |-> "idle", file |-> 1, spec |-> NoSpec, k |-> 0, tab |-> NoTab,
         batch |-> 0, done |-> <<>>, before |-> <<>>, overlapped |-> FALSE]

Init == /\ docs = <<Start>> /\ nextId = FirstId /\ faults = 0 /\ syncs = 0
        /\ proc = [p \in Procs |-> Idle]

Busy(q) == proc[q].pc \notin {"idle", "nil", "failed"}

\* p goes on as rec.  A change of a spreadsheet overtakes the others' syncs
\* of it, and makes what they returned a thing of the past.
Goes(p, rec) ==
  proc' = [q \in Procs |->
             IF q = p THEN rec
             ELSE IF docs'[proc[q].file] # docs[proc[q].file]
             THEN [proc[q] EXCEPT !.overlapped = TRUE]
             ELSE proc[q]]

\* An attempt of a call that makes the spreadsheets ds: done; failed, with or
\* without effect, and to be repeated; or given up.
Call(p, ok, ds) ==
  \/ docs' = ds /\ Goes(p, ok) /\ UNCHANGED faults
  \/ /\ faults < MaxFaults /\ faults' = faults + 1
     /\ \E lost \in BOOLEAN, last \in BOOLEAN :
          /\ docs' = IF lost THEN ds ELSE docs
          /\ Goes(p, IF last THEN [proc[p] EXCEPT !.pc = "failed"] ELSE proc[p])

\* A step without a call, and a call the service refuses for good.
Skips(p, rec) == UNCHANGED <<docs, faults>> /\ Goes(p, rec)
Refused(p) == Skips(p, [proc[p] EXCEPT !.pc = "failed"])

Doc(p) == docs[proc[p].file]
With(p, d) == [docs EXCEPT ![proc[p].file] = d]
Spec(p) == proc[p].spec.tabs[proc[p].k]
Title(spec) == IF spec.title = "" THEN DefaultSheetTitle ELSE spec.title
Taken(d, title) == \E n \in DOMAIN d : d[n].title = title
Named(d, title) == IF Taken(d, title) THEN CHOOSE n \in DOMAIN d : d[n].title = title
                   ELSE -1
Fresh(title) == [title |-> title, content |-> {}, big |-> FALSE, bands |-> {},
                 links |-> ""]
\* Where a sync is when n tabs are done.
After(spec, n) == IF n < Len(spec.tabs) THEN "tab"
                  ELSE IF spec.create THEN "move" ELSE "prune"
-----------------------------------------------------------------------------
\* SyncDocument begins; an empty spreadsheet identifier creates one.
SyncDocument(p, spec) ==
  /\ ~Busy(p) /\ syncs < MaxSyncs /\ syncs' = syncs + 1
  /\ Skips(p, [Idle EXCEPT !.spec = spec, !.k = 1,
                           !.pc = CASE ~spec.create -> "get"
                                    [] spec.create /\ spec.tabs = <<>> -> "failed"
                                    [] OTHER -> "create"])
  /\ UNCHANGED nextId

Distinct(tabs) == \A i, j \in DOMAIN tabs : Title(tabs[i]) = Title(tabs[j]) => i = j

\* The call that creates a spreadsheet with its tabs, each of a title of its
\* own; repeated after a lost reply it makes another one, and the first is
\* nobody's.
CreateSpreadsheet(p) ==
  /\ proc[p].pc = "create" /\ nextId < MaxIds
  /\ LET tabs == proc[p].spec.tabs
         made == [n \in nextId + 1 .. nextId + Len(tabs) |-> Fresh(Title(tabs[n - nextId]))]
         gids == [i \in DOMAIN tabs |-> [tabs[i] EXCEPT !.gid = nextId + i]]
     IN IF Distinct(tabs)
        THEN Call(p, [proc[p] EXCEPT !.pc = "tab", !.spec.tabs = gids,
                                     !.file = Len(docs) + 1, !.overlapped = FALSE],
                  Append(docs, made))
        ELSE Refused(p)
  /\ nextId' = nextId + Len(proc[p].spec.tabs) + 1
  /\ UNCHANGED syncs

\* Spreadsheets.Get at the start: what a prune will look at.
GetDocument(p) ==
  /\ proc[p].pc = "get"
  /\ Call(p, [proc[p] EXCEPT !.pc = After(proc[p].spec, 0), !.before = Doc(p)], docs)
  /\ UNCHANGED <<nextId, syncs>>

\* The first sheet, in the document's order, that has the title, or the
\* identifier where one is given.
Matches(id, sheet, spec) ==
  \/ spec.title # "" /\ sheet.title = spec.title
  \/ spec.title = "" /\ spec.gid >= 0 /\ id = spec.gid
  \/ spec.gid > 0 /\ id = spec.gid

findMatchingSheet(sheets, spec) ==
  LET ms == {n \in DOMAIN sheets : Matches(n, sheets[n], spec)}
      first == CHOOSE n \in ms : \A m \in ms : n <= m
  IN IF ms = {} THEN NoTab
     ELSE [id |-> first, title |-> sheets[first].title, bands |-> sheets[first].bands,
           big |-> sheets[first].big]

\* ReplaceTab: its argument checks and resolveOrCreateTab.  SyncDocument sets
\* CreateIfMissing; CreateSpreadsheet leaves it as the caller gave it.
resolveOrCreateTab(p) ==
  /\ proc[p].pc = "tab"
  /\ LET tab == findMatchingSheet(Doc(p), Spec(p))
         missing == IF proc[p].spec.create /\ ~Spec(p).create THEN "failed" ELSE "add"
     IN IF Spec(p).title = "" /\ Spec(p).gid < 0 THEN Refused(p)
        ELSE Call(p, [proc[p] EXCEPT !.pc = IF tab = NoTab THEN missing ELSE "resize",
                                     !.tab = tab, !.batch = 1], docs)
  /\ UNCHANGED <<nextId, syncs>>

\* AddSheet; a title that is taken is refused.
createNewTab(p) ==
  /\ proc[p].pc = "add" /\ nextId < MaxIds
  /\ LET title == Title(Spec(p))
         d == [n \in DOMAIN Doc(p) \cup {nextId} |->
                 IF n = nextId THEN Fresh(title) ELSE Doc(p)[n]]
     IN IF Taken(Doc(p), title) THEN Refused(p)
        ELSE Call(p, [proc[p] EXCEPT !.pc = "resize", !.tab.id = nextId,
                                     !.tab.title = title], With(p, d))
  /\ nextId' = nextId + 1
  /\ UNCHANGED syncs

\* A call that leaves the sheet n, which may be gone, as s.
OnSheet(p, next, n, s) ==
  /\ IF n \in DOMAIN Doc(p) THEN Call(p, next, With(p, [Doc(p) EXCEPT ![n] = s]))
     ELSE Refused(p)
  /\ UNCHANGED <<nextId, syncs>>

\* resizeTab: the grid grows to hold the data; without formatting only when it
\* has to.  The tab is addressed by its identifier.
resizeTab(p) ==
  /\ proc[p].pc = "resize"
  /\ LET next == [proc[p] EXCEPT !.pc = "clear"]
         n == proc[p].tab.id
     IN IF Spec(p).skip /\ (proc[p].tab.big \/ ~Spec(p).big)
        THEN Skips(p, next) /\ UNCHANGED <<nextId, syncs>>
        ELSE OnSheet(p, next, n, [Doc(p)[n] EXCEPT !.big = @ \/ Spec(p).big])

\* Mutation of clearTab: nothing is cleared.
clearNothing(p) ==
  /\ proc[p].pc = "clear"
  /\ Skips(p, [proc[p] EXCEPT !.pc = IF Spec(p).data = "" THEN "format" ELSE "write"])
  /\ UNCHANGED <<nextId, syncs>>

\* The tab is addressed by its title, and so it is when values are written.
clearTab(p) ==
  /\ proc[p].pc = "clear"
  /\ LET n == Named(Doc(p), proc[p].tab.title)
     IN OnSheet(p, [proc[p] EXCEPT !.pc = IF Spec(p).data = "" THEN "format" ELSE "write"],
                n, [Doc(p)[n] EXCEPT !.content = {}])

\* One batch of values over whatever is in its range.
writeTabBatches(p) ==
  /\ proc[p].pc = "write"
  /\ LET b == proc[p].batch
         n == Named(Doc(p), proc[p].tab.title)
         next == [proc[p] EXCEPT !.batch = b + 1,
                                 !.pc = IF b = Spec(p).batches THEN "format" ELSE "write"]
     IN OnSheet(p, next, n,
                [Doc(p)[n] EXCEPT !.content = {x \in @ : x[2] # b} \cup {<<Spec(p).data, b>>}])

\* applyTabFormatting: one atomic batch that deletes the bandings seen at the
\* start and adds one; it is refused when one of them is gone or another is
\* in the way.
applyTabFormatting(p) ==
  /\ proc[p].pc = "format" /\ nextId < MaxIds
  /\ LET next == [proc[p] EXCEPT !.pc = "links"]
         n == proc[p].tab.id
     IN IF Spec(p).skip THEN Skips(p, next)
        ELSE IF n \notin DOMAIN Doc(p) THEN Refused(p)
        ELSE IF Doc(p)[n].bands # proc[p].tab.bands THEN Refused(p)
        ELSE Call(p, next, With(p, [Doc(p) EXCEPT ![n].bands = {nextId}]))
  /\ nextId' = nextId + 1
  /\ UNCHANGED syncs

\* applyRichLinks, and the tab's result.
applyRichLinks(p) ==
  /\ proc[p].pc = "links"
  /\ LET next == [proc[p] EXCEPT !.pc = After(proc[p].spec, proc[p].k), !.k = @ + 1,
                                 !.done = Append(@, proc[p].tab.id)]
         n == proc[p].tab.id
     IN IF Spec(p).data = "" THEN Skips(p, next) /\ UNCHANGED <<nextId, syncs>>
        ELSE OnSheet(p, next, n, [Doc(p)[n] EXCEPT !.links = Spec(p).data])

\* The tabs a prune deletes: those seen at the start that no spec names by
\* title and no tab of this sync has the identifier of.
Stale(rec) == {n \in DOMAIN rec.before :
                 /\ \A i \in DOMAIN rec.spec.tabs :
                      rec.spec.tabs[i].title # rec.before[n].title
                 /\ \A i \in DOMAIN rec.done : rec.done[i] # n}

\* pruneStaleTabs, or the return of a sync that does not prune; a document
\* keeps one sheet at least.
pruneStaleTabs(p) ==
  /\ proc[p].pc = "prune"
  /\ LET ids == Stale(proc[p])
         next == [proc[p] EXCEPT !.pc = "nil"]
         left == DOMAIN Doc(p) \ ids
     IN IF ~proc[p].spec.prune \/ ids = {} THEN Skips(p, next)
        ELSE IF ~(ids \subseteq DOMAIN Doc(p)) \/ left = {} THEN Refused(p)
        ELSE Call(p, next, With(p, [n \in left |-> Doc(p)[n]]))
  /\ UNCHANGED <<nextId, syncs>>

\* relocateToFolder: whether the move succeeds is logged and not returned.
relocateToFolder(p) ==
  /\ proc[p].pc = "move"
  /\ Skips(p, [proc[p] EXCEPT !.pc = "nil"])
  /\ UNCHANGED <<nextId, syncs>>

ReplaceTab(p) == \/ resolveOrCreateTab(p) \/ createNewTab(p) \/ resizeTab(p)
                 \/ clearTab(p) \/ writeTabBatches(p) \/ applyTabFormatting(p)
                 \/ applyRichLinks(p)

Step(p) == \/ CreateSpreadsheet(p) \/ GetDocument(p) \/ ReplaceTab(p)
           \/ pruneStaleTabs(p) \/ relocateToFolder(p)

Next == \E p \in Procs : (\E spec \in Specs : SyncDocument(p, spec)) \/ Step(p)

SyncSpec == Init /\ [][Next]_vars
-----------------------------------------------------------------------------
\* Every variable has the type the code gives it; the sheets of a document are
\* told apart by their titles too.
TypeOK ==
  /\ nextId \in Nat /\ faults \in 0..MaxFaults
  /\ \A f \in DOMAIN docs : \A n, m \in DOMAIN docs[f] :
       /\ docs[f][n] \in Sheet
       /\ docs[f][n].title = docs[f][m].title => n = m

Data(spec) == IF spec.data = "" THEN {}
              ELSE {<<spec.data, b>> : b \in 1..spec.batches}

\* ReplaceTab "idempotently synchronizes": when a sync returns nil and nobody
\* else changed the document meanwhile, every tab of its spec is there with
\* exactly the spec's values (those of the last tab, if two are one sheet),
\* whatever earlier syncs left half done, and a prune left no tab that the
\* spec does not name.
SyncIsExact ==
  \A p \in Procs : (proc[p].pc = "nil" /\ ~proc[p].overlapped) =>
    /\ Len(proc[p].done) = Len(proc[p].spec.tabs)
    /\ \A k \in DOMAIN proc[p].done :
         /\ proc[p].done[k] \in DOMAIN Doc(p)
         /\ (\A j \in DOMAIN proc[p].done : j > k => proc[p].done[j] # proc[p].done[k]) =>
              LET s == Doc(p)[proc[p].done[k]]
              IN /\ s.content = Data(proc[p].spec.tabs[k])
                 /\ proc[p].spec.tabs[k].big => s.big
    /\ proc[p].spec.prune => \A n \in DOMAIN Doc(p) :
         \/ \E k \in DOMAIN proc[p].done : proc[p].done[k] = n
         \/ \E i \in DOMAIN proc[p].spec.tabs :
              proc[p].spec.tabs[i].title = Doc(p)[n].title

\* A sheet that was there at first and that no spec's prune deletes.
Kept(id) ==
  /\ id \in DOMAIN Start
  /\ \A q \in Specs : q.prune /\ ~q.create =>
       \E i \in DOMAIN q.tabs : \/ q.tabs[i].title = Start[id].title
                                \/ q.tabs[i].title = "" /\ q.tabs[i].gid = id

\* A spec with tabs, of titles of their own where the sync makes them; a tab
\* that is named by identifier alone is there.
Sensible(spec) ==
  /\ spec.tabs # <<>>
  /\ IF spec.create THEN Distinct(spec.tabs)
     ELSE \A i \in DOMAIN spec.tabs : spec.tabs[i].title # "" \/ Kept(spec.tabs[i].gid)

\* "Idempotently": a sync of a sensible spec that nobody interferes with, all
\* of whose calls the service answers, does not fail because of what the syncs
\* before it left.
Repeatable ==
  \A p \in Procs : proc[p].pc = "failed" /\ Sensible(proc[p].spec) =>
    faults > 0 \/ proc[p].overlapped

Sound == TypeOK /\ SyncIsExact /\ Repeatable
=============================================================================
