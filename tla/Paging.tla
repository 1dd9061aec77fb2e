------------------------------- MODULE Paging -------------------------------
(***************************************************************************)
(* The listings of google/workspace/drive and google/serviceusage: page    *)
(* after page is asked for with the token of the one before, while what is *)
(* listed changes on the service.  A listing keeps no state besides the    *)
(* token; Scan hands the files to a callback and stops at a ceiling.       *)
(***************************************************************************)
EXTENDS Integers, Sequences, FiniteSets

CONSTANTS
  Things,      \* what may be listed, ordered as the service lists it: 1..n
  PageSizes,   \* sizes asked for, zero and negative ones included
  Ceilings,    \* Scanner.maxPages; 0 and less: no ceiling
  MaxChanges   \* bound: additions and removals during a listing

defaultPageSize == 2

VARIABLES
  kind,     \* which listing
  size, maxPages,
  present,  \* what the service has
  ever, always,  \* history: what it had at some time, all the time
  changes,
  token,    \* the last thing of the page before; 0: no token
  pages,    \* pageCount
  out,      \* what was collected or handed to the callback, page by page
  ctx,      \* "live" or "done"
  outcome   \* "running", "nil", "error" or "cancelled"

vars == <<kind, size, maxPages, present, ever, always, changes, token, pages,
          out, ctx, outcome>>

Kinds == {"scan", "drives", "filePermissions", "apis"}

\* Options that are out of range leave the defaults: WithPageSize, pageSize.
EffectiveSize(n) == IF n > 0 THEN n ELSE defaultPageSize

\* NewScanner and the other listings' parameters.
Init ==
  /\ kind \in Kinds
  /\ \E n \in PageSizes : size = EffectiveSize(n)
  /\ maxPages \in IF kind = "scan" THEN Ceilings ELSE {0}
  /\ present \in SUBSET Things
  /\ ever = present /\ always = present
  /\ changes = 0 /\ token = 0 /\ pages = 0 /\ out = <<>>
  /\ ctx = "live" /\ outcome = "running"

\* The service's answer: the first of what follows the token; more follows
\* when that is not all.
Rest == {t \in present : t > token}
Pages == {page \in SUBSET Rest :
            /\ \A t \in page, u \in Rest \ page : t < u
            /\ Cardinality(page) <= size
            /\ page # Rest => Cardinality(page) = size}
More(page) == page # Rest

\* A page was taken: the token of the next, or the end of the listing.
Advance(page) ==
  /\ out' = Append(out, page)
  /\ pages' = pages + 1
  /\ token' \in IF More(page) THEN {t \in page : \A u \in page : u <= t} ELSE {0}

Fail(how) == outcome' = how /\ UNCHANGED <<token, pages, out>>
-----------------------------------------------------------------------------
\* Mutation of Scan: the ceiling is looked at before the page is taken.
ScanEarly ==
  /\ kind = "scan" /\ outcome = "running"
  /\ \E page \in Pages :
       IF maxPages > 0 /\ pages + 1 >= maxPages /\ More(page)
         THEN outcome' = "nil" /\ UNCHANGED <<token, pages, out>>
         ELSE Advance(page) /\ outcome' = IF More(page) THEN "running" ELSE "nil"
  /\ UNCHANGED <<kind, size, maxPages, present, ever, always, changes, ctx>>

\* One round of Scan: the context, the call, the callback for each file, the
\* ceiling.  A callback error ends it in the middle of a page.
Scan ==
  /\ kind = "scan" /\ outcome = "running"
  /\ \/ ctx = "done" /\ Fail("cancelled")
     \/ ctx = "live" /\ Fail("error")
     \/ /\ ctx = "live"
        /\ \E page \in Pages : \E part \in SUBSET page :
             /\ part # page /\ \A t \in part, u \in page \ part : t < u
             /\ out' = Append(out, part)
        /\ outcome' = "error"
        /\ UNCHANGED <<token, pages>>
     \/ /\ ctx = "live"
        /\ \E page \in Pages :
             /\ Advance(page)
             /\ outcome' = IF ~More(page) \/ (maxPages > 0 /\ pages + 1 >= maxPages)
                           THEN "nil" ELSE "running"
  /\ UNCHANGED <<kind, size, maxPages, present, ever, always, changes, ctx>>

\* One round of a listing that collects: only the call itself sees the context.
Collect(k) ==
  /\ kind = k /\ outcome = "running"
  /\ \/ Fail("error")
     \/ /\ ctx = "live"
        /\ \E page \in Pages : /\ Advance(page)
                                /\ outcome' = IF More(page) THEN "running" ELSE "nil"
  /\ UNCHANGED <<kind, size, maxPages, present, ever, always, changes, ctx>>

ListSharedDrives == Collect("drives")
ListFilePermissions == Collect("filePermissions")
CheckAPIsStatus == Collect("apis")

\* Something appears or disappears on the service.
Change(t) ==
  /\ outcome = "running" /\ changes < MaxChanges
  /\ changes' = changes + 1
  /\ present' = IF t \in present THEN present \ {t} ELSE present \cup {t}
  /\ ever' = ever \cup present' /\ always' = always \cap present'
  /\ UNCHANGED <<kind, size, maxPages, token, pages, out, ctx, outcome>>

Cancel ==
  /\ ctx = "live" /\ outcome = "running" /\ ctx' = "done"
  /\ UNCHANGED <<kind, size, maxPages, present, ever, always, changes, token,
                 pages, out, outcome>>

Next == \/ Scan \/ ListSharedDrives \/ ListFilePermissions \/ CheckAPIsStatus
        \/ \E t \in Things : Change(t)
        \/ Cancel

Spec == Init /\ [][Next]_vars
-----------------------------------------------------------------------------
\* Every variable has the type the code gives it.
TypeOK ==
  /\ kind \in Kinds /\ size \in Nat \ {0} /\ maxPages \in Int
  /\ present \subseteq Things /\ always \subseteq present
  /\ present \subseteq ever
  /\ pages \in Nat /\ token \in Things \cup {0}
  /\ outcome \in {"running", "nil", "error", "cancelled"}

\* A listing that ends without an error has everything that was there all the
\* time, nothing twice, and nothing that was never there, whatever changed
\* between its pages.  Only Scan may stop short, and then it took exactly the
\* pages of its ceiling, full ones.
Listed == UNION {out[i] : i \in DOMAIN out}
Complete ==
  /\ Listed \subseteq ever
  /\ \A i, j \in DOMAIN out : i # j => out[i] \cap out[j] = {}
  /\ outcome = "nil" =>
       \/ always \subseteq Listed
       \/ /\ kind = "scan" /\ pages = maxPages /\ Len(out) = maxPages
          /\ \A i \in DOMAIN out : Cardinality(out[i]) = size

Sound == TypeOK /\ Complete
=============================================================================
