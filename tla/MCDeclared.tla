----------------------------- MODULE MCDeclared -----------------------------
(***************************************************************************)
(* What is declared and computed, for TLC: infrastructure stacks brought   *)
(* up one after another, calls through the stubs of the contracts, tables  *)
(* on their way to a spreadsheet, and functions of their inputs alone: the *)
(* comparisons of dataquality/datadiff, the environment and command lines  *)
(* of platform/procrun and the Pulumi runner, the choice of credentials of *)
(* google/auth, and the plans of governance/plan.  They share nothing, so  *)
(* a behaviour exercises one of them; a function is a single state with    *)
(* one of its inputs.                                                      *)
(***************************************************************************)
EXTENDS IacStack

CONSTANTS
  Widths, MaxRows, MaxSets   \* SheetTable

ASSUME DeclaredAssumption ==
  Widths \subseteq Nat /\ MaxRows \in Nat /\ MaxSets \in Nat

(* The stacks: a governance stack, one of each blueprint and one of a      *)
(* single block, each with a few configurations: a first one, one with     *)
(* blocks renamed or left out, one with a block malformed.                 *)

Objects == {"environments", "tagKeys", "sinkExtraLogNames", "uptimeTargets", "secrets",
            "consumerSAs", "serviceAccounts", "impersonators", "repositories",
            "consumerWorkloadStacks", "alertEmails", "thresholds", "projects", "tables"}
Cfg(text, obj, num) ==
  [text |-> [k \in Keys |-> IF k \in DOMAIN text THEN text[k] ELSE Empty],
   obj |-> [k \in Objects |-> IF k \in DOMAIN obj THEN obj[k] ELSE Absent],
   num |-> [k \in {"monthlyBudget", "githubAppInstallationId"} |->
              IF k \in DOMAIN num THEN num[k] ELSE 0]]
None == [x \in {} |-> Empty]
NoParams == [folderID |-> Empty, billingAccount |-> Empty, orgID |-> Empty]
Case(stack, blueprint, cfg, params) ==
  [stack |-> stack, blueprint |-> blueprint, cfg |-> cfg, params |-> params, opts |-> <<>>]

Dim(n) == [ShortName |-> <<n>>, Description |-> <<"text">>]
GovText(tier, parent) ==
  [parent |-> parent, rootFolder |-> <<"root">>, tier |-> tier, billingAccount |-> <<"bill">>]
Org == <<"organizations/", "9">>
Governance ==
  {Case(<<"gov">>, "governance", Cfg(GovText(t[1], t[2]), t[3], None), NoParams) : t \in
    {<<<<"enterprise">>, Org, [environments |-> Given(<<<<"shared">>, <<"prod">>>>),
                               tagKeys |-> Given(<<Dim("cost"), Dim("owner")>>)]>>,
     <<<<"enterprise">>, Org, [environments |-> Given(<<<<"shared">>, <<"prod">>>>),
                               tagKeys |-> Malformed]>>,
     <<<<"enterprise">>, Org, [environments |-> Given(<<<<"shared">>>>),
                               tagKeys |-> Given(<<Dim("cost")>>)]>>,
     <<<<>>, <<"folders/", "7">>, [environments |-> Given(<<<<"prod">>, <<"root">>>>)]>>,
     <<<<>>, <<"folders/", "7">>, [environments |-> Given(<<<<"shared">>, <<"prod">>>>)]>>,
     <<<<"starter">>, Org, None>>}}

Place == [governanceStack |-> <<"gov">>, folderID |-> <<"cfgFolder">>, projectName |-> <<"p">>]
Paid == Place @@ [billingAccount |-> <<"cfgBill">>, orgID |-> <<"cfgOrg">>]
Passed == [NoParams EXCEPT !.folderID = <<"passed">>]

Uptime(n, stack) == [DisplayName |-> <<n>>, StackRef |-> stack, URLOutputKey |-> <<"rootFolderId">>,
                     StatusClasses |-> <<>>]
Observability ==
  {Case(<<"obs">>, "observability", Cfg(Paid @@ [alertEmail |-> <<"ops">>], o, None), q) :
     q \in {NoParams, Passed}, o \in
       {None, [uptimeTargets |-> Given(<<Uptime("web", <<"gov">>), Uptime("api", <<"gov">>)>>),
               sinkExtraLogNames |-> Given(<<<<"ok", "%ok">>>>)],
        [uptimeTargets |-> Malformed],
        [sinkExtraLogNames |-> Given(<<<<"ok", "%bad">>>>)],
        [sinkExtraLogNames |-> Given(<<<<"ok", "bad">>>>)]}}

Secret(n) == [Name |-> <<n>>, Ref |-> <<n>>]
Account(n) == [ID |-> <<n>>, DisplayName |-> <<n>>]
Identity ==
  {Case(<<"ident">>, "identity", Cfg(Place, [consumerSAs |-> Given(<<<<"sa">>>>)] @@ o, None), NoParams) :
     o \in {[secrets |-> Given(<<Secret("s1"), Secret("s2")>>),
             serviceAccounts |-> Given(<<Account("a"), Account("b")>>),
             impersonators |-> Given(<<<<"i">>>>)],
            [secrets |-> Given(<<Secret("s1"), Secret("s3")>>)],
            [secrets |-> Malformed], [serviceAccounts |-> Given(<<Account("a")>>)],
            [serviceAccounts |-> Given(<<Account("a"), Account("a")>>)]}}

Repo(n) == [Name |-> <<n>>, RemoteURI |-> <<"uri">>,
            Triggers |-> <<[Name |-> <<n, "t">>, TagPattern |-> <<"v">>, ConfigFile |-> <<"f">>]>>]
DeliveryText == Place @@ [registryId |-> <<"images">>, billingAccount |-> <<"cfgBill">>,
                          githubOAuthSecretVersion |-> <<"v">>]
Delivery ==
  {Case(<<"deliv">>, "delivery", Cfg(DeliveryText, o, [githubAppInstallationId |-> n]), NoParams) :
     n \in {0, 1}, o \in
       {[repositories |-> Given(<<Repo("r")>>), consumerWorkloadStacks |-> Given(<<<<"work">>>>)],
        [repositories |-> Malformed],
        [consumerWorkloadStacks |-> Given(<<<<"work">>, <<"work">>>>)]}}
  \cup {Case(<<"deliv">>, "delivery",
             Cfg(DeliveryText @@ [buildServiceAccount |-> <<"sa">>], None, None), NoParams)}

Finops ==
  {Case(<<"fin">>, "finops", Cfg(Paid, [alertEmails |-> Given(e)] @@ o, [monthlyBudget |-> n]), NoParams) :
     n \in {0, 5, 7}, e \in {<<<<"m1">>, <<"m2">>>>, <<<<"m1">>, <<"m1">>>>},
     o \in {None, [thresholds |-> Malformed]}}

Workloads ==
  {Case(<<"work">>, "workloads",
        Cfg([environmentFolder |-> <<"prod">>, governanceStack |-> <<"gov">>,
             billingAccount |-> <<"cfgBill">>, deliveryProjectNumber |-> <<"42">>],
            [projects |-> o], None), q) :
     q \in {NoParams, Passed}, o \in
       {Given(<<[Name |-> <<"w1">>, Concerns |-> <<<<"compute">>, <<"data">>>>, APIs |-> <<<<"run">>>>],
                [Name |-> <<"w2">>, Concerns |-> <<>>, APIs |-> <<>>]>>),
        Given(<<[Name |-> <<"w2">>, Concerns |-> <<<<"compute">>>>, APIs |-> <<>>]>>), Malformed}}

ATable(n, dp) == [Name |-> <<n>>, Schema |-> <<"s">>, DeletionProtection |-> dp]
Tables ==
  {[Case(<<"tab">>, "tables", Cfg(None, [tables |-> Given(t)], None), NoParams) EXCEPT !.opts = o] :
     o \in {<<>>, <<"Ephemeral">>},
     t \in {<<ATable("t1", FALSE), ATable("t2", TRUE)>>, <<ATable("t1", FALSE)>>,
            <<ATable("t1", FALSE), ATable("t1", FALSE)>>}}

MCCases == Governance \cup Observability \cup Identity \cup Delivery \cup Finops
           \cup Workloads \cup Tables

MCResolves == {<<"s1">>, <<"s2">>}
-----------------------------------------------------------------------------
VARIABLES
  active,   \* the part this behaviour is about
  input,    \* of a function
  server, request, wire, ran, answer,
  table, sets

ofCalls == <<server, request, wire, ran, answer>>
ofTable == <<table, sets>>
allVars == <<active, input, iacVars, ofCalls, ofTable>>

Calls == INSTANCE ContractServices
Diff == INSTANCE Datadiff
Proc == INSTANCE Procrun
Auth == INSTANCE GoogleAuth WITH Programs <- {}, MaxCallbacks <- 0, file <- "none",
                                 flow <- <<>>, calls <- <<>>, history <- <<>>

Cells == INSTANCE SheetCells
Val(kind, n) == [kind |-> kind, text |-> n]
Field(exported, dash, header, name, opts) ==
  [exported |-> exported, dash |-> dash, header |-> header, name |-> name, opts |-> opts]
TagOpt(key, n) == [key |-> key, n |-> n, ok |-> n > 0]
TableRows ==
  {[values |-> FALSE, row |-> r] :
     r \in {<<>>, <<Cells!Text(3)>>, <<Cells!Hyperlink(9, 0)>>,
            <<Cells!Text(3), Cells!Formula(4)>>,
            <<Cells!Formula(4), Cells!Text(3), Cells!Formula(12)>>}}
  \cup {[values |-> TRUE, row |-> <<Val("string", 30), Val("nil", 0),
                                    [kind |-> "Cell", cell |-> Cells!Formula(4)]>>]}
TableStructs ==
  {[fields |-> <<Field(TRUE, FALSE, 0, 3, <<TagOpt("width", 40), TagOpt("max", 30)>>),
                 Field(FALSE, FALSE, 0, 4, <<>>), Field(TRUE, TRUE, 0, 4, <<>>),
                 Field(TRUE, FALSE, 7, 5, <<TagOpt("formula", 0), TagOpt("width", 0)>>)>>,
    items |-> <<<<Val("string", 4), Val("int", 1), Val("int", 2), Val("string", 5)>>,
                <<>>>>]}
Sheet == INSTANCE SheetTable WITH
  Headers <- {<<>>, <<3>>, <<7, 3, 3>>}, Structs <- TableStructs, Rows <- TableRows,
  Limits <- {<<50, 0>>, <<120, 60>>},
  Themes <- {Cells!ThemeCorporateNavy, [Cells!ThemeCleanMinimal EXCEPT !.min = 80, !.max = 200]},
  Grids <- {[rows |-> 1000, cols |-> 26], [rows |-> 3, cols |-> 2]}
-----------------------------------------------------------------------------
(* The inputs of the functions.                                            *)

Items == SeqOf({1, 2, 3}, 2)
Leaf(n, t) == [name |-> <<n>>, type |-> t, children |-> <<>>]
Column(n, cs) == [name |-> <<n>>, type |-> "RECORD", children |-> cs]
Schemas == {<<>>, <<Leaf("a", "INT")>>, <<Leaf("a", "TEXT")>>,
            <<Leaf("a", "INT"), Column("r", <<Leaf("a", "INT"), Leaf("b", "INT")>>)>>,
            <<Column("r", <<Leaf("b", "INT"), Leaf("a", "INT")>>), Leaf("a", "INT")>>,
            <<Column("r", <<Leaf("a", "TEXT")>>)>>}
Number(n) == [kind |-> "fin", v |-> n]
Floats == {Number(n) : n \in {-100, -95, 0, 95, 100, 110}}
          \cup {[kind |-> k, v |-> 0] : k \in {"+Inf", "-Inf", "NaN"}}
Ints == {Number(n) : n \in {0, 10, 11}}
Stats == {<<[column |-> "c", Sum |-> s, NullCount |-> n]>> : s \in Floats, n \in Ints}
Asked == [err : BOOLEAN, Match : BOOLEAN]
StatsAsked == [err : BOOLEAN, Match : {FALSE},
               Diffs : {<<Diff!StatDiff(<<"c", "Sum">>, Number(100), r)>> :
                          r \in Floats}]

DiffInput ==
  \/ input \in [op : {"set"}, l : SeqOf({1, 2, 3}, 3), r : SeqOf({1, 2, 3}, 3)]
  \/ input \in [op : {"move"}, b : Items, t : Items, l : Items]
  \/ input \in [op : {"map"}, l : UNION {[D -> {1, 2}] : D \in SUBSET {1, 2, 3}},
                r : UNION {[D -> {1, 2}] : D \in SUBSET {1, 2, 3}}]
  \/ input \in [op : {"schema"}, l : Schemas, r : Schemas]
  \/ input \in [op : {"stats"}, l : Stats, r : Stats \cup {<<>>}, t : {0, 5, 10}]
  \/ input \in [op : {"compare"}, t : {0, 10},
                ask : {[Schema |-> a, Volume |-> b, Content |-> c, Stats |-> s] :
                         a, b, c \in Asked, s \in StatsAsked}]
  \/ input \in [op : {"target"}, parts : SeqOf({"p", "d"}, 5)]

Names == {<<"PATH", "">>, <<"AWS_", "KEY">>, <<"HOME", "">>}
Envs(v) == UNION {[D -> {v}] : D \in SUBSET Names}
Mail(n) == IF n = 0 THEN <<>> ELSE IF n = 1 THEN <<"a", "@", "a">> ELSE <<"@", "a">>
Options ==
  {[opt |-> "WithServiceAccountImpersonation", sa |-> Mail(n)] : n \in 0 .. 2}
  \cup {[opt |-> "WithDomainWideDelegation", sa |-> Mail(n), subject |-> Mail(m)] :
          n, m \in 0 .. 2}
  \cup {[opt |-> o] : o \in {"WithInteractiveConsent", "WithHTTPClient", "WithoutRetry"}}
  \cup {[opt |-> "WithScopes", scopes |-> s] : s \in {{}, {"mine"}}}
  \cup {[opt |-> "WithRetryAttempts", n |-> n] : n \in {-1, 1, 2}}

ProcInput ==
  \/ input \in [op : {"env"}, call : Envs("call"), parent : Envs("parent"),
                r : [Scrub : {<<>>, <<"AWS_">>}, Path : {<<>>, <<"dir">>},
                     Env : Envs("runner")]]
  \/ input \in [op : {"args"}, k : {"key", "?!"}, v : {"value", "secret"}]
  \/ input \in [op : {"auth"}, env : {Mail(0), Mail(1)}, opts : SeqOf(Options, 2)]

PlanInput ==
  input \in [op : {"plan"}, Tier : 0 .. 3, Scope : 0 .. 2,
             Hierarchy : [Parent : {Empty, <<"p">>, Org}, RootName : {Empty, <<"r">>},
                          Children : SeqOf({Empty, <<"c">>, <<"r">>}, 2)],
             Dimensions : {<<>>, <<Dim("cost")>>, <<Dim("cost"), Dim("cost")>>},
             BillingAccount : {Empty, <<"b">>}, OrgID : {Empty, <<"o">>}]

CellInput ==
  \/ input \in [op : {"a1"}, col : 0 .. 1000]
  \/ input \in [op : {"title"}, title : SeqOf({"a", "'"}, 4)]
-----------------------------------------------------------------------------
MCInit ==
  /\ \/ active \in {"stacks", "calls", "table"} /\ input = [op |-> "none"]
     \/ active = "diff" /\ DiffInput
     \/ active = "proc" /\ ProcInput
     \/ active = "plan" /\ PlanInput
     \/ active = "cell" /\ CellInput
  /\ Init /\ Calls!Init /\ Sheet!Init
  /\ active = "calls" \/ server = [mounts |-> TRUE, implements |-> TRUE, older |-> FALSE]
  /\ active = "table" \/ table = Cells!NewTable(<<>>)

MCNext ==
  \/ /\ active = "stacks" /\ Next
     /\ UNCHANGED <<active, input, ofCalls, ofTable>>
  \/ /\ active = "calls" /\ Calls!Next
     /\ UNCHANGED <<active, input, iacVars, ofTable>>
  \/ /\ active = "table" /\ Sheet!Next
     /\ UNCHANGED <<active, input, iacVars, ofCalls>>

MCSpec == MCInit /\ [][MCNext]_allVars
-----------------------------------------------------------------------------
\* Apply of the six blueprints and their blocks: every project has a folder
\* and a billing account, chosen in the documented order at the moment of the
\* update; no stack reference is made twice; the audit sink is never widened;
\* and a plan that validates is refused by folders.Apply only for a child named
\* like the root or for the form of its parent.
StacksSound == Sound /\ (input.op = "plan" => PlanIsCoherent(input))
\* The stubs of contracts: a call arrives whole at the method it names, also
\* through an older peer, and the generated tables of each file agree.
CallsSound == active = "calls" => Calls!Sound

\* ReplaceTab: every cell of a table is written once and where it belongs, in
\* a grid that holds it, within the limits of its width and formatted in order;
\* columns and titles in A1 notation read back.
TableSound == /\ active = "table" => Sheet!TableSound
              /\ input.op = "a1" => Sheet!ColumnReadsBack(input.col)
              /\ input.op = "title" => Sheet!TitleReadsBack(input.title)

\* SetDiff, ThreeWayDiff, MapDiff, DiffColumns, DiffStats, Compare,
\* ParseTarget: a verdict is that of the mathematics, on either side, and no
\* layer that failed or was not run counts as a pass.
DiffSound ==
  CASE input.op = "set" -> Diff!SetVerdicts(input.l, input.r)
    [] input.op = "move" -> Diff!MigrationEquation(input.b, input.t, input.l)
    [] input.op = "map" -> Diff!MapVerdict(input.l, input.r)
    [] input.op = "schema" -> Diff!SchemaVerdict(input.l, input.r)
    [] input.op = "stats" -> Diff!StatsVerdict(input.l, input.r, input.t)
    [] input.op = "compare" -> Diff!CompareVerdict(input.ask, input.t)
    [] input.op = "target" -> Diff!TargetReadsBack(input.parts)
    [] OTHER -> TRUE

\* procrun.Environ, the runner's redactArgs and logName, ResolveClient: a
\* child process sees no variable it should not, a configuration value shows
\* up in no error and no file name, delegation is never lost on the way, and
\* scopes are those asked for wherever ResolveClient makes the credentials.
ProcSound ==
  CASE input.op = "env" -> Proc!EnvIsControlled(input.r, input.call, input.parent)
    [] input.op = "args" -> Proc!ValueStaysPrivate(input.k, input.v)
                            /\ Proc!CommandsAreNamed(input.v)
    [] input.op = "auth" -> Auth!ResolvesSafely(input.env, {"default"}, input.opts)
    [] OTHER -> TRUE
=============================================================================
