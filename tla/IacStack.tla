------------------------------ MODULE IacStack ------------------------------
(***************************************************************************)
(* The blueprints of iac/: governance, observability, identity, delivery,  *)
(* finops and workloads, each a program over the building blocks that      *)
(* reads its stack's configuration and the outputs of other stacks; and    *)
(* the stacks over time.                                                   *)
(*                                                                         *)
(* A configuration has texts (<<>> is a key that is not set), objects that *)
(* are absent, malformed or given, and numbers.  An output that is a map   *)
(* is one output for each of its keys.  A stack that was never deployed    *)
(* has no outputs.                                                         *)
(*                                                                         *)
(* Operators bring stacks up one after another, each with the              *)
(* configuration of the day, and a stack reads what the others export at   *)
(* that moment.  The engine is external.  A preview runs the program first *)
(* and stops an update that would fail; without one, the engine creates    *)
(* what the program registers until it fails or names a resource twice.    *)
(* Only after a whole run it deletes what the program no longer has,       *)
(* unless a resource to go is protected in the stack's state; the provider *)
(* refuses to delete what its own flag guards.                             *)
(***************************************************************************)
EXTENDS IacBlocks

Text == Seq(STRING)
Block(S) == [set : BOOLEAN, ok : BOOLEAN, v : Seq(S)]
Dimension == [ShortName : Text, Description : Text]
Target == [DisplayName : Text, StackRef : Text, URLOutputKey : Text, StatusClasses : Seq(Text)]
Trigger == [Name : Text, TagPattern : Text, ConfigFile : Text]
Repository == [Name : Text, RemoteURI : Text, Triggers : Seq(Trigger)]
Workload == [Name : Text, Concerns : Seq(Text), APIs : Seq(Text)]
Table == [Name : Text, Schema : Text, DeletionProtection : BOOLEAN]

Keys == {"parent", "rootFolder", "tier", "billingAccount", "folderID", "orgID",
         "governanceStack", "governanceFolder", "environmentFolder", "projectName",
         "region", "currency", "alertEmail", "registryId", "buildServiceAccount",
         "githubConnectionName", "githubOAuthSecretVersion", "deliveryProjectNumber"}
IsConfig(cfg) ==
  /\ \A k \in Keys : cfg.text[k] \in Text
  /\ \A k \in {"environments", "sinkExtraLogNames", "consumerSAs", "impersonators",
               "consumerWorkloadStacks", "alertEmails"} : cfg.obj[k] \in Block(Text)
  /\ cfg.obj["tagKeys"] \in Block(Dimension) /\ cfg.obj["uptimeTargets"] \in Block(Target)
  /\ cfg.obj["secrets"] \in Block([Name : Text, Ref : Text])
  /\ cfg.obj["serviceAccounts"] \in Block([ID : Text, DisplayName : Text])
  /\ cfg.obj["repositories"] \in Block(Repository) /\ cfg.obj["thresholds"] \in Block(Nat)
  /\ cfg.obj["projects"] \in Block(Workload) /\ cfg.obj["tables"] \in Block(Table)
  /\ \A k \in DOMAIN cfg.num : cfg.num[k] \in Int

Absent == [set |-> FALSE, ok |-> TRUE, v |-> <<>>]
Malformed == [set |-> TRUE, ok |-> FALSE, v |-> <<>>]
Given(v) == [set |-> TRUE, ok |-> TRUE, v |-> v]

\* pulumi/config: a required key that is missing ends the program.
Require(cfg, key) == Must(Check(cfg.text[key] # Empty, key))
RequireObject(cfg, key) == Must(Check(cfg.obj[key].set /\ cfg.obj[key].ok, key))
\* Mutation of optionalObject: a malformed object is read as none.
optionalObjectLax(cfg, key) == Ok

\* An optional object may be absent; one that does not parse is fatal.
optionalObject(cfg, key) == Must(Check(cfg.obj[key].ok, key))
Or(text, default) == IF text = Empty THEN default ELSE text

\* The outputs of a stack by key, and the last one of the name.
Output(world, stack, key) ==
  LET found == IF stack \in DOMAIN world
               THEN SelectSeq(world[stack], LAMBDA o : o.key = key) ELSE <<>>
  IN IF found = <<>> THEN Empty ELSE found[Len(found)].value
RequireString(world, stack, key) == Output(world, stack, key)
StackReference(name) == Plain("stackReference", name)
-----------------------------------------------------------------------------
(* Placement: what was passed, else what the governance stack exports,     *)
(* else the configuration, for each value on its own.                      *)

Exported == [billingAccount |-> <<"billingAccount">>, orgID |-> <<"orgId">>]

Placement(world, cfg, params, fields, folderKey) ==
  LET stack == cfg.text["governanceStack"]
      asks == stack # Empty /\ \E f \in ToSet(fields) : params[f] = Empty
      key(f) == IF f = "folderID" THEN folderKey ELSE Exported[f]
      value(f) == IF params[f] # Empty THEN params[f]
                  ELSE IF asks THEN Or(Output(world, stack, key(f)), cfg.text[f])
                  ELSE cfg.text[f]
  IN [asks |-> asks, stack |-> stack, at |-> [f \in ToSet(fields) |-> value(f)],
      run |-> Run(<<IF asks THEN StackReference(stack) ELSE Ok,
                    Must(First([i \in DOMAIN fields |->
                                  Check(value(fields[i]) # Empty, fields[i])]))>>)]

sharedFolder(cfg) == <<"folderIds">> \o Or(cfg.text["governanceFolder"], <<"shared">>)
Site == <<"folderID", "billingAccount">>
OrgSite == <<"folderID", "billingAccount", "orgID">>

observabilityPlacement(w, cfg, params) == Placement(w, cfg, params, OrgSite, sharedFolder(cfg))
identityPlacement(w, cfg, params) == Placement(w, cfg, params, Site, sharedFolder(cfg))
deliveryPlacement(w, cfg, params) == Placement(w, cfg, params, Site, sharedFolder(cfg))
\* Mutation of finopsPlacement: the shared folder is taken, as elsewhere.
finopsPlacementShared(w, cfg, params) == Placement(w, cfg, params, OrgSite, sharedFolder(cfg))

finopsPlacement(w, cfg, params) == Placement(w, cfg, params, OrgSite, <<"rootFolderId">>)
workloadsPlacement(w, cfg, params) ==
  Placement(w, cfg, params, Site, <<"folderIds">> \o cfg.text["environmentFolder"])

Project(name, place, apis) ==
  ProjectsApply([Name |-> name, FolderID |-> place.at["folderID"],
                 BillingAccount |-> place.at["billingAccount"], APIs |-> apis], <<>>)
ProjectId(name) == Export(<<"projectId">>, name)
-----------------------------------------------------------------------------
\* governance: the tier decides the plan, and what is exported.
enterprisePlan(cfg, orgID) ==
  NewEnterprise(cfg.text["parent"], cfg.text["rootFolder"], cfg.obj["environments"].v,
                cfg.obj["tagKeys"].v, cfg.text["billingAccount"], orgID)

GovernanceApply(cfg) ==
  LET parent == cfg.text["parent"]
      root == cfg.text["rootFolder"]
      scope == ParseScope(parent)
      orgID == IF SupportsOrgExport(scope.scope) THEN OrgID(parent) ELSE Empty
      tier == cfg.text["tier"]
      p == CASE tier = <<"starter">> -> NewStarter(scope.scope, parent, root, orgID)
             [] tier = <<"enterprise">> -> enterprisePlan(cfg, orgID)
             [] OTHER -> NewStandard(scope.scope, parent, root,
                                     cfg.obj["environments"].v, orgID)
      tags == SupportsClassification(p.plan.Scope) /\ p.plan.Dimensions # <<>>
      id(name) == <<"id">> \o name
  IN Run(<<Require(cfg, "parent"), Require(cfg, "rootFolder"), Must(scope.err),
           IF tier = <<"starter">> THEN Ok ELSE RequireObject(cfg, "environments"),
           IF tier = <<"enterprise">> THEN optionalObject(cfg, "tagKeys") ELSE Ok,
           Must(p.err), FoldersApply(p.plan.Hierarchy, <<>>),
           IF tags THEN TagkeysApply(p.plan.OrgID, p.plan.Dimensions, <<>>) ELSE Ok,
           Each(IF tags THEN p.plan.Dimensions ELSE <<>>,
                LAMBDA d : Export(TagKeyID(d.ShortName), id(d.ShortName))),
           IF p.plan.BillingAccount = Empty THEN Ok
           ELSE Export(<<"billingAccount">>, p.plan.BillingAccount),
           Export(<<"rootFolderId">>, id(root)),
           Each(p.plan.Hierarchy.Children, LAMBDA c : Export(<<"folderIds">> \o c, id(c))),
           IF SupportsOrgExport(p.plan.Scope) THEN Export(<<"orgId">>, p.plan.OrgID)
           ELSE Ok>>)
-----------------------------------------------------------------------------
(* observability: a project, the log dataset, the organisation's sink and  *)
(* the uptime targets.  A log name is a sequence of characters: "ok" is    *)
(* one the charset has, "bad" one it has not, "%bad" an escape of a bad    *)
(* one, "%ok" an escape of a good one and "%" an escape that is broken.    *)

sinkLogNamePattern(name) == name # Empty /\ \A i \in DOMAIN name : name[i] # "bad"
Unescaped(name) == [i \in DOMAIN name |-> CASE name[i] = "%bad" -> "bad"
                                            [] name[i] = "%ok" -> "ok"
                                            [] OTHER -> name[i]]
validateSinkLogName(name) ==
  Check(/\ sinkLogNamePattern(name)
        /\ \A i \in DOMAIN name : name[i] # "%"
        /\ sinkLogNamePattern(Unescaped(name)), "ErrInvalidSinkLogName")

defaultSinkLogNames == <<<<"ok">>>>
sinkLogNamesFromConfig(cfg) ==
  LET extra == cfg.obj["sinkExtraLogNames"]
  IN [err |-> First(<<Check(extra.ok, "parse sinkExtraLogNames")>>
                    \o [i \in DOMAIN extra.v |-> validateSinkLogName(extra.v[i])]),
      names |-> defaultSinkLogNames \o extra.v]
\* One quoted clause for each name.
sinkFilter(names) == [i \in DOMAIN names |-> <<"quote">> \o names[i] \o <<"quote">>]

\* A URL is a sequence of parts; the scheme goes, and one slash at the end.
hostFromURL(url) ==
  LET cut(u, p) == IF u # Empty /\ u[1] = p THEN Tail(u) ELSE u
      bare == cut(cut(url, "https://"), "http://")
  IN IF bare # Empty /\ bare[Len(bare)] = "/" THEN Front(bare) ELSE bare

\* One reference for each stack of the run, the governance stack's included.
stackReferenceFor(refs, name) == IF name \in refs THEN Ok ELSE StackReference(name)

\* A URL that the target's stack does not export fails the deployment.
applyUptimeTarget(world, t) ==
  LET key == Or(t.URLOutputKey, <<"frontendUrl">>)
  IN Run(<<Must(Check(Output(world, t.StackRef, key) # Empty, "missing output")),
           UptimeApply([DisplayName |-> t.DisplayName, Port |-> 0, Period |-> Empty,
                        Classes |-> IF t.StatusClasses = <<>> THEN <<<<"2xx">>, <<"3xx">>>>
                                    ELSE t.StatusClasses])>>)

uptimeTargetsFromConfig(cfg) == Must(Check(cfg.obj["uptimeTargets"].ok, "parse uptimeTargets"))

applyMonitoring(world, cfg, place) ==
  LET targets == cfg.obj["uptimeTargets"].v
      refs(i) == {targets[j].StackRef : j \in 1 .. i - 1}
                 \cup (IF place.asks THEN {place.stack} ELSE {})
  IN Run(<<IF cfg.text["alertEmail"] = Empty THEN Ok ELSE Plain("channel", <<"ops-email">>),
           uptimeTargetsFromConfig(cfg)>>
         \o [i \in DOMAIN targets |->
               Run(<<stackReferenceFor(refs(i), targets[i].StackRef),
                     applyUptimeTarget(world, targets[i])>>)])

ObservabilityApply(world, cfg, params) ==
  LET name == cfg.text["projectName"]
      place == observabilityPlacement(world, cfg, params)
  IN Run(<<Require(cfg, "projectName"), place.run,
           Project(name, place, <<<<"bigquery">>, <<"logging">>, <<"monitoring">>>>),
           DatasetsApply([ID |-> <<"org_logs">>, FriendlyName |-> <<"logs">>,
                          Location |-> Or(cfg.text["region"], <<"europe-west4">>)], <<>>),
           Must(sinkLogNamesFromConfig(cfg).err),
           LogsinksApply([Name |-> <<"org-audit-to-bigquery">>, OrgID |-> place.at["orgID"]]),
           applyMonitoring(world, cfg, place), ProjectId(name),
           Export(<<"logDatasetId">>, <<"org_logs">>),
           Export(<<"sinkWriterIdentity">>, <<"writer">>)>>)
-----------------------------------------------------------------------------
\* identity: secrets are resolved before any is made; Secrets are the
\* references the resolver knows.
applySecrets(cfg, resolves) ==
  LET defs == cfg.obj["secrets"].v
  IN Run(<<optionalObject(cfg, "secrets"),
           Must(First([i \in DOMAIN defs |-> Check(defs[i].Ref \in resolves, "resolve secret")])),
           IF defs = <<>> THEN Ok
           ELSE SecretsApply([i \in DOMAIN defs |-> [Name |-> defs[i].Name,
                                                     Value |-> defs[i].Ref]], <<>>)>>)

applyConsumerAccess(cfg) ==
  LET sas == cfg.obj["consumerSAs"].v
  IN Run(<<RequireObject(cfg, "consumerSAs"),
           IambindingsApply([i \in DOMAIN sas |->
             [Name |-> <<"consumer-accessor", ToString(i - 1)>>,
              ProjectID |-> cfg.text["projectName"], Role |-> <<"secretAccessor">>,
              Member |-> <<"serviceAccount:">> \o sas[i]]])>>)

\* Every impersonator gets three roles on every account.
applyImpersonators(cfg, accounts) ==
  LET imps == cfg.obj["impersonators"].v
      name(i, a, r) == <<"impersonate">> \o a.ID \o <<ToString(i - 1), r>>
  IN Run(<<optionalObject(cfg, "impersonators")>>
         \o [i \in DOMAIN imps |->
               Each(accounts, LAMBDA a :
                 ApplySAIam([k \in 1 .. 3 |->
                   [Name |-> name(i, a, <<"user", "token", "oidc">>[k])]]))])

applyServiceAccounts(cfg) ==
  LET accounts == cfg.obj["serviceAccounts"].v
  IN Run(<<optionalObject(cfg, "serviceAccounts"), ServiceaccountsApply(accounts),
           Each(accounts, LAMBDA a : Export(a.ID \o <<"email">>, a.ID)),
           IF accounts = <<>> THEN Ok ELSE applyImpersonators(cfg, accounts)>>)

IdentityApply(world, cfg, params, resolves) ==
  LET name == cfg.text["projectName"]
      place == identityPlacement(world, cfg, params)
  IN Run(<<Require(cfg, "projectName"), place.run,
           Project(name, place, <<<<"secretmanager">>, <<"iam">>>>),
           applySecrets(cfg, resolves), applyConsumerAccess(cfg), applyServiceAccounts(cfg),
           ProjectId(name)>>)
-----------------------------------------------------------------------------
\* delivery: the registry and its writers, the Git connection when it is
\* configured, and the readers among the workload stacks.
applyBuildWriterGrants(cfg) ==
  Run(<<GrantWriter(<<"build-ar-writer">>),
        IF cfg.text["buildServiceAccount"] # Empty THEN Ok
        ELSE GrantWriter(<<"build-ar-writer-compute">>)>>)

applyRegistry(cfg, region) ==
  Run(<<Require(cfg, "registryId"),
        RegistriesApply([ID |-> cfg.text["registryId"], Format |-> <<"DOCKER">>,
                         Location |-> region], <<>>),
        applyBuildWriterGrants(cfg)>>)

applySecretAccessor == Plain("secretMember", <<"github-oauth-secret-accessor">>)

applyRepos(cfg) ==
  Run(<<optionalObject(cfg, "repositories"),
        Each(cfg.obj["repositories"].v, LAMBDA r :
          Run(<<LinkRepo(r), Each(r.Triggers, LAMBDA t : TriggersApply(t))>>))>>)

configured(cfg) == cfg.num["githubAppInstallationId"] # 0
                   /\ cfg.text["githubOAuthSecretVersion"] # Empty
applyGitHub(cfg, region) ==
  IF ~configured(cfg) THEN Export(<<"nextStep">>, <<"guidance">>)
  ELSE Run(<<ConnectionsApply([Name |-> Or(cfg.text["githubConnectionName"], <<"github">>),
                               Provider |-> <<"github">>, Region |-> region]),
             applySecretAccessor, applyRepos(cfg)>>)

applyConsumerGrants(world, cfg) ==
  LET stacks == cfg.obj["consumerWorkloadStacks"].v
  IN Run(<<optionalObject(cfg, "consumerWorkloadStacks")>>
         \o [i \in DOMAIN stacks |->
               Run(<<StackReference(stacks[i]),
                     Must(Check(Output(world, stacks[i], <<"compute", "ProjectNumber">>) # Empty,
                                "missing output")),
                     GrantReader(<<"ar-consumer", ToString(i - 1)>>)>>)])

DeliveryApply(world, cfg, params) ==
  LET name == cfg.text["projectName"]
      region == Or(cfg.text["region"], <<"europe-west4">>)
      place == deliveryPlacement(world, cfg, params)
  IN Run(<<Require(cfg, "projectName"), place.run,
           Project(name, place, <<<<"cloudbuild">>, <<"artifactregistry">>, <<"secretmanager">>,
                                  <<"iam">>, <<"compute">>>>),
           applyRegistry(cfg, region), applyGitHub(cfg, region),
           IF configured(cfg) THEN applyConsumerGrants(world, cfg) ELSE Ok,
           ProjectId(name), Export(<<"dockerRepoId">>, cfg.text["registryId"])>>)
-----------------------------------------------------------------------------
\* finops: the budget covers the organisation; its amount and currency are part
\* of its name.
applyBudget(cfg, place) ==
  LET custom == cfg.obj["thresholds"].v
      name == cfg.text["projectName"] \o <<ToString(cfg.num["monthlyBudget"])>>
              \o Or(cfg.text["currency"], <<"EUR">>)
  IN Run(<<Must(Check(cfg.num["monthlyBudget"] # -1, "monthlyBudget")),
           RequireObject(cfg, "alertEmails"), optionalObject(cfg, "thresholds"),
           BudgetsApply([DisplayName |-> name, Amount |-> cfg.num["monthlyBudget"],
                         BillingAccount |-> place.at["billingAccount"],
                         Scope |-> <<"organizations/">> \o place.at["orgID"],
                         Thresholds |-> IF custom = <<>> THEN <<50, 75, 90, 100>> ELSE custom,
                         AlertEmails |-> cfg.obj["alertEmails"].v])>>)

FinopsApply(world, cfg, params) ==
  LET name == cfg.text["projectName"]
      place == finopsPlacement(world, cfg, params)
  IN Run(<<Require(cfg, "projectName"), place.run,
           Project(name, place, <<<<"bigquery">>, <<"monitoring">>, <<"billingbudgets">>>>),
           DatasetsApply([ID |-> <<"billing_export">>, FriendlyName |-> <<"billing">>,
                          Location |-> Or(cfg.text["region"], <<"europe-west4">>)], <<>>),
           applyBudget(cfg, place), ProjectId(name),
           Export(<<"billingDatasetId">>, <<"billing_export">>)>>)

\* workloads: the projects of an environment, and the delivery account's role
\* on each.
applyProject(cfg, pc, place) ==
  Run(<<Project(pc.Name, place, pc.APIs),
        Each(pc.Concerns, LAMBDA c : Run(<<Export(c \o <<"ProjectId">>, pc.Name),
                                           Export(c \o <<"ProjectNumber">>, pc.Name)>>)),
        IF cfg.text["deliveryProjectNumber"] = Empty THEN Ok
        ELSE IambindingsApply(<<[Name |-> pc.Name \o <<"delivery-run-deployer">>,
                                 ProjectID |-> pc.Name, Role |-> <<"run.developer">>,
                                 Member |-> cfg.text["deliveryProjectNumber"]]>>)>>)

WorkloadsApply(world, cfg, params) ==
  LET place == workloadsPlacement(world, cfg, params)
  IN Run(<<Require(cfg, "environmentFolder"), RequireObject(cfg, "projects"), place.run,
           Each(cfg.obj["projects"].v, LAMBDA pc : applyProject(cfg, pc, place))>>)
-----------------------------------------------------------------------------
\* The stacks.
CONSTANTS
  Cases,    \* what an operator may bring up: stack, blueprint, cfg, params, opts
  Resolves, \* the secret references that resolve
  MaxUps    \* bound: updates

ASSUME UpsAssumption == MaxUps \in Nat
ASSUME CasesAssumption ==
  \A c \in Cases : /\ c.stack \in Text \ {Empty} /\ IsConfig(c.cfg)
                   /\ c.params \in [folderID : Text, billingAccount : Text, orgID : Text]
                   /\ c.opts \in Seq({"Ephemeral"})

VARIABLES
  held,     \* the resources of each stack, as its state has them
  world,    \* the outputs of each stack
  ups,      \* updates so far
  last      \* observability: the last update and how it ended

iacVars == <<held, world, ups, last>>

Stacks == {c.stack : c \in Cases}

\* The program of a stack; "tables" is a program that uses one block.
Program(w, c) ==
  CASE c.blueprint = "governance" -> GovernanceApply(c.cfg)
    [] c.blueprint = "observability" -> ObservabilityApply(w, c.cfg, c.params)
    [] c.blueprint = "identity" -> IdentityApply(w, c.cfg, c.params, Resolves)
    [] c.blueprint = "delivery" -> DeliveryApply(w, c.cfg, c.params)
    [] c.blueprint = "finops" -> FinopsApply(w, c.cfg, c.params)
    [] c.blueprint = "workloads" -> WorkloadsApply(w, c.cfg, c.params)
    [] OTHER -> TablesApply(c.cfg.obj["tables"].v, c.opts)

\* The outputs of the stacks that have been brought up.
Readable == [s \in {t \in Stacks : world[t] # <<>>} |-> world[s]]

\* What a run registers before it stops, and whether a name came twice.  A
\* resource remembers whether a disposable stack registered it.
Registered(result, opts) ==
  LET r == result.regs
      bad == {j \in DOMAIN r : \E i \in 1 .. j - 1 : URN(r[i]) = URN(r[j])}
      upto == {i \in DOMAIN r : \A j \in bad : i < j}
  IN [regs |-> {[type |-> r[i].type, name |-> r[i].name, protect |-> r[i].protect,
                 guard |-> r[i].guard, data |-> r[i].data, at |-> r[i].at,
                 eph |-> IsEphemeral(opts)] : i \in upto},
      twice |-> bad # {}]

\* A resource in the state is replaced by what was registered under its URN.
Merged(old, regs) == {o \in old : \A r \in regs : URN(r) # URN(o)} \cup regs

\* What an update comes to: all that the stack would hold before deletions,
\* what is to go of it, what the provider would let go, the outputs.
Outcome(w, c) ==
  LET result == Program(w, c)
      made == Registered(result, c.opts)
      all == Merged(held[c.stack], made.regs)
      gone == all \ made.regs
      free == {g \in gone : ~g.guard}
  IN [all |-> all, gone |-> gone, free |-> free, outs |-> result.outs,
      end |-> IF made.twice THEN "twice"
              ELSE IF result.err # "nil" THEN "failed"
              ELSE IF \E g \in gone : g.protect THEN "refused"
              ELSE IF free # gone THEN "stuck" ELSE "up"]

Up(c) ==
  /\ ups < MaxUps
  /\ \E w \in {Readable} : \E o \in {Outcome(w, c)} :
       \E preview \in BOOLEAN, dead \in SUBSET o.free :
          /\ ups' = ups + 1
          /\ last' = [case |-> c, read |-> w, end |-> o.end]
          /\ CASE o.end = "up" -> dead = o.gone
               [] o.end = "stuck" -> TRUE
               [] OTHER -> dead = {}
          /\ IF preview /\ o.end \in {"twice", "failed", "refused"}
             THEN UNCHANGED <<held, world>>
             ELSE /\ held' = [held EXCEPT ![c.stack] = o.all \ dead]
                  /\ world' = [world EXCEPT ![c.stack] =
                                  IF o.end \in {"twice", "failed"} THEN @ ELSE o.outs]

Init ==
  /\ held = [s \in Stacks |-> {}]
  /\ world = [s \in Stacks |-> <<>>]
  /\ ups = 0
  /\ last = [end |-> "none"]

Next == \E c \in Cases : Up(c)
Spec == Init /\ [][Next]_iacVars
-----------------------------------------------------------------------------
TypeOK ==
  /\ DOMAIN held = Stacks /\ DOMAIN world = Stacks
  /\ ups \in 0 .. MaxUps
  /\ last.end \in {"none", "twice", "failed", "refused", "stuck", "up"}

\* Every project of every stack is in a folder and paid for.  A value that
\* was passed wins, then what governance exported when the update ran, then
\* the configuration; finops goes under the root folder, a workload under its
\* environment's.
FolderKey(c) == CASE c.blueprint = "finops" -> <<"rootFolderId">>
                  [] c.blueprint = "workloads" ->
                       <<"folderIds">> \o c.cfg.text["environmentFolder"]
                  [] OTHER -> sharedFolder(c.cfg)
Chosen(passed, exported, configured_) ==
  IF passed # Empty THEN passed ELSE Or(exported, configured_)
Placed ==
  /\ \A s \in Stacks : \A r \in held[s] :
       r.type = "project" => r.at # Empty /\ r.at[1] # Empty /\ r.at[2] # Empty
  /\ last.end = "up" /\ last.case.blueprint \notin {"governance", "tables"} =>
       LET c == last.case
           gov == c.cfg.text["governanceStack"]
       IN \A r \in held[c.stack] : r.type = "project" =>
            /\ r.at[1] = Chosen(c.params["folderID"], Output(last.read, gov, FolderKey(c)),
                                c.cfg.text["folderID"])
            /\ r.at[2] = Chosen(c.params["billingAccount"],
                                Output(last.read, gov, <<"billingAccount">>),
                                c.cfg.text["billingAccount"])

\* observability reads each stack through one reference, so no configuration
\* of it ends in a duplicate URN (unless two targets share a display name);
\* governance checks every name it makes resources of.
NeverTwice ==
  last.end = "twice" =>
    \/ last.case.blueprint \notin {"governance", "observability", "finops", "tables"}
    \/ /\ last.case.blueprint = "observability"
       /\ Duplicate(last.case.cfg.obj["uptimeTargets"].v, LAMBDA t : t.DisplayName)

\* Audit logs always reach the sink, and a clause holds no character that
\* would end it, before or after escapes are resolved.
SinkIsNarrow ==
  last.end = "up" /\ last.case.blueprint = "observability" =>
    LET f == sinkFilter(sinkLogNamesFromConfig(last.case.cfg).names)
    IN /\ <<"quote", "ok", "quote">> \in ToSet(f)
       /\ \A i \in DOMAIN f : \A k \in DOMAIN f[i] : f[i][k] \notin {"bad", "%bad", "%"}

Sound == TypeOK /\ Placed /\ NeverTwice /\ SinkIsNarrow

\* Data outlives a rename and a mistake: a resource that holds data leaves a
\* stack only if it was last registered for a disposable stack, and nothing
\* leaves one while a block that the program reads is malformed.
Reads(c) ==
  CASE c.blueprint = "governance" ->
         (IF c.cfg.text["tier"] = <<"starter">> THEN {} ELSE {"environments"})
         \cup (IF c.cfg.text["tier"] = <<"enterprise">> THEN {"tagKeys"} ELSE {})
    [] c.blueprint = "observability" -> {"uptimeTargets", "sinkExtraLogNames"}
    [] c.blueprint = "identity" ->
         {"secrets", "consumerSAs", "serviceAccounts"}
         \cup (IF c.cfg.obj["serviceAccounts"].v = <<>> THEN {} ELSE {"impersonators"})
    [] c.blueprint = "delivery" ->
         IF configured(c.cfg) THEN {"repositories", "consumerWorkloadStacks"} ELSE {}
    [] c.blueprint = "finops" -> {"alertEmails", "thresholds"}
    [] c.blueprint = "workloads" -> {"projects"}
    [] OTHER -> {}
KeepsData ==
  \A s \in Stacks : \A r \in held[s] :
    (\A n \in held'[s] : URN(n) # URN(r)) =>
      /\ r.data => r.eph
      /\ \A k \in Reads(last'.case) : last'.case.cfg.obj[k].ok
DataIsKept == [][KeepsData]_iacVars

\* internal/names: "Each block checks its own scope with Duplicate before it
\* creates anything", so no update ends in a duplicate URN.
RepeatsAreRefused == last.end # "twice"
=============================================================================
