------------------------------ MODULE IacBlocks ------------------------------
(***************************************************************************)
(* iac/pulumi/gcpinfra: the building blocks of the stacks.  A block is a    *)
(* program: it fails, or registers resources with the engine one after     *)
(* another and exports outputs.  A resource is its type and logical name,  *)
(* which make its URN, whether Pulumi protects it and whether the provider *)
(* does, whether deleting it loses data, and the folder and the account a  *)
(* project is put in.  The arguments that no check looks at are left out.  *)
(***************************************************************************)
EXTENDS GovernancePlan

\* The result of a program.
Result(err, regs, outs) == [err |-> err, regs |-> regs, outs |-> outs]
Ok == Result("nil", <<>>, <<>>)
Must(err) == Result(err, <<>>, <<>>)
Export(key, value) == Result("nil", <<>>, <<[key |-> key, value |-> value]>>)
Registers(type, name, protect, guard, data, at) ==
  Result("nil", <<[type |-> type, name |-> name, protect |-> protect, guard |-> guard,
                   data |-> data, at |-> at]>>, <<>>)
Resource(type, name, protect, guard) == Registers(type, name, protect, guard, TRUE, Empty)
Plain(type, name) == Registers(type, name, FALSE, FALSE, FALSE, Empty)

\* Programs in order: the first that fails is the last that runs.
Then(a, s) == IF a.err # "nil" THEN a
              ELSE Result(s.err, a.regs \o s.regs, a.outs \o s.outs)
Run(steps) ==
  LET upto[i \in 0 .. Len(steps)] == IF i = 0 THEN Ok ELSE Then(upto[i - 1], steps[i])
  IN upto[Len(steps)]
Each(items, Do(_)) == Run([i \in DOMAIN items |-> Do(items[i])])

\* The first of the fields that is empty.
Need(cfg, fields) ==
  First([i \in DOMAIN fields |-> Check(cfg[fields[i]] # Empty, fields[i])])

\* internal/names: whether a key comes twice.
Duplicate(items, key(_)) ==
  \E i, j \in DOMAIN items : i < j /\ key(items[i]) = key(items[j])
Name(item) == item.Name

\* lifecycle: the options of a block are whether the stack is disposable.
IsEphemeral(opts) == \E i \in DOMAIN opts : opts[i] = "Ephemeral"
Protect(opts) == ~IsEphemeral(opts)
-----------------------------------------------------------------------------
\* projects
ProjectsValidate(cfg) ==
  First(<<Need(cfg, <<"Name", "FolderID", "BillingAccount">>),
          Listed(cfg.APIs, "ErrEmptyAPI", "ErrDuplicateAPI")>>)

ProjectsApply(cfg, opts) ==
  Run(<<Must(ProjectsValidate(cfg)),
        Registers("project", cfg.Name, Protect(opts), ~IsEphemeral(opts), TRUE,
                  <<cfg.FolderID, cfg.BillingAccount>>),
        Each(cfg.APIs, LAMBDA api : Plain("service", cfg.Name \o api))>>)

\* folders: the parent's kind decides the scope.
ParseScope(parent) ==
  CASE parent # Empty /\ parent[1] = "organizations/" -> [err |-> "nil", scope |-> Organization]
    [] parent # Empty /\ parent[1] = "folders/" -> [err |-> "nil", scope |-> Container]
    [] OTHER -> [err |-> "ErrInvalidParent", scope |-> 0]
OrgID(parent) == IF parent # Empty /\ parent[1] = "organizations/" THEN Tail(parent) ELSE parent

FoldersCheck(cfg) ==
  First(<<ValidateBase(cfg), ValidateChildren(cfg),
          Check(cfg.RootName \notin ToSet(cfg.Children), "ErrDuplicateFolder"),
          ParseScope(cfg.Parent).err>>)
FoldersApply(cfg, opts) ==
  LET folder(n) == Resource("folder", n, Protect(opts), ~IsEphemeral(opts))
  IN Run(<<Must(FoldersCheck(cfg)), folder(cfg.RootName), Each(cfg.Children, folder)>>)

\* tagkeys
TagkeysCheck(orgID, dims) ==
  First(<<Check(orgID # Empty, "ErrOrgIDRequired"), ValidateAll(dims)>>)
TagkeysApply(orgID, dims, opts) ==
  Run(<<Must(TagkeysCheck(orgID, dims)),
        Each(dims, LAMBDA d : Resource("tagKey", d.ShortName, Protect(opts), FALSE))>>)

\* datasets, registries, logsinks
DatasetsValidate(cfg) == Need(cfg, <<"ID", "FriendlyName", "Location">>)
DatasetsApply(cfg, opts) ==
  Run(<<Must(DatasetsValidate(cfg)),
        Resource("dataset", cfg.ID, Protect(opts), ~IsEphemeral(opts))>>)

RegistriesValidate(cfg) == Need(cfg, <<"ID", "Format", "Location">>)
RegistriesApply(cfg, opts) ==
  Run(<<Must(RegistriesValidate(cfg)),
        Resource("registry", cfg.ID, Protect(opts), ~IsEphemeral(opts))>>)
GrantReader(name) == Plain("registryMember", name)
GrantWriter(name) == Plain("registryMember", name)

LogsinksValidate(cfg) == Need(cfg, <<"Name", "OrgID">>)
LogsinksApply(cfg) == Run(<<Must(LogsinksValidate(cfg)), Plain("sink", cfg.Name)>>)

\* tables: all are checked before the first is made; external tables hold no
\* rows and are not protected by Pulumi.
TablesValidate(t) == Need(t, <<"Name", "Schema">>)
ExternalValidate(t) == Need(t, <<"Name", "SourceFormat", "SourceURIs">>)

TablesApply(tt, opts) ==
  Run(<<Must(First([i \in DOMAIN tt |-> TablesValidate(tt[i])])),
        Must(Check(~Duplicate(tt, Name), "ErrDuplicateName")),
        Each(tt, LAMBDA t : Resource("table", t.Name, Protect(opts),
                                     ~IsEphemeral(opts) \/ t.DeletionProtection))>>)

ApplyExternal(tt, opts) ==
  Run(<<Must(First([i \in DOMAIN tt |-> ExternalValidate(tt[i])])),
        Must(Check(~Duplicate(tt, Name), "ErrDuplicateExternalName")),
        Each(tt, LAMBDA t : Registers("table", t.Name, FALSE,
                                ~IsEphemeral(opts) \/ t.DeletionProtection, FALSE, Empty))>>)

\* firestore: a document's logical name leaves its collection out.
DeleteProtections == {Empty, <<"ENABLED">>, <<"DISABLED">>}
DatabaseValidate(cfg) ==
  First(<<Need(cfg, <<"Name", "Region">>),
          Check(cfg.DeleteProtection \in DeleteProtections, "ErrInvalidDeleteProtection")>>)

ApplyDatabase(cfg, opts) ==
  Run(<<Must(DatabaseValidate(cfg)),
        Resource("database", <<"firestore">> \o cfg.Name, Protect(opts),
                 IF cfg.DeleteProtection = Empty THEN ~IsEphemeral(opts)
                 ELSE cfg.DeleteProtection = <<"ENABLED">>)>>)

DocumentValidate(d) == Need(d, <<"Collection", "DocumentID", "Fields">>)
ApplyDocuments(docs, opts) ==
  Run(<<Must(First([i \in DOMAIN docs |-> DocumentValidate(docs[i])])),
        Must(Check(~Duplicate(docs, LAMBDA d : d.DocumentID), "ErrDuplicateDocumentID")),
        Each(docs, LAMBDA d : Resource("document", <<"doc">> \o d.DocumentID,
                                       Protect(opts), FALSE))>>)

\* secrets: the version's name is fixed, and a new value replaces it.
SecretValidate(s) == Need(s, <<"Name", "Value">>)
SecretsValidateAll(ss) ==
  First(<<Check(ss # <<>>, "ErrNoSecrets")>>
        \o [i \in DOMAIN ss |->
              First(<<SecretValidate(ss[i]),
                      Check(\A j \in 1 .. i - 1 : ss[j].Name # ss[i].Name,
                            "ErrDuplicateName")>>)])

SecretsApply(ss, opts) ==
  Run(<<Must(SecretsValidateAll(ss)),
        Each(ss, LAMBDA s :
          Run(<<Resource("secret", s.Name, Protect(opts), ~IsEphemeral(opts)),
                Plain("secretVersion", s.Name \o <<"v1">>)>>))>>)

\* budgets
BudgetsValidate(cfg) ==
  First(<<Need(cfg, <<"DisplayName">>), Check(cfg.Amount > 0, "ErrAmountNotPositive"),
          Need(cfg, <<"BillingAccount", "Scope", "Thresholds", "AlertEmails">>),
          Check(~Duplicate(cfg.AlertEmails, LAMBDA e : e), "ErrDuplicateAlertEmail")>>)

BudgetsApply(cfg) ==
  Run(<<Must(BudgetsValidate(cfg)),
        Each(cfg.AlertEmails, LAMBDA e : Plain("channel", <<"alert">> \o e)),
        Plain("budget", cfg.DisplayName)>>)

\* uptimechecks: a port of 0 and a period left empty are the defaults.
StatusClasses == {<<"1xx">>, <<"2xx">>, <<"3xx">>, <<"4xx">>, <<"5xx">>, <<"any">>}
Periods == {<<"60s">>, <<"300s">>, <<"600s">>, <<"900s">>}
UptimeValidate(cfg) ==
  First(<<Need(cfg, <<"DisplayName">>), Check(cfg.Port \in 0 .. 65535, "ErrPortOutOfRange"),
          Check(cfg.Period \in Periods \cup {Empty}, "ErrPeriodInvalid"),
          Check(ToSet(cfg.Classes) \subseteq StatusClasses, "ErrStatusClassInvalid")>>)

\* What the check is made with: the defaults fill in what was left out.
UptimeResolved(cfg) ==
  [port |-> IF cfg.Port = 0 THEN 443 ELSE cfg.Port,
   period |-> IF cfg.Period = Empty THEN <<"60s">> ELSE cfg.Period,
   classes |-> IF cfg.Classes = <<>> THEN <<<<"2xx">>>> ELSE cfg.Classes]

UptimeApply(cfg) ==
  Run(<<Must(UptimeValidate(cfg)), Plain("uptimeCheck", cfg.DisplayName),
        Plain("alertPolicy", cfg.DisplayName \o <<"failing">>)>>)

\* serviceaccounts, iambindings: made one by one, each checked on its turn.
AccountValidate(a) == Need(a, <<"ID", "DisplayName">>)
ServiceaccountsApply(accounts) ==
  Each(accounts, LAMBDA a : Run(<<Must(AccountValidate(a)), Plain("account", a.ID)>>))

BindingValidate(b) == Need(b, <<"Name", "ProjectID", "Role", "Member">>)
IambindingsApply(bs) ==
  Each(bs, LAMBDA b : Run(<<Must(BindingValidate(b)), Plain("iamMember", b.Name)>>))
ApplyDynamic(bs) == Each(bs, LAMBDA b : Plain("iamMember", b.Name))
ApplySAIam(bs) == Each(bs, LAMBDA b : Plain("accountMember", b.Name))

\* connections, triggers, scheduler
ConnectionsValidate(cfg) == Need(cfg, <<"Name", "Provider", "Region">>)
ConnectionsApply(cfg) ==
  Run(<<Must(ConnectionsValidate(cfg)),
        Must(Check(cfg.Provider = <<"github">>, "ErrUnsupportedProvider")),
        Plain("connection", cfg.Name)>>)
RepoLinkValidate(r) == Need(r, <<"Name", "RemoteURI">>)
LinkRepo(r) == Run(<<Must(RepoLinkValidate(r)), Plain("repository", r.Name)>>)

TriggersValidate(cfg) == Need(cfg, <<"Name", "TagPattern", "ConfigFile">>)
TriggersApply(cfg) == Run(<<Must(TriggersValidate(cfg)), Plain("trigger", cfg.Name)>>)

SchedulerValidate(cfg) == Need(cfg, <<"Name", "Region", "Schedule", "TimeZone">>)
SchedulerApply(cfg) == Run(<<Must(SchedulerValidate(cfg)), Plain("schedulerJob", cfg.Name)>>)

\* dataform: the repository, then releases and workflows, each checked on its
\* turn; a schedule needs a time zone.
RepositoryValidate(r) ==
  Need(r, <<"Name", "Region", "GitURL", "DefaultBranch", "TokenSecretVersion">>)
Scheduled(c) == Check(c.CronSchedule = Empty \/ c.TimeZone # Empty, "ErrTimeZoneRequired")
ReleaseValidate(c) == First(<<Need(c, <<"Name", "GitCommitish">>), Scheduled(c)>>)
WorkflowValidate(c) == First(<<Need(c, <<"Name", "ReleaseConfigName">>), Scheduled(c)>>)

applyReleases(repo, releases) ==
  Each(releases, LAMBDA c : Run(<<Must(ReleaseValidate(c)),
                                  Plain("release", repo.Name \o <<"release">> \o c.Name)>>))
applyWorkflows(repo, workflows) ==
  Each(workflows, LAMBDA c : Run(<<Must(WorkflowValidate(c)),
                                   Plain("workflow", repo.Name \o <<"workflow">> \o c.Name)>>))
DataformApply(repo, releases, workflows) ==
  Run(<<Must(RepositoryValidate(repo)), Plain("dataform", repo.Name),
        applyReleases(repo, releases), applyWorkflows(repo, workflows)>>)
EnsureP4SA(name) == Plain("serviceIdentity", name)

\* cloudrun
ServiceValidate(cfg) == Need(cfg, <<"Name", "Region", "Image">>)
ApplyService(cfg) == Run(<<Must(ServiceValidate(cfg)), Plain("runService", cfg.Name)>>)
JobValidate(cfg) == Need(cfg, <<"Name", "Region", "Image">>)
ApplyJob(cfg) == Run(<<Must(JobValidate(cfg)), Plain("runJob", cfg.Name)>>)
GrantInvoker(name) == Plain("runMember", name)

\* A service of several containers, one of which has the ingress port.
SidecarValidate(cfg) ==
  LET cs == cfg.Containers
  IN First(<<Need(cfg, <<"Name", "Region", "Containers">>),
             First([i \in DOMAIN cs |-> Need(cs[i], <<"Name", "Image">>)]),
             Check(Cardinality({i \in DOMAIN cs : cs[i].Port > 0}) = 1,
                   "ErrSidecarIngressPortRequired")>>)
\* The resources a container may use and its port, if it has the ingress.
sidecarContainerArgs(c) ==
  [memory |-> IF c.Memory = Empty THEN <<"512Mi">> ELSE c.Memory,
   cpu |-> c.CPU, ports |-> IF c.Port > 0 THEN {c.Port} ELSE {}]
ApplySidecarService(cfg) ==
  Run(<<Must(SidecarValidate(cfg)), Plain("runService", cfg.Name)>>)
-----------------------------------------------------------------------------
URN(r) == <<r.type, r.name>>
-----------------------------------------------------------------------------
\* plan.Validate against the blocks that carry a plan out.  A plan that
\* validates holds classification and the billing export only where its tier
\* and scope have them, and an organisation exactly on organisation scope; its
\* children are distinct among themselves and so are the outputs of its tag
\* keys; its hierarchy is valid of itself on every tier with environments.
\* tagkeys.Apply then refuses nothing; folders.Apply refuses exactly what
\* Validate lets through: a child named like the root, and a parent that is
\* neither an organisation nor a folder.
PlanIsCoherent(p) ==
  (PlanValidate(p) = "nil" /\ p.Tier \in 0 .. 2) =>
    /\ p.Dimensions # <<>> => /\ SupportsClassification(p.Scope)
                              /\ TagkeysCheck(p.OrgID, p.Dimensions) = "nil"
    /\ p.BillingAccount # Empty => p.Tier = Enterprise /\ p.OrgID # Empty
    /\ IsInjective(p.Hierarchy.Children)
    /\ p.Tier # Starter <=> HierarchyValidate(p.Hierarchy) = "nil"
    /\ FoldersCheck(p.Hierarchy) = "nil" <=>
         /\ p.Hierarchy.RootName \notin ToSet(p.Hierarchy.Children)
         /\ ParseScope(p.Hierarchy.Parent).err = "nil"
    /\ IsInjective([i \in DOMAIN p.Dimensions |-> TagKeyID(p.Dimensions[i].ShortName)])
    /\ ParseTier(TierString(p.Tier)) = [err |-> "nil", tier |-> p.Tier]
=============================================================================
