-------------------------- MODULE ContractServices --------------------------
(***************************************************************************)
(* The services of contracts/ as the connect stubs have them: the path of  *)
(* each procedure, what a client's method calls and with which messages,   *)
(* which method of the implementation a handler runs for a procedure, and  *)
(* the methods that answer "unimplemented" until they are overridden.      *)
(***************************************************************************)
EXTENDS ContractTypes

\* capture.etchings.v1alpha1.EtchingsService
EtchingsServiceProcedures == Paths("capture.etchings.v1alpha1.EtchingsService", <<
  "CreateEtching", "ListEtchings", "GetEtching", "DeleteEtching">>)
EtchingsServiceClient ==
  <<Rpc("CreateEtching", "CreateEtching", "CreateEtchingRequest", "CreateEtchingResponse"),
    Rpc("ListEtchings", "ListEtchings", "ListEtchingsRequest", "ListEtchingsResponse"),
    Rpc("GetEtching", "GetEtching", "GetEtchingRequest", "GetEtchingResponse"),
    Rpc("DeleteEtching", "DeleteEtching", "DeleteEtchingRequest", "DeleteEtchingResponse")>>
EtchingsServiceHandler == <<Route("CreateEtching", "CreateEtching"),
  Route("ListEtchings", "ListEtchings"), Route("GetEtching", "GetEtching"),
  Route("DeleteEtching", "DeleteEtching")>>
UnimplementedEtchingsServiceHandler == {"CreateEtching", "ListEtchings", "GetEtching",
  "DeleteEtching"}

\* collaboration.board.v1alpha1.BoardService
BoardServiceProcedures == Paths("collaboration.board.v1alpha1.BoardService", <<
  "ListBoardItems", "GetBoardFields", "UpdateBoardItemStatus", "AddItemToBoard">>)
BoardServiceClient ==
  <<Rpc("ListBoardItems", "ListBoardItems", "ListBoardItemsRequest", "ListBoardItemsResponse"),
    Rpc("GetBoardFields", "GetBoardFields", "GetBoardFieldsRequest", "GetBoardFieldsResponse"),
    Rpc("UpdateBoardItemStatus", "UpdateBoardItemStatus", "UpdateBoardItemStatusRequest", "UpdateBoardItemStatusResponse"),
    Rpc("AddItemToBoard", "AddItemToBoard", "AddItemToBoardRequest", "AddItemToBoardResponse")>>
BoardServiceHandler == <<Route("ListBoardItems", "ListBoardItems"),
  Route("GetBoardFields", "GetBoardFields"),
  Route("UpdateBoardItemStatus", "UpdateBoardItemStatus"),
  Route("AddItemToBoard", "AddItemToBoard")>>
UnimplementedBoardServiceHandler == {"ListBoardItems", "GetBoardFields",
  "UpdateBoardItemStatus", "AddItemToBoard"}

\* collaboration.friction.v1alpha1.FrictionService
FrictionServiceProcedures == Paths("collaboration.friction.v1alpha1.FrictionService", <<
  "LogFriction", "ListFriction", "UpdateFriction", "SprintSummary">>)
FrictionServiceClient ==
  <<Rpc("LogFriction", "LogFriction", "LogFrictionRequest", "LogFrictionResponse"),
    Rpc("ListFriction", "ListFriction", "ListFrictionRequest", "ListFrictionResponse"),
    Rpc("UpdateFriction", "UpdateFriction", "UpdateFrictionRequest", "UpdateFrictionResponse"),
    Rpc("SprintSummary", "SprintSummary", "SprintSummaryRequest", "SprintSummaryResponse")>>
FrictionServiceHandler == <<Route("LogFriction", "LogFriction"),
  Route("ListFriction", "ListFriction"), Route("UpdateFriction", "UpdateFriction"),
  Route("SprintSummary", "SprintSummary")>>
UnimplementedFrictionServiceHandler == {"LogFriction", "ListFriction", "UpdateFriction",
  "SprintSummary"}

\* collaboration.ideas.v1alpha1.IdeasService
IdeasServiceProcedures == Paths("collaboration.ideas.v1alpha1.IdeasService", <<
  "CreateIdea", "GetIdea", "ListIdeas", "UpdateIdea", "DeleteIdea">>)
IdeasServiceClient ==
  <<Rpc("CreateIdea", "CreateIdea", "CreateIdeaRequest", "CreateIdeaResponse"),
    Rpc("GetIdea", "GetIdea", "GetIdeaRequest", "GetIdeaResponse"),
    Rpc("ListIdeas", "ListIdeas", "ListIdeasRequest", "ListIdeasResponse"),
    Rpc("UpdateIdea", "UpdateIdea", "UpdateIdeaRequest", "UpdateIdeaResponse"),
    Rpc("DeleteIdea", "DeleteIdea", "DeleteIdeaRequest", "DeleteIdeaResponse")>>
IdeasServiceHandler == <<Route("CreateIdea", "CreateIdea"), Route("GetIdea", "GetIdea"),
  Route("ListIdeas", "ListIdeas"), Route("UpdateIdea", "UpdateIdea"),
  Route("DeleteIdea", "DeleteIdea")>>
UnimplementedIdeasServiceHandler == {"CreateIdea", "GetIdea", "ListIdeas", "UpdateIdea",
  "DeleteIdea"}

\* collaboration.issues.v1alpha1.IssuesService
IssuesServiceProcedures == Paths("collaboration.issues.v1alpha1.IssuesService", <<
  "CreateIssue", "ListIssues", "GetIssue", "UpdateIssue", "ListMilestones",
  "CreateMilestone", "UpdateMilestone", "SearchIssues", "GetLabel", "BatchGetIssues",
  "AddSubIssue", "SetIssueType", "UpdateBoardField">>)
IssuesServiceClient ==
  <<Rpc("CreateIssue", "CreateIssue", "CreateIssueRequest", "CreateIssueResponse"),
    Rpc("ListIssues", "ListIssues", "ListIssuesRequest", "ListIssuesResponse"),
    Rpc("GetIssue", "GetIssue", "GetIssueRequest", "GetIssueResponse"),
    Rpc("UpdateIssue", "UpdateIssue", "UpdateIssueRequest", "UpdateIssueResponse"),
    Rpc("ListMilestones", "ListMilestones", "ListMilestonesRequest", "ListMilestonesResponse"),
    Rpc("CreateMilestone", "CreateMilestone", "CreateMilestoneRequest", "CreateMilestoneResponse"),
    Rpc("UpdateMilestone", "UpdateMilestone", "UpdateMilestoneRequest", "UpdateMilestoneResponse"),
    Rpc("SearchIssues", "SearchIssues", "SearchIssuesRequest", "SearchIssuesResponse"),
    Rpc("GetLabel", "GetLabel", "GetLabelRequest", "GetLabelResponse"),
    Rpc("BatchGetIssues", "BatchGetIssues", "BatchGetIssuesRequest", "BatchGetIssuesResponse"),
    Rpc("AddSubIssue", "AddSubIssue", "AddSubIssueRequest", "AddSubIssueResponse"),
    Rpc("SetIssueType", "SetIssueType", "SetIssueTypeRequest", "SetIssueTypeResponse"),
    Rpc("UpdateBoardField", "UpdateBoardField", "UpdateBoardFieldRequest", "UpdateBoardFieldResponse")>>
IssuesServiceHandler == <<Route("CreateIssue", "CreateIssue"),
  Route("ListIssues", "ListIssues"), Route("GetIssue", "GetIssue"),
  Route("UpdateIssue", "UpdateIssue"), Route("ListMilestones", "ListMilestones"),
  Route("CreateMilestone", "CreateMilestone"),
  Route("UpdateMilestone", "UpdateMilestone"), Route("SearchIssues", "SearchIssues"),
  Route("GetLabel", "GetLabel"), Route("BatchGetIssues", "BatchGetIssues"),
  Route("AddSubIssue", "AddSubIssue"), Route("SetIssueType", "SetIssueType"),
  Route("UpdateBoardField", "UpdateBoardField")>>
UnimplementedIssuesServiceHandler == {"CreateIssue", "ListIssues", "GetIssue",
  "UpdateIssue", "ListMilestones", "CreateMilestone", "UpdateMilestone", "SearchIssues",
  "GetLabel", "BatchGetIssues", "AddSubIssue", "SetIssueType", "UpdateBoardField"}

\* collaboration.pulls.v1alpha1.PullsService
PullsServiceProcedures == Paths("collaboration.pulls.v1alpha1.PullsService", <<
  "CreatePullRequest", "MergePullRequest">>)
PullsServiceClient ==
  <<Rpc("CreatePullRequest", "CreatePullRequest", "CreatePullRequestRequest", "CreatePullRequestResponse"),
    Rpc("MergePullRequest", "MergePullRequest", "MergePullRequestRequest", "MergePullRequestResponse")>>
PullsServiceHandler == <<Route("CreatePullRequest", "CreatePullRequest"),
  Route("MergePullRequest", "MergePullRequest")>>
UnimplementedPullsServiceHandler == {"CreatePullRequest", "MergePullRequest"}

\* deployment.status.v1alpha1.StatusService
StatusServiceProcedures == Paths("deployment.status.v1alpha1.StatusService", <<
  "CheckHealth">>)
StatusServiceClient ==
  <<Rpc("CheckHealth", "CheckHealth", "CheckHealthRequest", "CheckHealthResponse")>>
StatusServiceHandler == <<Route("CheckHealth", "CheckHealth")>>
UnimplementedStatusServiceHandler == {"CheckHealth"}

\* development.hooks.v1alpha1.HooksService
HooksServiceProcedures == Paths("development.hooks.v1alpha1.HooksService", <<
  "PreCommit", "CommitMsg", "PrePush">>)
HooksServiceClient ==
  <<Rpc("PreCommit", "PreCommit", "PreCommitRequest", "HookResponse"),
    Rpc("CommitMsg", "CommitMsg", "CommitMsgRequest", "HookResponse"),
    Rpc("PrePush", "PrePush", "PrePushRequest", "HookResponse")>>
HooksServiceHandler == <<Route("PreCommit", "PreCommit"),
  Route("CommitMsg", "CommitMsg"), Route("PrePush", "PrePush")>>
UnimplementedHooksServiceHandler == {"PreCommit", "CommitMsg", "PrePush"}

\* development.sync.v1alpha1.SyncService
SyncServiceProcedures == Paths("development.sync.v1alpha1.SyncService", <<"Sync",
  "Status", "Resolve">>)
SyncServiceClient ==
  <<Rpc("Sync", "Sync", "SyncRequest", "SyncResponse"),
    Rpc("Status", "Status", "StatusRequest", "StatusResponse"),
    Rpc("Resolve", "Resolve", "ResolveRequest", "ResolveResponse")>>
SyncServiceHandler == <<Route("Sync", "Sync"), Route("Status", "Status"),
  Route("Resolve", "Resolve")>>
UnimplementedSyncServiceHandler == {"Sync", "Status", "Resolve"}

\* development.tools.v1alpha1.ToolsService
ToolsServiceProcedures == Paths("development.tools.v1alpha1.ToolsService", <<
  "TagUntagged", "MovePackages", "ExtractDomain", "RunQuality", "SubmitQuality",
  "GetJob">>)
ToolsServiceClient ==
  <<Rpc("TagUntagged", "TagUntagged", "TagUntaggedRequest", "TagUntaggedResponse"),
    Rpc("MovePackages", "MovePackages", "MovePackagesRequest", "MovePackagesResponse"),
    Rpc("ExtractDomain", "ExtractDomain", "ExtractDomainRequest", "ExtractDomainResponse"),
    Rpc("RunQuality", "RunQuality", "RunQualityRequest", "RunQualityResponse"),
    Rpc("SubmitQuality", "SubmitQuality", "RunQualityRequest", "SubmitJobResponse"),
    Rpc("GetJob", "GetJob", "GetJobRequest", "GetJobResponse")>>
ToolsServiceHandler == <<Route("TagUntagged", "TagUntagged"),
  Route("MovePackages", "MovePackages"), Route("ExtractDomain", "ExtractDomain"),
  Route("RunQuality", "RunQuality"), Route("SubmitQuality", "SubmitQuality"),
  Route("GetJob", "GetJob")>>
UnimplementedToolsServiceHandler == {"TagUntagged", "MovePackages", "ExtractDomain",
  "RunQuality", "SubmitQuality", "GetJob"}

\* intelligence.memory.v1alpha1.MemoryService
MemoryServiceProcedures == Paths("intelligence.memory.v1alpha1.MemoryService", <<
  "StoreInteraction", "RetrieveContext">>)
MemoryServiceClient ==
  <<Rpc("StoreInteraction", "StoreInteraction", "StoreInteractionRequest", "StoreInteractionResponse"),
    Rpc("RetrieveContext", "RetrieveContext", "RetrieveContextRequest", "RetrieveContextResponse")>>
MemoryServiceHandler == <<Route("StoreInteraction", "StoreInteraction"),
  Route("RetrieveContext", "RetrieveContext")>>
UnimplementedMemoryServiceHandler == {"StoreInteraction", "RetrieveContext"}

\* intelligence.reasoning.v1alpha1.ReasoningService
ReasoningServiceProcedures == Paths("intelligence.reasoning.v1alpha1.ReasoningService", <<
  "PlanResponse">>)
ReasoningServiceClient ==
  <<Rpc("PlanResponse", "PlanResponse", "PlanResponseRequest", "PlanResponseResponse")>>
ReasoningServiceHandler == <<Route("PlanResponse", "PlanResponse")>>
UnimplementedReasoningServiceHandler == {"PlanResponse"}

\* messaging.notifications.v1alpha1.NotificationService
NotificationServiceProcedures == Paths("messaging.notifications.v1alpha1.NotificationService", <<
  "Notify">>)
NotificationServiceClient ==
  <<Rpc("Notify", "Notify", "NotifyRequest", "NotifyResponse")>>
NotificationServiceHandler == <<Route("Notify", "Notify")>>
UnimplementedNotificationServiceHandler == {"Notify"}

\* registry.repos.v1alpha1.RepoService
RepoServiceProcedures == Paths("registry.repos.v1alpha1.RepoService", <<
  "ListRepositories">>)
RepoServiceClient ==
  <<Rpc("ListRepositories", "ListRepositories", "ListRepositoriesRequest", "ListRepositoriesResponse")>>
RepoServiceHandler == <<Route("ListRepositories", "ListRepositories")>>
UnimplementedRepoServiceHandler == {"ListRepositories"}

\* registry.skills.v1alpha1.SkillsService
SkillsServiceProcedures == Paths("registry.skills.v1alpha1.SkillsService", <<
  "ListSkills", "GetSkill">>)
SkillsServiceClient ==
  <<Rpc("ListSkills", "ListSkills", "ListSkillsRequest", "ListSkillsResponse"),
    Rpc("GetSkill", "GetSkill", "GetSkillRequest", "GetSkillResponse")>>
SkillsServiceHandler == <<Route("ListSkills", "ListSkills"),
  Route("GetSkill", "GetSkill")>>
UnimplementedSkillsServiceHandler == {"ListSkills", "GetSkill"}

\* timeline.event.v1alpha1.TimelineService
TimelineServiceProcedures == Paths("timeline.event.v1alpha1.TimelineService", <<
  "Publish", "Query", "Stream", "Resolve", "Summary">>)
TimelineServiceClient ==
  <<Rpc("Publish", "Publish", "PublishRequest", "PublishResponse"),
    Rpc("Query", "Query", "QueryRequest", "QueryResponse"),
    Rpc("Stream", "Stream", "StreamRequest", "StreamResponse"),
    Rpc("Resolve", "Resolve", "ResolveRequest", "ResolveResponse"),
    Rpc("Summary", "Summary", "SummaryRequest", "SummaryResponse")>>
TimelineServiceHandler == <<Route("Publish", "Publish"), Route("Query", "Query"),
  Route("Stream", "Stream"), Route("Resolve", "Resolve"), Route("Summary", "Summary")>>
UnimplementedTimelineServiceHandler == {"Publish", "Query", "Stream", "Resolve",
  "Summary"}

\* workspace.governance.v1alpha1.GovernanceService
GovernanceServiceProcedures == Paths("workspace.governance.v1alpha1.GovernanceService", <<
  "ScanReadmes", "ScanScratch", "EnsureScratch", "ScanPurity", "FixGoVersions",
  "CleanGoSums">>)
GovernanceServiceClient ==
  <<Rpc("ScanReadmes", "ScanReadmes", "ScanReadmesRequest", "ScanReadmesResponse"),
    Rpc("ScanScratch", "ScanScratch", "ScanScratchRequest", "ScanScratchResponse"),
    Rpc("EnsureScratch", "EnsureScratch", "EnsureScratchRequest", "EnsureScratchResponse"),
    Rpc("ScanPurity", "ScanPurity", "ScanPurityRequest", "ScanPurityResponse"),
    Rpc("FixGoVersions", "FixGoVersions", "FixGoVersionsRequest", "FixGoVersionsResponse"),
    Rpc("CleanGoSums", "CleanGoSums", "CleanGoSumsRequest", "CleanGoSumsResponse")>>
GovernanceServiceHandler == <<Route("ScanReadmes", "ScanReadmes"),
  Route("ScanScratch", "ScanScratch"), Route("EnsureScratch", "EnsureScratch"),
  Route("ScanPurity", "ScanPurity"), Route("FixGoVersions", "FixGoVersions"),
  Route("CleanGoSums", "CleanGoSums")>>
UnimplementedGovernanceServiceHandler == {"ScanReadmes", "ScanScratch", "EnsureScratch",
  "ScanPurity", "FixGoVersions", "CleanGoSums"}

\* workspace.spoke.v1alpha1.SpokeService
SpokeServiceProcedures == Paths("workspace.spoke.v1alpha1.SpokeService", <<"Register",
  "Heartbeat", "List">>)
SpokeServiceClient ==
  <<Rpc("Register", "Register", "RegisterRequest", "RegisterResponse"),
    Rpc("Heartbeat", "Heartbeat", "HeartbeatRequest", "HeartbeatResponse"),
    Rpc("List", "List", "ListRequest", "ListResponse")>>
SpokeServiceHandler == <<Route("Register", "Register"), Route("Heartbeat", "Heartbeat"),
  Route("List", "List")>>
UnimplementedSpokeServiceHandler == {"Register", "Heartbeat", "List"}

-----------------------------------------------------------------------------
\* The services by name, with the package of their messages.
Services ==
  [EtchingsService |-> Service("etchings", EtchingsServiceProcedures, EtchingsServiceClient,
     EtchingsServiceHandler, UnimplementedEtchingsServiceHandler),
   BoardService |-> Service("board", BoardServiceProcedures, BoardServiceClient,
     BoardServiceHandler, UnimplementedBoardServiceHandler),
   FrictionService |-> Service("friction", FrictionServiceProcedures, FrictionServiceClient,
     FrictionServiceHandler, UnimplementedFrictionServiceHandler),
   IdeasService |-> Service("ideas", IdeasServiceProcedures, IdeasServiceClient,
     IdeasServiceHandler, UnimplementedIdeasServiceHandler),
   IssuesService |-> Service("issues", IssuesServiceProcedures, IssuesServiceClient,
     IssuesServiceHandler, UnimplementedIssuesServiceHandler),
   PullsService |-> Service("pulls", PullsServiceProcedures, PullsServiceClient,
     PullsServiceHandler, UnimplementedPullsServiceHandler),
   StatusService |-> Service("status", StatusServiceProcedures, StatusServiceClient,
     StatusServiceHandler, UnimplementedStatusServiceHandler),
   HooksService |-> Service("hooks", HooksServiceProcedures, HooksServiceClient,
     HooksServiceHandler, UnimplementedHooksServiceHandler),
   SyncService |-> Service("sync", SyncServiceProcedures, SyncServiceClient,
     SyncServiceHandler, UnimplementedSyncServiceHandler),
   ToolsService |-> Service("tools", ToolsServiceProcedures, ToolsServiceClient,
     ToolsServiceHandler, UnimplementedToolsServiceHandler),
   MemoryService |-> Service("memory", MemoryServiceProcedures, MemoryServiceClient,
     MemoryServiceHandler, UnimplementedMemoryServiceHandler),
   ReasoningService |-> Service("reasoning", ReasoningServiceProcedures, ReasoningServiceClient,
     ReasoningServiceHandler, UnimplementedReasoningServiceHandler),
   NotificationService |-> Service("notifications", NotificationServiceProcedures, NotificationServiceClient,
     NotificationServiceHandler, UnimplementedNotificationServiceHandler),
   RepoService |-> Service("repos", RepoServiceProcedures, RepoServiceClient,
     RepoServiceHandler, UnimplementedRepoServiceHandler),
   SkillsService |-> Service("skills", SkillsServiceProcedures, SkillsServiceClient,
     SkillsServiceHandler, UnimplementedSkillsServiceHandler),
   TimelineService |-> Service("event", TimelineServiceProcedures, TimelineServiceClient,
     TimelineServiceHandler, UnimplementedTimelineServiceHandler),
   GovernanceService |-> Service("governance", GovernanceServiceProcedures, GovernanceServiceClient,
     GovernanceServiceHandler, UnimplementedGovernanceServiceHandler),
   SpokeService |-> Service("spoke", SpokeServiceProcedures, SpokeServiceClient,
     SpokeServiceHandler, UnimplementedSpokeServiceHandler)]
-----------------------------------------------------------------------------
(***************************************************************************)
(* A call through the stubs: a client posts a request to the path of its   *)
(* method, a server that mounts some of the services routes it, and the    *)
(* implementation answers or leaves the method unimplemented.  Either peer *)
(* may have been built from older contracts: the server without the newest *)
(* method, a relay between them without the newest fields.  Messages are   *)
(* in the binary codec, which keeps the fields it does not know; connect's *)
(* JSON codec drops them.                                                  *)
(***************************************************************************)
VARIABLES
  server,   \* whether it mounts the service, implements the method, is older
  request,  \* the call: service, method, the message as sent, what relay knows
  wire,     \* the path and the message in transit
  ran,      \* the methods of the implementation that have run, with messages
  answer    \* what the client sees

callVars == <<server, request, wire, ran, answer>>

Idle == [at |-> "none"]
RequestType(s, r) == Files[Services[s].pkg].messages[r.request]

\* Values for a request: nil, empty, or with one field or all of them set.
Sent(M) ==
  {Nil, Reset(Nil)}
  \cup {With(M, Reset(Nil), f, "v") : f \in DOMAIN M}
  \cup {FoldSet(LAMBDA f, m : With(M, m, f, "v"), Reset(Nil), DOMAIN M)}

Init ==
  /\ server \in [mounts : BOOLEAN, implements : BOOLEAN, older : BOOLEAN]
  /\ request = Idle /\ wire = Idle /\ ran = <<>> /\ answer = "none"

\* CallUnary and CallServerStream, by way of a relay that knows some fields.
Call(s, r) ==
  LET M == RequestType(s, r)
  IN /\ request = Idle
     /\ \E m \in Sent(M), newest \in {0, 1} :
          LET old == {f \in DOMAIN M : M[f].num <= Cardinality(DOMAIN M) - newest}
          IN /\ request' = [at |-> "sent", service |-> s, method |-> r.method, msg |-> m,
                            type |-> r.request]
             /\ wire' = [at |-> "wire", path |-> Posts(Services[s], r.method),
                         body |-> Marshal(Restrict(M, old),
                                          Unmarshal(Restrict(M, old), Marshal(M, m)))]
     /\ UNCHANGED <<server, ran, answer>>

\* The mux and the handler's switch; an older server has no newest method.  A
\* path that nothing serves is answered 404, which a connect client reports as
\* CodeUnimplemented, like a method that is not overridden.
Serve ==
  LET s == Services[request.service]
      method == Serves(s, wire.path)
      M == Files[s.pkg].messages[request.type]
      lacks == server.older /\ method = s.client[Len(s.client)].method
  IN /\ wire # Idle
     /\ wire' = Idle
     /\ IF /\ server.mounts /\ ~lacks /\ method # "not found"
           /\ server.implements \/ method \notin s.bare
        THEN /\ ran' = Append(ran, [method |-> method, msg |-> Unmarshal(M, wire.body)])
             /\ answer' = "ok"
        ELSE answer' = "unimplemented" /\ UNCHANGED ran
     /\ UNCHANGED <<server, request>>

Next == Serve \/ \E s \in DOMAIN Services : \E r \in ToSet(Services[s].client) : Call(s, r)
Spec == Init /\ [][Next]_callVars
-----------------------------------------------------------------------------
\* A call runs the method it names, once, with every field as it was sent,
\* exactly when the server has it; the tables agree with each other.
CallArrives ==
  LET M == RequestType(request.service, [request |-> request.type])
  IN answer # "none" =>
       /\ answer = "ok" => /\ Len(ran) = 1 /\ ran[1].method = request.method
                           /\ \A f \in DOMAIN M :
                                Get(M, ran[1].msg, f) = Get(M, request.msg, f)
       /\ answer # "ok" => ran = <<>>
       /\ (server.mounts /\ server.implements /\ ~server.older) => answer = "ok"
       /\ ~(server.mounts /\ server.implements) => answer = "unimplemented"

\* Every file is whole: its messages can be told apart on the wire, its
\* descriptor is the one of its structs and of its service, and its enums
\* read back.
FileIsWhole(pkg) ==
  LET file == Files[pkg]
  IN /\ \A n \in DOMAIN file.messages : NumbersAreOwn(file.messages[n])
     /\ \A n \in DOMAIN file.enums : EnumReadsBack(file.enums[n])
     /\ DescriptorAgrees(pkg, file, {Services[s] : s \in {t \in DOMAIN Services :
                                                            Services[t].pkg = pkg}})
FilesAreWhole == request = Idle => \A pkg \in DOMAIN Files : FileIsWhole(pkg)

Sound == CallArrives /\ FilesAreWhole
=============================================================================
