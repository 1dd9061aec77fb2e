--------------------------- MODULE ContractTypes ---------------------------
(***************************************************************************)
(* The messages and enums of the other packages of contracts/, written as  *)
(* in ContractCollaboration, and the files of all packages.                *)
(***************************************************************************)
EXTENDS ContractCollaboration

-----------------------------------------------------------------------------
\* common/privacy/v1alpha1/privacy.pb.go
privacy_AnonymizeAction == <<"ANONYMIZE_ACTION_UNSPECIFIED", "ANONYMIZE_ACTION_HASH",
  "ANONYMIZE_ACTION_REDACT", "ANONYMIZE_ACTION_TRUNCATE", "ANONYMIZE_ACTION_KEEP">>
privacy_FieldRule == [field_path |-> Str(1),
  action |-> EnumOf(2, <<"privacy", "AnonymizeAction">>), truncate_level |-> Num(3)]
privacy_file ==
  [messages |-> [FieldRule |-> privacy_FieldRule],
   enums |-> [AnonymizeAction |-> privacy_AnonymizeAction],
   types |-> <<<<"privacy", "AnonymizeAction">>, <<"privacy", "FieldRule">>>>,
   deps |-> <<0>>]
-----------------------------------------------------------------------------
\* deployment/status/v1alpha1/status.pb.go
status_Scope == <<"SCOPE_UNSPECIFIED", "SCOPE_LOCAL", "SCOPE_CLOUD">>
status_ServiceHealth == [name |-> Str(1), scope |-> EnumOf(2, <<"status", "Scope">>),
  running |-> Bool(3), healthy |-> Bool(4), pid |-> Str(5), detail |-> Str(6)]
status_CheckHealthRequest == NoFields
status_CheckHealthResponse == [services |-> Many(1, <<"status", "ServiceHealth">>)]
status_file ==
  [messages |-> [ServiceHealth |-> status_ServiceHealth,
     CheckHealthRequest |-> status_CheckHealthRequest,
     CheckHealthResponse |-> status_CheckHealthResponse],
   enums |-> [Scope |-> status_Scope],
   types |-> <<<<"status", "Scope">>, <<"status", "ServiceHealth">>,
     <<"status", "CheckHealthRequest">>, <<"status", "CheckHealthResponse">>>>,
   deps |-> <<0, 1, 2, 3>>]
-----------------------------------------------------------------------------
\* development/hooks/v1alpha1/hooks.pb.go
hooks_PreCommitRequest == [repo_path |-> Str(1), staged_files |-> Many(2, Scalar)]
hooks_CommitMsgRequest == [repo_path |-> Str(1), message |-> Str(2)]
hooks_PrePushRequest == [repo_path |-> Str(1), remote |-> Str(2), ref |-> Str(3)]
hooks_HookResponse == [pass |-> Bool(1), checks |-> Many(2, <<"hooks", "CheckResult">>)]
hooks_CheckResult == [check |-> Str(1), passed |-> Bool(2), message |-> Str(3),
  file |-> Str(4)]
hooks_file ==
  [messages |-> [PreCommitRequest |-> hooks_PreCommitRequest,
     CommitMsgRequest |-> hooks_CommitMsgRequest,
     PrePushRequest |-> hooks_PrePushRequest, HookResponse |-> hooks_HookResponse,
     CheckResult |-> hooks_CheckResult],
   enums |-> NoFields,
   types |-> <<<<"hooks", "PreCommitRequest">>, <<"hooks", "CommitMsgRequest">>,
     <<"hooks", "PrePushRequest">>, <<"hooks", "HookResponse">>,
     <<"hooks", "CheckResult">>>>,
   deps |-> <<4, 0, 1, 2, 3, 3, 3>>]
-----------------------------------------------------------------------------
\* development/sync/v1alpha1/sync.pb.go
sync_SyncStatus == <<"SYNC_STATUS_UNSPECIFIED", "SYNC_STATUS_COMPLETE",
  "SYNC_STATUS_PENDING", "SYNC_STATUS_CONFLICT", "SYNC_STATUS_CI_FAILED",
  "SYNC_STATUS_ERROR">>
sync_SyncRequest == [repo_path |-> Str(1), spoke_id |-> Str(2),
  include_submodules |-> Bool(3)]
sync_SyncResponse == [status |-> EnumOf(1, <<"sync", "SyncStatus">>),
  summary |-> Str(2), repos |-> Many(3, <<"sync", "RepoSyncResult">>)]
sync_RepoSyncResult == [path |-> Str(1), status |-> EnumOf(2, <<"sync", "SyncStatus">>),
  commits_ahead |-> Num(3), commits_behind |-> Num(4), branch |-> Str(5),
  pr_url |-> Str(6), conflicts |-> Many(7, <<"sync", "ConflictDetail">>),
  error |-> Str(8)]
sync_ConflictDetail == [file |-> Str(1), conflict_type |-> Str(2)]
sync_StatusRequest == [repo_path |-> Str(1), spoke_id |-> Str(2)]
sync_StatusResponse == [commits_ahead |-> Num(1), commits_behind |-> Num(2),
  pending_prs |-> Many(3, <<"sync", "PendingPR">>),
  last_sync |-> Ref(4, <<"google", "Timestamp">>)]
sync_PendingPR == [url |-> Str(1), branch |-> Str(2), state |-> Str(3)]
sync_ResolveRequest == [repo_path |-> Str(1), spoke_id |-> Str(2), action |-> Str(3)]
sync_ResolveResponse == [status |-> EnumOf(1, <<"sync", "SyncStatus">>),
  summary |-> Str(2)]
sync_file ==
  [messages |-> [SyncRequest |-> sync_SyncRequest, SyncResponse |-> sync_SyncResponse,
     RepoSyncResult |-> sync_RepoSyncResult, ConflictDetail |-> sync_ConflictDetail,
     StatusRequest |-> sync_StatusRequest, StatusResponse |-> sync_StatusResponse,
     PendingPR |-> sync_PendingPR, ResolveRequest |-> sync_ResolveRequest,
     ResolveResponse |-> sync_ResolveResponse],
   enums |-> [SyncStatus |-> sync_SyncStatus],
   types |-> <<<<"sync", "SyncStatus">>, <<"sync", "SyncRequest">>,
     <<"sync", "SyncResponse">>, <<"sync", "RepoSyncResult">>,
     <<"sync", "ConflictDetail">>, <<"sync", "StatusRequest">>,
     <<"sync", "StatusResponse">>, <<"sync", "PendingPR">>,
     <<"sync", "ResolveRequest">>, <<"sync", "ResolveResponse">>,
     <<"google", "Timestamp">>>>,
   deps |-> <<0, 3, 0, 4, 7, 10, 0, 1, 5, 8, 2, 6, 9>>]
-----------------------------------------------------------------------------
\* development/tools/v1alpha1/tools.pb.go
tools_JobStatus == <<"JOB_STATUS_UNSPECIFIED", "JOB_STATUS_PENDING",
  "JOB_STATUS_RUNNING", "JOB_STATUS_DONE", "JOB_STATUS_FAILED">>
tools_TagUntaggedRequest == [version |-> Str(1), message |-> Str(2),
  boundary |-> Str(3)]
tools_TagResult == [tag |-> Str(1)]
tools_TagUntaggedResponse == [created |-> Many(1, <<"tools", "TagResult">>),
  skipped |-> Num(2)]
tools_Move == [from |-> Str(1), to |-> Str(2)]
tools_MoveResult == [from |-> Str(1), to |-> Str(2), rewired |-> Num(3),
  error |-> Str(4)]
tools_MovePackagesRequest == [moves |-> Many(1, <<"tools", "Move">>),
  boundary |-> Str(2)]
tools_MovePackagesResponse == [results |-> Many(1, <<"tools", "MoveResult">>)]
tools_ExtractDomainRequest == [handler_package |-> Str(1), domain_package |-> Str(2),
  files |-> Many(3, Scalar), boundary |-> Str(4)]
tools_ExtractDomainResponse == [symbols |-> Many(1, Scalar),
  files_moved |-> Many(2, Scalar), files_updated |-> Many(3, Scalar)]
tools_RunQualityRequest == [boundary |-> Str(1), all |-> Bool(2)]
tools_QualityModuleFailure == [module |-> Str(1), output |-> Str(2)]
tools_RunQualityResponse == [passed |-> Bool(1), summary |-> Str(2),
  failures |-> Many(3, <<"tools", "QualityModuleFailure">>)]
tools_SubmitJobResponse == [job_id |-> Str(1)]
tools_GetJobRequest == [job_id |-> Str(1)]
tools_GetJobResponse == [job_id |-> Str(1),
  status |-> EnumOf(2, <<"tools", "JobStatus">>),
  result |-> Ref(3, <<"tools", "RunQualityResponse">>), error |-> Str(4)]
tools_file ==
  [messages |-> [TagUntaggedRequest |-> tools_TagUntaggedRequest,
     TagResult |-> tools_TagResult, TagUntaggedResponse |-> tools_TagUntaggedResponse,
     Move |-> tools_Move, MoveResult |-> tools_MoveResult,
     MovePackagesRequest |-> tools_MovePackagesRequest,
     MovePackagesResponse |-> tools_MovePackagesResponse,
     ExtractDomainRequest |-> tools_ExtractDomainRequest,
     ExtractDomainResponse |-> tools_ExtractDomainResponse,
     RunQualityRequest |-> tools_RunQualityRequest,
     QualityModuleFailure |-> tools_QualityModuleFailure,
     RunQualityResponse |-> tools_RunQualityResponse,
     SubmitJobResponse |-> tools_SubmitJobResponse,
     GetJobRequest |-> tools_GetJobRequest, GetJobResponse |-> tools_GetJobResponse],
   enums |-> [JobStatus |-> tools_JobStatus],
   types |-> <<<<"tools", "JobStatus">>, <<"tools", "TagUntaggedRequest">>,
     <<"tools", "TagResult">>, <<"tools", "TagUntaggedResponse">>, <<"tools", "Move">>,
     <<"tools", "MoveResult">>, <<"tools", "MovePackagesRequest">>,
     <<"tools", "MovePackagesResponse">>, <<"tools", "ExtractDomainRequest">>,
     <<"tools", "ExtractDomainResponse">>, <<"tools", "RunQualityRequest">>,
     <<"tools", "QualityModuleFailure">>, <<"tools", "RunQualityResponse">>,
     <<"tools", "SubmitJobResponse">>, <<"tools", "GetJobRequest">>,
     <<"tools", "GetJobResponse">>>>,
   deps |-> <<2, 4, 5, 11, 0, 12, 1, 6, 8, 10, 10, 14, 3, 7, 9, 12, 13, 15>>]
-----------------------------------------------------------------------------
\* domain/common/v1/common.pb.go
common_Lifecycle == <<"LIFECYCLE_UNSPECIFIED", "LIFECYCLE_ACTIVE", "LIFECYCLE_LEGACY",
  "LIFECYCLE_INVALID">>
common_Purpose == <<"PURPOSE_UNSPECIFIED", "PURPOSE_PERSONAL", "PURPOSE_WORK",
  "PURPOSE_BILLING", "PURPOSE_SHIPPING">>
common_ExternalId == [system |-> Str(1), id |-> Str(2)]
common_file ==
  [messages |-> [ExternalId |-> common_ExternalId],
   enums |-> [Lifecycle |-> common_Lifecycle, Purpose |-> common_Purpose],
   types |-> <<<<"common", "Lifecycle">>, <<"common", "Purpose">>,
     <<"common", "ExternalId">>>>,
   deps |-> <<>>]
-----------------------------------------------------------------------------
\* domain/contact/v1/contact.pb.go
contact_ContactPointType == <<"CONTACT_POINT_TYPE_UNSPECIFIED",
  "CONTACT_POINT_TYPE_EMAIL", "CONTACT_POINT_TYPE_PHONE", "CONTACT_POINT_TYPE_URL",
  "CONTACT_POINT_TYPE_FAX">>
contact_ContactPoint == [type |-> EnumOf(1, <<"contact", "ContactPointType">>),
  value |-> Str(2), purpose |-> EnumOf(3, <<"common", "Purpose">>),
  lifecycle |-> EnumOf(4, <<"common", "Lifecycle">>),
  source |-> Ref(5, <<"common", "ExternalId">>),
  valid_from |-> Ref(6, <<"google", "Timestamp">>),
  valid_to |-> Ref(7, <<"google", "Timestamp">>), label |-> Str(8)]
contact_PostalAddress == [street |-> Str(1), city |-> Str(2), region |-> Str(3),
  postal_code |-> Str(4), country_code |-> Str(5),
  purpose |-> EnumOf(6, <<"common", "Purpose">>),
  lifecycle |-> EnumOf(7, <<"common", "Lifecycle">>),
  source |-> Ref(8, <<"common", "ExternalId">>),
  valid_from |-> Ref(9, <<"google", "Timestamp">>),
  valid_to |-> Ref(10, <<"google", "Timestamp">>)]
contact_file ==
  [messages |-> [ContactPoint |-> contact_ContactPoint,
     PostalAddress |-> contact_PostalAddress],
   enums |-> [ContactPointType |-> contact_ContactPointType],
   types |-> <<<<"contact", "ContactPointType">>, <<"contact", "ContactPoint">>,
     <<"contact", "PostalAddress">>, <<"common", "Purpose">>, <<"common", "Lifecycle">>,
     <<"common", "ExternalId">>, <<"google", "Timestamp">>>>,
   deps |-> <<0, 3, 4, 5, 6, 6, 3, 4, 5, 6, 6>>]
-----------------------------------------------------------------------------
\* domain/message/v1/message.pb.go
message_MessageType == <<"MESSAGE_TYPE_UNSPECIFIED", "MESSAGE_TYPE_EMAIL",
  "MESSAGE_TYPE_CHAT", "MESSAGE_TYPE_NOTIFICATION">>
message_DraftStatus == <<"DRAFT_STATUS_UNSPECIFIED", "DRAFT_STATUS_COMPOSING",
  "DRAFT_STATUS_READY", "DRAFT_STATUS_SENT", "DRAFT_STATUS_DISCARDED">>
message_Participant == [name |-> Str(1), address |-> Str(2)]
message_Message == [external_id |-> Ref(1, <<"common", "ExternalId">>),
  thread_id |-> Str(2), type |-> EnumOf(3, <<"message", "MessageType">>),
  from |-> Ref(4, <<"message", "Participant">>),
  to |-> Many(5, <<"message", "Participant">>),
  cc |-> Many(6, <<"message", "Participant">>),
  bcc |-> Many(7, <<"message", "Participant">>), subject |-> Str(8),
  body_text |-> Str(9), body_html |-> Str(10), labels |-> Many(11, Scalar),
  received_at |-> Ref(12, <<"google", "Timestamp">>), snippet |-> Str(13),
  is_read |-> Bool(14)]
message_Draft == [external_id |-> Ref(1, <<"common", "ExternalId">>),
  message |-> Ref(2, <<"message", "Message">>),
  status |-> EnumOf(3, <<"message", "DraftStatus">>),
  updated_at |-> Ref(4, <<"google", "Timestamp">>)]
message_file ==
  [messages |-> [Participant |-> message_Participant, Message |-> message_Message,
     Draft |-> message_Draft],
   enums |-> [MessageType |-> message_MessageType, DraftStatus |-> message_DraftStatus],
   types |-> <<<<"message", "MessageType">>, <<"message", "DraftStatus">>,
     <<"message", "Participant">>, <<"message", "Message">>, <<"message", "Draft">>,
     <<"common", "ExternalId">>, <<"google", "Timestamp">>>>,
   deps |-> <<5, 0, 2, 2, 2, 2, 6, 5, 3, 1, 6>>]
-----------------------------------------------------------------------------
\* domain/party/v1/party.pb.go
party_PartyType == <<"PARTY_TYPE_UNSPECIFIED", "PARTY_TYPE_PERSON",
  "PARTY_TYPE_ORGANIZATION">>
party_Person == [given_name |-> Str(1), family_name |-> Str(2), middle_name |-> Str(3),
  prefix |-> Str(4)]
party_Organization == [name |-> Str(1), trade_name |-> Str(2)]
party_Party == [id |-> Str(1), display_name |-> Str(2),
  type |-> EnumOf(3, <<"party", "PartyType">>),
  person |-> One(4, <<"party", "Person">>),
  organization |-> One(5, <<"party", "Organization">>),
  contact_points |-> Many(10, <<"contact", "ContactPoint">>),
  addresses |-> Many(11, <<"contact", "PostalAddress">>),
  external_ids |-> Many(12, <<"common", "ExternalId">>),
  roles |-> Many(13, <<"role", "Role">>),
  created_at |-> Ref(20, <<"google", "Timestamp">>),
  updated_at |-> Ref(21, <<"google", "Timestamp">>), headline |-> Str(22),
  bio |-> Str(23)]
party_file ==
  [messages |-> [Person |-> party_Person, Organization |-> party_Organization,
     Party |-> party_Party],
   enums |-> [PartyType |-> party_PartyType],
   types |-> <<<<"party", "PartyType">>, <<"party", "Person">>,
     <<"party", "Organization">>, <<"party", "Party">>, <<"contact", "ContactPoint">>,
     <<"contact", "PostalAddress">>, <<"common", "ExternalId">>, <<"role", "Role">>,
     <<"google", "Timestamp">>>>,
   deps |-> <<0, 1, 2, 4, 5, 6, 7, 8, 8>>]
-----------------------------------------------------------------------------
\* domain/role/v1/role.pb.go
role_RoleType == <<"ROLE_TYPE_UNSPECIFIED", "ROLE_TYPE_CONTACT", "ROLE_TYPE_EMPLOYEE",
  "ROLE_TYPE_SUPPLIER", "ROLE_TYPE_CUSTOMER", "ROLE_TYPE_DEBTOR", "ROLE_TYPE_CREDITOR">>
role_Role == [type |-> EnumOf(1, <<"role", "RoleType">>),
  lifecycle |-> EnumOf(2, <<"common", "Lifecycle">>),
  source |-> Ref(3, <<"common", "ExternalId">>),
  valid_from |-> Ref(4, <<"google", "Timestamp">>),
  valid_to |-> Ref(5, <<"google", "Timestamp">>), title |-> Str(6),
  organization_name |-> Str(7), description |-> Str(8)]
role_file ==
  [messages |-> [Role |-> role_Role],
   enums |-> [RoleType |-> role_RoleType],
   types |-> <<<<"role", "RoleType">>, <<"role", "Role">>, <<"common", "Lifecycle">>,
     <<"common", "ExternalId">>, <<"google", "Timestamp">>>>,
   deps |-> <<0, 2, 3, 4, 4>>]
-----------------------------------------------------------------------------
\* foundation/errors/v1alpha1/errors.pb.go
errors_ErrorCode == <<"ERROR_CODE_UNSPECIFIED", "ERROR_CODE_UNAUTHORIZED",
  "ERROR_CODE_FORBIDDEN", "ERROR_CODE_NOT_FOUND", "ERROR_CODE_RATE_LIMITED",
  "ERROR_CODE_SERVER_ERROR", "ERROR_CODE_UNEXPECTED_STATUS",
  "ERROR_CODE_RETRIES_EXCEEDED", "ERROR_CODE_AUTH_FAILED", "ERROR_CODE_API_ERROR",
  "ERROR_CODE_INVALID_INPUT", "ERROR_CODE_TIMEOUT", "ERROR_CODE_CONFLICT">>
errors_file ==
  [messages |-> NoFields,
   enums |-> [ErrorCode |-> errors_ErrorCode],
   types |-> <<<<"errors", "ErrorCode">>>>,
   deps |-> <<>>]
-----------------------------------------------------------------------------
\* intelligence/memory/v1alpha1/memory.pb.go
memory_Interaction == [id |-> Str(1), source |-> Str(2), sender_id |-> Str(3),
  content |-> Str(4), timestamp |-> Num(5)]
memory_StoreInteractionRequest == [source |-> Str(1), sender_id |-> Str(2),
  content |-> Str(3), timestamp |-> Num(4)]
memory_StoreInteractionResponse == [interaction |-> Ref(1, <<"memory", "Interaction">>)]
memory_RetrieveContextRequest == [query |-> Str(1), limit |-> Num(2)]
memory_RetrieveContextResponse == [context_snippets |-> Many(1, Scalar)]
memory_file ==
  [messages |-> [Interaction |-> memory_Interaction,
     StoreInteractionRequest |-> memory_StoreInteractionRequest,
     StoreInteractionResponse |-> memory_StoreInteractionResponse,
     RetrieveContextRequest |-> memory_RetrieveContextRequest,
     RetrieveContextResponse |-> memory_RetrieveContextResponse],
   enums |-> NoFields,
   types |-> <<<<"memory", "Interaction">>, <<"memory", "StoreInteractionRequest">>,
     <<"memory", "StoreInteractionResponse">>, <<"memory", "RetrieveContextRequest">>,
     <<"memory", "RetrieveContextResponse">>>>,
   deps |-> <<0, 1, 3, 2, 4>>]
-----------------------------------------------------------------------------
\* intelligence/reasoning/v1alpha1/reasoning.pb.go
reasoning_Action == [skill |-> Str(1), rationale |-> Str(2), input_json |-> Str(3)]
reasoning_PlanResponseRequest == [intent |-> Str(1), context |-> Str(2)]
reasoning_PlanResponseResponse == [thought_process |-> Str(1),
  actions |-> Many(2, <<"reasoning", "Action">>)]
reasoning_file ==
  [messages |-> [Action |-> reasoning_Action,
     PlanResponseRequest |-> reasoning_PlanResponseRequest,
     PlanResponseResponse |-> reasoning_PlanResponseResponse],
   enums |-> NoFields,
   types |-> <<<<"reasoning", "Action">>, <<"reasoning", "PlanResponseRequest">>,
     <<"reasoning", "PlanResponseResponse">>>>,
   deps |-> <<0, 1, 2>>]
-----------------------------------------------------------------------------
\* messaging/notifications/v1alpha1/notifications.pb.go
notifications_Severity == <<"SEVERITY_UNSPECIFIED", "SEVERITY_INFO", "SEVERITY_WARNING",
  "SEVERITY_BLOCKED">>
notifications_NotifyRequest == [message |-> Str(1),
  severity |-> EnumOf(2, <<"notifications", "Severity">>), context |-> Str(3)]
notifications_NotifyResponse == [delivered |-> Bool(1)]
notifications_file ==
  [messages |-> [NotifyRequest |-> notifications_NotifyRequest,
     NotifyResponse |-> notifications_NotifyResponse],
   enums |-> [Severity |-> notifications_Severity],
   types |-> <<<<"notifications", "Severity">>, <<"notifications", "NotifyRequest">>,
     <<"notifications", "NotifyResponse">>>>,
   deps |-> <<0, 1, 2>>]
-----------------------------------------------------------------------------
\* observability/audit/v1alpha1/audit.pb.go
audit_Entry == [event_time |-> Ref(1, <<"google", "Timestamp">>), actor |-> Str(2),
  action |-> Str(3), resource |-> Str(4)]
audit_Scorecard == [total |-> Num(1), by_actor |-> Many(2, <<"audit", "ByActorEntry">>),
  by_action |-> Many(3, <<"audit", "ByActionEntry">>),
  top_resources |-> Many(4, Scalar)]
audit_file ==
  [messages |-> [Entry |-> audit_Entry, Scorecard |-> audit_Scorecard],
   enums |-> NoFields,
   types |-> <<<<"audit", "Entry">>, <<"audit", "Scorecard">>,
     <<"audit", "ByActorEntry">>, <<"audit", "ByActionEntry">>,
     <<"google", "Timestamp">>>>,
   deps |-> <<4, 2, 3>>]
-----------------------------------------------------------------------------
\* operations/result/v1alpha1/result.pb.go
result_Status == <<"STATUS_UNSPECIFIED", "STATUS_OK", "STATUS_FAILED", "STATUS_PARTIAL",
  "STATUS_SKIPPED">>
result_Step == [name |-> Str(1), status |-> EnumOf(2, <<"result", "Status">>),
  detail |-> Str(3)]
result_OperationResult == [action |-> Str(1),
  status |-> EnumOf(2, <<"result", "Status">>), steps |-> Many(3, <<"result", "Step">>),
  summary |-> Str(4), errors |-> Many(5, Scalar)]
result_file ==
  [messages |-> [Step |-> result_Step, OperationResult |-> result_OperationResult],
   enums |-> [Status |-> result_Status],
   types |-> <<<<"result", "Status">>, <<"result", "Step">>,
     <<"result", "OperationResult">>>>,
   deps |-> <<0, 0, 1>>]
-----------------------------------------------------------------------------
\* registry/artifacts/v1alpha1/artifacts.pb.go
artifacts_ArtifactType == <<"ARTIFACT_TYPE_UNSPECIFIED", "ARTIFACT_TYPE_PATTERN",
  "ARTIFACT_TYPE_DOCS", "ARTIFACT_TYPE_PROTO", "ARTIFACT_TYPE_DEPLOY",
  "ARTIFACT_TYPE_WORKFLOW">>
artifacts_Maturity == <<"MATURITY_UNSPECIFIED", "MATURITY_DRAFT", "MATURITY_STABLE",
  "MATURITY_DEPRECATED">>
artifacts_Artifact == [name |-> Str(1),
  type |-> EnumOf(2, <<"artifacts", "ArtifactType">>), path |-> Str(3),
  maturity |-> EnumOf(4, <<"artifacts", "Maturity">>),
  ascended_from |-> Many(5, Scalar), consumers |-> Many(6, Scalar),
  description |-> Str(7)]
artifacts_Catalog == [artifacts |-> Many(1, <<"artifacts", "Artifact">>)]
artifacts_AscendOptions == [source_path |-> Str(1), alexandria_root |-> Str(2),
  dest_path |-> Str(3), name |-> Str(4),
  type |-> EnumOf(5, <<"artifacts", "ArtifactType">>), description |-> Str(6),
  project_name |-> Str(7)]
artifacts_AscendResult == [source |-> Str(1), dest |-> Str(2),
  artifact |-> Ref(3, <<"artifacts", "Artifact">>)]
artifacts_file ==
  [messages |-> [Artifact |-> artifacts_Artifact, Catalog |-> artifacts_Catalog,
     AscendOptions |-> artifacts_AscendOptions, AscendResult |-> artifacts_AscendResult],
   enums |-> [ArtifactType |-> artifacts_ArtifactType, Maturity |-> artifacts_Maturity],
   types |-> <<<<"artifacts", "ArtifactType">>, <<"artifacts", "Maturity">>,
     <<"artifacts", "Artifact">>, <<"artifacts", "Catalog">>,
     <<"artifacts", "AscendOptions">>, <<"artifacts", "AscendResult">>>>,
   deps |-> <<0, 1, 2, 0, 2>>]
-----------------------------------------------------------------------------
\* registry/brain/v1alpha1/brain.pb.go
brain_RepoState == [alias |-> Str(1), path |-> Str(2), owner |-> Str(3),
  repo |-> Str(4), accessible |-> Bool(5),
  last_seen |-> Ref(6, <<"google", "Timestamp">>)]
brain_ComponentOwner == [component |-> Str(1), primary |-> Str(2),
  supporting |-> Many(3, Scalar)]
brain_Brain == [repos |-> Many(1, <<"brain", "RepoState">>),
  ownership |-> Many(2, <<"brain", "ComponentOwner">>),
  updated_at |-> Ref(3, <<"google", "Timestamp">>)]
brain_file ==
  [messages |-> [RepoState |-> brain_RepoState, ComponentOwner |-> brain_ComponentOwner,
     Brain |-> brain_Brain],
   enums |-> NoFields,
   types |-> <<<<"brain", "RepoState">>, <<"brain", "ComponentOwner">>,
     <<"brain", "Brain">>, <<"google", "Timestamp">>>>,
   deps |-> <<3, 0, 1, 3>>]
-----------------------------------------------------------------------------
\* registry/documents/v1alpha1/document.pb.go
documents_Document == [name |-> Str(1), title |-> Str(2), summary |-> Str(3),
  tags |-> Many(4, Scalar), domain |-> Str(5), type |-> Str(6),
  diataxis_quadrant |-> Str(7), status |-> Str(8), maturity |-> Str(9),
  owner |-> Str(10), created_at |-> Str(11), updated_at |-> Str(12),
  parents |-> Many(13, Scalar), supersedes |-> Many(14, Scalar),
  related |-> Many(15, Scalar), related_resources |-> Many(16, Scalar)]
documents_file ==
  [messages |-> [Document |-> documents_Document],
   enums |-> NoFields,
   types |-> <<<<"documents", "Document">>>>,
   deps |-> <<>>]
-----------------------------------------------------------------------------
\* registry/repos/v1alpha1/repos.pb.go
repos_Capability == <<"CAPABILITY_UNSPECIFIED", "CAPABILITY_LIST_ISSUES",
  "CAPABILITY_CREATE_ISSUE", "CAPABILITY_UPDATE_ISSUE", "CAPABILITY_SEARCH_ISSUES",
  "CAPABILITY_LIST_MILESTONES", "CAPABILITY_CREATE_MILESTONE",
  "CAPABILITY_UPDATE_MILESTONE", "CAPABILITY_GET_LABEL", "CAPABILITY_BATCH_GET_ISSUES">>
repos_RepositoryDescriptor == [full_name |-> Str(1),
  capabilities |-> Many(2, <<"repos", "Capability">>), name |-> Str(3)]
repos_ListRepositoriesRequest == NoFields
repos_ListRepositoriesResponse == [
  repositories |-> Many(1, <<"repos", "RepositoryDescriptor">>)]
repos_file ==
  [messages |-> [RepositoryDescriptor |-> repos_RepositoryDescriptor,
     ListRepositoriesRequest |-> repos_ListRepositoriesRequest,
     ListRepositoriesResponse |-> repos_ListRepositoriesResponse],
   enums |-> [Capability |-> repos_Capability],
   types |-> <<<<"repos", "Capability">>, <<"repos", "RepositoryDescriptor">>,
     <<"repos", "ListRepositoriesRequest">>, <<"repos", "ListRepositoriesResponse">>>>,
   deps |-> <<0, 1, 2, 3>>]
-----------------------------------------------------------------------------
\* registry/services/v1alpha1/services.pb.go
services_Transport == <<"TRANSPORT_UNSPECIFIED", "TRANSPORT_CONNECT_RPC",
  "TRANSPORT_MCP">>
services_Service == [name |-> Str(1), port |-> Num(2), bind |-> Str(3),
  transport |-> EnumOf(4, <<"services", "Transport">>), description |-> Str(5)]
services_file ==
  [messages |-> [Service |-> services_Service],
   enums |-> [Transport |-> services_Transport],
   types |-> <<<<"services", "Transport">>, <<"services", "Service">>>>,
   deps |-> <<0>>]
-----------------------------------------------------------------------------
\* registry/skills/v1alpha1/skills.pb.go
skills_Skill == [name |-> Str(1), display_name |-> Str(2), description |-> Str(3),
  input_schema |-> Many(4, Scalar)]
skills_ListSkillsRequest == [page_size |-> Num(1), page_token |-> Str(2)]
skills_ListSkillsResponse == [skills |-> Many(1, <<"skills", "Skill">>),
  next_page_token |-> Str(2)]
skills_GetSkillRequest == [name |-> Str(1)]
skills_GetSkillResponse == [skill |-> Ref(1, <<"skills", "Skill">>)]
skills_file ==
  [messages |-> [Skill |-> skills_Skill, ListSkillsRequest |-> skills_ListSkillsRequest,
     ListSkillsResponse |-> skills_ListSkillsResponse,
     GetSkillRequest |-> skills_GetSkillRequest,
     GetSkillResponse |-> skills_GetSkillResponse],
   enums |-> NoFields,
   types |-> <<<<"skills", "Skill">>, <<"skills", "ListSkillsRequest">>,
     <<"skills", "ListSkillsResponse">>, <<"skills", "GetSkillRequest">>,
     <<"skills", "GetSkillResponse">>>>,
   deps |-> <<0, 0, 1, 3, 2, 4>>]
-----------------------------------------------------------------------------
\* timeline/event/v1alpha1/event.pb.go
event_Event == [id |-> Str(1), timestamp |-> Ref(2, <<"google", "Timestamp">>),
  actor |-> Str(3), type |-> Str(4), target |-> Str(5), message |-> Str(6),
  actionable |-> Bool(7), resolved_by |-> Str(8), refs |-> Ref(9, <<"event", "Refs">>)]
event_Refs == [commit |-> Str(1), issue |-> Str(2), pr |-> Str(3), tag |-> Str(4),
  spoke |-> Str(5), repo |-> Str(6), file |-> Str(7), conversation |-> Str(8)]
event_PublishRequest == [actor |-> Str(1), type |-> Str(2), target |-> Str(3),
  message |-> Str(4), actionable |-> Bool(5), refs |-> Ref(6, <<"event", "Refs">>)]
event_PublishResponse == [event_id |-> Str(1)]
event_QueryRequest == [actor |-> Str(1), type_prefix |-> Str(2), target |-> Str(3),
  actionable_only |-> Bool(4), unresolved_only |-> Bool(5),
  since |-> Ref(6, <<"google", "Timestamp">>), limit |-> Num(7)]
event_QueryResponse == [events |-> Many(1, <<"event", "Event">>), total |-> Num(2)]
event_StreamRequest == [type_prefix |-> Str(1), actor |-> Str(2)]
event_StreamResponse == [event |-> Ref(1, <<"event", "Event">>)]
event_ResolveRequest == [event_id |-> Str(1), resolved_by_event_id |-> Str(2)]
event_ResolveResponse == [event_id |-> Str(1)]
event_SummaryRequest == [spoke_id |-> Str(1),
  since |-> Ref(2, <<"google", "Timestamp">>)]
event_SummaryResponse == [last_session |-> Ref(1, <<"google", "Timestamp">>),
  counts |-> Many(2, <<"event", "CountsEntry">>),
  pending_actions |-> Many(3, <<"event", "Event">>),
  highlights |-> Many(4, <<"event", "Event">>)]
event_file ==
  [messages |-> [Event |-> event_Event, Refs |-> event_Refs,
     PublishRequest |-> event_PublishRequest, PublishResponse |-> event_PublishResponse,
     QueryRequest |-> event_QueryRequest, QueryResponse |-> event_QueryResponse,
     StreamRequest |-> event_StreamRequest, StreamResponse |-> event_StreamResponse,
     ResolveRequest |-> event_ResolveRequest, ResolveResponse |-> event_ResolveResponse,
     SummaryRequest |-> event_SummaryRequest, SummaryResponse |-> event_SummaryResponse],
   enums |-> NoFields,
   types |-> <<<<"event", "Event">>, <<"event", "Refs">>, <<"event", "PublishRequest">>,
     <<"event", "PublishResponse">>, <<"event", "QueryRequest">>,
     <<"event", "QueryResponse">>, <<"event", "StreamRequest">>,
     <<"event", "StreamResponse">>, <<"event", "ResolveRequest">>,
     <<"event", "ResolveResponse">>, <<"event", "SummaryRequest">>,
     <<"event", "SummaryResponse">>, <<"event", "CountsEntry">>,
     <<"google", "Timestamp">>>>,
   deps |-> <<13, 1, 1, 13, 0, 0, 13, 13, 12, 0, 0, 2, 4, 6, 8, 10, 3, 5, 7, 9, 11>>]
-----------------------------------------------------------------------------
\* workspace/governance/v1alpha1/governance.pb.go
governance_ReadmeStatus == [path |-> Str(1), pass |-> Bool(2),
  issues |-> Many(3, Scalar)]
governance_ScanReadmesRequest == [directory |-> Str(1)]
governance_ScanReadmesResponse == [
  results |-> Many(1, <<"governance", "ReadmeStatus">>), pass_count |-> Num(2),
  fail_count |-> Num(3)]
governance_ScratchStatus == [label |-> Str(1), exists |-> Bool(2),
  gitignored |-> Bool(3)]
governance_ScanScratchRequest == NoFields
governance_ScanScratchResponse == [
  results |-> Many(1, <<"governance", "ScratchStatus">>)]
governance_EnsureScratchRequest == NoFields
governance_EnsureScratchResponse == [fixed |-> Num(1)]
governance_PurityStatus == [package |-> Str(1), pure |-> Bool(2),
  cloud_deps |-> Many(3, Scalar)]
governance_ScanPurityRequest == [directory |-> Str(1)]
governance_ScanPurityResponse == [results |-> Many(1, <<"governance", "PurityStatus">>)]
governance_FixGoVersionsRequest == [target_version |-> Str(1)]
governance_GoVersionFix == [path |-> Str(1), old_version |-> Str(2)]
governance_FixGoVersionsResponse == [
  results |-> Many(1, <<"governance", "GoVersionFix">>)]
governance_CleanGoSumsRequest == [module_prefix |-> Str(1)]
governance_GoSumClean == [path |-> Str(1), removed |-> Num(2)]
governance_CleanGoSumsResponse == [results |-> Many(1, <<"governance", "GoSumClean">>)]
governance_file ==
  [messages |-> [ReadmeStatus |-> governance_ReadmeStatus,
     ScanReadmesRequest |-> governance_ScanReadmesRequest,
     ScanReadmesResponse |-> governance_ScanReadmesResponse,
     ScratchStatus |-> governance_ScratchStatus,
     ScanScratchRequest |-> governance_ScanScratchRequest,
     ScanScratchResponse |-> governance_ScanScratchResponse,
     EnsureScratchRequest |-> governance_EnsureScratchRequest,
     EnsureScratchResponse |-> governance_EnsureScratchResponse,
     PurityStatus |-> governance_PurityStatus,
     ScanPurityRequest |-> governance_ScanPurityRequest,
     ScanPurityResponse |-> governance_ScanPurityResponse,
     FixGoVersionsRequest |-> governance_FixGoVersionsRequest,
     GoVersionFix |-> governance_GoVersionFix,
     FixGoVersionsResponse |-> governance_FixGoVersionsResponse,
     CleanGoSumsRequest |-> governance_CleanGoSumsRequest,
     GoSumClean |-> governance_GoSumClean,
     CleanGoSumsResponse |-> governance_CleanGoSumsResponse],
   enums |-> NoFields,
   types |-> <<<<"governance", "ReadmeStatus">>, <<"governance", "ScanReadmesRequest">>,
     <<"governance", "ScanReadmesResponse">>, <<"governance", "ScratchStatus">>,
     <<"governance", "ScanScratchRequest">>, <<"governance", "ScanScratchResponse">>,
     <<"governance", "EnsureScratchRequest">>,
     <<"governance", "EnsureScratchResponse">>, <<"governance", "PurityStatus">>,
     <<"governance", "ScanPurityRequest">>, <<"governance", "ScanPurityResponse">>,
     <<"governance", "FixGoVersionsRequest">>, <<"governance", "GoVersionFix">>,
     <<"governance", "FixGoVersionsResponse">>, <<"governance", "CleanGoSumsRequest">>,
     <<"governance", "GoSumClean">>, <<"governance", "CleanGoSumsResponse">>>>,
   deps |-> <<0, 3, 8, 12, 15, 1, 4, 6, 9, 11, 14, 2, 5, 7, 10, 13, 16>>]
-----------------------------------------------------------------------------
\* workspace/spoke/v1alpha1/spoke.pb.go
spoke_SpokeType == <<"SPOKE_TYPE_UNSPECIFIED", "SPOKE_TYPE_DEVELOPER",
  "SPOKE_TYPE_AGENT", "SPOKE_TYPE_CI", "SPOKE_TYPE_CLOUD">>
spoke_SpokeStatus == <<"SPOKE_STATUS_UNSPECIFIED", "SPOKE_STATUS_ACTIVE",
  "SPOKE_STATUS_IDLE", "SPOKE_STATUS_STALE", "SPOKE_STATUS_SYNCING",
  "SPOKE_STATUS_CONFLICT">>
spoke_Spoke == [id |-> Str(1), name |-> Str(2),
  type |-> EnumOf(3, <<"spoke", "SpokeType">>), hostname |-> Str(4),
  resources |-> Many(5, Scalar), last_seen |-> Ref(6, <<"google", "Timestamp">>),
  status |-> EnumOf(7, <<"spoke", "SpokeStatus">>)]
spoke_RegisterRequest == [name |-> Str(1), type |-> EnumOf(2, <<"spoke", "SpokeType">>),
  hostname |-> Str(3), resources |-> Many(4, Scalar)]
spoke_RegisterResponse == [spoke_id |-> Str(1)]
spoke_HeartbeatRequest == [spoke_id |-> Str(1),
  status |-> EnumOf(2, <<"spoke", "SpokeStatus">>), commits_pending |-> Num(3),
  dirty_repos |-> Many(4, Scalar)]
spoke_HeartbeatResponse == [pending_actions |-> Num(1)]
spoke_ListRequest == [type |-> EnumOf(1, <<"spoke", "SpokeType">>),
  status |-> EnumOf(2, <<"spoke", "SpokeStatus">>), page_size |-> Num(3),
  page_token |-> Str(4)]
spoke_ListResponse == [spokes |-> Many(1, <<"spoke", "Spoke">>),
  next_page_token |-> Str(2)]
spoke_file ==
  [messages |-> [Spoke |-> spoke_Spoke, RegisterRequest |-> spoke_RegisterRequest,
     RegisterResponse |-> spoke_RegisterResponse,
     HeartbeatRequest |-> spoke_HeartbeatRequest,
     HeartbeatResponse |-> spoke_HeartbeatResponse, ListRequest |-> spoke_ListRequest,
     ListResponse |-> spoke_ListResponse],
   enums |-> [SpokeType |-> spoke_SpokeType, SpokeStatus |-> spoke_SpokeStatus],
   types |-> <<<<"spoke", "SpokeType">>, <<"spoke", "SpokeStatus">>,
     <<"spoke", "Spoke">>, <<"spoke", "RegisterRequest">>,
     <<"spoke", "RegisterResponse">>, <<"spoke", "HeartbeatRequest">>,
     <<"spoke", "HeartbeatResponse">>, <<"spoke", "ListRequest">>,
     <<"spoke", "ListResponse">>, <<"google", "Timestamp">>>>,
   deps |-> <<0, 9, 1, 0, 1, 0, 1, 2, 3, 5, 7, 4, 6, 8>>]
-----------------------------------------------------------------------------
\* The files by package.
Files == [email |-> email_file, postmark |-> postmark_file, billing |-> billing_file,
  etchings |-> etchings_file, board |-> board_file, friction |-> friction_file,
  ideas |-> ideas_file, issues |-> issues_file, pulls |-> pulls_file,
  privacy |-> privacy_file, status |-> status_file, hooks |-> hooks_file,
  sync |-> sync_file, tools |-> tools_file, common |-> common_file,
  contact |-> contact_file, message |-> message_file, party |-> party_file,
  role |-> role_file, errors |-> errors_file, memory |-> memory_file,
  reasoning |-> reasoning_file, notifications |-> notifications_file,
  audit |-> audit_file, result |-> result_file, artifacts |-> artifacts_file,
  brain |-> brain_file, documents |-> documents_file, repos |-> repos_file,
  services |-> services_file, skills |-> skills_file, event |-> event_file,
  governance |-> governance_file, spoke |-> spoke_file]
=============================================================================
