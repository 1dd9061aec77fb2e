----------------------- MODULE ContractCollaboration ------------------------
(***************************************************************************)
(* What the generated code of contracts/ does with any message, enum or    *)
(* service, then the messages and enums of alx, analytics, capture and     *)
(* collaboration; ContractTypes and ContractServices hold the other        *)
(* tables.  The protobuf and connect runtimes are external.                *)
(*                                                                         *)
(* A message value is nil, or has some fields set and keeps the fields it  *)
(* does not know.  Values are names; the zero of a kind is what its getter *)
(* answers when there is nothing to answer.                                *)
(*                                                                         *)
(* In the tables a message is its fields, each with its number and kind as *)
(* the Go struct's tags have them, an enum its names in the order of their *)
(* numbers, and a file the types and the dependencies that its descriptor  *)
(* is built from.                                                          *)
(***************************************************************************)
EXTENDS Integers, Sequences, FiniteSets, SequencesExt, FiniteSetsExt, Functions

Scalar == <<>>
NoFields == <<>>

\* The kinds of field: a number on the wire, the getter's zero, and the type
\* of what it refers to.
Field(n, zero, type, one) == [num |-> n, zero |-> zero, type |-> type, one |-> one]
Str(n) == Field(n, "", Scalar, FALSE)
Num(n) == Field(n, "0", Scalar, FALSE)
Real(n) == Field(n, "0", Scalar, FALSE)
Bool(n) == Field(n, "false", Scalar, FALSE)
EnumOf(n, type) == Field(n, "0", type, FALSE)
Ref(n, type) == Field(n, "nil", type, FALSE)
Many(n, type) == Field(n, "nil", type, FALSE)
One(n, type) == Field(n, "nil", type, TRUE)

Nil == [nil |-> TRUE, set |-> NoFields, unknown |-> NoFields]
Made(set, unknown) == [nil |-> FALSE, set |-> set, unknown |-> unknown]
Reset(m) == Made(NoFields, NoFields)

\* A getter answers for nil too.
Get(M, m, f) == IF m.nil \/ f \notin DOMAIN m.set THEN M[f].zero ELSE m.set[f]

\* Writing a member of a oneof takes the place of the others.
With(M, m, f, v) ==
  LET kept == {g \in DOMAIN m.set : ~(M[f].one /\ M[g].one)} \cup {f}
  IN [m EXCEPT !.set = [g \in kept |-> IF g = f THEN v ELSE m.set[g]]]

\* The wire has numbers: fields that are zero are left out, unknown ones stay.
Marshal(M, m) ==
  LET sent == {f \in DOMAIN m.set : m.set[f] # M[f].zero}
      nums == {M[f].num : f \in sent}
  IN [n \in nums \cup DOMAIN m.unknown |->
        IF n \in nums THEN m.set[CHOOSE f \in sent : M[f].num = n] ELSE m.unknown[n]]
\* Mutation of Unmarshal: what is not known is dropped.
UnmarshalStrict(M, wire) ==
  Made([f \in {g \in DOMAIN M : M[g].num \in DOMAIN wire} |-> wire[M[f].num]], NoFields)

Unmarshal(M, wire) ==
  LET known == {f \in DOMAIN M : M[f].num \in DOMAIN wire}
  IN Made([f \in known |-> wire[M[f].num]],
          [n \in DOMAIN wire \ {M[f].num : f \in known} |-> wire[n]])

\* Enums: a number without a name prints as itself.
EnumString(e, n) == IF n + 1 \in DOMAIN e THEN e[n + 1] ELSE ToString(n)
EnumValue(e, name) == (CHOOSE i \in DOMAIN e : e[i] = name) - 1

Paths(service, methods) == [m \in ToSet(methods) |-> <<service, m>>]
Rpc(method, procedure, request, response) ==
  [method |-> method, procedure |-> procedure, request |-> request, response |-> response]
Route(procedure, method) == [procedure |-> procedure, method |-> method]
Service(pkg, paths, client, handler, bare) ==
  [pkg |-> pkg, paths |-> paths, client |-> client, handler |-> handler, bare |-> bare]

\* The path that a client's method posts to, and what a handler does with a
\* path: the first case that matches, or not found.
Posts(s, method) == s.paths[(CHOOSE r \in ToSet(s.client) : r.method = method).procedure]
Serves(s, path) ==
  LET hits == SelectSeq(s.handler, LAMBDA r : s.paths[r.procedure] = path)
  IN IF hits = <<>> THEN "not found" ELSE hits[1].method
-----------------------------------------------------------------------------
\* A message's numbers are its own and outside the range the wire reserves.
NumbersAreOwn(M) ==
  /\ IsInjective([f \in DOMAIN M |-> M[f].num])
  /\ \A f \in DOMAIN M : M[f].num > 0 /\ M[f].num \notin 19000 .. 19999

\* The types that a message's fields refer to, in the order of their numbers.
References(M) ==
  LET nums == {M[f].num : f \in DOMAIN M}
      at(n) == IF n \in nums THEN M[CHOOSE f \in DOMAIN M : M[f].num = n].type ELSE Scalar
  IN SelectSeq([n \in 1 .. Max(nums \cup {0}) |-> at(n)], LAMBDA q : q # Scalar)

\* The descriptor of a file is about the structs next to it: resolving its
\* dependencies gives what the fields refer to, message by message, and then
\* the requests and the responses of its service's client.
DescriptorAgrees(pkg, file, services) ==
  LET own == SelectSeq(file.types, LAMBDA q : q[1] = pkg /\ q[2] \in DOMAIN file.messages)
      calls == IF services = {} THEN <<>> ELSE (CHOOSE s \in services : TRUE).client
  IN /\ Cardinality(services) <= 1
     /\ {own[i][2] : i \in DOMAIN own} = DOMAIN file.messages
     /\ [i \in DOMAIN file.deps |-> file.types[file.deps[i] + 1]]
          = FlattenSeq([i \in DOMAIN own |-> References(file.messages[own[i][2]])])
            \o [i \in DOMAIN calls |-> <<pkg, calls[i].request>>]
            \o [i \in DOMAIN calls |-> <<pkg, calls[i].response>>]

\* Printing and parsing an enum are each other's inverse.
EnumReadsBack(e) == \A n \in 0 .. Len(e) - 1 : EnumValue(e, EnumString(e, n)) = n

\* A message that passes through a peer which knows only some of its fields
\* arrives as it was sent.
SurvivesRelay(M, old, m) ==
  LET relay == Unmarshal(Restrict(M, old), Marshal(M, m))
      back == Unmarshal(M, Marshal(Restrict(M, old), relay))
  IN \A f \in DOMAIN M : Get(M, back, f) = Get(M, m, f)
-----------------------------------------------------------------------------
\* alx/email/v1alpha1/email.pb.go
email_Address == [email |-> Str(1), name |-> Str(2)]
email_Message == [from |-> Ref(1, <<"email", "Address">>),
  to |-> Ref(2, <<"email", "Address">>), subject |-> Str(3), text_body |-> Str(4),
  html_body |-> Str(5)]
email_file ==
  [messages |-> [Address |-> email_Address, Message |-> email_Message],
   enums |-> NoFields,
   types |-> <<<<"email", "Address">>, <<"email", "Message">>>>,
   deps |-> <<0, 0>>]
-----------------------------------------------------------------------------
\* alx/postmark/v1alpha1/email.pb.go
postmark_SendResponse == [to |-> Str(1),
  submitted_at |-> Ref(2, <<"google", "Timestamp">>), message_id |-> Str(3),
  error_code |-> Num(4), message |-> Str(5)]
postmark_file ==
  [messages |-> [SendResponse |-> postmark_SendResponse],
   enums |-> NoFields,
   types |-> <<<<"postmark", "SendResponse">>, <<"google", "Timestamp">>>>,
   deps |-> <<1>>]
-----------------------------------------------------------------------------
\* analytics/billing/v1alpha1/billing.pb.go
billing_BillingRecord == [billing_account_id |-> Str(1),
  service |-> Ref(2, <<"billing", "Service">>), sku |-> Ref(3, <<"billing", "SKU">>),
  project |-> Ref(4, <<"billing", "Project">>),
  usage_start_time |-> Ref(5, <<"google", "Timestamp">>),
  usage_end_time |-> Ref(6, <<"google", "Timestamp">>), cost |-> Real(7),
  currency |-> Str(8), usage |-> Ref(9, <<"billing", "Usage">>),
  credits |-> Many(10, <<"billing", "Credit">>), invoice_month |-> Str(11),
  cost_type |-> Str(12), location |-> Ref(13, <<"billing", "Location">>)]
billing_Service == [id |-> Str(1), description |-> Str(2)]
billing_SKU == [id |-> Str(1), description |-> Str(2)]
billing_Project == [id |-> Str(1), name |-> Str(2), number |-> Str(3),
  labels |-> Many(4, <<"billing", "Label">>)]
billing_Label == [key |-> Str(1), value |-> Str(2)]
billing_Usage == [amount |-> Real(1), unit |-> Str(2),
  amount_in_pricing_units |-> Real(3), pricing_unit |-> Str(4)]
billing_Credit == [name |-> Str(1), amount |-> Real(2), type |-> Str(3), id |-> Str(4)]
billing_Location == [location |-> Str(1), country |-> Str(2), region |-> Str(3),
  zone |-> Str(4)]
billing_ServiceCost == [service_id |-> Str(1), service_description |-> Str(2),
  cost |-> Real(3), currency |-> Str(4)]
billing_ProjectCost == [project_id |-> Str(1), project_name |-> Str(2),
  cost |-> Real(3), currency |-> Str(4)]
billing_DailyCost == [date |-> Str(1), cost |-> Real(2), currency |-> Str(3)]
billing_SKUCost == [sku_id |-> Str(1), sku_description |-> Str(2),
  service_description |-> Str(3), cost |-> Real(4), currency |-> Str(5)]
billing_PeriodComparison == [period_a |-> Str(1), period_b |-> Str(2),
  cost_a |-> Real(3), cost_b |-> Real(4), delta |-> Real(5), delta_percent |-> Real(6),
  currency |-> Str(7), by_service_a |-> Many(8, <<"billing", "ServiceCost">>),
  by_service_b |-> Many(9, <<"billing", "ServiceCost">>)]
billing_CostReport == [period |-> Str(1), total_cost |-> Real(2), currency |-> Str(3),
  by_service |-> Many(4, <<"billing", "ServiceCost">>),
  by_project |-> Many(5, <<"billing", "ProjectCost">>),
  by_day |-> Many(6, <<"billing", "DailyCost">>),
  top_skus |-> Many(7, <<"billing", "SKUCost">>)]
billing_file ==
  [messages |-> [BillingRecord |-> billing_BillingRecord, Service |-> billing_Service,
     SKU |-> billing_SKU, Project |-> billing_Project, Label |-> billing_Label,
     Usage |-> billing_Usage, Credit |-> billing_Credit, Location |-> billing_Location,
     ServiceCost |-> billing_ServiceCost, ProjectCost |-> billing_ProjectCost,
     DailyCost |-> billing_DailyCost, SKUCost |-> billing_SKUCost,
     PeriodComparison |-> billing_PeriodComparison, CostReport |-> billing_CostReport],
   enums |-> NoFields,
   types |-> <<<<"billing", "BillingRecord">>, <<"billing", "Service">>,
     <<"billing", "SKU">>, <<"billing", "Project">>, <<"billing", "Label">>,
     <<"billing", "Usage">>, <<"billing", "Credit">>, <<"billing", "Location">>,
     <<"billing", "ServiceCost">>, <<"billing", "ProjectCost">>,
     <<"billing", "DailyCost">>, <<"billing", "SKUCost">>,
     <<"billing", "PeriodComparison">>, <<"billing", "CostReport">>,
     <<"google", "Timestamp">>>>,
   deps |-> <<1, 2, 3, 14, 14, 5, 6, 7, 4, 8, 8, 8, 9, 10, 11>>]
-----------------------------------------------------------------------------
\* capture/etchings/v1alpha1/etchings.pb.go
etchings_Etching == [name |-> Str(1), content |-> Str(2),
  create_time |-> Ref(3, <<"google", "Timestamp">>)]
etchings_CreateEtchingRequest == [content |-> Str(1)]
etchings_CreateEtchingResponse == [etching |-> Ref(1, <<"etchings", "Etching">>)]
etchings_ListEtchingsRequest == [page_size |-> Num(1), page_token |-> Str(2)]
etchings_ListEtchingsResponse == [etchings |-> Many(1, <<"etchings", "Etching">>),
  total_count |-> Num(2), next_page_token |-> Str(3)]
etchings_GetEtchingRequest == [id |-> Str(1)]
etchings_GetEtchingResponse == [etching |-> Ref(1, <<"etchings", "Etching">>)]
etchings_DeleteEtchingRequest == [id |-> Str(1)]
etchings_DeleteEtchingResponse == NoFields
etchings_file ==
  [messages |-> [Etching |-> etchings_Etching,
     CreateEtchingRequest |-> etchings_CreateEtchingRequest,
     CreateEtchingResponse |-> etchings_CreateEtchingResponse,
     ListEtchingsRequest |-> etchings_ListEtchingsRequest,
     ListEtchingsResponse |-> etchings_ListEtchingsResponse,
     GetEtchingRequest |-> etchings_GetEtchingRequest,
     GetEtchingResponse |-> etchings_GetEtchingResponse,
     DeleteEtchingRequest |-> etchings_DeleteEtchingRequest,
     DeleteEtchingResponse |-> etchings_DeleteEtchingResponse],
   enums |-> NoFields,
   types |-> <<<<"etchings", "Etching">>, <<"etchings", "CreateEtchingRequest">>,
     <<"etchings", "CreateEtchingResponse">>, <<"etchings", "ListEtchingsRequest">>,
     <<"etchings", "ListEtchingsResponse">>, <<"etchings", "GetEtchingRequest">>,
     <<"etchings", "GetEtchingResponse">>, <<"etchings", "DeleteEtchingRequest">>,
     <<"etchings", "DeleteEtchingResponse">>, <<"google", "Timestamp">>>>,
   deps |-> <<9, 0, 0, 0, 1, 3, 5, 7, 2, 4, 6, 8>>]
-----------------------------------------------------------------------------
\* collaboration/board/v1alpha1/board.pb.go
board_BoardItem == [id |-> Str(1), title |-> Str(2), status |-> Str(3),
  content_url |-> Str(4), repository |-> Str(5)]
board_BoardField == [id |-> Str(1), name |-> Str(2),
  options |-> Many(3, <<"board", "BoardFieldOption">>)]
board_BoardFieldOption == [id |-> Str(1), name |-> Str(2)]
board_ListBoardItemsRequest == [owner |-> Str(1), project_number |-> Num(2),
  page_size |-> Num(3), page_token |-> Str(4)]
board_ListBoardItemsResponse == [items |-> Many(1, <<"board", "BoardItem">>),
  next_page_token |-> Str(2)]
board_GetBoardFieldsRequest == [owner |-> Str(1), project_number |-> Num(2)]
board_GetBoardFieldsResponse == [fields |-> Many(1, <<"board", "BoardField">>)]
board_UpdateBoardItemStatusRequest == [owner |-> Str(1), project_number |-> Num(2),
  issue_url |-> Str(3), status |-> Str(4)]
board_UpdateBoardItemStatusResponse == [item |-> Ref(1, <<"board", "BoardItem">>)]
board_AddItemToBoardRequest == [owner |-> Str(1), project_number |-> Num(2),
  issue_url |-> Str(3)]
board_AddItemToBoardResponse == [item |-> Ref(1, <<"board", "BoardItem">>)]
board_file ==
  [messages |-> [BoardItem |-> board_BoardItem, BoardField |-> board_BoardField,
     BoardFieldOption |-> board_BoardFieldOption,
     ListBoardItemsRequest |-> board_ListBoardItemsRequest,
     ListBoardItemsResponse |-> board_ListBoardItemsResponse,
     GetBoardFieldsRequest |-> board_GetBoardFieldsRequest,
     GetBoardFieldsResponse |-> board_GetBoardFieldsResponse,
     UpdateBoardItemStatusRequest |-> board_UpdateBoardItemStatusRequest,
     UpdateBoardItemStatusResponse |-> board_UpdateBoardItemStatusResponse,
     AddItemToBoardRequest |-> board_AddItemToBoardRequest,
     AddItemToBoardResponse |-> board_AddItemToBoardResponse],
   enums |-> NoFields,
   types |-> <<<<"board", "BoardItem">>, <<"board", "BoardField">>,
     <<"board", "BoardFieldOption">>, <<"board", "ListBoardItemsRequest">>,
     <<"board", "ListBoardItemsResponse">>, <<"board", "GetBoardFieldsRequest">>,
     <<"board", "GetBoardFieldsResponse">>, <<"board", "UpdateBoardItemStatusRequest">>,
     <<"board", "UpdateBoardItemStatusResponse">>, <<"board", "AddItemToBoardRequest">>,
     <<"board", "AddItemToBoardResponse">>>>,
   deps |-> <<2, 0, 1, 0, 0, 3, 5, 7, 9, 4, 6, 8, 10>>]
-----------------------------------------------------------------------------
\* collaboration/friction/v1alpha1/friction.pb.go
friction_FrictionStatus == <<"FRICTION_STATUS_UNSPECIFIED", "FRICTION_STATUS_NEW",
  "FRICTION_STATUS_ACKNOWLEDGED", "FRICTION_STATUS_RESOLVED">>
friction_FrictionCategory == <<"FRICTION_CATEGORY_UNSPECIFIED",
  "FRICTION_CATEGORY_TOOLING", "FRICTION_CATEGORY_PROCESS",
  "FRICTION_CATEGORY_COMMUNICATION", "FRICTION_CATEGORY_DEBT">>
friction_Friction == [name |-> Str(1), description |-> Str(2),
  category |-> EnumOf(3, <<"friction", "FrictionCategory">>),
  status |-> EnumOf(4, <<"friction", "FrictionStatus">>), sprint |-> Str(5),
  create_time |-> Ref(6, <<"google", "Timestamp">>)]
friction_LogFrictionRequest == [description |-> Str(1),
  category |-> EnumOf(2, <<"friction", "FrictionCategory">>), sprint |-> Str(3)]
friction_LogFrictionResponse == [friction |-> Ref(1, <<"friction", "Friction">>)]
friction_ListFrictionRequest == [status |-> EnumOf(1, <<"friction", "FrictionStatus">>),
  sprint |-> Str(2), page_size |-> Num(3), page_token |-> Str(4)]
friction_ListFrictionResponse == [items |-> Many(1, <<"friction", "Friction">>),
  next_page_token |-> Str(2), total_size |-> Num(3)]
friction_UpdateFrictionRequest == [name |-> Str(1), description |-> Str(2),
  status |-> EnumOf(3, <<"friction", "FrictionStatus">>)]
friction_UpdateFrictionResponse == [friction |-> Ref(1, <<"friction", "Friction">>)]
friction_SprintSummaryRequest == [sprint |-> Str(1)]
friction_SprintSummaryResponse == [sprint |-> Str(1), total_count |-> Num(2),
  resolved_count |-> Num(3), by_category |-> Many(4, <<"friction", "ByCategoryEntry">>),
  top_unresolved |-> Many(5, <<"friction", "Friction">>)]
friction_file ==
  [messages |-> [Friction |-> friction_Friction,
     LogFrictionRequest |-> friction_LogFrictionRequest,
     LogFrictionResponse |-> friction_LogFrictionResponse,
     ListFrictionRequest |-> friction_ListFrictionRequest,
     ListFrictionResponse |-> friction_ListFrictionResponse,
     UpdateFrictionRequest |-> friction_UpdateFrictionRequest,
     UpdateFrictionResponse |-> friction_UpdateFrictionResponse,
     SprintSummaryRequest |-> friction_SprintSummaryRequest,
     SprintSummaryResponse |-> friction_SprintSummaryResponse],
   enums |-> [FrictionStatus |-> friction_FrictionStatus,
     FrictionCategory |-> friction_FrictionCategory],
   types |-> <<<<"friction", "FrictionStatus">>, <<"friction", "FrictionCategory">>,
     <<"friction", "Friction">>, <<"friction", "LogFrictionRequest">>,
     <<"friction", "LogFrictionResponse">>, <<"friction", "ListFrictionRequest">>,
     <<"friction", "ListFrictionResponse">>, <<"friction", "UpdateFrictionRequest">>,
     <<"friction", "UpdateFrictionResponse">>, <<"friction", "SprintSummaryRequest">>,
     <<"friction", "SprintSummaryResponse">>, <<"friction", "ByCategoryEntry">>,
     <<"google", "Timestamp">>>>,
   deps |-> <<1, 0, 12, 1, 2, 0, 2, 0, 2, 11, 2, 3, 5, 7, 9, 4, 6, 8, 10>>]
-----------------------------------------------------------------------------
\* collaboration/ideas/v1alpha1/ideas.pb.go
ideas_IdeaStatus == <<"IDEA_STATUS_UNSPECIFIED", "IDEA_STATUS_NEW",
  "IDEA_STATUS_IN_PROGRESS", "IDEA_STATUS_DONE">>
ideas_Idea == [name |-> Str(1), text |-> Str(2),
  create_time |-> Ref(3, <<"google", "Timestamp">>),
  status |-> EnumOf(4, <<"ideas", "IdeaStatus">>)]
ideas_CreateIdeaRequest == [text |-> Str(1)]
ideas_CreateIdeaResponse == [idea |-> Ref(1, <<"ideas", "Idea">>)]
ideas_GetIdeaRequest == [name |-> Str(1)]
ideas_GetIdeaResponse == [idea |-> Ref(1, <<"ideas", "Idea">>)]
ideas_ListIdeasRequest == [page_size |-> Num(1), page_token |-> Str(2),
  status |-> EnumOf(3, <<"ideas", "IdeaStatus">>)]
ideas_ListIdeasResponse == [ideas |-> Many(1, <<"ideas", "Idea">>),
  next_page_token |-> Str(2), total_size |-> Num(3)]
ideas_UpdateIdeaRequest == [name |-> Str(1), text |-> Str(2),
  status |-> EnumOf(3, <<"ideas", "IdeaStatus">>)]
ideas_UpdateIdeaResponse == [idea |-> Ref(1, <<"ideas", "Idea">>)]
ideas_DeleteIdeaRequest == [name |-> Str(1)]
ideas_DeleteIdeaResponse == NoFields
ideas_file ==
  [messages |-> [Idea |-> ideas_Idea, CreateIdeaRequest |-> ideas_CreateIdeaRequest,
     CreateIdeaResponse |-> ideas_CreateIdeaResponse,
     GetIdeaRequest |-> ideas_GetIdeaRequest, GetIdeaResponse |-> ideas_GetIdeaResponse,
     ListIdeasRequest |-> ideas_ListIdeasRequest,
     ListIdeasResponse |-> ideas_ListIdeasResponse,
     UpdateIdeaRequest |-> ideas_UpdateIdeaRequest,
     UpdateIdeaResponse |-> ideas_UpdateIdeaResponse,
     DeleteIdeaRequest |-> ideas_DeleteIdeaRequest,
     DeleteIdeaResponse |-> ideas_DeleteIdeaResponse],
   enums |-> [IdeaStatus |-> ideas_IdeaStatus],
   types |-> <<<<"ideas", "IdeaStatus">>, <<"ideas", "Idea">>,
     <<"ideas", "CreateIdeaRequest">>, <<"ideas", "CreateIdeaResponse">>,
     <<"ideas", "GetIdeaRequest">>, <<"ideas", "GetIdeaResponse">>,
     <<"ideas", "ListIdeasRequest">>, <<"ideas", "ListIdeasResponse">>,
     <<"ideas", "UpdateIdeaRequest">>, <<"ideas", "UpdateIdeaResponse">>,
     <<"ideas", "DeleteIdeaRequest">>, <<"ideas", "DeleteIdeaResponse">>,
     <<"google", "Timestamp">>>>,
   deps |-> <<12, 0, 1, 1, 0, 1, 0, 1, 2, 4, 6, 8, 10, 3, 5, 7, 9, 11>>]
-----------------------------------------------------------------------------
\* collaboration/issues/v1alpha1/issues.pb.go
issues_IssueState == <<"ISSUE_STATE_UNSPECIFIED", "ISSUE_STATE_OPEN",
  "ISSUE_STATE_CLOSED">>
issues_MilestoneState == <<"MILESTONE_STATE_UNSPECIFIED", "MILESTONE_STATE_OPEN",
  "MILESTONE_STATE_CLOSED">>
issues_Issue == [number |-> Num(1), title |-> Str(2), body |-> Str(3),
  state |-> EnumOf(4, <<"issues", "IssueState">>), labels |-> Many(5, Scalar),
  assignees |-> Many(6, Scalar), html_url |-> Str(7), milestone |-> Str(8)]
issues_Label == [name |-> Str(1), color |-> Str(2), description |-> Str(3)]
issues_Milestone == [number |-> Num(1), title |-> Str(2), description |-> Str(3),
  state |-> EnumOf(4, <<"issues", "MilestoneState">>),
  due_on |-> Ref(5, <<"google", "Timestamp">>)]
issues_CreateIssueRequest == [title |-> Str(1), body |-> Str(2),
  labels |-> Many(3, Scalar), assignees |-> Many(4, Scalar), repo |-> Str(5)]
issues_CreateIssueResponse == [issue |-> Ref(1, <<"issues", "Issue">>)]
issues_ListIssuesRequest == [state |-> EnumOf(1, <<"issues", "IssueState">>),
  labels |-> Many(2, Scalar), assignee |-> Str(3), repo |-> Str(4),
  page_size |-> Num(5), page_token |-> Str(6)]
issues_ListIssuesResponse == [issues |-> Many(1, <<"issues", "Issue">>),
  next_page_token |-> Str(2)]
issues_GetIssueRequest == [number |-> Num(1), repo |-> Str(2)]
issues_GetIssueResponse == [issue |-> Ref(1, <<"issues", "Issue">>)]
issues_UpdateIssueRequest == [number |-> Num(1),
  state |-> EnumOf(2, <<"issues", "IssueState">>), labels |-> Many(3, Scalar),
  assignees |-> Many(4, Scalar), repo |-> Str(5), title |-> Str(6), body |-> Str(7),
  milestone |-> Num(8)]
issues_UpdateIssueResponse == [issue |-> Ref(1, <<"issues", "Issue">>)]
issues_ListMilestonesRequest == [repo |-> Str(1),
  state |-> EnumOf(2, <<"issues", "MilestoneState">>), page_size |-> Num(3),
  page_token |-> Str(4)]
issues_ListMilestonesResponse == [milestones |-> Many(1, <<"issues", "Milestone">>),
  next_page_token |-> Str(2)]
issues_CreateMilestoneRequest == [repo |-> Str(1), title |-> Str(2),
  description |-> Str(3), due_on |-> Ref(4, <<"google", "Timestamp">>)]
issues_CreateMilestoneResponse == [milestone |-> Ref(1, <<"issues", "Milestone">>)]
issues_UpdateMilestoneRequest == [repo |-> Str(1), number |-> Num(2), title |-> Str(3),
  description |-> Str(4), state |-> EnumOf(5, <<"issues", "MilestoneState">>),
  due_on |-> Ref(6, <<"google", "Timestamp">>)]
issues_UpdateMilestoneResponse == [milestone |-> Ref(1, <<"issues", "Milestone">>)]
issues_SearchIssuesRequest == [query |-> Str(1)]
issues_SearchIssuesResponse == [issues |-> Many(1, <<"issues", "Issue">>),
  total_count |-> Num(2)]
issues_GetLabelRequest == [repo |-> Str(1), name |-> Str(2)]
issues_GetLabelResponse == [label |-> Ref(1, <<"issues", "Label">>)]
issues_BatchGetIssuesRequest == [repo |-> Str(1), numbers |-> Many(2, Scalar)]
issues_BatchGetIssuesResponse == [issues |-> Many(1, <<"issues", "Issue">>)]
issues_AddSubIssueRequest == [repo |-> Str(1), parent_number |-> Num(2),
  child_number |-> Num(3)]
issues_AddSubIssueResponse == NoFields
issues_SetIssueTypeRequest == [repo |-> Str(1), number |-> Num(2), type_name |-> Str(3)]
issues_SetIssueTypeResponse == NoFields
issues_UpdateBoardFieldRequest == [owner |-> Str(1), project_number |-> Num(2),
  issue_url |-> Str(3), field_name |-> Str(4), option_name |-> Str(5)]
issues_UpdateBoardFieldResponse == NoFields
issues_file ==
  [messages |-> [Issue |-> issues_Issue, Label |-> issues_Label,
     Milestone |-> issues_Milestone, CreateIssueRequest |-> issues_CreateIssueRequest,
     CreateIssueResponse |-> issues_CreateIssueResponse,
     ListIssuesRequest |-> issues_ListIssuesRequest,
     ListIssuesResponse |-> issues_ListIssuesResponse,
     GetIssueRequest |-> issues_GetIssueRequest,
     GetIssueResponse |-> issues_GetIssueResponse,
     UpdateIssueRequest |-> issues_UpdateIssueRequest,
     UpdateIssueResponse |-> issues_UpdateIssueResponse,
     ListMilestonesRequest |-> issues_ListMilestonesRequest,
     ListMilestonesResponse |-> issues_ListMilestonesResponse,
     CreateMilestoneRequest |-> issues_CreateMilestoneRequest,
     CreateMilestoneResponse |-> issues_CreateMilestoneResponse,
     UpdateMilestoneRequest |-> issues_UpdateMilestoneRequest,
     UpdateMilestoneResponse |-> issues_UpdateMilestoneResponse,
     SearchIssuesRequest |-> issues_SearchIssuesRequest,
     SearchIssuesResponse |-> issues_SearchIssuesResponse,
     GetLabelRequest |-> issues_GetLabelRequest,
     GetLabelResponse |-> issues_GetLabelResponse,
     BatchGetIssuesRequest |-> issues_BatchGetIssuesRequest,
     BatchGetIssuesResponse |-> issues_BatchGetIssuesResponse,
     AddSubIssueRequest |-> issues_AddSubIssueRequest,
     AddSubIssueResponse |-> issues_AddSubIssueResponse,
     SetIssueTypeRequest |-> issues_SetIssueTypeRequest,
     SetIssueTypeResponse |-> issues_SetIssueTypeResponse,
     UpdateBoardFieldRequest |-> issues_UpdateBoardFieldRequest,
     UpdateBoardFieldResponse |-> issues_UpdateBoardFieldResponse],
   enums |-> [IssueState |-> issues_IssueState,
     MilestoneState |-> issues_MilestoneState],
   types |-> <<<<"issues", "IssueState">>, <<"issues", "MilestoneState">>,
     <<"issues", "Issue">>, <<"issues", "Label">>, <<"issues", "Milestone">>,
     <<"issues", "CreateIssueRequest">>, <<"issues", "CreateIssueResponse">>,
     <<"issues", "ListIssuesRequest">>, <<"issues", "ListIssuesResponse">>,
     <<"issues", "GetIssueRequest">>, <<"issues", "GetIssueResponse">>,
     <<"issues", "UpdateIssueRequest">>, <<"issues", "UpdateIssueResponse">>,
     <<"issues", "ListMilestonesRequest">>, <<"issues", "ListMilestonesResponse">>,
     <<"issues", "CreateMilestoneRequest">>, <<"issues", "CreateMilestoneResponse">>,
     <<"issues", "UpdateMilestoneRequest">>, <<"issues", "UpdateMilestoneResponse">>,
     <<"issues", "SearchIssuesRequest">>, <<"issues", "SearchIssuesResponse">>,
     <<"issues", "GetLabelRequest">>, <<"issues", "GetLabelResponse">>,
     <<"issues", "BatchGetIssuesRequest">>, <<"issues", "BatchGetIssuesResponse">>,
     <<"issues", "AddSubIssueRequest">>, <<"issues", "AddSubIssueResponse">>,
     <<"issues", "SetIssueTypeRequest">>, <<"issues", "SetIssueTypeResponse">>,
     <<"issues", "UpdateBoardFieldRequest">>, <<"issues", "UpdateBoardFieldResponse">>,
     <<"google", "Timestamp">>>>,
   deps |-> <<0, 1, 31, 2, 0, 2, 2, 0, 2, 1, 4, 31, 4, 1, 31, 4, 2, 3, 2, 5, 7, 9, 11,
     13, 15, 17, 19, 21, 23, 25, 27, 29, 6, 8, 10, 12, 14, 16, 18, 20, 22, 24, 26, 28,
     30>>]
-----------------------------------------------------------------------------
\* collaboration/pulls/v1alpha1/pulls.pb.go
pulls_PullRequest == [number |-> Num(1), title |-> Str(2), html_url |-> Str(3),
  state |-> Str(4), merged |-> Bool(5)]
pulls_CreatePullRequestRequest == [repo |-> Str(1), title |-> Str(2), body |-> Str(3),
  head |-> Str(4), base |-> Str(5), draft |-> Bool(6)]
pulls_CreatePullRequestResponse == [pull_request |-> Ref(1, <<"pulls", "PullRequest">>)]
pulls_MergePullRequestRequest == [repo |-> Str(1), number |-> Num(2),
  merge_method |-> Str(3), commit_title |-> Str(4)]
pulls_MergePullRequestResponse == [sha |-> Str(1), merged |-> Bool(2),
  message |-> Str(3)]
pulls_file ==
  [messages |-> [PullRequest |-> pulls_PullRequest,
     CreatePullRequestRequest |-> pulls_CreatePullRequestRequest,
     CreatePullRequestResponse |-> pulls_CreatePullRequestResponse,
     MergePullRequestRequest |-> pulls_MergePullRequestRequest,
     MergePullRequestResponse |-> pulls_MergePullRequestResponse],
   enums |-> NoFields,
   types |-> <<<<"pulls", "PullRequest">>, <<"pulls", "CreatePullRequestRequest">>,
     <<"pulls", "CreatePullRequestResponse">>, <<"pulls", "MergePullRequestRequest">>,
     <<"pulls", "MergePullRequestResponse">>>>,
   deps |-> <<0, 1, 3, 2, 4>>]
=============================================================================
