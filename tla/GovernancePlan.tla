--------------------------- MODULE GovernancePlan ---------------------------
(***************************************************************************)
(* governance/plan, hierarchy, classification, scope and exports: what a   *)
(* governance plan may hold on each tier.  A text is a sequence of parts,  *)
(* <<>> the empty one; an error is named after the check that failed, and  *)
(* "nil" is none.                                                          *)
(***************************************************************************)
EXTENDS Integers, Sequences, FiniteSets, SequencesExt

Empty == <<>>

\* The first error of a list of checks.
First(errs) ==
  LET bad == {i \in DOMAIN errs : errs[i] # "nil"}
  IN IF bad = {} THEN "nil" ELSE errs[CHOOSE i \in bad : \A j \in bad : i <= j]
Check(holds, err) == IF holds THEN "nil" ELSE err

Organization == 0
Container == 1
SupportsClassification(s) == s = Organization
SupportsOrgExport(s) == s = Organization
ScopeString(s) == CASE s = Organization -> "organization"
                    [] s = Container -> "container"
                    [] OTHER -> "unknown"

\* hierarchy.Config.
ValidateBase(h) == First(<<Check(h.Parent # Empty, "ErrParentRequired"),
                           Check(h.RootName # Empty, "ErrRootNameRequired")>>)

\* Names one after another: an empty one, or one seen before, ends the check.
Listed(names, empty, dup) ==
  First([i \in DOMAIN names |->
           IF names[i] = Empty THEN empty
           ELSE IF \E j \in 1 .. i - 1 : names[j] = names[i] THEN dup ELSE "nil"])

ValidateChildren(h) == Listed(h.Children, "ErrEmptyChild", "ErrDuplicateChild")

HierarchyValidate(h) ==
  First(<<ValidateBase(h), Check(h.Children # <<>>, "ErrNoChildren"), ValidateChildren(h)>>)

\* classification.Dimension.
DimensionValidate(d) == First(<<Check(d.ShortName # Empty, "ErrShortNameRequired"),
                                Check(d.Description # Empty, "ErrDescriptionRequired")>>)

ValidateAll(dims) ==
  First(<<Check(dims # <<>>, "ErrNoDimensions")>>
        \o [i \in DOMAIN dims |->
              First(<<DimensionValidate(dims[i]),
                      Check(\A j \in 1 .. i - 1 : dims[j].ShortName # dims[i].ShortName,
                            "ErrDuplicateShortName")>>)])
-----------------------------------------------------------------------------
Starter == 0
Standard == 1
Enterprise == 2

TierString(t) == CASE t = Starter -> "starter" [] t = Standard -> "standard"
                   [] t = Enterprise -> "enterprise" [] OTHER -> "unknown"
ParseTier(s) == IF \E t \in 0 .. 2 : TierString(t) = s
                THEN [err |-> "nil", tier |-> CHOOSE t \in 0 .. 2 : TierString(t) = s]
                ELSE [err |-> "ErrUnknownTier", tier |-> 0]

Tier(holds) == Check(holds, "ErrTierViolation")

validateStarter(p) == First(<<Tier(p.Hierarchy.Children = <<>>), Tier(p.Dimensions = <<>>),
                              Tier(p.BillingAccount = Empty)>>)

validateStandard(p) ==
  First(<<Tier(p.Hierarchy.Children # <<>>), ValidateChildren(p.Hierarchy),
          Tier(p.Dimensions = <<>>), Tier(p.BillingAccount = Empty)>>)

validateEnterprise(p) ==
  First(<<Tier(p.Scope = Organization), Tier(p.Hierarchy.Children # <<>>),
          ValidateChildren(p.Hierarchy),
          IF p.Dimensions = <<>> THEN "nil" ELSE ValidateAll(p.Dimensions)>>)

\* A tier that is none of the three has no rules.
validateTier(p) == CASE p.Tier = Starter -> validateStarter(p)
                     [] p.Tier = Standard -> validateStandard(p)
                     [] p.Tier = Enterprise -> validateEnterprise(p)
                     [] OTHER -> "nil"

validateScope(p) == Check(SupportsOrgExport(p.Scope) <=> p.OrgID # Empty,
                          "ErrScopeViolation")

PlanValidate(p) == First(<<ValidateBase(p.Hierarchy), validateTier(p), validateScope(p)>>)

\* A plan, or the error that refused it.
Checked(p) == [err |-> PlanValidate(p), plan |-> p]

NewStarter(s, parent, root, orgID) ==
  Checked([Tier |-> Starter, Scope |-> s, Dimensions |-> <<>>, BillingAccount |-> Empty,
           Hierarchy |-> [Parent |-> parent, RootName |-> root, Children |-> <<>>],
           OrgID |-> orgID])

NewStandard(s, parent, root, environments, orgID) ==
  Checked([Tier |-> Standard, Scope |-> s, Dimensions |-> <<>>, BillingAccount |-> Empty,
           Hierarchy |-> [Parent |-> parent, RootName |-> root, Children |-> environments],
           OrgID |-> orgID])

NewEnterprise(parent, root, environments, dims, billing, orgID) ==
  Checked([Tier |-> Enterprise, Scope |-> Organization, Dimensions |-> dims,
           BillingAccount |-> billing,
           Hierarchy |-> [Parent |-> parent, RootName |-> root, Children |-> environments],
           OrgID |-> orgID])

\* exports.TagKeyID.
TagKeyID(dimension) == dimension \o <<"TagKeyId">>
=============================================================================
