-------------------------- MODULE OrganizationReads --------------------------
(***************************************************************************)
(* What the read operations (list_organizations, list_members,             *)
(* list_for_subject, get_organization) are asked and what they refuse.     *)
(***************************************************************************)
EXTENDS OrganizationService

CONSTANT DirectoryCallers  \* OrganizationConfig::directory_callers

\* The lists of Organizations, of one's members and of a subject's workspaces,
\* and the read of a single Organization.  A filter is the set of what it lets
\* through: all of it when the request has none.  "page" says that limit and
\* cursor are valid, "filter" that the rest of the request is.
ListRequest ==
  [list : {"organizations", "members", "workspaces", "organization"}, caller : Caller,
   states : SUBSET BOOLEAN, slugs : SUBSET Slug, org : Call,
   subjects : SUBSET Subject, limit : Nat \ {0}, page : BOOLEAN, filter : BOOLEAN]

\* Mutant: an archived Organization is not found.
GetActive(o) == {g \in orgs : g.id = o /\ g.active}

\* get_organization: the row, or organization_not_found.
GetAnswer(o) == {g \in orgs : g.id = o}

-----------------------------------------------------------------------------
(* What the handlers refuse, in their order. *)

RefusesOrganizations(w, e) ==
  \/ e = "forbidden" /\ w.caller \notin AdminCallers
  \/ e = "invalid_page" /\ w.caller \in AdminCallers /\ ~w.page
  \/ e = "invalid_request" /\ w.caller \in AdminCallers /\ w.page /\ ~w.filter

RefusesMembers(w, e) ==
  \/ e = "forbidden" /\ w.caller \notin MembershipAdminCallers
  \/ e = "invalid_page" /\ w.caller \in MembershipAdminCallers /\ ~w.page
  \/ /\ w.caller \in MembershipAdminCallers /\ w.page
     /\ \/ e = "invalid_request" /\ ~w.filter
        \/ e = "organization_not_found" /\ w.filter /\ GetAnswer(w.org) = {}

RefusesWorkspaces(w, e) ==
  \/ e = "forbidden" /\ w.caller \notin DirectoryCallers
  \/ e = "invalid_request" /\ w.caller \in DirectoryCallers /\ ~(w.page /\ w.filter)

RefusesGet(w, e) ==
  \/ e = "forbidden" /\ w.caller \notin DirectoryCallers
  \/ e = "invalid_request" /\ w.caller \in DirectoryCallers /\ ~w.filter
  \/ /\ e = "organization_not_found" /\ w.caller \in DirectoryCallers /\ w.filter
     /\ GetAnswer(w.org) = {}

ListRefusals == {"forbidden", "invalid_page", "invalid_request", "organization_not_found"}

Refuses(w, e) ==
  \/ w.list = "organizations" /\ RefusesOrganizations(w, e)
  \/ w.list = "members" /\ RefusesMembers(w, e)
  \/ w.list = "workspaces" /\ RefusesWorkspaces(w, e)
  \/ w.list = "organization" /\ RefusesGet(w, e)

=============================================================================
