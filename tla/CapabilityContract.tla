------------------------- MODULE CapabilityContract -------------------------
(***************************************************************************)
(* The four generated Capability contracts: of each operation the fields a *)
(* request and a response must have, the Domain Errors it knows, and how a *)
(* Domain Error crosses a portable lane.                                   *)
(***************************************************************************)

\* Every field is required, those that may be null included.
CreateOrganizationShape ==
  [request |-> {"idempotency_key", "name", "owner_subject", "slug"},
   response |-> {"created", "organization_id", "owner_membership_id"}]
ListOrganizationsShape ==
  [request |-> {"cursor", "limit", "slug", "status"},
   response |-> {"next_cursor", "organizations"}]
AddMemberShape ==
  [request |-> {"idempotency_key", "organization_id", "subject"},
   response |-> {"created", "membership_id", "revision"}]
ListMembersShape ==
  [request |-> {"cursor", "limit", "organization_id", "status", "subject"},
   response |-> {"members", "next_cursor", "organization_id"}]
RemoveMemberShape ==
  [request |-> {"idempotency_key", "organization_id", "subject"},
   response |-> {"membership_id", "removed", "revision"}]
CheckMembershipShape ==
  [request |-> {"organization_id", "subject"}, response |-> {"active", "owner"}]
GetOrganizationShape ==
  [request |-> {"organization_id"},
   response |-> {"active", "name", "organization_id", "revision", "slug"}]
ListForSubjectShape ==
  [request |-> {"after", "limit", "subject"}, response |-> {"items", "next_cursor"}]

CreateOrganizationError ==
  {"forbidden", "idempotency_conflict", "invalid_organization", "slug_conflict"}
ListOrganizationsError == {"forbidden", "invalid_page", "invalid_request"}
AddMemberError ==
  {"forbidden", "idempotency_conflict", "invalid_request", "organization_not_found"}
ListMembersError == {"forbidden", "invalid_page", "invalid_request", "organization_not_found"}
RemoveMemberError == AddMemberError \cup {"membership_not_found", "owner_protected"}
CheckMembershipError == {"invalid_request", "organization_not_found"}
GetOrganizationError == {"forbidden", "invalid_request", "organization_not_found"}
ListForSubjectError == {"forbidden", "invalid_request", "organization_not_found"}

\* The operations each endpoint has an arm for.
OrganizationAdmin == {"create_organization", "list_organizations"}
OrganizationMembershipAdmin == {"add_member", "list_members", "remove_member"}
OrganizationMembership == {"check_membership"}
OrganizationDirectory == {"get_organization", "list_for_subject"}

Operations ==
  OrganizationAdmin \cup OrganizationMembershipAdmin \cup OrganizationMembership
    \cup OrganizationDirectory

Shape ==
  [create_organization |-> CreateOrganizationShape, list_organizations |-> ListOrganizationsShape,
   add_member |-> AddMemberShape, list_members |-> ListMembersShape,
   remove_member |-> RemoveMemberShape, check_membership |-> CheckMembershipShape,
   get_organization |-> GetOrganizationShape, list_for_subject |-> ListForSubjectShape]

DomainErrors ==
  [create_organization |-> CreateOrganizationError, list_organizations |-> ListOrganizationsError,
   add_member |-> AddMemberError, list_members |-> ListMembersError,
   remove_member |-> RemoveMemberError, check_membership |-> CheckMembershipError,
   get_organization |-> GetOrganizationError, list_for_subject |-> ListForSubjectError]

-----------------------------------------------------------------------------
\* A Domain Error as a program holds it: a variant of its own, or Unknown
\* with the code.  The payload and other keys of Unknown are left out.
Domain(known, code) == [kind |-> "domain", known |-> known, code |-> code]

\* Mutant: every Domain Error is an object.
SerializeObject(v) == [form |-> "object", code |-> v.code]

\* Serialize: a variant is a string, Unknown an object with its code.
Serialize(v) == [form |-> IF v.known THEN "string" ELSE "object", code |-> v.code]

\* Mutant: what is not known is no Domain Error.
DeserializeStrictly(w, errors) ==
  IF w.form = "string" /\ w.code \in errors
    THEN Domain(TRUE, w.code)
    ELSE [kind |-> "runtime", known |-> TRUE, code |-> "undecodable"]

\* Deserialize, where "errors" are known: a string is a variant if it is the
\* code of one, an object is always Unknown.
Deserialize(w, errors) == Domain(w.form = "string" /\ w.code \in errors, w.code)

=============================================================================
