------------------------- MODULE NextOrganizations --------------------------
(***************************************************************************)
(* Organisations of the Next.js backend: their members, the invitations    *)
(* and the administrator's suspension.  An organisation is known by its    *)
(* slug, an invitation by its token, which goes to one e-mail address.     *)
(* Whoever asks is the user the router has authenticated.                  *)
(***************************************************************************)
EXTENDS NextCommon

CONSTANTS
    Orgs,              \* slugs
    OrgNames,
    Invitations

VARIABLES
    orgStatus,         \* "none" before the organisation exists
    orgName,
    member,            \* member[o][u]: the role of a membership that is not revoked
    invitation,        \* the row of an invitation
    answered           \* the invitation the last step accepted, for the properties

organizationVars == <<orgStatus, orgName, member, invitation, answered>>

Roles == {"OWNER", "ADMIN", "MEMBER"}

Suspended(o) == orgStatus[o] = "SUSPENDED"

\* requireRole.
May(u, o, roles) == member[o][u] \in roles

Nobody == [state |-> "unused", org |-> None, email |-> None, role |-> "none"]

SetMember(o, u, r) == member' = [member EXCEPT ![o][u] = r]

NothingAccepted == answered' = {}

-----------------------------------------------------------------------------
Create(u, o, n) ==
    /\ orgStatus[o] = "none"
    /\ orgStatus' = [orgStatus EXCEPT ![o] = "ACTIVE"]
    /\ orgName' = [orgName EXCEPT ![o] = n]
    /\ SetMember(o, u, "OWNER")
    /\ NothingAccepted
    /\ UNCHANGED invitation

Update(u, o, n) ==
    /\ May(u, o, {"OWNER", "ADMIN"})
    /\ ~Suspended(o)
    /\ orgName' = [orgName EXCEPT ![o] = n]
    /\ NothingAccepted
    /\ UNCHANGED <<orgStatus, member, invitation>>

\* Open invitations of the address are withdrawn first.
Invite(u, o, email, r, i) ==
    /\ May(u, o, {"OWNER", "ADMIN"})
    /\ ~Suspended(o)
    /\ invitation[i].state = "unused"
    /\ invitation' =
          [j \in Invitations |->
              IF j = i THEN [state |-> "open", org |-> o, email |-> email, role |-> r]
              ELSE IF invitation[j].state = "open" /\ invitation[j].org = o
                        /\ invitation[j].email = email
                   THEN [invitation[j] EXCEPT !.state = "closed"]
              ELSE invitation[j]]
    /\ NothingAccepted
    /\ UNCHANGED <<orgStatus, orgName, member>>

Addressed(u, i) == invitation[i].state = "open" /\ invitation[i].email = u

\* Whatever the user was before, the invitation's role replaces it.
RespondInvitation(u, i, accept) ==
    /\ Addressed(u, i)
    /\ invitation' = [invitation EXCEPT ![i].state = "closed"]
    /\ IF accept
         THEN SetMember(invitation[i].org, u, invitation[i].role) /\ answered' = {i}
         ELSE UNCHANGED member /\ NothingAccepted
    /\ UNCHANGED <<orgStatus, orgName>>

InvitationExpires(i) ==
    /\ invitation[i].state = "open"
    /\ invitation' = [invitation EXCEPT ![i].state = "closed"]
    /\ NothingAccepted
    /\ UNCHANGED <<orgStatus, orgName, member>>

\* A member who is no owner.
Other(o, w) == member[o][w] \in {"ADMIN", "MEMBER"}

ChangeMember(u, o, w, r) ==
    /\ May(u, o, {"OWNER"})
    /\ Other(o, w)
    /\ SetMember(o, w, r)
    /\ NothingAccepted
    /\ UNCHANGED <<orgStatus, orgName, invitation>>

\* Mutant: an owner may be removed like anyone else.
RemoveMember_Anyone(u, o, w) ==
    /\ May(u, o, {"OWNER", "ADMIN"})
    /\ member[o][w] # "none"
    /\ SetMember(o, w, "none")
    /\ NothingAccepted
    /\ UNCHANGED <<orgStatus, orgName, invitation>>

RemoveMember(u, o, w) ==
    /\ May(u, o, {"OWNER", "ADMIN"})
    /\ Other(o, w)
    /\ SetMember(o, w, "none")
    /\ NothingAccepted
    /\ UNCHANGED <<orgStatus, orgName, invitation>>

Leave(u, o) ==
    /\ Other(o, u)
    /\ SetMember(o, u, "none")
    /\ NothingAccepted
    /\ UNCHANGED <<orgStatus, orgName, invitation>>

UpdateOrganizationStatus(o, s) ==
    /\ orgStatus[o] # "none"
    /\ orgStatus' = [orgStatus EXCEPT ![o] = s]
    /\ NothingAccepted
    /\ UNCHANGED <<orgName, member, invitation>>

-----------------------------------------------------------------------------
OrganizationInit ==
    /\ orgStatus = [o \in Orgs |-> "none"]
    /\ orgName = [o \in Orgs |-> None]
    /\ member = [o \in Orgs |-> [u \in Users |-> "none"]]
    /\ invitation = [i \in Invitations |-> Nobody]
    /\ answered = {}

OrganizationNext ==
    \/ \E u, w \in Users, o \in Orgs :
          \/ \E n \in OrgNames : Create(u, o, n) \/ Update(u, o, n)
          \/ \E r \in {"ADMIN", "MEMBER"} :
                \/ ChangeMember(u, o, w, r)
                \/ \E i \in Invitations : Invite(u, o, w, r, i)
          \/ RemoveMember(u, o, w)
          \/ Leave(u, o)
    \/ \E o \in Orgs, s \in {"ACTIVE", "SUSPENDED"} : UpdateOrganizationStatus(o, s)
    \/ \E i \in Invitations :
          \/ InvitationExpires(i)
          \/ \E u \in Users, accept \in BOOLEAN : RespondInvitation(u, i, accept)

OrganizationSpec == OrganizationInit /\ [][OrganizationNext]_organizationVars

-----------------------------------------------------------------------------
(* Properties *)

\* Every field has its type.
OrganizationTypeOK ==
    /\ orgStatus \in [Orgs -> {"none", "ACTIVE", "SUSPENDED"}]
    /\ orgName \in [Orgs -> OrgNames \cup {None}]
    /\ member \in [Orgs -> [Users -> Roles \cup {"none"}]]
    /\ invitation \in [Invitations -> [state : {"unused", "open", "closed"},
                                       org : Orgs \cup {None}, email : Users \cup {None},
                                       role : {"ADMIN", "MEMBER", "none"}]]
    /\ answered \subseteq Invitations

Owners(o) == {u \in Users : member[o][u] = "OWNER"}

\* The owner of an organisation is one person at most, from its creation on, and stays it
\* unless that very person accepts an invitation to another role: no administrator,
\* member or platform action, in any order, takes an owner away or makes a second one.
OwnerDecides ==
    [][\A o \in Orgs, u \in Users :
          /\ u \in Owners(o) /\ u \notin Owners(o)' =>
                \E i \in answered' : invitation[i].org = o /\ invitation[i].email = u
          /\ u \in Owners(o)' /\ u \notin Owners(o) => orgStatus[o] = "none"]_organizationVars
=============================================================================
