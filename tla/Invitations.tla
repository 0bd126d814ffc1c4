---------------------------- MODULE Invitations ----------------------------
(***************************************************************************)
(* Who belongs to an organization: invitations, memberships, permissions   *)
(* and pending permissions of one organization, changed by concurrent API  *)
(* calls (handlers/clients/invite.py, handlers/organizations/invite,       *)
(* handlers/base/invite.py, handlers/users, handlers/clients/delete.py and *)
(* the services behind them).                                              *)
(*                                                                         *)
(* Every statement that writes is an action, since database_service        *)
(* commits each on its own; reads that follow each other are one action,   *)
(* apart from those that the code compares with each other.  A call that   *)
(* is refused before its first write does not begin.  A user stands for    *)
(* the email address too: the organization has at most one invitation per  *)
(* address, so invitations and pending permissions are kept by user.       *)
(***************************************************************************)
EXTENDS Naturals, FiniteSets, TLC

CONSTANTS
  Users, Clients,       \* users (with their addresses) and clients of the organization
  Calls,                \* API calls, each made once
  Requests,             \* what each call may ask for
  InitialStates,        \* tables the calls may start from
  OpenClients,          \* clients that users of a permitted domain may join
  AllowCreateOrganization, \* features.allowCreateOrganization
  InviteIds,            \* ids of invitations, a prefix of the naturals
  Mortal,               \* bound: the calls whose process may die in the middle
  NoInvite, NoRequest, None

Roles == {"admin", "user", "uninvited"}    \* "read-only" is treated like "user"
Types == {"member", "owner"}
Accounts == {"absent", "unverified", "verified", "deleted"}
Kinds == {"invite", "uninvite", "orginvite", "modify", "orguninvite", "verify",
          "resend", "resendopen", "signup", "join", "deleteuser", "deleteclient"}
Organization == "organization"
Grants == [Clients -> Roles \cup {"missing", None}]
NoGrants == [c \in Clients |-> None]
InviteRow == [id: InviteIds, inviter: Users, type: Types]
NewId == 0     \* the id of an invitation that is not in the table yet
HeldRow == [id: InviteIds \cup {NewId}, inviter: Users, type: Types]
Request == [kind: Kinds, by: Users, to: Users, client: Clients,
            role: Roles, type: Types, grants: [Clients -> Roles \cup {None}]]
Tables == [account: [Users -> Accounts],
           membership: [Users -> Types \cup {None}],
           permission: [Users -> [Clients -> {"admin", "user", None}]],
           invite: [Users -> InviteRow \cup {NoInvite}],
           pending: [Users -> [Clients -> Roles \cup {None}]]]

ASSUME NullAssumption ==
  /\ None \notin Roles \cup Types \cup {"missing"}
  /\ NoInvite \notin HeldRow
  /\ NoRequest \notin Request
ASSUME BoundAssumption ==
  /\ InviteIds \subseteq Nat \ {NewId}
  /\ Mortal \subseteq Calls
  /\ Organization \notin Clients
  /\ AllowCreateOrganization \in BOOLEAN
ASSUME InputAssumption ==
  /\ Requests \in [Calls -> SUBSET Request]
  /\ OpenClients \subseteq Clients
  /\ InitialStates \subseteq Tables
  /\ \A s \in InitialStates, u \in Users :
       /\ s.membership[u] = None => s.permission[u] = NoGrants
       /\ s.invite[u] = NoInvite => s.pending[u] = NoGrants
       /\ s.account[u] = "absent" => s.membership[u] = None
ASSUME StartAssumption ==  \* owners were made, and invited, as the handlers do it
  \A s \in InitialStates, u \in Users :
    /\ s.membership[u] = "owner" =>
         s.permission[u] = NoGrants /\ s.invite[u] = NoInvite /\ s.account[u] # "deleted"
    /\ s.invite[u] # NoInvite /\ s.invite[u].type = "owner" => s.pending[u] = NoGrants

VARIABLES
  account,     \* users: the state of the row
  membership,  \* memberships: at most one row per user
  permission,  \* permissions: at most one row per client and user
  invite,      \* invites: at most one row per address
  pending,     \* pending_permissions of that invitation, one per client
  deleted,     \* clients with the deleted flag
  pc,          \* where each call is
  req,         \* what it was asked for
  held,        \* the invitation it has read, or is about to write
  grants,      \* the clients it has still to grant, with their roles
  current,     \* the client whose permission it is writing
  seen,        \* what it read and acts on later: the permission exists, or the
               \* user does and is prompted to verify the address
  met,         \* history: the calls that were under way at the same time
  power,       \* history: who could administer what at a moment of the call
  did,         \* history: what the call has written
  out,         \* history: users uninvited from the organization and not invited since
  promised     \* history: clients that users have been invited to, undisturbed

tables == <<account, membership, permission, invite, pending, deleted>>
locals == <<req, held, grants, current, seen>>
history == <<met, power, did, out, promised>>
vars == <<tables, pc, locals, history>>

Labels == {"idle", "drop_pending", "drop_invite", "decide", "elevate",
  "drop_permissions", "insert_membership", "upsert", "upsert_write",
  "insert_invite", "insert_pending", "unverify", "delete_permission", "count",
  "delete_membership", "find_invite", "delete_pending", "recheck",
  "delete_invite", "resend", "declare", "find_valid", "take_invite", "assert_valid",
  "visible", "create_user", "purge_permissions", "purge_membership",
  "purge_invites", "flag_user", "client_pending", "client_permissions",
  "flag_client", "stray_invites", "done", "failed", "dead"}
Ended == {"done", "failed", "dead"}
Active(r) == pc[r] \notin {"idle"} \cup Ended
Effects == {"owner", "grant", "verify"}

TypeOK ==
  /\ account \in [Users -> Accounts]
  /\ membership \in [Users -> Types \cup {None}]
  /\ permission \in [Users -> [Clients -> {"admin", "user", None}]]
  /\ invite \in [Users -> InviteRow \cup {NoInvite}]
  /\ pending \in [Users -> [Clients -> Roles \cup {None}]]
  /\ deleted \subseteq Clients
  /\ pc \in [Calls -> Labels]
  /\ req \in [Calls -> Request \cup {NoRequest}]
  /\ held \in [Calls -> HeldRow \cup {NoInvite}]
  /\ grants \in [Calls -> Grants]
  /\ current \in [Calls -> Clients \cup {None}]
  /\ seen \in [Calls -> BOOLEAN]
  /\ met \in [Calls -> SUBSET Calls]
  /\ power \in [Calls -> SUBSET (Users \X (Clients \cup {Organization}))]
  /\ did \in [Calls -> SUBSET Effects]
  /\ out \subseteq Users
  /\ promised \subseteq Users \X Clients

-----------------------------------------------------------------------------
(* What the services read *)

To(r) == req[r].to
Exists(u) == account[u] \in {"unverified", "verified"}
IsOwner(u) == membership[u] = "owner"
NoPermission(u) == \A c \in Clients : permission[u][c] = None
\* The rows of pending_permissions that belong to the invitation i of u.
PendingOf(u, i) ==
  IF invite[u] # NoInvite /\ invite[u].id = i.id THEN pending[u] ELSE NoGrants
Administers(u, c) == IsOwner(u) \/ permission[u][c] = "admin"
Authorized(u, c) == account[u] = "verified" /\ Administers(u, c)
AdministratorAct(u) == \* mutant: any administrator
  account[u] = "verified" /\ \E c \in Clients : Administers(u, c)
OwnerAct(u) == account[u] = "verified" /\ IsOwner(u)
\* The inviter has the power to grant every one of the pending permissions.
MayInviteToOne(inviter, clients) == \* mutant: any for all
  \E c \in clients : Administers(inviter, c)
MayInviteTo(inviter, clients) ==
  clients # {} /\ \A c \in clients : Administers(inviter, c)
\* _filter_to_valid_invites, for one invitation
Valid(u, i) ==
  /\ Exists(i.inviter)
  /\ membership[i.inviter] # None
  /\ IF i.type = "owner" THEN IsOwner(i.inviter)
     ELSE MayInviteTo(i.inviter, {c \in Clients : PendingOf(u, i)[c] # None})
\* find_clients_in_organizations_visible_to_user, for this organization
SeesAClient(u) ==
  \/ IsOwner(u) /\ deleted # Clients
  \/ \E c \in Clients \ deleted : membership[u] # None /\ permission[u][c] # None

(* Moving on *)
Goto(r, l) == pc' = [pc EXCEPT ![r] = l]
Set(f, r, v) == [f EXCEPT ![r] = v]
\* pc can be an expression of the others, so that a failed statement ends the call
Fail(r) == Goto(r, "failed") /\ UNCHANGED <<tables, locals>>
Keep == UNCHANGED req
KeepLocals == UNCHANGED <<held, grants, current, seen>>
Begin(r, q, l, h, g) ==
  /\ pc[r] = "idle"
  /\ req' = Set(req, r, q)
  /\ held' = Set(held, r, h)
  /\ grants' = Set(grants, r, g)
  /\ Goto(r, l)
  /\ UNCHANGED <<tables, current, seen>>

-----------------------------------------------------------------------------
(* Calls begin: authorization, and the reads before the first write *)

\* check_can_set, and the answer to an address that is an owner's
CanSetOthers(q) == q.to # q.by \* mutant: owners too
CanSet(q) == q.to # q.by /\ ~(Exists(q.to) /\ IsOwner(q.to))
\* "This email was already invited as an owner"
Replaceable(i) == i # NoInvite /\ i.type = "member"

\* get_updated_client_invites: the roles asked for replace those pending
UpdatedFromScratch(old, new) == \* mutant: those pending are not copied
  [c \in Clients |-> IF new[c] = "uninvited" THEN None ELSE new[c]]
Updated(old, new) ==
  [c \in Clients |-> CASE new[c] = None -> old[c]
                       [] new[c] = "uninvited" -> None
                       [] OTHER -> new[c]]

\* ClientsCreateInviteHandler
BeginInvite(r, q) ==
  /\ q.kind = "invite"
  /\ Authorized(q.by, q.client) /\ q.client \notin deleted /\ CanSet(q)
  /\ \/ /\ invite[q.to] = NoInvite
        /\ Begin(r, q, "decide", [id |-> NewId, inviter |-> q.by, type |-> "member"],
                 [NoGrants EXCEPT ![q.client] = q.role])
     \/ /\ Replaceable(invite[q.to])
        /\ Begin(r, q, "drop_pending", [invite[q.to] EXCEPT !.inviter = q.by],
                 Updated(pending[q.to], [NoGrants EXCEPT ![q.client] = q.role]))

\* OrganizationsCreateInviteHandler
BeginOrgInvite(r, q) ==
  /\ q.kind = "orginvite"
  /\ OwnerAct(q.by) /\ q.to # q.by /\ invite[q.to] = NoInvite
  /\ \A c \in Clients : q.grants[c] # None => c \notin deleted
  /\ (q.type = "owner") <=> (q.grants = NoGrants)
  /\ Begin(r, q, "decide", [id |-> NewId, inviter |-> q.by, type |-> q.type], q.grants)

\* OrganizationsUpdateInviteHandler
BeginModify(r, q) ==
  /\ q.kind = "modify"
  /\ OwnerAct(q.by) /\ q.to # q.by /\ invite[q.to] # NoInvite
  /\ LET old == IF q.type = "owner" THEN NoGrants ELSE pending[q.to]
         new == Updated(old, q.grants) IN
       /\ (q.type = "owner") <=> (new = NoGrants)
       /\ \A c \in Clients : new[c] # None => c \notin deleted
       /\ Begin(r, q, "drop_pending",
                [id |-> invite[q.to].id, inviter |-> q.by, type |-> q.type], new)

\* ClientsUninviteHandler
BeginUninvite(r, q) ==
  /\ q.kind = "uninvite"
  /\ Authorized(q.by, q.client) /\ q.client \notin deleted /\ CanSet(q)
  /\ Begin(r, q, IF Exists(q.to) THEN "delete_permission" ELSE "find_invite", NoInvite, NoGrants)

\* OrganizationsUninviteHandler
BeginOrgUninvite(r, q) ==
  /\ q.kind = "orguninvite"
  /\ OwnerAct(q.by) /\ CanSet(q)
  /\ Exists(q.to) \/ invite[q.to] # NoInvite
  /\ Begin(r, q, IF Exists(q.to) THEN "delete_permission" ELSE "find_invite", NoInvite, NoGrants)

\* verify_email of a login or password change that came from an email link
BeginVerify(r, q) ==
  /\ q.kind = "verify"
  /\ Exists(q.to)
  /\ Begin(r, q, "declare", NoInvite, NoGrants)

\* UsersResendVerificationEmailHandler, for the user who is logged in, verified or
\* not, and ResendVerificationEmailHandler, open to all for an unverified address
BeginResend(r, q) ==
  /\ q.kind \in {"resend", "resendopen"}
  /\ Exists(q.to)
  /\ q.kind = "resendopen" => account[q.to] = "unverified"
  /\ Begin(r, q, "resend", NoInvite, NoGrants)

\* UsersCreateHandler, with the code of the invitation or without any
BeginSignup(r, q) ==
  /\ q.kind = "signup"
  /\ account[q.to] = "absent"
  /\ \/ Begin(r, q, "create_user", NoInvite, NoGrants)
     \/ /\ invite[q.to] # NoInvite
        /\ Valid(q.to, invite[q.to])
        /\ Begin(r, q, "create_user", invite[q.to], NoGrants)

\* UsersRequestPermissionsHandler, signup_to_client_if_permitted
BeginJoin(r, q) ==
  /\ q.kind = "join"
  /\ account[q.to] = "verified" /\ q.client \in OpenClients \ deleted /\ ~IsOwner(q.to)
  /\ Begin(r, q, IF membership[q.to] = None THEN "insert_membership" ELSE "upsert",
           NoInvite, [NoGrants EXCEPT ![q.client] = "user"])

\* UsersDeleteHandler: ensure_no_orphaned_organizations, ensure_no_orphaned_clients
BeginDeleteUser(r, q) ==
  /\ q.kind = "deleteuser"
  /\ Exists(q.to)
  /\ LET others == Users \ {q.to}
         owned == \E u \in others : IsOwner(u) IN
       /\ IsOwner(q.to) => owned \/ \A u \in others : membership[u] # "member"
       /\ \A c \in Clients : permission[q.to][c] # None =>
            owned \/ \E u \in others : permission[u][c] # None
  /\ Begin(r, q, "purge_permissions", NoInvite, NoGrants)

\* ClientsDeleteHandler; the deletion of the last client, which deletes the
\* organization, is left out
BeginDeleteClient(r, q) ==
  /\ q.kind = "deleteclient"
  /\ OwnerAct(q.by) /\ q.client \notin deleted /\ deleted \cup {q.client} # Clients
  /\ Begin(r, q, "client_pending", NoInvite, NoGrants)

BeginCall(r) == \E q \in Requests[r] :
  \/ BeginInvite(r, q) \/ BeginOrgInvite(r, q) \/ BeginModify(r, q)
  \/ BeginUninvite(r, q) \/ BeginOrgUninvite(r, q) \/ BeginVerify(r, q)
  \/ BeginResend(r, q) \/ BeginSignup(r, q) \/ BeginJoin(r, q) \/ BeginDeleteUser(r, q) \/ BeginDeleteClient(r, q)

-----------------------------------------------------------------------------
(* Writing an invitation: update_invite, _create_invite, update_existing_user *)

Updating(r) == held[r].id # NewId      \* update_invite calls _create_invite with an id

\* pending_permission_service.delete_by_invite_id
DropPending(r) ==
  /\ pc[r] = "drop_pending"
  /\ pending' = IF PendingOf(To(r), held[r]) = NoGrants THEN pending
                ELSE [pending EXCEPT ![To(r)] = NoGrants]
  /\ Goto(r, "drop_invite")
  /\ UNCHANGED <<account, membership, permission, invite, deleted>> /\ Keep /\ KeepLocals

\* invite_service.delete_by_id; pending permissions go with it
DropInvite(r) ==
  /\ pc[r] = "drop_invite"
  /\ LET u == To(r) IN
       IF invite[u] # NoInvite /\ invite[u].id = held[r].id
       THEN /\ invite' = [invite EXCEPT ![u] = NoInvite]
            /\ pending' = [pending EXCEPT ![u] = NoGrants]
       ELSE UNCHANGED <<invite, pending>>
  /\ Goto(r, "decide")
  /\ UNCHANGED <<account, membership, permission, deleted>> /\ Keep /\ KeepLocals

\* A user gets a membership at once; others, and those who have to verify the
\* address first, get an invitation.
MemberNow(u) == \* mutant: verified users are invited again
  Exists(u) /\ membership[u] # None
TakenAtOnce(u) == Exists(u) /\ (membership[u] # None \/ account[u] = "verified")

\* The reads of _create_invite and update_existing_user decide what is written.
\* A caller whose idea of the old role is outdated is refused here.
Decide(r) ==
  /\ pc[r] = "decide"
  /\ LET u == To(r)
         sane == \A c \in Clients : grants[r][c] # None => c \notin deleted
         direct == TakenAtOnce(u)
         next == CASE direct /\ membership[u] = None -> "insert_membership"
                   [] direct /\ membership[u] = "member" ->
                        IF held[r].type = "owner" THEN "elevate" ELSE "upsert"
                   [] ~direct /\ invite[u] = NoInvite -> "insert_invite"
                   [] OTHER -> "failed"
     IN /\ \/ Goto(r, IF sane THEN next ELSE "failed")
           \/ Exists(u) /\ ~Updating(r) /\ Goto(r, "failed")
        /\ \E skip_email \in BOOLEAN :
             /\ (req[r].kind = "invite" \/ Updating(r)) \/ ~skip_email
             /\ Updating(r) => skip_email
             /\ seen' = Set(seen, r, Exists(u) /\ skip_email)
  /\ UNCHANGED <<tables, held, grants, current>> /\ Keep

\* elevate_to_owner; update_one raises when the membership is gone
Elevate(r) ==
  /\ pc[r] = "elevate"
  /\ \/ /\ membership[To(r)] # None
        /\ membership' = [membership EXCEPT ![To(r)] = "owner"]
        /\ Goto(r, "drop_permissions")
        /\ UNCHANGED <<account, permission, invite, pending, deleted>> /\ Keep /\ KeepLocals
     \/ membership[To(r)] = None /\ Fail(r)

LeavePermissions(r) == \* mutant: elevate_to_owner alone
  pc[r] = "drop_permissions" /\ Goto(r, "upsert") /\ UNCHANGED <<tables, locals>>
\* permission_service.delete_by_organization_and_user after the elevation
DropPermissions(r) ==
  /\ pc[r] = "drop_permissions"
  /\ permission' = [permission EXCEPT ![To(r)] = NoGrants]
  /\ Goto(r, "upsert")
  /\ UNCHANGED <<account, membership, invite, pending, deleted>> /\ Keep /\ KeepLocals

\* membership_service.insert, called after the membership was missing
InsertMembership(r) ==
  /\ pc[r] = "insert_membership"
  /\ LET u == To(r) IN
     \/ /\ membership[u] = None
        /\ membership' = [membership EXCEPT ![u] =
             IF held[r] = NoInvite THEN "member" ELSE held[r].type]
        /\ Goto(r, "upsert")
        /\ UNCHANGED <<account, permission, invite, pending, deleted>> /\ Keep /\ KeepLocals
     \/ membership[u] # None /\ Fail(r)

\* What follows when every permission has been written
AfterUpserts(r) ==
  CASE req[r].kind = "verify" -> IF current[r] # None THEN "find_invite" ELSE "visible"
    [] req[r].kind = "signup" -> "delete_pending"
    [] OTHER -> "done"

\* Permission.set_permission_from_role raises for other roles
AnyRole(role) == role # None \* mutant: it does not
PermissionRole(role) == role \in {"admin", "user"}

\* permission_service.upsert reads the membership and the permission
Upsert(r) ==
  /\ pc[r] = "upsert"
  /\ LET u == To(r) IN
     \/ /\ grants[r] = NoGrants
        /\ Goto(r, AfterUpserts(r))
        /\ UNCHANGED <<tables, locals>>
     \/ \E c \in Clients :
        /\ grants[r][c] # None
        /\ \/ /\ PermissionRole(grants[r][c]) /\ membership[u] # None
              /\ current' = Set(current, r, c)
              /\ seen' = Set(seen, r, permission[u][c] # None)
              /\ Goto(r, "upsert_write")
              /\ UNCHANGED <<tables, held, grants>> /\ Keep
           \/ /\ ~PermissionRole(grants[r][c]) \/ membership[u] = None
              /\ Fail(r)

\* ... and inserts or updates it; both fail when the row is not as it was read
UpsertWrite(r) ==
  /\ pc[r] = "upsert_write"
  /\ LET u == To(r)
         c == current[r]
         ok == (permission[u][c] # None) = seen[r] /\ membership[u] # None IN
     \/ /\ ok
        /\ permission' = [permission EXCEPT ![u][c] = grants[r][c]]
        /\ grants' = [grants EXCEPT ![r][c] = None]
        /\ Goto(r, "upsert")
        /\ UNCHANGED <<account, membership, invite, pending, deleted, held, current, seen>> /\ Keep
     \/ ~ok /\ Fail(r)

\* invite_service.insert_invite; one per organization and address
InsertInvite(r) ==
  /\ pc[r] = "insert_invite"
  /\ LET u == To(r)
         used == {invite[v].id : v \in {w \in Users : invite[w] # NoInvite}}
                 \cup {held[s].id : s \in {s \in Calls : held[s] # NoInvite}}
         row == IF Updating(r) THEN held[r]
                ELSE [held[r] EXCEPT !.id = CHOOSE i \in InviteIds \ used : TRUE] IN
     \/ /\ invite[u] = NoInvite
        /\ Updating(r) \/ InviteIds \ used # {}
        /\ invite' = [invite EXCEPT ![u] = row]
        /\ held' = Set(held, r, row)
        /\ Goto(r, "insert_pending")
        /\ UNCHANGED <<account, membership, permission, pending, deleted, grants, current, seen>>
        /\ Keep
     \/ invite[u] # NoInvite /\ Fail(r)

\* create_pending_permissions; the foreign key needs the invitation, and one
\* row per invitation and client is allowed
InsertPending(r) ==
  /\ pc[r] = "insert_pending"
  /\ LET u == To(r) IN
     \/ \E c \in Clients :
        /\ grants[r][c] # None
        /\ LET ok == /\ invite[u] # NoInvite /\ invite[u].id = held[r].id
                     /\ pending[u][c] = None IN
           \/ /\ ok
              /\ pending' = [pending EXCEPT ![u][c] = grants[r][c]]
              /\ grants' = [grants EXCEPT ![r][c] = None]
              /\ UNCHANGED <<pc, account, membership, permission, invite, deleted,
                             held, current, seen>> /\ Keep
           \/ ~ok /\ Fail(r)
     \/ /\ grants[r] = NoGrants
        /\ Goto(r, IF seen[r] THEN "unverify" ELSE "done")
        /\ UNCHANGED <<tables, locals>>

\* _send_invite_emails writes back the user's meta that the call has read, with
\* has_verified_email cleared, when it prompts the user again
Unverify(r) ==
  /\ pc[r] = "unverify"
  /\ account' = [account EXCEPT ![To(r)] = "unverified"]
  /\ Goto(r, "done")
  /\ UNCHANGED <<membership, permission, invite, pending, deleted>> /\ Keep /\ KeepLocals

-----------------------------------------------------------------------------
(* Uninviting: ClientsUninviteHandler and OrganizationsUninviteHandler *)

ByClient(r) == req[r].kind = "uninvite"

\* delete_by_client_and_user, or delete_by_organization_and_user
DeletePermission(r) ==
  /\ pc[r] = "delete_permission"
  /\ permission' = [permission EXCEPT ![To(r)] =
       IF ByClient(r) THEN [@ EXCEPT ![req[r].client] = None] ELSE NoGrants]
  /\ Goto(r, IF ByClient(r) THEN "count" ELSE "delete_membership")
  /\ UNCHANGED <<account, membership, invite, pending, deleted>> /\ Keep /\ KeepLocals

CountAndKeep(r) == \* mutant: memberships are not deleted with the last permission
  pc[r] = "count" /\ Goto(r, "find_invite") /\ UNCHANGED <<tables, locals>>
\* count_by_organization_and_user
Count(r) ==
  /\ pc[r] = "count"
  /\ Goto(r, IF NoPermission(To(r)) THEN "delete_membership" ELSE "find_invite")
  /\ UNCHANGED <<tables, locals>>

\* membership_service.delete_by_organization_and_user; permissions go with it
DeleteMembership(r) ==
  /\ pc[r] = "delete_membership"
  /\ membership' = [membership EXCEPT ![To(r)] = None]
  /\ permission' = [permission EXCEPT ![To(r)] = NoGrants]
  /\ Goto(r, "find_invite")
  /\ UNCHANGED <<account, invite, pending, deleted>> /\ Keep /\ KeepLocals

\* pending_permission_service.delete_by_email... looks the invitation up first
FindInvite(r) ==
  /\ pc[r] = "find_invite"
  /\ held' = Set(held, r, invite[To(r)])
  /\ Goto(r, IF invite[To(r)] # NoInvite THEN "delete_pending"
             ELSE IF ByClient(r) THEN "recheck" ELSE "delete_invite")
  /\ UNCHANGED <<tables, grants, current, seen>> /\ Keep

\* ... and deletes its pending permissions, or that of one client
DeletePending(r) ==
  /\ pc[r] = "delete_pending"
  /\ pending' = IF PendingOf(To(r), held[r]) = NoGrants THEN pending
                ELSE [pending EXCEPT ![To(r)] =
                        IF ByClient(r) THEN [@ EXCEPT ![req[r].client] = None] ELSE NoGrants]
  /\ Goto(r, IF ByClient(r) THEN "recheck" ELSE "delete_invite")
  /\ UNCHANGED <<account, membership, permission, invite, deleted>> /\ Keep /\ KeepLocals

\* The handler of a client looks whether the invitation has others
Recheck(r) ==
  /\ pc[r] = "recheck"
  /\ LET u == To(r) IN
       Goto(r, IF invite[u] # NoInvite /\ pending[u] = NoGrants THEN "delete_invite" ELSE "done")
  /\ UNCHANGED <<tables, locals>>

LeaveInvite(r) == \* mutant: only pending permissions are deleted
  pc[r] = "delete_invite" /\ Goto(r, "done") /\ UNCHANGED <<tables, locals>>
\* invite_service.delete_by_email, or delete_by_email_and_organization
DeleteInvite(r) ==
  /\ pc[r] = "delete_invite"
  /\ invite' = [invite EXCEPT ![To(r)] = NoInvite]
  /\ pending' = [pending EXCEPT ![To(r)] = NoGrants]
  /\ Goto(r, "done")
  /\ UNCHANGED <<account, membership, permission, deleted>> /\ Keep /\ KeepLocals

-----------------------------------------------------------------------------
(* Accepting: verify_email, and UsersCreateHandler with an invitation *)

\* send_verification_email_to_user writes back the meta that the call has read, with
\* a new code and has_verified_email cleared, whoever asks and whatever it was
Resend(r) ==
  /\ pc[r] = "resend"
  /\ account' = [account EXCEPT ![To(r)] = "unverified"]
  /\ Goto(r, "done")
  /\ UNCHANGED <<membership, permission, invite, pending, deleted>> /\ Keep /\ KeepLocals

\* declare_email_verified writes back the meta that authentication has read
Declare(r) ==
  /\ pc[r] = "declare"
  /\ account' = [account EXCEPT ![To(r)] = "verified"]
  /\ Goto(r, "find_valid")
  /\ UNCHANGED <<membership, permission, invite, pending, deleted>> /\ Keep /\ KeepLocals

\* find_by_email(valid_only=True).  Without a valid invitation the user joins the
\* client that was asked for at signup, if there was one.
FindValid(r) ==
  /\ pc[r] = "find_valid"
  /\ LET u == To(r)
         found == invite[u] # NoInvite /\ Valid(u, invite[u]) IN
     \/ /\ found
        /\ held' = Set(held, r, invite[u])
        /\ Goto(r, "take_invite")
        /\ UNCHANGED grants
     \/ ~found /\ Goto(r, "visible") /\ UNCHANGED <<held, grants>>
     \/ \E c \in OpenClients \ deleted :
        /\ ~found /\ ~IsOwner(u)
        /\ grants' = [grants EXCEPT ![r][c] = "user"]
        /\ Goto(r, IF membership[u] = None THEN "insert_membership" ELSE "upsert")
        /\ UNCHANGED held
  /\ UNCHANGED <<tables, current, seen>> /\ Keep

\* create_user_by_invite, create_user_by_self_signup: create_new_user
CreateUser(r) ==
  /\ pc[r] = "create_user"
  /\ LET u == To(r) IN
     \/ /\ account[u] = "absent"
        /\ account' = [account EXCEPT ![u] = IF held[r] # NoInvite THEN "verified" ELSE "unverified"]
        /\ Goto(r, IF held[r] # NoInvite THEN "take_invite" ELSE "done")
        /\ UNCHANGED <<membership, permission, invite, pending, deleted>> /\ Keep /\ KeepLocals
     \/ account[u] # "absent" /\ Fail(r)

\* create_memberships_and_permissions_from_invites reads the pending
\* permissions and their clients ...
TakeInvite(r) ==
  /\ pc[r] = "take_invite"
  /\ grants' = Set(grants, r,
       [c \in Clients |-> LET p == PendingOf(To(r), held[r])[c] IN
          IF p # None /\ c \in deleted THEN "missing" ELSE p])
  /\ Goto(r, "assert_valid")
  /\ UNCHANGED <<tables, held, current, seen>> /\ Keep

\* ... and then asserts that the invitation is (still) valid, and looks for a
\* membership (create_if_not_exists)
AssertValid(r) ==
  /\ pc[r] = "assert_valid"
  /\ \/ /\ Valid(To(r), held[r])
        /\ Goto(r, IF membership[To(r)] = None THEN "insert_membership" ELSE "upsert")
        /\ UNCHANGED <<tables, locals>>
     \/ ~Valid(To(r), held[r]) /\ Fail(r)

\* A login needs a client that the user can see, or sets up an organization of
\* the user's own; then all invitations of the address are deleted
Visible(r) ==
  /\ pc[r] = "visible"
  /\ Goto(r, IF SeesAClient(To(r)) \/ AllowCreateOrganization THEN "find_invite" ELSE "failed")
  /\ UNCHANGED <<tables, locals>>

-----------------------------------------------------------------------------
(* Deleting a user or a client *)

PurgePermissions(r) ==
  /\ pc[r] = "purge_permissions"
  /\ permission' = [permission EXCEPT ![To(r)] = NoGrants]
  /\ Goto(r, "purge_membership")
  /\ UNCHANGED <<account, membership, invite, pending, deleted>> /\ Keep /\ KeepLocals

PurgeMembership(r) ==
  /\ pc[r] = "purge_membership"
  /\ membership' = [membership EXCEPT ![To(r)] = None]
  /\ permission' = [permission EXCEPT ![To(r)] = NoGrants]
  /\ Goto(r, "purge_invites")
  /\ UNCHANGED <<account, invite, pending, deleted>> /\ Keep /\ KeepLocals

\* Invitations sent by the user; pending permissions go with them
PurgeInvites(r) ==
  /\ pc[r] = "purge_invites"
  /\ LET gone == {u \in Users : invite[u] # NoInvite /\ invite[u].inviter = To(r)} IN
       /\ invite' = [u \in Users |-> IF u \in gone THEN NoInvite ELSE invite[u]]
       /\ pending' = [u \in Users |-> IF u \in gone THEN NoGrants ELSE pending[u]]
  /\ Goto(r, "flag_user")
  /\ UNCHANGED <<account, membership, permission, deleted>> /\ Keep /\ KeepLocals

FlagUser(r) ==
  /\ pc[r] = "flag_user"
  /\ account' = [account EXCEPT ![To(r)] = "deleted"]
  /\ Goto(r, "done")
  /\ UNCHANGED <<membership, permission, invite, pending, deleted>> /\ Keep /\ KeepLocals

\* delete_clients_and_artifacts
ClientPending(r) ==
  /\ pc[r] = "client_pending"
  /\ pending' = [u \in Users |-> [pending[u] EXCEPT ![req[r].client] = None]]
  /\ Goto(r, "client_permissions")
  /\ UNCHANGED <<account, membership, permission, invite, deleted>> /\ Keep /\ KeepLocals

ClientPermissions(r) ==
  /\ pc[r] = "client_permissions"
  /\ permission' = [u \in Users |-> [permission[u] EXCEPT ![req[r].client] = None]]
  /\ Goto(r, "flag_client")
  /\ UNCHANGED <<account, membership, invite, pending, deleted>> /\ Keep /\ KeepLocals

FlagClient(r) ==
  /\ pc[r] = "flag_client"
  /\ deleted' = deleted \cup {req[r].client}
  /\ Goto(r, "stray_invites")
  /\ UNCHANGED <<account, membership, permission, invite, pending>> /\ Keep /\ KeepLocals

\* delete_stray_invites_by_organization: those without a pending permission,
\* which invitations of owners never have
StrayInvites(r) ==
  /\ pc[r] = "stray_invites"
  /\ invite' = [u \in Users |-> IF pending[u] = NoGrants THEN NoInvite ELSE invite[u]]
  /\ Goto(r, "done")
  /\ UNCHANGED <<account, membership, permission, pending, deleted>> /\ Keep /\ KeepLocals

\* The process dies between two statements
Die(r) ==
  /\ r \in Mortal /\ Active(r)
  /\ Goto(r, "dead")
  /\ UNCHANGED <<tables, locals>>

-----------------------------------------------------------------------------
(* History *)

PowerNow == {p \in Users \X (Clients \cup {Organization}) :
               IsOwner(p[1]) \/ (p[2] # Organization /\ permission[p[1]][p[2]] = "admin")}

\* The user has the permission, or an invitation that can be accepted for it.
Offered == {p \in Users \X Clients :
  \/ permission[p[1]][p[2]] # None
  \/ pending[p[1]][p[2]] # None /\ Valid(p[1], invite[p[1]])}

\* What the step of r, after its first, writes for its user
Moves(r) == pc[r] # "idle" /\ pc'[r] # pc[r]
Raises(r) == ~IsOwner(To(r)) /\ membership'[To(r)] = "owner"
GrantsAPermission(r) == pc[r] = "upsert_write" /\ permission' # permission
Verifies(r) == account[To(r)] # "verified" /\ account'[To(r)] = "verified"

\* signup_to_client_if_permitted, which needs no invitation
SignsUp(r) == req[r].kind = "join" \/ (req[r].kind = "verify" /\ held[r] = NoInvite)

\* The clients of <<u, c>> that a request puts up for change
Touches(q) ==
  {p \in Users \X Clients :
     \/ q.kind = "deleteclient" /\ q.client = p[2]
     \/ q.to = p[1] /\ q.kind \in {"orguninvite", "modify", "orginvite", "deleteuser"}
     \/ q.to = p[1] /\ q.kind = "uninvite" /\ q.client = p[2]
     \/ q.to = p[1] /\ q.kind = "invite" /\ (q.client = p[2] \/ ~Administers(q.by, p[2]))}

Remember(r) ==
  LET q == req'[r]
      alone == met[r] = {} /\ pc'[r] = "done" IN
  /\ out' = IF (pc[r] = "idle" /\ q.kind \in {"invite", "orginvite", "join"})
               \/ (pc[r] = "find_valid" /\ grants' # grants) THEN out \ {q.to}
            ELSE IF alone /\ q.kind = "orguninvite" THEN out \cup {q.to} ELSE out
  /\ promised' = IF ~(PowerNow \subseteq PowerNow') THEN {}
                 ELSE IF pc[r] = "idle" THEN promised \ Touches(q)
                 ELSE IF alone /\ q.kind = "invite"
                      THEN promised \cup (Offered \cap {<<q.to, q.client>>})
                 ELSE promised

Record(r) ==
  LET began == pc[r] = "idle" IN
  /\ met' = [s \in Calls |->
       IF began /\ s = r THEN {t \in Calls : Active(t)}
       ELSE IF began /\ Active(s) THEN met[s] \cup {r} ELSE met[s]]
  /\ power' = [s \in Calls |->
       IF began /\ s = r THEN PowerNow
       ELSE IF Active(s) /\ pc'[s] \notin Ended THEN power[s] \cup PowerNow'
       ELSE IF Active(s) THEN {} ELSE power[s]]
  /\ did' = IF began THEN did
            ELSE [did EXCEPT ![r] = @ \cup (IF Raises(r) THEN {"owner"} ELSE {})
                                     \cup (IF GrantsAPermission(r) THEN {"grant"} ELSE {})
                                     \cup (IF Verifies(r) THEN {"verify"} ELSE {})]

Step(r) ==
  \/ BeginCall(r)
  \/ DropPending(r) \/ DropInvite(r) \/ Decide(r) \/ Elevate(r) \/ DropPermissions(r)
  \/ InsertMembership(r) \/ Upsert(r) \/ UpsertWrite(r) \/ InsertInvite(r)
  \/ InsertPending(r) \/ Unverify(r) \/ Resend(r)
  \/ DeletePermission(r) \/ Count(r) \/ DeleteMembership(r) \/ FindInvite(r)
  \/ DeletePending(r) \/ Recheck(r) \/ DeleteInvite(r)
  \/ Declare(r) \/ FindValid(r) \/ CreateUser(r) \/ TakeInvite(r) \/ AssertValid(r) \/ Visible(r)
  \/ PurgePermissions(r) \/ PurgeMembership(r) \/ PurgeInvites(r) \/ FlagUser(r)
  \/ ClientPending(r) \/ ClientPermissions(r) \/ FlagClient(r) \/ StrayInvites(r)
  \/ Die(r)

Init ==
  /\ \E s \in InitialStates :
       /\ account = s.account /\ membership = s.membership /\ permission = s.permission
       /\ invite = s.invite /\ pending = s.pending
  /\ deleted = {}
  /\ pc = [r \in Calls |-> "idle"]
  /\ req = [r \in Calls |-> NoRequest]
  /\ held = [r \in Calls |-> NoInvite]
  /\ grants = [r \in Calls |-> NoGrants]
  /\ current = [r \in Calls |-> None]
  /\ seen = [r \in Calls |-> FALSE]
  /\ met = [r \in Calls |-> {}]
  /\ power = [r \in Calls |-> {}]
  /\ did = [r \in Calls |-> {}]
  /\ out = {}
  /\ promised = Offered

Next == \E r \in Calls : Step(r) /\ Record(r) /\ Remember(r)

Spec == Init /\ [][Next]_vars

-----------------------------------------------------------------------------
(* Properties *)

\* The calls about the user of r that were under way together with r.
Rivals(r) == {s \in met[r] : To(s) = To(r)}

\* Who stands behind what a call grants: the inviter of the invitation that is
\* accepted, or else the caller.
Sponsor(r) == IF req[r].kind \in {"verify", "signup"} THEN held[r].inviter ELSE req[r].by
Backed(r, what) == <<Sponsor(r), what>> \in power[r]

\* Memberships of owners are made by owners: a call that makes its user an owner
\* has a sponsor who was an owner at some moment of that call, whatever happened
\* to the invitation or to the sponsor meanwhile (check_can_invite,
\* _filter_to_valid_invites, create_memberships_and_permissions_from_invites).
OwnersMadeByOwners ==
  [][\A r \in Calls : Moves(r) /\ Raises(r) => Backed(r, Organization)]_vars

\* Somebody wrote the invitation's pending permissions, and somebody else could
\* withdraw them, while r accepted it.
Inviting(s) == req[s].kind \in {"invite", "orginvite", "modify"}
Crossed(r) ==
  \E s \in Rivals(r), t \in met[r] :
    s # t /\ Inviting(s) /\ req[t].kind \notin {"orginvite", "join"}
\* A permission on a client is granted by the inviter or caller who could administer
\* that client at some moment of the call, apart from direct signup, from the
\* permissions that ClientsCreateInviteHandler copies from the invitation that it
\* replaces, and from an acceptance during which one call wrote the pending
\* permission and another withdrew it: it was read, and was gone when the inviter's
\* power was asserted (create_memberships_and_permissions_from_invites).
GrantsAreBacked ==
  [][\A r \in Calls :
       Moves(r) /\ GrantsAPermission(r) /\ ~SignsUp(r)
       /\ ~(req[r].kind = "invite" /\ current[r] # req[r].client) =>
         Backed(r, current[r]) \/ (req[r].kind \in {"verify", "signup"} /\ Crossed(r))]_vars

\* An owner is removed by the deletion of the user only, or by a call that was
\* under way together with the one that made the owner: both uninvite handlers
\* refuse owners at their beginning and delete the membership statements later.
OwnersAreKept ==
  [][\A r \in Calls : Moves(r) /\ IsOwner(To(r)) /\ membership'[To(r)] # "owner" =>
       \/ req[r].kind = "deleteuser"
       \/ \E e \in Rivals(r) : "owner" \in did[e]]_vars

\* A verified address becomes unverified only when its user, logged in, asks for
\* the verification email again (send_verification_email_to_user), or through a call
\* of somebody else that was under way together with the one that verified it, and
\* wrote back what it had read before (_send_invite_emails,
\* ResendVerificationEmailHandler, update_meta).
VerifiedStays ==
  [][\A r \in Calls : Moves(r) /\ account[To(r)] = "verified" /\ account'[To(r)] = "unverified" =>
       \/ req[r].kind = "resend"
       \/ \E v \in Rivals(r) : "verify" \in did[v]]_vars

\* Calls about u that have begun.
About(u) == {e \in Calls : pc[e] # "idle" /\ To(e) = u}
\* An invitation was replaced, by one with the same id, while another call wrote it
\* or accepted it.
Reissued(u) ==
  \E e \in About(u), g \in Calls :
    req[e].kind = "modify" /\ g \in Rivals(e) /\ (Inviting(g) \/ req[g].kind \in {"verify", "signup"})
\* A call that made u an owner met one that granted, invited, or deleted the user.
Contested(u) ==
  \E e \in About(u), g \in Calls :
    /\ "owner" \in did[e] /\ g \in Rivals(e)
    /\ "grant" \in did[g] \/ Inviting(g) \/ req[g].kind = "deleteuser"
\* An owner has no permissions of their own, unless the call that made the owner
\* has still to delete them, failed or died, or as above; and an invitation of an
\* owner has none pending, unless it was replaced as above
\* (_update_current_membership, check_can_set, update_invite).
OwnersNeedNoPermission ==
  \A u \in Users :
    /\ IsOwner(u) /\ ~NoPermission(u) =>
         \/ Reissued(u) \/ Contested(u)
         \/ \E e \in About(u) :
              "owner" \in did[e] /\ pc[e] \in {"drop_permissions", "failed", "dead"}
    /\ invite[u] # NoInvite /\ invite[u].type = "owner" /\ pending[u] # NoGrants => Reissued(u)

\* A member who is no owner has a permission on some client: memberships are made
\* together with permissions and end with the last one.  Otherwise a call about
\* the user is at work, failed or died; or a client is deleted, which deletes
\* permissions only; or an acceptance met the call that replaced the invitation,
\* and read the pending permissions in between; or a call that made the user an
\* owner, and deletes all permissions after that, met one that granted some.
MembersHaveClients ==
  \A u \in Users : membership[u] = "member" /\ NoPermission(u) =>
    \E r \in Calls \ {s \in Calls : pc[s] = "idle"} :
      \/ To(r) = u /\ pc[r] # "done"
      \/ req[r].kind = "deleteclient"
      \/ /\ To(r) = u /\ req[r].kind \in {"verify", "signup"}
         /\ \E s \in Rivals(r) : Inviting(s)
      \/ To(r) = u /\ "owner" \in did[r] /\ \E s \in Rivals(r) : "grant" \in did[s]

\* Who was uninvited from the organization while nothing else happened has no
\* invitation, and no membership or permission (unless the user is deleted and joined
\* while that happened: a handler does not find those), and gets none back by signing up,
\* verifying the address, or calls about others, until invited again or joining a
\* client that is open to the domain.
UninvitedStaysOut ==
  \A u \in out :
    /\ invite[u] = NoInvite
    /\ account[u] # "deleted" => membership[u] = None /\ NoPermission(u)

\* Who was invited to a client has the permission, or is still invited to it, as
\* long as nobody revoked that, whatever happens to other clients of the user;
\* unless a later invitation, which replaces the first one in several statements,
\* is at work, failed or died; or an invitation or its acceptance met another
\* invitation (and read the pending permissions halfway) or an uninvitation (which
\* counts the permissions first and deletes the membership later).
PromisesAreKept ==
  \A p \in promised :
    \/ permission[p[1]][p[2]] # None
    \/ pending[p[1]][p[2]] # None
    \/ IsOwner(p[1])
    \/ \E r \in Calls \ {s \in Calls : pc[s] = "idle"} :
         /\ To(r) = p[1] /\ req[r].kind \in {"invite", "verify", "signup"}
         /\ \/ req[r].kind = "invite" /\ pc[r] # "done"
            \/ \E s \in Rivals(r) : req[s].kind \in {"invite", "uninvite"}
=============================================================================
