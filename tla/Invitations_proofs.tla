-------------------------- MODULE Invitations_proofs --------------------------
(***************************************************************************)
(* Proofs about Invitations, for any number of calls, users and clients,   *)
(* whatever the calls ask for and whichever die.                           *)
(***************************************************************************)
EXTENDS Invitations, TLAPS

Writing == {"drop_pending", "drop_invite", "decide", "elevate", "drop_permissions",
            "insert_invite", "insert_pending", "unverify"}
Revoking == {"delete_permission", "count", "delete_membership"}
Withdrawing == {"visible", "find_invite", "delete_pending", "recheck", "delete_invite"}
Joining == {"insert_membership", "upsert", "upsert_write"}
Purging == {"purge_permissions", "purge_membership", "purge_invites", "flag_user"}
Erasing == {"client_pending", "client_permissions", "flag_client", "stray_invites"}
Accepts(r) == req[r].kind \in {"verify", "signup"}
Unasked == [Clients -> Roles \cup {None}]

(* What a call was asked for and holds where it stands.                    *)
Shape(r) ==
  /\ pc[r] # "idle" => req[r] \in Request
  /\ pc[r] \in Writing => Inviting(r) /\ held[r] # NoInvite /\ grants[r] \in Unasked
  /\ pc[r] \in {"drop_pending", "drop_invite"} =>
       held[r].id \in InviteIds /\ req[r].kind # "orginvite"
  /\ pc[r] = "elevate" => held[r].type = "owner"
  /\ pc[r] = "unverify" => seen[r]
  /\ pc[r] \in Revoking => req[r].kind \in {"uninvite", "orguninvite"}
  /\ pc[r] \in Withdrawing => req[r].kind \in {"uninvite", "orguninvite", "verify", "signup"}
  /\ pc[r] \in {"count", "recheck"} => ByClient(r)
  /\ pc[r] = "visible" => req[r].kind = "verify"
  /\ pc[r] \in {"declare", "find_valid"} =>
       req[r].kind = "verify" /\ held[r] = NoInvite /\ grants[r] = NoGrants
  /\ pc[r] = "create_user" => req[r].kind = "signup"
  /\ pc[r] \in {"take_invite", "assert_valid"} => Accepts(r) /\ held[r] # NoInvite
  /\ pc[r] = "delete_pending" => held[r] # NoInvite
  /\ pc[r] \in Joining =>
       /\ Inviting(r) \/ Accepts(r) \/ req[r].kind = "join"
       /\ held[r] = NoInvite => req[r].kind \in {"verify", "join"}
       /\ req[r].kind = "join" => held[r] = NoInvite
  /\ pc[r] = "upsert_write" => current[r] \in Clients /\ PermissionRole(grants[r][current[r]])
  /\ pc[r] = "resend" => req[r].kind \in {"resend", "resendopen"}
  /\ pc[r] \in Purging => req[r].kind = "deleteuser"
  /\ pc[r] \in Erasing => req[r].kind = "deleteclient"
ShapeInv == \A r \in Calls : Shape(r)

TablesOK ==
  /\ account \in [Users -> Accounts]
  /\ membership \in [Users -> Types \cup {None}]
  /\ permission \in [Users -> [Clients -> {"admin", "user", None}]]
  /\ invite \in [Users -> InviteRow \cup {NoInvite}]
  /\ pending \in [Users -> [Clients -> Roles \cup {None}]]
  /\ deleted \subseteq Clients
LocalsOK ==
  /\ pc \in [Calls -> Labels]
  /\ req \in [Calls -> Request \cup {NoRequest}]
  /\ held \in [Calls -> HeldRow \cup {NoInvite}]
  /\ grants \in [Calls -> Grants]
  /\ current \in [Calls -> Clients \cup {None}]
  /\ seen \in [Calls -> BOOLEAN]
HistoryOK ==
  /\ met \in [Calls -> SUBSET Calls]
  /\ power \in [Calls -> SUBSET (Users \X (Clients \cup {Organization}))]
  /\ did \in [Calls -> SUBSET Effects]
  /\ out \subseteq Users
  /\ promised \subseteq Users \X Clients
LEMMA TypeParts == TypeOK <=> TablesOK /\ LocalsOK /\ HistoryOK
BY DEF TypeOK, TablesOK, LocalsOK, HistoryOK

(* A step of one call changes nothing that another call holds.             *)
SameLocals(s) ==
  /\ pc'[s] = pc[s] /\ req'[s] = req[s] /\ held'[s] = held[s]
  /\ grants'[s] = grants[s] /\ current'[s] = current[s] /\ seen'[s] = seen[s]

(* A request that arrives leaves the tables alone; what was checked before *)
(* the call began.                                                         *)
LEMMA Begins ==
  ASSUME TablesOK, LocalsOK, NEW r \in Calls, BeginCall(r)
  PROVE  /\ pc[r] = "idle" /\ UNCHANGED <<tables, current, seen>> /\ LocalsOK'
         /\ req'[r] \in Request
         /\ \A s \in Calls \ {r} : SameLocals(s)
         /\ LET q == req'[r] IN
            \/ /\ q.kind = "invite" /\ Authorized(q.by, q.client)
               /\ held'[r] \in HeldRow /\ held'[r].type = "member" /\ grants'[r] \in Unasked
               /\ \/ pc'[r] = "decide"
                  \/ pc'[r] = "drop_pending" /\ held'[r].id \in InviteIds
            \/ /\ q.kind = "orginvite" /\ OwnerAct(q.by) /\ pc'[r] = "decide"
               /\ held'[r] \in HeldRow /\ grants'[r] \in Unasked
            \/ /\ q.kind = "modify" /\ OwnerAct(q.by) /\ pc'[r] = "drop_pending"
               /\ invite[q.to] # NoInvite
               /\ held'[r] \in HeldRow /\ held'[r].id \in InviteIds /\ grants'[r] \in Unasked
            \/ /\ q.kind \in {"uninvite", "orguninvite"} /\ CanSet(q)
               /\ pc'[r] = IF Exists(q.to) THEN "delete_permission" ELSE "find_invite"
            \/ /\ q.kind = "verify" /\ Exists(q.to) /\ pc'[r] = "declare"
               /\ held'[r] = NoInvite /\ grants'[r] = NoGrants
            \/ /\ q.kind \in {"resend", "resendopen"} /\ Exists(q.to) /\ pc'[r] = "resend"
               /\ q.kind = "resendopen" => account[q.to] = "unverified"
            \/ /\ q.kind = "signup" /\ account[q.to] = "absent" /\ pc'[r] = "create_user"
               /\ \/ held'[r] = NoInvite
                  \/ /\ invite[q.to] # NoInvite /\ held'[r] = invite[q.to]
                     /\ Valid(q.to, invite[q.to])
            \/ /\ q.kind = "join" /\ account[q.to] = "verified" /\ held'[r] = NoInvite
               /\ pc'[r] = IF membership[q.to] = None THEN "insert_membership" ELSE "upsert"
            \/ q.kind = "deleteuser" /\ pc'[r] = "purge_permissions"
            \/ q.kind = "deleteclient" /\ pc'[r] = "client_pending"
<1> USE DEF TablesOK, LocalsOK
<1>1. PICK q \in Requests[r] :
        \/ BeginInvite(r, q) \/ BeginOrgInvite(r, q) \/ BeginModify(r, q)
        \/ BeginUninvite(r, q) \/ BeginOrgUninvite(r, q) \/ BeginVerify(r, q)
        \/ BeginResend(r, q) \/ BeginSignup(r, q) \/ BeginJoin(r, q) \/ BeginDeleteUser(r, q)
        \/ BeginDeleteClient(r, q)
  BY DEF BeginCall
<1>2. /\ q \in Request /\ q.by \in Users /\ q.to \in Users /\ q.client \in Clients
      /\ q.role \in Roles /\ q.type \in Types /\ q.grants \in Unasked
  BY InputAssumption DEF Request, Unasked
<1>3. ASSUME NEW l \in Labels, NEW h \in HeldRow \cup {NoInvite}, NEW g \in Grants, Begin(r, q, l, h, g)
      PROVE  /\ pc[r] = "idle" /\ UNCHANGED <<tables, current, seen>> /\ LocalsOK'
             /\ req'[r] = q /\ pc'[r] = l /\ held'[r] = h /\ grants'[r] = g
             /\ \A s \in Calls \ {r} : SameLocals(s)
  BY <1>2, <1>3 DEF Begin, Set, Goto, SameLocals
<1>4. /\ Unasked \subseteq Grants /\ NoGrants \in Unasked
      /\ \A role \in Roles : [NoGrants EXCEPT ![q.client] = role] \in Unasked
      /\ \A old, new \in Unasked : Updated(old, new) \in Unasked
      /\ \A u \in Users : pending[u] \in Unasked
  BY <1>2 DEF Unasked, Grants, NoGrants, Updated
<1>5. \A i \in InviteIds \cup {NewId}, t \in Types :
        /\ [id |-> i, inviter |-> q.by, type |-> t] \in HeldRow
        /\ [id |-> i, inviter |-> q.by, type |-> t].type = t
        /\ [id |-> i, inviter |-> q.by, type |-> t].id = i
  BY <1>2 DEF HeldRow
<1>6. \A u \in Users : invite[u] # NoInvite =>
        /\ invite[u] \in HeldRow /\ invite[u].id \in InviteIds
        /\ [invite[u] EXCEPT !.inviter = q.by] \in HeldRow
        /\ [invite[u] EXCEPT !.inviter = q.by].id = invite[u].id
        /\ [invite[u] EXCEPT !.inviter = q.by].type = invite[u].type
  BY <1>2 DEF InviteRow, HeldRow
<1>7. {"decide", "drop_pending", "delete_permission", "find_invite", "declare", "resend", "create_user",
       "insert_membership", "upsert", "purge_permissions", "client_pending"} \subseteq Labels
  BY DEF Labels
<1>8. CASE BeginInvite(r, q)
  <2> DEFINE asked == [NoGrants EXCEPT ![q.client] = q.role]
  <2>0. q.kind = "invite" /\ Authorized(q.by, q.client)
    BY <1>8 DEF BeginInvite
  <2>1. ASSUME Begin(r, q, "decide", [id |-> NewId, inviter |-> q.by, type |-> "member"], asked)
        PROVE  /\ pc'[r] = "decide" /\ grants'[r] \in Unasked
               /\ held'[r] \in HeldRow /\ held'[r].type = "member"
    <3> DEFINE row == [id |-> NewId, inviter |-> q.by, type |-> "member"]
    <3>1. row \in HeldRow /\ row.type = "member" /\ asked \in Unasked
      BY <1>2, <1>4, <1>5 DEF Types
    <3> HIDE DEF row, asked
    <3>2. pc'[r] = "decide" /\ held'[r] = row /\ grants'[r] = asked
      BY <1>3, <1>4, <1>7, <2>1, <3>1 DEF row
    <3> QED BY <3>1, <3>2
  <2>2. ASSUME Replaceable(invite[q.to]),
               Begin(r, q, "drop_pending", [invite[q.to] EXCEPT !.inviter = q.by],
                     Updated(pending[q.to], asked))
        PROVE  /\ pc'[r] = "drop_pending" /\ grants'[r] \in Unasked
               /\ held'[r] \in HeldRow /\ held'[r].type = "member" /\ held'[r].id \in InviteIds
    <3> DEFINE row == [invite[q.to] EXCEPT !.inviter = q.by]
               new == Updated(pending[q.to], asked)
    <3>1. row \in HeldRow /\ row.type = "member" /\ row.id \in InviteIds /\ new \in Unasked
      BY <1>2, <1>4, <1>6, <2>2 DEF Replaceable
    <3> HIDE DEF row, new
    <3>2. pc'[r] = "drop_pending" /\ held'[r] = row /\ grants'[r] = new
      BY <1>3, <1>4, <1>7, <2>2, <3>1 DEF row, new
    <3> QED BY <3>1, <3>2
  <2>3. \E l \in Labels, h \in HeldRow, g \in Grants : Begin(r, q, l, h, g)
    <3>1. CASE Begin(r, q, "decide", [id |-> NewId, inviter |-> q.by, type |-> "member"], asked)
      BY <1>2, <1>4, <1>5, <1>7, <3>1 DEF Types
    <3>2. CASE /\ Replaceable(invite[q.to])
               /\ Begin(r, q, "drop_pending", [invite[q.to] EXCEPT !.inviter = q.by],
                        Updated(pending[q.to], asked))
      BY <1>2, <1>4, <1>6, <1>7, <3>2 DEF Replaceable
    <3> QED BY <1>8, <3>1, <3>2 DEF BeginInvite
  <2>4. \/ Begin(r, q, "decide", [id |-> NewId, inviter |-> q.by, type |-> "member"], asked)
        \/ /\ Replaceable(invite[q.to])
           /\ Begin(r, q, "drop_pending", [invite[q.to] EXCEPT !.inviter = q.by],
                    Updated(pending[q.to], asked))
    BY <1>8 DEF BeginInvite
  <2> HIDE DEF asked
  <2> QED BY <1>2, <1>3, <2>0, <2>1, <2>2, <2>3, <2>4
<1>9. CASE BeginOrgInvite(r, q)
  <2> DEFINE row == [id |-> NewId, inviter |-> q.by, type |-> q.type]
  <2>1. row \in HeldRow
    BY <1>2, <1>5
  <2>2. q.kind = "orginvite" /\ OwnerAct(q.by) /\ Begin(r, q, "decide", row, q.grants)
    BY <1>9 DEF BeginOrgInvite
  <2> HIDE DEF row
  <2> QED BY <1>2, <1>3, <1>4, <1>7, <2>1, <2>2
<1>10. CASE BeginModify(r, q)
  <2> DEFINE old == IF q.type = "owner" THEN NoGrants ELSE pending[q.to]
             row == [id |-> invite[q.to].id, inviter |-> q.by, type |-> q.type]
  <2>1. Updated(old, q.grants) \in Unasked
    BY <1>2, <1>4
  <2>2. /\ OwnerAct(q.by) /\ q.kind = "modify" /\ invite[q.to] # NoInvite
        /\ Begin(r, q, "drop_pending", row, Updated(old, q.grants))
    BY <1>10 DEF BeginModify
  <2>3. row \in HeldRow /\ row.id \in InviteIds
    BY <1>2, <1>5, <1>6, <2>2
  <2> QED BY <1>2, <1>3, <1>4, <1>7, <2>1, <2>2, <2>3
<1>11. CASE BeginUninvite(r, q)
  BY <1>2, <1>3, <1>4, <1>7, <1>11 DEF BeginUninvite
<1>12. CASE BeginOrgUninvite(r, q)
  BY <1>2, <1>3, <1>4, <1>7, <1>12 DEF BeginOrgUninvite
<1>13. CASE BeginVerify(r, q)
  BY <1>2, <1>3, <1>4, <1>7, <1>13 DEF BeginVerify
<1>14. CASE BeginSignup(r, q)
  <2>1. q.kind = "signup" /\ account[q.to] = "absent"
    BY <1>14 DEF BeginSignup
  <2>2. CASE Begin(r, q, "create_user", NoInvite, NoGrants)
    BY <1>2, <1>3, <1>4, <1>7, <2>1, <2>2
  <2>3. CASE /\ invite[q.to] # NoInvite /\ Valid(q.to, invite[q.to])
             /\ Begin(r, q, "create_user", invite[q.to], NoGrants)
    <3>1. invite[q.to] \in HeldRow /\ NoGrants \in Grants /\ "create_user" \in Labels
      BY <1>2, <1>4, <1>6, <1>7, <2>3
    <3>2. /\ pc[r] = "idle" /\ UNCHANGED <<tables, current, seen>> /\ LocalsOK'
          /\ req'[r] = q /\ pc'[r] = "create_user" /\ held'[r] = invite[q.to]
          /\ grants'[r] = NoGrants
          /\ \A s \in Calls \ {r} : SameLocals(s)
      BY <1>3, <2>3, <3>1
    <3> QED BY <1>2, <1>4, <2>1, <2>3, <3>2
  <2> QED BY <1>14, <2>2, <2>3 DEF BeginSignup
<1>15. CASE BeginJoin(r, q)
  <2>1. [NoGrants EXCEPT ![q.client] = "user"] \in Grants
    BY <1>4 DEF Roles
  <2> QED BY <1>2, <1>3, <1>7, <1>15, <2>1 DEF BeginJoin
<1>16. CASE BeginDeleteUser(r, q)
  BY <1>2, <1>3, <1>4, <1>7, <1>16 DEF BeginDeleteUser
<1>17. CASE BeginDeleteClient(r, q)
  BY <1>2, <1>3, <1>4, <1>7, <1>17 DEF BeginDeleteClient
<1>18. CASE BeginResend(r, q)
  BY <1>2, <1>3, <1>4, <1>7, <1>18 DEF BeginResend
<1> QED BY <1>1, <1>8, <1>9, <1>10, <1>11, <1>12, <1>13, <1>14, <1>15, <1>16, <1>17, <1>18

(* The statements of a call. *)
IsStatement(r) ==
  \/ DropPending(r) \/ DropInvite(r) \/ Decide(r) \/ Elevate(r) \/ DropPermissions(r)
  \/ InsertMembership(r) \/ Upsert(r) \/ UpsertWrite(r) \/ InsertInvite(r)
  \/ InsertPending(r) \/ Unverify(r) \/ Resend(r) \/ DeletePermission(r) \/ Count(r)
  \/ DeleteMembership(r) \/ FindInvite(r) \/ DeletePending(r) \/ Recheck(r)
  \/ DeleteInvite(r) \/ Declare(r) \/ FindValid(r) \/ CreateUser(r) \/ TakeInvite(r)
  \/ AssertValid(r) \/ Visible(r) \/ PurgePermissions(r) \/ PurgeMembership(r)
  \/ PurgeInvites(r) \/ FlagUser(r) \/ ClientPending(r) \/ ClientPermissions(r)
  \/ FlagClient(r) \/ StrayInvites(r) \/ Die(r)
LEMMA StepCases == ASSUME NEW r, Step(r) PROVE BeginCall(r) \/ IsStatement(r)
BY DEF Step, IsStatement

(* A statement is one of a few that write the table it changes, and        *)
(* belongs to a call that is under way.                                    *)
LEMMA Statements ==
  ASSUME LocalsOK, NEW r \in Calls, IsStatement(r)
  PROVE  /\ Active(r) /\ req' = req /\ pc'[r] # "idle"
         /\ \A s \in Calls \ {r} : SameLocals(s)
         /\ account' = account \/ Unverify(r) \/ Resend(r) \/ Declare(r) \/ CreateUser(r) \/ FlagUser(r)
         /\ \/ membership' = membership \/ Elevate(r) \/ InsertMembership(r)
            \/ DeleteMembership(r) \/ PurgeMembership(r)
         /\ \/ permission' = permission \/ DropPermissions(r) \/ UpsertWrite(r)
            \/ DeletePermission(r) \/ DeleteMembership(r) \/ PurgePermissions(r)
            \/ PurgeMembership(r) \/ ClientPermissions(r)
         /\ \/ invite' = invite \/ DropInvite(r) \/ InsertInvite(r) \/ DeleteInvite(r)
            \/ PurgeInvites(r) \/ StrayInvites(r)
         /\ \/ pending' = pending \/ DropPending(r) \/ DropInvite(r) \/ InsertPending(r)
            \/ DeletePending(r) \/ DeleteInvite(r) \/ PurgeInvites(r) \/ ClientPending(r)
         /\ held' = held \/ InsertInvite(r) \/ FindInvite(r) \/ FindValid(r)
         /\ \/ grants' = grants \/ UpsertWrite(r) \/ InsertPending(r) \/ FindValid(r) \/ TakeInvite(r)
         /\ seen' = seen \/ Decide(r) \/ Upsert(r)
<1> USE DEF LocalsOK, Active, Ended, SameLocals, Goto, Set, Keep, KeepLocals, Fail, tables, locals
<1>1. CASE DropPending(r)
  BY <1>1 DEF DropPending
<1>2. CASE DropInvite(r)
  BY <1>2 DEF DropInvite
<1>3. CASE Decide(r)
  BY <1>3 DEF Decide
<1>4. CASE Elevate(r)
  BY <1>4 DEF Elevate
<1>5. CASE DropPermissions(r)
  BY <1>5 DEF DropPermissions
<1>6. CASE InsertMembership(r)
  BY <1>6 DEF InsertMembership
<1>7. CASE Upsert(r)
  BY <1>7 DEF Upsert, AfterUpserts
<1>8. CASE UpsertWrite(r)
  BY <1>8 DEF UpsertWrite
<1>9. CASE InsertInvite(r)
  BY <1>9 DEF InsertInvite
<1>10. CASE InsertPending(r)
  BY <1>10 DEF InsertPending
<1>11. CASE Unverify(r)
  BY <1>11 DEF Unverify
<1>12. CASE DeletePermission(r)
  BY <1>12 DEF DeletePermission
<1>13. CASE Count(r)
  BY <1>13 DEF Count
<1>14. CASE DeleteMembership(r)
  BY <1>14 DEF DeleteMembership
<1>15. CASE FindInvite(r)
  BY <1>15 DEF FindInvite
<1>16. CASE DeletePending(r)
  BY <1>16 DEF DeletePending
<1>17. CASE Recheck(r)
  BY <1>17 DEF Recheck
<1>18. CASE DeleteInvite(r)
  BY <1>18 DEF DeleteInvite
<1>19. CASE Declare(r)
  BY <1>19 DEF Declare
<1>20. CASE FindValid(r)
  BY <1>20 DEF FindValid
<1>21. CASE CreateUser(r)
  BY <1>21 DEF CreateUser
<1>22. CASE TakeInvite(r)
  BY <1>22 DEF TakeInvite
<1>23. CASE AssertValid(r)
  BY <1>23 DEF AssertValid
<1>24. CASE Visible(r)
  BY <1>24 DEF Visible
<1>25. CASE PurgePermissions(r)
  BY <1>25 DEF PurgePermissions
<1>26. CASE PurgeMembership(r)
  BY <1>26 DEF PurgeMembership
<1>27. CASE PurgeInvites(r)
  BY <1>27 DEF PurgeInvites
<1>28. CASE FlagUser(r)
  BY <1>28 DEF FlagUser
<1>29. CASE ClientPending(r)
  BY <1>29 DEF ClientPending
<1>30. CASE ClientPermissions(r)
  BY <1>30 DEF ClientPermissions
<1>31. CASE FlagClient(r)
  BY <1>31 DEF FlagClient
<1>32. CASE StrayInvites(r)
  BY <1>32 DEF StrayInvites
<1>33. CASE Die(r)
  BY <1>33 DEF Die
<1>34. CASE Resend(r)
  BY <1>34 DEF Resend
<1> QED BY <1>1, <1>2, <1>3, <1>4, <1>5, <1>6, <1>7, <1>8, <1>9, <1>10, <1>11, <1>12,
       <1>13, <1>14, <1>15, <1>16, <1>17, <1>18, <1>19, <1>20, <1>21, <1>22, <1>23, <1>24,
       <1>25, <1>26, <1>27, <1>28, <1>29, <1>30, <1>31, <1>32, <1>33,
       <1>34 DEF IsStatement

(* The row of an invitation that is inserted, and its id.                  *)
LEMMA InvitationInserted ==
  ASSUME TablesOK, LocalsOK, NEW r \in Calls, Shape(r), InsertInvite(r), pc'[r] # "failed"
  PROVE  /\ invite[To(r)] = NoInvite /\ pc'[r] = "insert_pending"
         /\ held'[r] \in InviteRow /\ held'[r] \in HeldRow /\ held'[r] # NoInvite
         /\ held'[r].inviter = held[r].inviter /\ held'[r].type = held[r].type
         /\ invite' = [invite EXCEPT ![To(r)] = held'[r]] /\ held' = [held EXCEPT ![r] = held'[r]]
         /\ pc' = [pc EXCEPT ![r] = "insert_pending"]
         /\ UNCHANGED <<account, membership, permission, pending, deleted, req, grants, current, seen>>
         /\ ~Updating(r) => \A s \in Calls : held[s] # NoInvite => held[s].id # held'[r].id
         /\ Updating(r) => held'[r].id = held[r].id
<1> USE DEF TablesOK, LocalsOK, Goto, Set, Keep
<1> DEFINE used == {invite[v].id : v \in {w \in Users : invite[w] # NoInvite}}
                   \cup {held[s].id : s \in {s \in Calls : held[s] # NoInvite}}
           new == CHOOSE i \in InviteIds \ used : TRUE
           row == IF Updating(r) THEN held[r] ELSE [held[r] EXCEPT !.id = new]
<1> HIDE DEF used
<1>1. held[r] \in HeldRow
  BY DEF InsertInvite, Shape, Writing
<1>2. (Updating(r) \/ InviteIds \ used # {}) =>
         /\ row \in InviteRow /\ row.inviter = held[r].inviter /\ row.type = held[r].type
         /\ Updating(r) => row.id = held[r].id
         /\ ~Updating(r) => row.id \notin used
  <2>1. CASE Updating(r)
    BY <1>1, <2>1 DEF Updating, HeldRow, InviteRow
  <2>2. CASE InviteIds \ used # {} /\ ~Updating(r)
    <3>1. new \in InviteIds \ used
      BY <2>2
    <3> HIDE DEF new
    <3> QED BY <1>1, <2>2, <3>1 DEF HeldRow, InviteRow
  <2> QED BY <2>1, <2>2
<1>3. InviteRow \subseteq HeldRow
  BY DEF InviteRow, HeldRow
<1>4. /\ Updating(r) \/ InviteIds \ used # {}
      /\ invite[To(r)] = NoInvite
      /\ invite' = [invite EXCEPT ![To(r)] = row]
      /\ held' = [held EXCEPT ![r] = row]
      /\ pc' = [pc EXCEPT ![r] = "insert_pending"]
      /\ UNCHANGED <<account, membership, permission, pending, deleted, req, grants, current, seen>>
  BY DEF InsertInvite, Fail, used
<1>5. \A s \in Calls : held[s] # NoInvite => held[s].id \in used
  BY DEF used
<1> HIDE DEF row
<1> QED BY <1>2, <1>3, <1>4, <1>5, NullAssumption

(* Statements keep the types, and what a call knows where it stands.       *)
LEMMA StatementTypes ==
  ASSUME TablesOK, LocalsOK, NEW r \in Calls, Shape(r), IsStatement(r)
  PROVE  TablesOK' /\ LocalsOK'
<1> USE DEF TablesOK, LocalsOK, Goto, Set, Keep, KeepLocals, Fail, tables, locals, Labels
<1>0. /\ req[r] \in Request /\ To(r) \in Users /\ req[r].client \in Clients
      /\ NoGrants \in [Clients -> {"admin", "user", None}]
      /\ NoGrants \in [Clients -> Roles \cup {None}]
      /\ {"member", "owner"} \subseteq Types
  BY Statements DEF Active, Shape, Request, To, NoGrants, Types
<1>1. CASE DropPending(r)
  BY <1>0, <1>1 DEF DropPending
<1>2. CASE DropInvite(r)
  BY <1>0, <1>2 DEF DropInvite
<1>3. CASE Decide(r)
  <2>1. \E skip_email \in BOOLEAN : seen' = [seen EXCEPT ![r] = Exists(To(r)) /\ skip_email]
    BY <1>3 DEF Decide
  <2>2. seen' \in [Calls -> BOOLEAN]
    <3>1. \A skip_email \in BOOLEAN : (Exists(To(r)) /\ skip_email) \in BOOLEAN
      OBVIOUS
    <3> QED BY <2>1, <3>1
  <2>3. pc' \in [Calls -> Labels]
    BY <1>3 DEF Decide
  <2>4. UNCHANGED <<tables, req, held, grants, current>>
    BY <1>3 DEF Decide
  <2> QED BY <2>2, <2>3, <2>4
<1>4. CASE Elevate(r)
  <2>1. pc' = [pc EXCEPT ![r] = "drop_permissions"] \/ pc' = [pc EXCEPT ![r] = "failed"]
    BY <1>4 DEF Elevate
  <2>2. UNCHANGED <<account, permission, invite, pending, deleted, locals>>
    BY <1>4 DEF Elevate
  <2>3. membership' = membership \/ membership' = [membership EXCEPT ![To(r)] = "owner"]
    BY <1>4 DEF Elevate
  <2>4. membership' \in [Users -> Types \cup {None}]
    BY <1>0, <2>3
  <2>5. pc' \in [Calls -> Labels]
    BY <2>1
  <2> QED BY <2>2, <2>4, <2>5
<1>5. CASE DropPermissions(r)
  BY <1>0, <1>5 DEF DropPermissions
<1>6. CASE InsertMembership(r)
  <2>1. held[r] # NoInvite => held[r].type \in Types
    BY DEF HeldRow
  <2>2. pc' = [pc EXCEPT ![r] = "upsert"] \/ pc' = [pc EXCEPT ![r] = "failed"]
    BY <1>6 DEF InsertMembership
  <2>3. UNCHANGED <<account, permission, invite, pending, deleted, locals>>
    BY <1>6 DEF InsertMembership
  <2>4. membership' = membership \/ \E t \in Types : membership' = [membership EXCEPT ![To(r)] = t]
    BY <1>0, <1>6, <2>1 DEF InsertMembership
  <2>5. membership' \in [Users -> Types \cup {None}]
    BY <1>0, <2>4
  <2>6. pc' \in [Calls -> Labels]
    BY <2>2
  <2> QED BY <2>3, <2>5, <2>6
<1>7. CASE Upsert(r)
  <2>1. pc' \in [Calls -> Labels] /\ UNCHANGED <<tables, req, held, grants>>
    BY <1>7 DEF Upsert, AfterUpserts
  <2>2. current' \in [Calls -> Clients \cup {None}]
    BY <1>7 DEF Upsert
  <2>3. ASSUME NEW c \in Clients, seen' = [seen EXCEPT ![r] = permission[To(r)][c] # None]
        PROVE  seen' \in [Calls -> BOOLEAN]
    <3>1. (permission[To(r)][c] # None) \in BOOLEAN
      OBVIOUS
    <3> QED BY <2>3, <3>1
  <2>4. seen' = seen \/ \E c \in Clients : seen' = [seen EXCEPT ![r] = permission[To(r)][c] # None]
    BY <1>7 DEF Upsert
  <2> QED BY <2>1, <2>2, <2>3, <2>4
<1>8. CASE UpsertWrite(r)
  <2> DEFINE c == current[r]
  <2>1. c \in Clients /\ grants[r][c] \in {"admin", "user"}
    BY <1>8 DEF UpsertWrite, Shape, PermissionRole
  <2>2. [permission EXCEPT ![To(r)][c] = grants[r][c]]
          \in [Users -> [Clients -> {"admin", "user", None}]]
    BY <1>0, <2>1
  <2>3. [grants EXCEPT ![r][c] = None] \in [Calls -> Grants]
    BY <2>1 DEF Grants
  <2>4. /\ permission' = permission \/ permission' = [permission EXCEPT ![To(r)][c] = grants[r][c]]
        /\ grants' = grants \/ grants' = [grants EXCEPT ![r][c] = None]
        /\ UNCHANGED <<account, membership, invite, pending, deleted, req, held, seen>>
    BY <1>8 DEF UpsertWrite
  <2>5. pc' \in [Calls -> Labels] /\ current' \in [Calls -> Clients \cup {None}]
    BY <1>8 DEF UpsertWrite, AfterUpserts
  <2> QED BY <2>2, <2>3, <2>4, <2>5
<1>9. CASE InsertInvite(r)
  <2>1. CASE pc'[r] # "failed"
    <3>1. /\ held'[r] \in InviteRow /\ held'[r] \in HeldRow
          /\ invite' = [invite EXCEPT ![To(r)] = held'[r]] /\ held' = [held EXCEPT ![r] = held'[r]]
          /\ pc' = [pc EXCEPT ![r] = "insert_pending"]
          /\ UNCHANGED <<account, membership, permission, pending, deleted, req, grants, current, seen>>
      BY <1>9, <2>1, InvitationInserted
    <3> QED BY <1>0, <3>1
  <2>2. CASE pc'[r] = "failed"
    <3>1. pc' = [pc EXCEPT ![r] = "insert_pending"] \/ Fail(r)
      BY <1>9 DEF InsertInvite
    <3>2. Fail(r)
      BY <2>2, <3>1
    <3> QED BY <3>2
  <2> QED BY <2>1, <2>2
<1>10. CASE InsertPending(r)
  <2>1. \A c \in Clients : grants[r][c] # None => grants[r][c] \in Roles
    BY <1>10 DEF InsertPending, Shape, Writing, Unasked
  <2>2. ASSUME NEW c \in Clients, grants[r][c] # None
        PROVE  /\ [pending EXCEPT ![To(r)][c] = grants[r][c]]
                    \in [Users -> [Clients -> Roles \cup {None}]]
               /\ [grants EXCEPT ![r][c] = None] \in [Calls -> Grants]
    BY <1>0, <2>1, <2>2 DEF Grants
  <2>3. CASE \E c \in Clients :
               /\ grants[r][c] # None
               /\ pending' = [pending EXCEPT ![To(r)][c] = grants[r][c]]
               /\ grants' = [grants EXCEPT ![r][c] = None]
               /\ UNCHANGED <<pc, account, membership, permission, invite, deleted,
                              held, current, seen, req>>
    <3>1. PICK c \in Clients :
            /\ grants[r][c] # None
            /\ pending' = [pending EXCEPT ![To(r)][c] = grants[r][c]]
            /\ grants' = [grants EXCEPT ![r][c] = None]
      BY <2>3
    <3>2. pending' \in [Users -> [Clients -> Roles \cup {None}]] /\ grants' \in [Calls -> Grants]
      BY Zenon, <2>2, <3>1
    <3> QED BY <2>3, <3>2
  <2>4. CASE UNCHANGED <<tables, locals>> /\ \E l \in {"failed", "unverify", "done"} : Goto(r, l)
    BY <2>4
  <2> QED BY <1>10, <2>3, <2>4 DEF InsertPending
<1>11. CASE Unverify(r)
  BY <1>0, <1>11 DEF Unverify, Resend, Accounts
<1>12. CASE DeletePermission(r)
  BY <1>0, <1>12 DEF DeletePermission
<1>13. CASE Count(r)
  BY <1>0, <1>13 DEF Count
<1>14. CASE DeleteMembership(r)
  BY <1>0, <1>14 DEF DeleteMembership
<1>15. CASE FindInvite(r)
  <2>1. InviteRow \subseteq HeldRow
    BY DEF InviteRow, HeldRow
  <2> QED BY <1>0, <1>15, <2>1 DEF FindInvite
<1>16. CASE DeletePending(r)
  <2> DEFINE new == IF ByClient(r) THEN [pending[To(r)] EXCEPT ![req[r].client] = None] ELSE NoGrants
  <2>1. new \in [Clients -> Roles \cup {None}]
    BY <1>0
  <2>2. pending' = pending \/ pending' = [pending EXCEPT ![To(r)] = new]
    BY <1>0, <1>16 DEF DeletePending
  <2>3. pending' \in [Users -> [Clients -> Roles \cup {None}]]
    BY <1>0, <2>1, <2>2
  <2> QED BY <1>16, <2>3 DEF DeletePending
<1>17. CASE Recheck(r)
  BY <1>0, <1>17 DEF Recheck
<1>18. CASE DeleteInvite(r)
  BY <1>0, <1>18 DEF DeleteInvite
<1>19. CASE Declare(r)
  BY <1>0, <1>19 DEF Declare, Accounts
<1>20. CASE FindValid(r)
  <2>1. InviteRow \subseteq HeldRow
    BY DEF InviteRow, HeldRow
  <2>2. invite[To(r)] # NoInvite => invite[To(r)] \in HeldRow
    BY <1>0, <2>1
  <2>3. \A c \in Clients : [grants EXCEPT ![r][c] = "user"] \in [Calls -> Grants]
    BY DEF Grants, Roles
  <2>4. /\ held' = held \/ (invite[To(r)] # NoInvite /\ held' = [held EXCEPT ![r] = invite[To(r)]])
        /\ grants' = grants \/ \E c \in Clients : grants' = [grants EXCEPT ![r][c] = "user"]
    BY <1>20, InputAssumption DEF FindValid
  <2>5. pc' \in [Calls -> Labels] /\ UNCHANGED <<tables, req, current, seen>>
    BY <1>20 DEF FindValid
  <2> QED BY <2>2, <2>3, <2>4, <2>5
<1>21. CASE CreateUser(r)
  BY <1>0, <1>21 DEF CreateUser, Accounts
<1>22. CASE TakeInvite(r)
  <2> DEFINE read == [c \in Clients |-> LET p == PendingOf(To(r), held[r])[c] IN
                        IF p # None /\ c \in deleted THEN "missing" ELSE p]
  <2>1. PendingOf(To(r), held[r]) \in [Clients -> Roles \cup {None}]
    BY <1>0 DEF PendingOf
  <2>2. read \in Grants
    BY <2>1 DEF Grants
  <2>3. grants' = [grants EXCEPT ![r] = read] /\ pc' = [pc EXCEPT ![r] = "assert_valid"]
    BY <1>22 DEF TakeInvite
  <2>4. UNCHANGED <<tables, req, held, current, seen>>
    BY <1>22 DEF TakeInvite
  <2> HIDE DEF read
  <2>5. grants' \in [Calls -> Grants]
    BY <2>2, <2>3
  <2>6. pc' \in [Calls -> Labels]
    BY <2>3
  <2> QED BY <2>4, <2>5, <2>6
<1>23. CASE AssertValid(r)
  BY <1>0, <1>23 DEF AssertValid
<1>24. CASE Visible(r)
  BY <1>0, <1>24 DEF Visible
<1>25. CASE PurgePermissions(r)
  BY <1>0, <1>25 DEF PurgePermissions
<1>26. CASE PurgeMembership(r)
  BY <1>0, <1>26 DEF PurgeMembership
<1>27. CASE PurgeInvites(r)
  BY <1>0, <1>27 DEF PurgeInvites
<1>28. CASE FlagUser(r)
  BY <1>0, <1>28 DEF FlagUser, Accounts
<1>29. CASE ClientPending(r)
  BY <1>0, <1>29 DEF ClientPending
<1>30. CASE ClientPermissions(r)
  BY <1>0, <1>30 DEF ClientPermissions
<1>31. CASE FlagClient(r)
  BY <1>0, <1>31 DEF FlagClient
<1>32. CASE StrayInvites(r)
  BY <1>0, <1>32 DEF StrayInvites
<1>33. CASE Die(r)
  BY <1>0, <1>33 DEF Die
<1>34. CASE Resend(r)
  BY <1>0, <1>34 DEF Resend, Accounts
<1> QED BY <1>1, <1>2, <1>3, <1>4, <1>5, <1>6, <1>7, <1>8, <1>9, <1>10, <1>11, <1>12,
       <1>13, <1>14, <1>15, <1>16, <1>17, <1>18, <1>19, <1>20, <1>21, <1>22, <1>23, <1>24,
       <1>25, <1>26, <1>27, <1>28, <1>29, <1>30, <1>31, <1>32, <1>33,
       <1>34 DEF IsStatement

LEMMA PendingInserted ==
  ASSUME LocalsOK, NEW r \in Calls, InsertPending(r)
  PROVE  /\ pc[r] = "insert_pending" /\ UNCHANGED <<req, held, current, seen>>
         /\ pc'[r] \in {"insert_pending", "unverify", "done", "failed"}
         /\ pc'[r] = "unverify" => seen[r]
         /\ grants[r] \in Unasked => grants'[r] \in Unasked
<1> USE DEF LocalsOK, InsertPending, Goto, Keep, Fail, tables, locals
<1>1. pc[r] = "insert_pending" /\ UNCHANGED <<req, held, current, seen>>
  OBVIOUS
<1>2. pc'[r] \in {"insert_pending", "unverify", "done", "failed"} /\ (pc'[r] = "unverify" => seen[r])
  OBVIOUS
<1>3. grants' = grants \/ \E c \in Clients : grants' = [grants EXCEPT ![r][c] = None]
  OBVIOUS
<1> QED BY <1>1, <1>2, <1>3 DEF Unasked

(* ... and what a call is and holds where it stands stays as Shape says.   *)
LEMMA StatementShape ==
  ASSUME TablesOK, LocalsOK, NEW r \in Calls, Shape(r), IsStatement(r)
  PROVE  Shape(r)'
<1> USE DEF TablesOK, LocalsOK, Goto, Set, Keep, KeepLocals, Fail, tables, locals, Shape,
            Writing, Revoking, Withdrawing, Joining, Purging, Erasing, Inviting, Accepts, ByClient
<1>1. CASE DropPending(r)
  BY <1>1 DEF DropPending
<1>2. CASE DropInvite(r)
  BY <1>2 DEF DropInvite
<1>3. CASE Decide(r)
  BY <1>3 DEF Decide, Updating
<1>4. CASE Elevate(r)
  BY <1>4 DEF Elevate
<1>5. CASE DropPermissions(r)
  BY <1>5 DEF DropPermissions
<1>6. CASE InsertMembership(r)
  BY <1>6 DEF InsertMembership
<1>7. CASE Upsert(r)
  BY <1>7 DEF Upsert, AfterUpserts
<1>8. CASE UpsertWrite(r)
  BY <1>8 DEF UpsertWrite
<1>9. CASE InsertInvite(r)
  <2>1. CASE pc'[r] = "failed"
    BY <1>9, <2>1 DEF InsertInvite
  <2>2. CASE pc'[r] # "failed"
    BY <1>9, <2>2, InvitationInserted DEF InsertInvite
  <2> QED BY <2>1, <2>2
<1>10. CASE InsertPending(r)
  BY <1>10, PendingInserted
<1>11. CASE Unverify(r)
  BY <1>11 DEF Unverify
<1>12. CASE DeletePermission(r)
  BY <1>12 DEF DeletePermission
<1>13. CASE Count(r)
  BY <1>13 DEF Count
<1>14. CASE DeleteMembership(r)
  BY <1>14 DEF DeleteMembership
<1>15. CASE FindInvite(r)
  BY <1>15 DEF FindInvite
<1>16. CASE DeletePending(r)
  BY <1>16 DEF DeletePending
<1>17. CASE Recheck(r)
  BY <1>17 DEF Recheck
<1>18. CASE DeleteInvite(r)
  BY <1>18 DEF DeleteInvite
<1>19. CASE Declare(r)
  BY <1>19 DEF Declare
<1>20. CASE FindValid(r)
  BY <1>20 DEF FindValid
<1>21. CASE CreateUser(r)
  BY <1>21 DEF CreateUser
<1>22. CASE TakeInvite(r)
  BY <1>22 DEF TakeInvite
<1>23. CASE AssertValid(r)
  BY <1>23 DEF AssertValid
<1>24. CASE Visible(r)
  BY <1>24 DEF Visible
<1>25. CASE PurgePermissions(r)
  BY <1>25 DEF PurgePermissions
<1>26. CASE PurgeMembership(r)
  BY <1>26 DEF PurgeMembership
<1>27. CASE PurgeInvites(r)
  BY <1>27 DEF PurgeInvites
<1>28. CASE FlagUser(r)
  BY <1>28 DEF FlagUser
<1>29. CASE ClientPending(r)
  BY <1>29 DEF ClientPending
<1>30. CASE ClientPermissions(r)
  BY <1>30 DEF ClientPermissions
<1>31. CASE FlagClient(r)
  BY <1>31 DEF FlagClient
<1>32. CASE StrayInvites(r)
  BY <1>32 DEF StrayInvites
<1>33. CASE Die(r)
  BY <1>33 DEF Die, Active
<1>34. CASE Resend(r)
  BY <1>34 DEF Resend
<1> QED BY <1>1, <1>2, <1>3, <1>4, <1>5, <1>6, <1>7, <1>8, <1>9, <1>10, <1>11, <1>12,
       <1>13, <1>14, <1>15, <1>16, <1>17, <1>18, <1>19, <1>20, <1>21, <1>22, <1>23, <1>24,
       <1>25, <1>26, <1>27, <1>28, <1>29, <1>30, <1>31, <1>32, <1>33,
       <1>34 DEF IsStatement

LEMMA HistoryTypes ==
  ASSUME TypeOK, NEW r \in Calls, req'[r] \in Request, Record(r), Remember(r)
  PROVE  HistoryOK'
<1> USE DEF TypeOK, HistoryOK
<1>1. PowerNow \subseteq Users \X (Clients \cup {Organization})
      /\ PowerNow' \subseteq Users \X (Clients \cup {Organization})
      /\ Offered \subseteq Users \X Clients
  BY DEF PowerNow, Offered
<1>2. met' \in [Calls -> SUBSET Calls] /\ power' \in [Calls -> SUBSET (Users \X (Clients \cup {Organization}))]
  BY <1>1 DEF Record
<1>3. did' \in [Calls -> SUBSET Effects]
  BY DEF Record, Effects
<1>4. req'[r].to \in Users
  BY DEF Request
<1>5. out' \subseteq Users
  BY <1>4 DEF Remember
<1>6. promised' \subseteq Users \X Clients
  BY <1>1 DEF Remember
<1> QED BY <1>2, <1>3, <1>5, <1>6

LEMMA TypeInit == Init => TypeOK /\ ShapeInv
<1> SUFFICES ASSUME Init PROVE TypeOK /\ ShapeInv
  OBVIOUS
<1>1. TablesOK
  BY InputAssumption DEF Init, TablesOK, Tables
<1>2. NoGrants \in Grants
  BY DEF NoGrants, Grants
<1>3. LocalsOK
  BY <1>2 DEF Init, LocalsOK, Labels
<1>4. HistoryOK
  BY DEF Init, HistoryOK, Offered
<1>5. ShapeInv
  BY DEF Init, ShapeInv, Shape, Writing, Revoking, Withdrawing, Joining, Purging, Erasing
<1> QED BY <1>1, <1>3, <1>4, <1>5, TypeParts

LEMMA TypeStep ==
  ASSUME TypeOK, ShapeInv, NEW r \in Calls, Step(r), Record(r), Remember(r)
  PROVE  TypeOK' /\ ShapeInv'
<1>1. TablesOK /\ LocalsOK /\ Shape(r)
  BY TypeParts DEF ShapeInv
<1>2. CASE BeginCall(r)
  <2>1. TablesOK' /\ LocalsOK' /\ req'[r] \in Request
    BY <1>1, <1>2, Begins DEF TablesOK, tables
  <2>2. HistoryOK'
    BY <2>1, HistoryTypes
  <2>3. Shape(r)'
    BY <1>1, <1>2, <2>1, Begins, NullAssumption
    DEF LocalsOK, Shape, Writing, Revoking, Withdrawing, Joining, Purging, Erasing, Inviting, Accepts, ByClient
  <2>4. ASSUME NEW s \in Calls \ {r}
        PROVE  Shape(s)'
    <3>1. SameLocals(s)
      BY <1>1, <1>2, Begins
    <3> QED BY <3>1 DEF ShapeInv, Shape, SameLocals, Inviting, Accepts, ByClient
  <2> QED BY <2>1, <2>2, <2>3, <2>4, TypeParts DEF ShapeInv, TypeOK, TablesOK, LocalsOK, HistoryOK
<1>3. CASE IsStatement(r)
  <2>1. TablesOK' /\ LocalsOK' /\ Shape(r)'
    BY <1>1, <1>3, StatementTypes, StatementShape
  <2>2. req'[r] \in Request
    BY <1>1, <1>3, Statements DEF Shape, Active
  <2>3. HistoryOK'
    BY <2>2, HistoryTypes
  <2>4. ASSUME NEW s \in Calls \ {r}
        PROVE  Shape(s)'
    <3>1. SameLocals(s)
      BY <1>1, <1>3, Statements
    <3> QED BY <3>1 DEF ShapeInv, Shape, SameLocals, Inviting, Accepts, ByClient
  <2> QED BY <2>1, <2>3, <2>4 DEF ShapeInv, TypeOK, TablesOK, LocalsOK, HistoryOK
<1> QED BY <1>2, <1>3, StepCases

(* Type correctness: the five tables, what the calls hold and the history  *)
(* keep their types through every statement of the services.               *)
THEOREM TypeCorrect == Spec => []TypeOK
<1>1. Init => TypeOK /\ ShapeInv
  BY TypeInit
<1>2. (TypeOK /\ ShapeInv) /\ [Next]_vars => TypeOK' /\ ShapeInv'
  <2> SUFFICES ASSUME TypeOK, ShapeInv, [Next]_vars PROVE TypeOK' /\ ShapeInv'
    OBVIOUS
  <2>1. CASE Next
    BY <2>1, TypeStep DEF Next
  <2>2. CASE UNCHANGED vars
    BY <2>2 DEF vars, tables, locals, history, TypeOK, ShapeInv, Shape, Inviting, Accepts, ByClient
  <2> QED BY <2>1, <2>2
<1> QED BY <1>1, <1>2, PTL DEF Spec

-----------------------------------------------------------------------------
(* The history of the calls *)

(* Calls that overlap have met each other, and a call remembers every      *)
(* power there was while it was under way.                                 *)
MetInv ==
  \A s \in Calls :
    /\ pc[s] = "idle" => met[s] = {} /\ did[s] = {}
    /\ s \notin met[s] /\ \A t \in met[s] : pc[t] # "idle" /\ s \in met[t]
    /\ Active(s) => (\A t \in Calls \ {s} : Active(t) => t \in met[s]) /\ PowerNow \subseteq power[s]

TypeInv == TypeOK /\ ShapeInv

(* What is known of every call when one takes a step: those that began     *)
(* have met and done no less than before, and those under way know all     *)
(* power there was.                                                        *)
LEMMA HistoryGrows ==
  ASSUME TypeInv, MetInv, NEW r \in Calls, Step(r), Record(r)
  PROVE  /\ pc'[r] # "idle" /\ \A s \in Calls \ {r} : SameLocals(s)
         /\ \A s \in Calls : pc[s] # "idle" =>
              /\ req'[s] = req[s] /\ pc'[s] # "idle"
              /\ met[s] \subseteq met'[s] /\ did[s] \subseteq did'[s]
         /\ \A s \in Calls : pc'[s] \notin {"idle"} \cup Ended =>
              /\ PowerNow' \subseteq power'[s]
              /\ pc[s] # "idle" => power[s] \subseteq power'[s]
<1> USE DEF TypeInv
<1>1. TablesOK /\ LocalsOK /\ Shape(r) /\ HistoryOK
  BY TypeParts DEF ShapeInv
<1>2. CASE BeginCall(r)
  <2>1. /\ pc[r] = "idle" /\ pc'[r] \notin {"idle"} \cup Ended /\ UNCHANGED tables
        /\ \A s \in Calls \ {r} : SameLocals(s)
    BY <1>1, <1>2, Begins DEF Ended
  <2>2. PowerNow' = PowerNow
    BY <2>1 DEF PowerNow, IsOwner, tables
  <2>3. /\ did' = did /\ power'[r] = PowerNow
        /\ \A s \in Calls \ {r} : met[s] \subseteq met'[s]
    BY <1>1, <2>1 DEF Record, HistoryOK
  <2>4. ASSUME NEW s \in Calls \ {r}, pc'[s] \notin {"idle"} \cup Ended
        PROVE  PowerNow' \subseteq power'[s] /\ power[s] \subseteq power'[s]
    BY <1>1, <2>1, <2>4 DEF Record, HistoryOK, SameLocals, Active
  <2> QED BY <2>1, <2>2, <2>3, <2>4 DEF SameLocals
<1>3. CASE IsStatement(r)
  <2>1. /\ pc[r] # "idle" /\ pc'[r] # "idle" /\ req' = req /\ Active(r)
        /\ \A s \in Calls \ {r} : SameLocals(s)
    BY <1>1, <1>3, Statements DEF Active
  <2>2. met' = met /\ \A s \in Calls : did[s] \subseteq did'[s]
    BY <1>1, <2>1 DEF Record, HistoryOK
  <2>3. ASSUME NEW s \in Calls, pc'[s] \notin {"idle"} \cup Ended
        PROVE  PowerNow' \subseteq power'[s] /\ power[s] \subseteq power'[s]
    <3>1. Active(s)
      BY <2>1, <2>3 DEF SameLocals, Active
    <3> QED BY <1>1, <2>1, <2>3, <3>1 DEF Record, HistoryOK
  <2> QED BY <2>1, <2>2, <2>3 DEF SameLocals
<1> QED BY <1>2, <1>3, StepCases

LEMMA MetStep ==
  ASSUME TypeInv, MetInv, NEW r \in Calls, Step(r), Record(r)
  PROVE  MetInv'
<1>1. TablesOK /\ LocalsOK /\ Shape(r) /\ HistoryOK
  BY TypeParts DEF ShapeInv, TypeInv
<1>2. /\ pc'[r] # "idle" /\ \A s \in Calls \ {r} : SameLocals(s)
      /\ \A s \in Calls : pc'[s] \notin {"idle"} \cup Ended => PowerNow' \subseteq power'[s]
  BY HistoryGrows
<1>3. CASE pc[r] = "idle"
  <2>1. /\ \A s \in Calls \ {r} : met'[s] = IF Active(s) THEN met[s] \cup {r} ELSE met[s]
        /\ met'[r] = {t \in Calls : Active(t)} /\ did' = did
    BY <1>1, <1>3 DEF Record, HistoryOK
  <2>2. ASSUME NEW s \in Calls
        PROVE  /\ pc'[s] = "idle" => met'[s] = {} /\ did'[s] = {}
               /\ s \notin met'[s] /\ \A t \in met'[s] : pc'[t] # "idle"
               /\ pc'[s] \notin {"idle"} \cup Ended =>
                    \A t \in Calls \ {s} : pc'[t] \notin {"idle"} \cup Ended => t \in met'[s]
    <3>1. CASE s = r
      BY <1>1, <1>2, <1>3, <2>1, <3>1 DEF MetInv, SameLocals, Active
    <3>2. CASE s # r
      <4>1. pc'[s] = pc[s] /\ did'[s] = did[s]
        BY <1>2, <2>1, <3>2 DEF SameLocals
      <4>2. met'[s] = (IF Active(s) THEN met[s] \cup {r} ELSE met[s])
        BY <2>1, <3>2
      <4>3. s \notin met'[s] /\ (pc'[s] = "idle" => met'[s] = {} /\ did'[s] = {})
        BY <3>2, <4>1, <4>2 DEF MetInv, Active
      <4>4. \A t \in met'[s] : pc'[t] # "idle"
        BY <1>1, <1>2, <4>2 DEF MetInv, SameLocals, HistoryOK
      <4>5. ASSUME Active(s), NEW t \in Calls \ {s}, pc'[t] \notin {"idle"} \cup Ended
            PROVE  t \in met'[s]
        BY <1>2, <4>2, <4>5 DEF MetInv, SameLocals, Active
      <4> QED BY <4>1, <4>3, <4>4, <4>5 DEF Active
    <3> QED BY <3>1, <3>2
  <2>3. ASSUME NEW s \in Calls, NEW t \in met'[s]
        PROVE  s \in met'[t]
    <3>1. \A e \in Calls : met[e] \subseteq Calls /\ r \notin met[e]
      BY <1>1, <1>3 DEF MetInv, HistoryOK
    <3>2. CASE s = r
      BY <1>3, <2>1, <2>3, <3>2 DEF Active
    <3>3. CASE s # r /\ t = r
      BY <2>1, <2>3, <3>1, <3>3
    <3>4. CASE s # r /\ t # r
      <4>1. met'[s] = (IF Active(s) THEN met[s] \cup {r} ELSE met[s])
        BY <2>1, <3>4
      <4>2. t \in met[s] /\ t \in Calls
        BY <2>3, <3>1, <3>4, <4>1
      <4>3. s \in met[t]
        BY <4>2 DEF MetInv
      <4> QED BY <2>1, <3>4, <4>2, <4>3
    <3> QED BY <3>2, <3>3, <3>4
  <2> QED BY <1>2, <2>2, <2>3 DEF MetInv, Active
<1>4. CASE pc[r] # "idle"
  <2>1. met' = met /\ Active(r) /\ \A s \in Calls \ {r} : did'[s] = did[s]
    <3>1. Active(r)
      BY <1>1, <1>4, StepCases, Statements, Begins
    <3> QED BY <1>1, <1>4, <3>1 DEF Record, HistoryOK
  <2>2. ASSUME NEW s \in Calls
        PROVE  /\ pc'[s] = "idle" => met'[s] = {} /\ did'[s] = {}
               /\ s \notin met'[s] /\ \A t \in met'[s] : pc'[t] # "idle"
               /\ pc'[s] \notin {"idle"} \cup Ended =>
                    \A t \in Calls \ {s} : pc'[t] \notin {"idle"} \cup Ended => t \in met'[s]
    BY <1>1, <1>2, <1>4, <2>1 DEF MetInv, SameLocals, Active, HistoryOK
  <2>3. \A s \in Calls : \A t \in met'[s] : s \in met'[t]
    BY <2>1 DEF MetInv
  <2> QED BY <1>2, <2>2, <2>3 DEF MetInv, Active
<1> QED BY <1>3, <1>4

(* Backing once given lasts as long as the call.                           *)
LEMMA BackingLasts ==
  ASSUME TypeInv, MetInv, NEW r \in Calls, Step(r), Record(r), NEW s \in Calls,
         pc[s] # "idle", pc'[s] \notin {"idle"} \cup Ended,
         Accepts(s) => held'[s] = held[s], NEW what, Backed(s, what)
  PROVE  Backed(s, what)'
<1>1. req'[s] = req[s] /\ power[s] \subseteq power'[s]
  BY HistoryGrows
<1> QED BY <1>1 DEF Backed, Sponsor, Accepts

(* What an owner, or an administrator of a client, stands for now.         *)
LEMMA PowerOf ==
  ASSUME NEW u \in Users
  PROVE  /\ IsOwner(u) => /\ <<u, Organization>> \in PowerNow
                          /\ \A c \in Clients : <<u, c>> \in PowerNow
         /\ \A c \in Clients : Administers(u, c) => <<u, c>> \in PowerNow
BY BoundAssumption DEF PowerNow, Administers

-----------------------------------------------------------------------------
(* Which statement leads where: calls take their first statement when they *)
(* begin.                                                                  *)
LEMMA Ways ==
  ASSUME LocalsOK, NEW r \in Calls, IsStatement(r)
  PROVE  /\ pc'[r] \notin {"drop_pending", "delete_permission", "declare", "create_user"}
         /\ pc'[r] = "drop_invite" => DropPending(r)
         /\ pc'[r] = "decide" => DropInvite(r)
         /\ pc'[r] = "elevate" => Decide(r)
         /\ pc'[r] = "drop_permissions" => Elevate(r)
         /\ pc'[r] = "insert_membership" => Decide(r) \/ FindValid(r) \/ AssertValid(r)
         /\ pc'[r] = "upsert" =>
              Decide(r) \/ InsertMembership(r) \/ DropPermissions(r) \/ UpsertWrite(r) \/ FindValid(r) \/ AssertValid(r)
         /\ pc'[r] = "upsert_write" => Upsert(r)
         /\ pc'[r] = "insert_invite" => Decide(r)
         /\ pc'[r] = "insert_pending" => InsertInvite(r) \/ InsertPending(r)
         /\ pc'[r] = "unverify" => InsertPending(r)
         /\ pc'[r] = "count" => DeletePermission(r)
         /\ pc'[r] = "delete_membership" => DeletePermission(r) \/ Count(r)
         /\ pc'[r] = "find_invite" =>
              Count(r) \/ DeleteMembership(r) \/ Upsert(r) \/ Visible(r)
         /\ pc'[r] = "delete_pending" => FindInvite(r) \/ Upsert(r)
         /\ pc'[r] = "delete_invite" => FindInvite(r) \/ DeletePending(r) \/ Recheck(r)
         /\ pc'[r] = "find_valid" => Declare(r)
         /\ pc'[r] = "take_invite" => FindValid(r) \/ CreateUser(r)
         /\ pc'[r] = "assert_valid" => TakeInvite(r)
         /\ pc'[r] = "done" =>
              \/ Upsert(r) \/ InsertPending(r) \/ Unverify(r) \/ Resend(r) \/ Recheck(r) \/ DeleteInvite(r)
              \/ CreateUser(r) \/ FlagUser(r) \/ StrayInvites(r)
         /\ pc'[r] # "resend"
         /\ pc[r] \in {"insert_pending", "unverify"} =>
              pc'[r] \in {"insert_pending", "unverify"} \cup Ended
<1> USE DEF LocalsOK, Goto, Set, Keep, KeepLocals, Fail, tables, locals, Ended
<1>1. CASE DropPending(r)
  BY <1>1 DEF DropPending
<1>2. CASE DropInvite(r)
  BY <1>2 DEF DropInvite
<1>3. CASE Decide(r)
  BY <1>3 DEF Decide
<1>4. CASE Elevate(r)
  BY <1>4 DEF Elevate
<1>5. CASE DropPermissions(r)
  BY <1>5 DEF DropPermissions
<1>6. CASE InsertMembership(r)
  BY <1>6 DEF InsertMembership
<1>7. CASE Upsert(r)
  BY <1>7 DEF Upsert, AfterUpserts
<1>8. CASE UpsertWrite(r)
  BY <1>8 DEF UpsertWrite
<1>9. CASE InsertInvite(r)
  BY <1>9 DEF InsertInvite
<1>10. CASE InsertPending(r)
  BY <1>10 DEF InsertPending
<1>11. CASE Unverify(r)
  BY <1>11 DEF Unverify
<1>12. CASE DeletePermission(r)
  BY <1>12 DEF DeletePermission
<1>13. CASE Count(r)
  BY <1>13 DEF Count
<1>14. CASE DeleteMembership(r)
  BY <1>14 DEF DeleteMembership
<1>15. CASE FindInvite(r)
  BY <1>15 DEF FindInvite
<1>16. CASE DeletePending(r)
  BY <1>16 DEF DeletePending
<1>17. CASE Recheck(r)
  BY <1>17 DEF Recheck
<1>18. CASE DeleteInvite(r)
  BY <1>18 DEF DeleteInvite
<1>19. CASE Declare(r)
  BY <1>19 DEF Declare
<1>20. CASE FindValid(r)
  BY <1>20 DEF FindValid
<1>21. CASE CreateUser(r)
  BY <1>21 DEF CreateUser
<1>22. CASE TakeInvite(r)
  BY <1>22 DEF TakeInvite
<1>23. CASE AssertValid(r)
  BY <1>23 DEF AssertValid
<1>24. CASE Visible(r)
  BY <1>24 DEF Visible
<1>25. CASE PurgePermissions(r)
  BY <1>25 DEF PurgePermissions
<1>26. CASE PurgeMembership(r)
  BY <1>26 DEF PurgeMembership
<1>27. CASE PurgeInvites(r)
  BY <1>27 DEF PurgeInvites
<1>28. CASE FlagUser(r)
  BY <1>28 DEF FlagUser
<1>29. CASE ClientPending(r)
  BY <1>29 DEF ClientPending
<1>30. CASE ClientPermissions(r)
  BY <1>30 DEF ClientPermissions
<1>31. CASE FlagClient(r)
  BY <1>31 DEF FlagClient
<1>32. CASE StrayInvites(r)
  BY <1>32 DEF StrayInvites
<1>33. CASE Die(r)
  BY <1>33 DEF Die
<1>34. CASE Resend(r)
  BY <1>34 DEF Resend
<1> QED BY <1>1, <1>2, <1>3, <1>4, <1>5, <1>6, <1>7, <1>8, <1>9, <1>10, <1>11, <1>12,
       <1>13, <1>14, <1>15, <1>16, <1>17, <1>18, <1>19, <1>20, <1>21, <1>22, <1>23, <1>24,
       <1>25, <1>26, <1>27, <1>28, <1>29, <1>30, <1>31, <1>32, <1>33,
       <1>34 DEF IsStatement

-----------------------------------------------------------------------------
(* Owners are made by owners *)

(* Whoever is to become an owner is backed by one, from the first          *)
(* statement on or from the moment when the invitation is found valid.     *)
OwnerSponsors ==
  \A s \in Calls :
    /\ pc[s] \in {"drop_pending", "drop_invite", "decide", "elevate", "insert_membership"}
    /\ held[s] # NoInvite /\ held[s].type = "owner"
    => Backed(s, Organization)

LEMMA OwnerStep ==
  ASSUME TypeInv, MetInv, OwnerSponsors, NEW r \in Calls, Step(r), Record(r)
  PROVE  OwnerSponsors'
<1>1. TablesOK /\ LocalsOK /\ Shape(r)
  BY TypeParts DEF ShapeInv, TypeInv
<1> DEFINE before == {"drop_pending", "drop_invite", "decide", "elevate", "insert_membership"}
<1>2. SUFFICES ASSUME NEW s \in Calls, pc'[s] \in before,
                      held'[s] # NoInvite, held'[s].type = "owner"
               PROVE  Backed(s, Organization)'
  BY DEF OwnerSponsors
<1>3. pc'[s] \notin {"idle"} \cup Ended
  BY <1>2 DEF Ended
<1>4. ASSUME pc[s] \in before, held'[s] = held[s]
      PROVE  Backed(s, Organization)'
  <2>1. Backed(s, Organization) /\ pc[s] # "idle"
    BY <1>2, <1>4 DEF OwnerSponsors
  <2> QED BY <1>3, <1>4, <2>1, BackingLasts
<1>5. CASE s # r
  BY <1>2, <1>4, <1>5, HistoryGrows DEF SameLocals
<1>6. ASSUME NEW u \in Users, s = r, IsOwner(u), UNCHANGED tables, Sponsor(r)' = u
      PROVE  Backed(s, Organization)'
  <2>1. <<u, Organization>> \in PowerNow' /\ PowerNow' \subseteq power'[r]
    BY <1>3, <1>6, PowerOf, HistoryGrows DEF PowerNow, IsOwner, tables
  <2> QED BY <1>6, <2>1 DEF Backed
<1>7. CASE s = r /\ BeginCall(r)
  <2>1. req'[r].kind \in {"orginvite", "modify"} /\ OwnerAct(req'[r].by)
        /\ req'[r] \in Request /\ UNCHANGED tables
    BY <1>1, <1>2, <1>7, Begins DEF tables
  <2>2. Sponsor(r)' = req'[r].by /\ IsOwner(req'[r].by) /\ req'[r].by \in Users
    BY <2>1 DEF Sponsor, OwnerAct, Request
  <2> QED BY <1>6, <1>7, <2>1, <2>2
<1>8. CASE s = r /\ IsStatement(r)
  <2>1. CASE AssertValid(r)
    <3>1. held' = held /\ UNCHANGED tables /\ req' = req /\ Valid(To(r), held[r])
      BY <1>1, <1>2, <1>8, <2>1 DEF AssertValid, Fail, Goto, LocalsOK, locals, tables
    <3>2. IsOwner(held[r].inviter) /\ Accepts(r) /\ held[r].inviter \in Users
      BY <1>1, <1>2, <1>8, <2>1, <3>1 DEF Valid, AssertValid, Shape, LocalsOK, HeldRow
    <3>3. Sponsor(r)' = held[r].inviter
      BY <3>1, <3>2 DEF Sponsor, Accepts
    <3> QED BY <1>6, <1>8, <3>1, <3>2, <3>3
  <2>2. CASE FindValid(r)
    BY <1>1, <1>2, <1>8, <2>2 DEF FindValid, Shape, LocalsOK, Goto, Set
  <2>3. CASE DropPending(r) \/ DropInvite(r) \/ Decide(r)
    <3>1. held' = held /\ pc[r] \in before
      BY <2>3 DEF DropPending, DropInvite, Decide, KeepLocals
    <3> QED BY <1>4, <1>8, <3>1
  <2> QED BY <1>1, <1>2, <1>8, <2>1, <2>2, <2>3, Ways
<1> QED BY <1>5, <1>7, <1>8, StepCases

CallInv == TypeInv /\ MetInv

LEMMA CallInit == Init => CallInv
BY TypeInit DEF Init, CallInv, TypeInv, MetInv, Active, Ended

LEMMA CallStep ==
  ASSUME CallInv, [Next]_vars
  PROVE  CallInv'
<1>1. CASE UNCHANGED vars
  BY <1>1 DEF vars, tables, locals, history, CallInv, TypeInv, TypeOK, ShapeInv, Shape, Inviting,
              Accepts, ByClient, MetInv, Active, PowerNow, IsOwner
<1>2. ASSUME NEW r \in Calls, Step(r), Record(r), Remember(r)
      PROVE  CallInv'
  BY <1>2, TypeStep, MetStep DEF CallInv, TypeInv
<1> QED BY <1>1, <1>2 DEF Next

(* Owners are made by owners (OwnersMadeByOwners): Elevate and             *)
(* InsertMembership write "owner" only for an invitation of that type.     *)
(* The handlers of invitations look for the caller's ownership at their    *)
(* beginning and act on their own row from then on; an invitation that is  *)
(* accepted was found valid by AssertValid, whoever replaced it.           *)
THEOREM OwnersComeFromOwners == Spec => OwnersMadeByOwners
<1>1. Init => CallInv /\ OwnerSponsors
  <2>1. Init => OwnerSponsors
    BY DEF Init, OwnerSponsors
  <2> QED BY <2>1, CallInit
<1>2. (CallInv /\ OwnerSponsors) /\ [Next]_vars => CallInv' /\ OwnerSponsors'
  <2> SUFFICES ASSUME CallInv, OwnerSponsors, [Next]_vars PROVE CallInv' /\ OwnerSponsors'
    OBVIOUS
  <2>1. CASE UNCHANGED vars
    BY <2>1, CallStep DEF vars, locals, history, OwnerSponsors, Backed, Sponsor
  <2> QED BY <2>1, CallStep, OwnerStep DEF Next, CallInv
<1>3. (CallInv /\ OwnerSponsors) /\ [Next]_vars =>
        [\A r \in Calls : Moves(r) /\ Raises(r) => Backed(r, Organization)]_vars
  <2> SUFFICES ASSUME CallInv, OwnerSponsors, NEW r \in Calls, Step(r), Record(r),
                      NEW s \in Calls, Moves(s), Raises(s)
               PROVE  Backed(s, Organization)
    BY DEF Next
  <2>1. s = r /\ IsStatement(r) /\ TablesOK /\ LocalsOK /\ Shape(r)
    BY HistoryGrows, StepCases, Begins, TypeParts
    DEF CallInv, TypeInv, ShapeInv, Moves, SameLocals
  <2>2. CASE Elevate(r)
    BY <2>1, <2>2, NullAssumption DEF Elevate, OwnerSponsors, Shape, LocalsOK, Writing
  <2>3. CASE InsertMembership(r)
    <3>1. held[r] # NoInvite /\ held[r].type = "owner" /\ pc[r] = "insert_membership"
      BY <2>1, <2>3, NullAssumption
      DEF InsertMembership, Raises, IsOwner, TablesOK, LocalsOK, Fail, tables
    <3> QED BY <2>1, <3>1 DEF OwnerSponsors
  <2>4. CASE DeleteMembership(r) \/ PurgeMembership(r)
    BY <2>1, <2>4, NullAssumption
    DEF DeleteMembership, PurgeMembership, Raises, IsOwner, TablesOK, Types
  <2>5. CASE membership' = membership
    BY <2>1, <2>5 DEF Raises, IsOwner
  <2> QED BY <2>1, <2>2, <2>3, <2>4, <2>5, Statements
<1> QED BY <1>1, <1>2, <1>3, PTL DEF Spec, OwnersMadeByOwners

-----------------------------------------------------------------------------
(* What a call has looked at before it writes *)

(* An owner whom a call is about to uninvite, and an address that it is    *)
(* about to mark as unverified though it is verified, became so after the  *)
(* call had looked; unless the user asks for that.                         *)
LateOwner(s) == pc[s] \in Revoking /\ IsOwner(To(s)) => \E e \in Rivals(s) : "owner" \in did[e]
Prompting(s) ==
  \/ pc[s] \in {"insert_invite", "insert_pending", "unverify"} /\ seen[s]
  \/ pc[s] = "resend" /\ req[s].kind = "resendopen"
LateVerification(s) == Prompting(s) /\ account[To(s)] = "verified" =>
  \E v \in Rivals(s) : "verify" \in did[v]
Overtaken == \A s \in Calls : LateOwner(s) /\ LateVerification(s)

(* Who raises or verifies the user of a call that is under way has met it. *)
LEMMA RivalsSee ==
  ASSUME CallInv, NEW r \in Calls, Step(r), Record(r), NEW s \in Calls, s # r,
         Active(s), IsStatement(r), To(r) = To(s)
  PROVE  /\ r \in Rivals(s)'
         /\ Raises(r) => "owner" \in did'[r]
         /\ Verifies(r) => "verify" \in did'[r]
<1>1. LocalsOK /\ HistoryOK /\ TypeInv /\ MetInv
  BY TypeParts DEF CallInv, TypeInv
<1>2. Active(r) /\ r \in met[s] /\ pc[r] # "idle" /\ pc[s] # "idle"
  BY <1>1, Statements DEF MetInv, Active
<1>3. To(r)' = To(r) /\ To(s)' = To(s) /\ met[s] \subseteq met'[s]
  BY <1>1, <1>2, HistoryGrows DEF To
<1>4. did'[r] = did[r] \cup (IF Raises(r) THEN {"owner"} ELSE {})
                       \cup (IF GrantsAPermission(r) THEN {"grant"} ELSE {})
                       \cup (IF Verifies(r) THEN {"verify"} ELSE {})
  BY <1>1, <1>2 DEF Record, HistoryOK
<1> QED BY <1>2, <1>3, <1>4 DEF Rivals

LEMMA ShapeKnown ==
  ASSUME TypeInv, NEW s \in Calls, pc[s] # "idle"
  PROVE  req[s] \in Request /\ To(s) \in Users /\ req[s].client \in Clients /\ Shape(s)
BY DEF TypeInv, ShapeInv, Shape, Request, To

(* A witness among the rivals of a call remains one.                       *)
LEMMA RivalsStay ==
  ASSUME CallInv, NEW r \in Calls, Step(r), Record(r), NEW s \in Calls, pc[s] # "idle"
  PROVE  /\ Rivals(s) \subseteq Rivals(s)' /\ To(s)' = To(s)
         /\ \A e \in Rivals(s) : /\ e \in Calls /\ pc[e] # "idle" /\ req'[e] = req[e]
                                 /\ did[e] \subseteq did'[e]
<1>1. TypeInv /\ MetInv /\ HistoryOK
  BY TypeParts DEF CallInv, TypeInv
<1>2. \A t \in met[s] : t \in Calls /\ pc[t] # "idle"
  BY <1>1 DEF MetInv, HistoryOK
<1> QED BY <1>1, <1>2, HistoryGrows DEF Rivals, To

LEMMA OvertakenStep ==
  ASSUME CallInv, Overtaken, NEW r \in Calls, Step(r), Record(r)
  PROVE  Overtaken'
<1>1. TablesOK /\ LocalsOK /\ Shape(r) /\ TypeInv /\ MetInv /\ TablesOK'
  BY TypeParts, TypeStep, StatementTypes, StepCases, Begins
  DEF ShapeInv, CallInv, TypeInv, TablesOK, tables
<1>2. SUFFICES ASSUME NEW s \in Calls PROVE LateOwner(s)' /\ LateVerification(s)'
  BY DEF Overtaken
<1>3. CASE BeginCall(r) /\ s = r
  <2>1. pc'[r] \in Revoking => ~IsOwner(To(r))'
    <3> SUFFICES ASSUME pc'[r] \in Revoking PROVE ~IsOwner(To(r))'
      OBVIOUS
    <3>1. CanSet(req'[r]) /\ Exists(req'[r].to) /\ UNCHANGED tables
      BY <1>1, <1>3, Begins DEF Revoking, tables
    <3> QED BY <3>1 DEF CanSet, To, IsOwner, tables
  <2>2. /\ pc'[r] \notin {"insert_invite", "insert_pending", "unverify"} /\ UNCHANGED tables
        /\ pc'[r] = "resend" /\ req'[r].kind = "resendopen" => account[req'[r].to] = "unverified"
    BY <1>1, <1>3, Begins
  <2>3. LateVerification(r)'
    BY <2>2 DEF LateVerification, Prompting, To, tables
  <2> QED BY <1>3, <2>1, <2>3 DEF LateOwner
<1>4. CASE BeginCall(r) /\ s # r
  <2>1. SameLocals(s) /\ UNCHANGED tables
    BY <1>1, <1>4, Begins DEF tables
  <2>2. CASE pc[s] = "idle"
    BY <2>1, <2>2 DEF SameLocals, LateOwner, LateVerification, Prompting, Revoking
  <2>3. CASE pc[s] # "idle"
    BY <2>1, <2>3, RivalsStay
    DEF Overtaken, LateOwner, LateVerification, Prompting, SameLocals, IsOwner, tables
  <2> QED BY <2>2, <2>3
<1>5. CASE IsStatement(r) /\ s = r
  <2>0. pc[r] # "idle" /\ To(r)' = To(r) /\ To(r) \in Users
    BY <1>1, <1>5, Statements DEF Active, To, Shape, Request
  <2>1. LateOwner(r)'
    <3> SUFFICES ASSUME pc'[r] \in Revoking, IsOwner(To(r))' PROVE \E e \in Rivals(r)' : "owner" \in did'[e]
      BY DEF LateOwner
    <3>1. DeletePermission(r) \/ Count(r)
      BY <1>1, <1>5, Ways DEF Revoking
    <3>2. pc[r] \in Revoking /\ membership' = membership
      BY <3>1 DEF DeletePermission, Count, Revoking, tables
    <3>3. IsOwner(To(r))
      BY <2>0, <3>2 DEF IsOwner
    <3> QED BY <2>0, <3>2, <3>3, RivalsStay DEF Overtaken, LateOwner
  <2>2. LateVerification(r)'
    <3>0. pc'[r] # "resend"
      BY <1>1, <1>5, Ways
    <3> SUFFICES ASSUME pc'[r] \in {"insert_invite", "insert_pending", "unverify"},
                        seen'[r], account'[To(r)] = "verified"
                 PROVE  \E v \in Rivals(r)' : "verify" \in did'[v]
      BY <2>0, <3>0 DEF LateVerification, Prompting
    <3>1. CASE Decide(r)
      BY <1>1, <2>0, <3>1 DEF Decide, TakenAtOnce, Exists, Goto, Set, LocalsOK, tables
    <3>2. CASE InsertInvite(r) \/ InsertPending(r)
      <4>1. /\ pc[r] \in {"insert_invite", "insert_pending", "unverify"} /\ seen' = seen
            /\ account' = account
        BY <3>2 DEF InsertInvite, InsertPending, Fail, tables, locals
      <4> QED BY <2>0, <4>1, RivalsStay DEF Overtaken, LateVerification, Prompting
    <3> QED BY <1>1, <1>5, <3>1, <3>2, Ways
  <2> QED BY <1>5, <2>1, <2>2
<1>6. CASE IsStatement(r) /\ s # r
  <2>1. SameLocals(s) /\ pc[r] # "idle" /\ Active(r) /\ To(r) \in Users /\ To(s)' = To(s)
    BY <1>1, <1>6, Statements DEF Active, Shape, Request, To, SameLocals
  <2>2. LateOwner(s)'
    <3> SUFFICES ASSUME pc[s] \in Revoking, membership'[To(s)] = "owner"
                 PROVE  \E e \in Rivals(s)' : "owner" \in did'[e]
      BY <2>1 DEF LateOwner, SameLocals, IsOwner
    <3>1. Active(s)
      BY DEF Active, Ended, Revoking
    <3>0. To(s) \in Users
      BY <1>1, <3>1, ShapeKnown DEF Active
    <3>2. CASE IsOwner(To(s))
      BY <3>1, <3>2, RivalsStay DEF Active, Overtaken, LateOwner
    <3>3. CASE ~IsOwner(To(s))
      <4>1. To(r) = To(s) /\ Raises(r)
        BY <1>1, <1>6, <2>1, <3>0, <3>3, Statements
        DEF Raises, IsOwner, Elevate, InsertMembership, DeleteMembership, PurgeMembership,
            TablesOK, Fail, tables
      <4> QED BY <1>6, <3>1, <4>1, RivalsSee
    <3> QED BY <3>2, <3>3
  <2>3. LateVerification(s)'
    <3> SUFFICES ASSUME Prompting(s), account'[To(s)] = "verified"
                 PROVE  \E v \in Rivals(s)' : "verify" \in did'[v]
      BY <2>1 DEF LateVerification, Prompting, SameLocals
    <3>1. Active(s)
      BY DEF Active, Ended, Prompting
    <3>0. To(s) \in Users
      BY <1>1, <3>1, ShapeKnown DEF Active
    <3>2. CASE account[To(s)] = "verified"
      BY <3>1, <3>2, RivalsStay DEF Active, Overtaken, LateVerification
    <3>3. CASE account[To(s)] # "verified"
      <4>1. account'[To(s)] # account[To(s)]
        BY <3>3
      <4>2. Unverify(r) \/ Resend(r) \/ Declare(r) \/ CreateUser(r) \/ FlagUser(r)
        BY <1>1, <1>6, <4>1, Statements
      <4>3. \/ account' = [account EXCEPT ![To(r)] = account'[To(r)]]
            \/ account' = account
        BY <1>1, <3>0, <4>2
        DEF Unverify, Resend, Declare, CreateUser, FlagUser, TablesOK, Fail, tables
      <4>4. To(r) = To(s)
        BY <1>1, <3>0, <4>1, <4>3 DEF TablesOK
      <4> QED BY <1>6, <3>1, <3>3, <4>4, RivalsSee DEF Verifies
    <3> QED BY <3>2, <3>3
  <2> QED BY <2>2, <2>3
<1> QED BY <1>3, <1>4, <1>5, <1>6, StepCases

LEMMA OvertakenAlways == Spec => [](CallInv /\ Overtaken)
<1>1. Init => CallInv /\ Overtaken
  <2>1. Init => Overtaken
    BY DEF Init, Overtaken, LateOwner, LateVerification, Prompting, Revoking
  <2> QED BY <2>1, CallInit
<1>2. (CallInv /\ Overtaken) /\ [Next]_vars => CallInv' /\ Overtaken'
  <2> SUFFICES ASSUME CallInv, Overtaken, [Next]_vars PROVE CallInv' /\ Overtaken'
    OBVIOUS
  <2>1. CASE UNCHANGED vars
    BY <2>1, CallStep DEF vars, tables, locals, history, Overtaken, LateOwner, LateVerification,
                          Prompting, IsOwner, To, Rivals
  <2> QED BY <2>1, CallStep, OvertakenStep DEF Next
<1> QED BY <1>1, <1>2, PTL DEF Spec

(* Owners are not uninvited (OwnersAreKept): CanSet refuses an owner when  *)
(* the call begins, so that DeleteMembership removes one only if a call    *)
(* that both have met made the user an owner in between.                   *)
THEOREM OwnersStay == Spec => OwnersAreKept
<1>1. (CallInv /\ Overtaken) /\ [Next]_vars =>
        [\A r \in Calls : Moves(r) /\ IsOwner(To(r)) /\ membership'[To(r)] # "owner" =>
           \/ req[r].kind = "deleteuser"
           \/ \E e \in Rivals(r) : "owner" \in did[e]]_vars
  <2> SUFFICES ASSUME CallInv, Overtaken, NEW r \in Calls, Step(r), Record(r), NEW s \in Calls,
                      Moves(s), IsOwner(To(s)), membership'[To(s)] # "owner"
               PROVE  req[s].kind = "deleteuser" \/ \E e \in Rivals(s) : "owner" \in did[e]
    BY DEF Next
  <2>1. s = r /\ IsStatement(r) /\ TablesOK /\ LocalsOK /\ Shape(r)
    BY HistoryGrows, StepCases, Begins, TypeParts
    DEF CallInv, TypeInv, ShapeInv, Moves, SameLocals
  <2>2. CASE DeleteMembership(r)
    BY <2>1, <2>2 DEF DeleteMembership, Revoking, Overtaken, LateOwner
  <2>3. CASE PurgeMembership(r)
    BY <2>1, <2>3 DEF PurgeMembership, Shape, Purging
  <2>4. CASE Elevate(r) \/ InsertMembership(r) \/ membership' = membership
    BY <2>1, <2>4, NullAssumption, ShapeKnown
    DEF CallInv, Moves, Types, Elevate, InsertMembership, IsOwner, TablesOK, Fail, tables
  <2> QED BY <2>1, <2>2, <2>3, <2>4, Statements
<1> QED BY <1>1, OvertakenAlways, PTL DEF Spec, OwnersAreKept

(* Verified addresses stay verified (VerifiedStays): Unverify writes back  *)
(* what Decide read, and Resend, for somebody else than the user, what the *)
(* call read when it began.  Both went there for an unverified address     *)
(* only; so the address was verified in between.                           *)
THEOREM VerificationsStay == Spec => VerifiedStays
<1>1. (CallInv /\ Overtaken) /\ [Next]_vars =>
        [\A r \in Calls : Moves(r) /\ account[To(r)] = "verified" /\ account'[To(r)] = "unverified" =>
           \/ req[r].kind = "resend"
           \/ \E v \in Rivals(r) : "verify" \in did[v]]_vars
  <2> SUFFICES ASSUME CallInv, Overtaken, NEW r \in Calls, Step(r), Record(r), NEW s \in Calls,
                      Moves(s), account[To(s)] = "verified", account'[To(s)] = "unverified"
               PROVE  req[s].kind = "resend" \/ \E v \in Rivals(s) : "verify" \in did[v]
    BY DEF Next
  <2>1. s = r /\ IsStatement(r) /\ TablesOK /\ LocalsOK /\ Shape(r)
    BY HistoryGrows, StepCases, Begins, TypeParts
    DEF CallInv, TypeInv, ShapeInv, Moves, SameLocals
  <2>2. CASE Unverify(r)
    BY <2>1, <2>2 DEF Unverify, Shape, Overtaken, LateVerification, Prompting
  <2>3. CASE Resend(r)
    BY <2>1, <2>3 DEF Resend, Shape, Overtaken, LateVerification, Prompting
  <2>4. CASE Declare(r) \/ FlagUser(r) \/ CreateUser(r) \/ account' = account
    BY <2>1, <2>4 DEF Declare, FlagUser, CreateUser, TablesOK, Fail, tables
  <2> QED BY <2>1, <2>2, <2>3, <2>4, Statements
<1> QED BY <1>1, OvertakenAlways, PTL DEF Spec, VerifiedStays

-----------------------------------------------------------------------------
(* What the foreign keys of the tables give *)

(* Pending permissions belong to an invitation, permissions to a           *)
(* membership, and memberships to a user who exists or did.                *)
Keys ==
  /\ \A u \in Users :
       /\ invite[u] = NoInvite => pending[u] = NoGrants
       /\ membership[u] = None => permission[u] = NoGrants
       /\ account[u] = "absent" => membership[u] = None
  /\ \A s \in Calls :
       pc[s] \in {"find_valid", "take_invite", "assert_valid", "insert_membership"} =>
         account[To(s)] # "absent"

LEMMA KeyStep ==
  ASSUME CallInv, Keys, NEW r \in Calls, Step(r), Record(r)
  PROVE  Keys'
<1>1. TablesOK /\ LocalsOK /\ Shape(r) /\ TypeInv /\ MetInv
  BY TypeParts DEF ShapeInv, CallInv, TypeInv
<1>2. CASE BeginCall(r)
  <2>1. UNCHANGED tables /\ \A s \in Calls \ {r} : SameLocals(s)
    BY <1>1, <1>2, Begins DEF tables
  <2>2. pc'[r] \in {"find_valid", "take_invite", "assert_valid", "insert_membership"} =>
          account[To(r)'] # "absent"
    BY <1>1, <1>2, Begins DEF To
  <2> QED BY <2>1, <2>2 DEF Keys, SameLocals, To, tables
<1>3. CASE IsStatement(r)
  <2>0. /\ To(r) \in Users /\ req[r].client \in Clients /\ To(r)' = To(r) /\ pc[r] # "idle"
        /\ \A s \in Calls \ {r} : SameLocals(s)
    BY <1>1, <1>3, Statements, ShapeKnown DEF Active, To
  <2>1. ASSUME NEW u \in Users, invite'[u] = NoInvite
        PROVE  pending'[u] = NoGrants
    <3>1. CASE UNCHANGED <<invite, pending>>
      BY <2>1, <3>1 DEF Keys
    <3>2. CASE DropPending(r)
      BY <1>1, <2>0, <2>1, <3>2 DEF Keys, DropPending, TablesOK, NoGrants
    <3>3. CASE DropInvite(r)
      BY <1>1, <2>0, <2>1, <3>3 DEF Keys, DropInvite, TablesOK
    <3>4. CASE InsertInvite(r)
      <4>1. CASE pc'[r] = "failed"
        BY <2>1, <3>4, <4>1, <1>1 DEF InsertInvite, Fail, Goto, LocalsOK, tables, Keys
      <4>2. CASE pc'[r] # "failed"
        BY <1>1, <2>0, <2>1, <3>4, <4>2, InvitationInserted DEF TablesOK, Keys
      <4> QED BY <4>1, <4>2
    <3>5. CASE InsertPending(r)
      BY <1>1, <2>0, <2>1, <3>5 DEF Keys, InsertPending, Fail, TablesOK, tables
    <3>6. CASE DeletePending(r)
      BY <1>1, <2>0, <2>1, <3>6 DEF Keys, DeletePending, TablesOK, NoGrants
    <3>7. CASE DeleteInvite(r)
      BY <1>1, <2>0, <2>1, <3>7 DEF Keys, DeleteInvite, TablesOK
    <3>8. CASE PurgeInvites(r)
      BY <1>1, <2>0, <2>1, <3>8 DEF Keys, PurgeInvites, TablesOK
    <3>9. CASE ClientPending(r)
      BY <1>1, <2>0, <2>1, <3>9 DEF Keys, ClientPending, TablesOK, NoGrants
    <3>10. CASE StrayInvites(r)
      BY <1>1, <2>0, <2>1, <3>10 DEF Keys, StrayInvites, TablesOK
    <3> QED BY <1>1, <1>3, <3>1, <3>2, <3>3, <3>4, <3>5, <3>6, <3>7, <3>8, <3>9, <3>10, Statements
  <2>2. ASSUME NEW u \in Users, membership'[u] = None
        PROVE  permission'[u] = NoGrants
    <3>1. CASE Elevate(r) \/ InsertMembership(r) \/ DeleteMembership(r) \/ PurgeMembership(r)
      BY <1>1, <2>0, <2>2, <3>1, NullAssumption
      DEF Keys, Elevate, InsertMembership, DeleteMembership, PurgeMembership, TablesOK, LocalsOK,
          HeldRow, Types, Fail, tables
    <3>2. CASE membership' = membership /\ (DropPermissions(r) \/ PurgePermissions(r))
      BY <1>1, <2>0, <2>2, <3>2 DEF Keys, DropPermissions, PurgePermissions, TablesOK
    <3>3. CASE membership' = membership /\ (UpsertWrite(r) \/ permission' = permission)
      BY <1>1, <2>0, <2>2, <3>3 DEF Keys, UpsertWrite, Fail, tables, TablesOK
    <3>4. CASE membership' = membership /\ (DeletePermission(r) \/ ClientPermissions(r))
      BY <1>1, <2>0, <2>2, <3>4 DEF Keys, DeletePermission, ClientPermissions, TablesOK, NoGrants
    <3> QED BY <1>1, <1>3, <3>1, <3>2, <3>3, <3>4, Statements
  <2>3. \A u \in Users : account'[u] = "absent" => account[u] = "absent"
    BY <1>1, <1>3, <2>0, Statements
    DEF Unverify, Resend, Declare, CreateUser, FlagUser, TablesOK, Fail, tables
  <2>4. ASSUME NEW u \in Users, account'[u] = "absent"
        PROVE  membership'[u] = None
    <3>1. account[u] = "absent" /\ membership[u] = None
      BY <2>3, <2>4 DEF Keys
    <3>2. CASE InsertMembership(r)
      BY <1>1, <2>0, <3>1, <3>2 DEF InsertMembership, Keys, TablesOK, Fail, tables
    <3>3. CASE Elevate(r) \/ DeleteMembership(r) \/ PurgeMembership(r) \/ membership' = membership
      BY <1>1, <2>0, <3>1, <3>3
      DEF Elevate, DeleteMembership, PurgeMembership, TablesOK, Fail, tables
    <3> QED BY <1>1, <1>3, <3>2, <3>3, Statements
  <2>5. ASSUME pc'[r] \in {"find_valid", "take_invite", "assert_valid", "insert_membership"}
        PROVE  account'[To(r)] # "absent"
    <3>1. CASE pc[r] \in {"find_valid", "take_invite", "assert_valid"}
      BY <2>0, <2>3, <3>1 DEF Keys
    <3>2. CASE Decide(r)
      <4>1. Exists(To(r)) /\ account' = account
        BY <1>1, <2>5, <3>2 DEF Decide, TakenAtOnce, Goto, LocalsOK, tables
      <4> QED BY <4>1 DEF Exists
    <3>3. CASE Declare(r) \/ CreateUser(r)
      BY <1>1, <2>0, <2>5, <3>3 DEF Declare, CreateUser, Fail, Goto, TablesOK, LocalsOK
    <3> QED BY <1>1, <1>3, <2>5, <3>1, <3>2, <3>3, Ways DEF FindValid, AssertValid, TakeInvite
  <2>6. ASSUME NEW s \in Calls, pc'[s] \in {"find_valid", "take_invite", "assert_valid", "insert_membership"}
        PROVE  account'[To(s)'] # "absent"
    <3>1. CASE s = r
      BY <2>0, <2>5, <2>6, <3>1
    <3>2. CASE s # r
      <4>1. SameLocals(s)
        BY <2>0, <3>2
      <4>2. pc[s] = pc'[s] /\ To(s)' = To(s) /\ pc[s] # "idle"
        BY <2>6, <4>1 DEF SameLocals, To
      <4> QED BY <1>1, <2>3, <2>6, <4>2, ShapeKnown DEF Keys
    <3> QED BY <3>1, <3>2
  <2> QED BY <2>1, <2>2, <2>4, <2>6 DEF Keys
<1> QED BY <1>2, <1>3, StepCases

LEMMA KeysAlways == Spec => [](CallInv /\ Keys)
<1>1. Init => CallInv /\ Keys
  <2>1. Init => Keys
    BY InputAssumption DEF Init, Keys
  <2> QED BY <2>1, CallInit
<1>2. (CallInv /\ Keys) /\ [Next]_vars => CallInv' /\ Keys'
  <2> SUFFICES ASSUME CallInv, Keys, [Next]_vars PROVE CallInv' /\ Keys'
    OBVIOUS
  <2>1. CASE UNCHANGED vars
    BY <2>1, CallStep DEF vars, tables, locals, Keys, To
  <2> QED BY <2>1, CallStep, KeyStep DEF Next
<1> QED BY <1>1, <1>2, PTL DEF Spec

-----------------------------------------------------------------------------
(* Permissions are granted by those who could grant them *)

(* Calls that have inserted pending permissions of the user of s, and      *)
(* withdraw none any more.                                                 *)
Writers(s) ==
  {w \in Rivals(s) : Inviting(w) /\ pc[w] \in {"insert_pending", "unverify"} \cup Ended}
PendingHere(s, c) == PendingOf(To(s), held[s])[c] # None

(* The handlers check the caller at the beginning.  What an acceptance     *)
(* reads was backed by the inviter when the invitation was found, or       *)
(* somebody has written it since; when the inviter's power is asserted,    *)
(* what it read is backed, unless somebody else has withdrawn it.          *)
GrantSponsor(s) ==
  /\ Active(s) /\ req[s].kind \in {"orginvite", "modify"} => \A c \in Clients : Backed(s, c)
  /\ Active(s) /\ req[s].kind = "invite" => Backed(s, req[s].client)
  /\ pc[s] \in {"create_user", "take_invite"} /\ held[s] # NoInvite =>
       \A c \in Clients : PendingHere(s, c) => Backed(s, c) \/ Writers(s) # {}
  /\ pc[s] = "assert_valid" =>
       \A c \in Clients : grants[s][c] # None =>
         Backed(s, c) \/ Crossed(s) \/ (Writers(s) # {} /\ PendingHere(s, c))
  /\ pc[s] \in Joining /\ Accepts(s) /\ held[s] # NoInvite =>
       \A c \in Clients : grants[s][c] # None => Backed(s, c) \/ Crossed(s)
GrantSponsors == \A s \in Calls : GrantSponsor(s)

LEMMA ValidBacks ==
  ASSUME NEW u, NEW i, i.inviter \in Users, Valid(u, i), NEW c \in Clients, PendingOf(u, i)[c] # None
  PROVE  <<i.inviter, c>> \in PowerNow
BY PowerOf DEF Valid, MayInviteTo

LEMMA WitnessesStay ==
  ASSUME CallInv, NEW r \in Calls, Step(r), Record(r), NEW s \in Calls, pc[s] # "idle"
  PROVE  /\ Crossed(s) => Crossed(s)'
         /\ Writers(s) # {} => Writers(s)' # {}
<1>1. /\ Rivals(s) \subseteq Rivals(s)' /\ met[s] \subseteq met'[s]
      /\ \A e \in met[s] : e \in Calls /\ pc[e] # "idle" /\ req'[e] = req[e]
      /\ LocalsOK /\ TypeInv
  BY RivalsStay, HistoryGrows, TypeParts DEF CallInv, TypeInv, MetInv, HistoryOK
<1>2. Crossed(s) => Crossed(s)'
  BY <1>1 DEF Crossed, Inviting, Rivals
<1>3. ASSUME NEW w \in Writers(s)
      PROVE  w \in Writers(s)'
  <2>1. w \in Rivals(s)' /\ Inviting(w)' /\ w \in Calls /\ pc[w] # "idle"
    BY <1>1, <1>3 DEF Writers, Inviting, Rivals
  <2>2. pc'[w] \in {"insert_pending", "unverify"} \cup Ended
    <3>1. CASE w = r
      BY <1>1, <1>3, <2>1, <3>1, StepCases, Statements, Begins, Ways, TypeParts
      DEF Writers, Active, TypeInv
    <3>2. CASE w # r
      BY <1>3, <2>1, <3>2, HistoryGrows DEF SameLocals, CallInv, Writers
    <3> QED BY <3>1, <3>2
  <2> QED BY <2>1, <2>2 DEF Writers
<1> QED BY <1>2, <1>3

(* Who makes a permission pending, and who withdraws one.                  *)
LEMMA PendingMoves ==
  ASSUME CallInv, Keys, NEW r \in Calls, IsStatement(r), NEW u \in Users, NEW i, NEW c \in Clients
  PROVE  /\ PendingOf(u, i)[c] = None /\ PendingOf(u, i)'[c] # None =>
              pc[r] = "insert_pending" /\ pc'[r] = "insert_pending" /\ To(r) = u
         /\ PendingOf(u, i)[c] # None /\ PendingOf(u, i)'[c] = None =>
              /\ req[r].kind \notin {"orginvite", "join"}
              /\ pc[r] \notin {"insert_pending", "unverify"}
<1>1. TablesOK /\ LocalsOK /\ Shape(r)
  BY TypeParts DEF ShapeInv, CallInv, TypeInv
<1>2. /\ To(r) \in Users /\ req[r].client \in Clients /\ NoGrants[c] = None
      /\ PendingOf(u, i)[c] # None => invite[u] # NoInvite
  BY <1>1, Statements, ShapeKnown DEF CallInv, Active, NoGrants, PendingOf
<1> DEFINE before == PendingOf(u, i)[c]
           after == PendingOf(u, i)'[c]
<1>3. CASE UNCHANGED <<invite, pending>>
  BY <1>3 DEF PendingOf
<1>4. CASE DropPending(r)
  BY <1>1, <1>2, <1>4 DEF DropPending, PendingOf, TablesOK, Shape, Writing, Inviting
<1>5. CASE DropInvite(r)
  BY <1>1, <1>2, <1>5 DEF DropInvite, PendingOf, TablesOK, Shape, Writing, Inviting
<1>6. CASE InsertInvite(r)
  <2>1. CASE pc'[r] = "failed"
    BY <1>1, <1>3, <1>6, <2>1 DEF InsertInvite, Fail, Goto, LocalsOK, tables
  <2>2. CASE pc'[r] # "failed"
    <3>1. invite[To(r)] = NoInvite /\ pending' = pending /\ pending[To(r)] = NoGrants
          /\ \A v \in Users \ {To(r)} : invite'[v] = invite[v]
      BY <1>1, <1>2, <1>6, <2>2, InvitationInserted DEF Keys, TablesOK
    <3> QED BY <1>2, <3>1 DEF PendingOf
  <2> QED BY <2>1, <2>2
<1>7. CASE InsertPending(r)
  <2>1. CASE UNCHANGED tables
    BY <1>3, <2>1 DEF tables
  <2>2. CASE ~UNCHANGED tables
    <3>1. PICK d \in Clients : /\ grants[r][d] # None /\ pending[To(r)][d] = None
                               /\ pending' = [pending EXCEPT ![To(r)][d] = grants[r][d]]
                               /\ UNCHANGED <<pc, invite>>
      BY <1>7, <2>2 DEF InsertPending, Fail
    <3>2. /\ pc[r] = "insert_pending"
          /\ \A v \in Users : v # To(r) => pending'[v] = pending[v]
          /\ pending[u][c] # None => pending'[u][c] # None
      BY <1>1, <1>2, <1>7, <3>1 DEF InsertPending, TablesOK
    <3> QED BY <1>2, <3>1, <3>2 DEF PendingOf
  <2> QED BY <2>1, <2>2
<1>8. CASE DeletePending(r)
  BY <1>1, <1>2, <1>8 DEF DeletePending, PendingOf, TablesOK, Shape, Withdrawing
<1>9. CASE DeleteInvite(r)
  BY <1>1, <1>2, <1>9 DEF DeleteInvite, PendingOf, TablesOK, Shape, Withdrawing
<1>10. CASE PurgeInvites(r)
  BY <1>1, <1>2, <1>10 DEF PurgeInvites, PendingOf, TablesOK, Shape, Purging
<1>11. CASE ClientPending(r)
  BY <1>1, <1>2, <1>11 DEF ClientPending, PendingOf, TablesOK, Shape, Erasing
<1>12. CASE StrayInvites(r)
  BY <1>1, <1>2, <1>12 DEF StrayInvites, PendingOf, TablesOK
<1> QED BY <1>1, <1>3, <1>4, <1>5, <1>6, <1>7, <1>8, <1>9, <1>10, <1>11, <1>12, Statements

(* Another call takes a step.                                              *)
LEMMA GrantsOfOthers ==
  ASSUME CallInv, Keys, GrantSponsors, NEW r \in Calls, Step(r), Record(r),
         NEW s \in Calls, s # r
  PROVE  GrantSponsor(s)'
<1>1. TypeInv /\ MetInv /\ SameLocals(s) /\ TablesOK /\ LocalsOK
  BY HistoryGrows, TypeParts DEF CallInv, TypeInv
<1>2. CASE ~Active(s)
  BY <1>1, <1>2 DEF GrantSponsor, SameLocals, Active, Joining, Ended
<1>3. CASE Active(s)
  <2>1. /\ pc[s] # "idle" /\ pc'[s] \notin {"idle"} \cup Ended /\ GrantSponsor(s)
        /\ req'[s] = req[s] /\ To(s)' = To(s) /\ To(s) \in Users
    BY <1>1, <1>3, ShapeKnown DEF Active, SameLocals, To, GrantSponsors
  <2>2. /\ \A what : Backed(s, what) => Backed(s, what)'
        /\ Crossed(s) => Crossed(s)'
        /\ Writers(s) # {} => Writers(s)' # {}
    BY <1>1, <2>1, BackingLasts, WitnessesStay DEF SameLocals
  <2>3. PICK u \in Users, h \in HeldRow \cup {NoInvite} : u = To(s) /\ h = held[s]
    BY <1>1, <2>1 DEF LocalsOK
  <2>4. \A c \in Clients : /\ PendingHere(s, c) <=> PendingOf(u, h)[c] # None
                           /\ PendingHere(s, c)' <=> PendingOf(u, h)'[c] # None
    BY <1>1, <2>1, <2>3 DEF PendingHere, PendingOf, SameLocals
  <2>5. IsStatement(r) => r \in met[s] /\ Active(r) /\ Shape(r) /\ r \in Calls
    BY <1>1, <1>3, Statements DEF MetInv, CallInv, TypeInv, ShapeInv
  <2>6. ASSUME NEW c \in Clients, PendingHere(s, c)', ~PendingHere(s, c)
        PROVE  Writers(s)' # {}
    <3>1. IsStatement(r)
      BY <1>1, <2>4, <2>6, StepCases, Begins DEF PendingOf, tables
    <3>2. pc[r] = "insert_pending" /\ pc'[r] = "insert_pending" /\ To(r) = u
      BY <2>4, <2>6, <3>1, PendingMoves
    <3>3. Inviting(r)' /\ r \in Rivals(s)
      BY <1>1, <2>3, <2>5, <3>1, <3>2, HistoryGrows DEF Rivals, Shape, Writing, Inviting
    <3> QED BY <1>3, <2>1, <3>2, <3>3, RivalsStay DEF Writers
  <2>7. ASSUME NEW c \in Clients, PendingHere(s, c), ~PendingHere(s, c)', Writers(s) # {}
        PROVE  Crossed(s)
    <3>1. IsStatement(r)
      BY <1>1, <2>4, <2>7, StepCases, Begins DEF PendingOf, tables
    <3>2. /\ req[r].kind \notin {"orginvite", "join"}
          /\ pc[r] \notin {"insert_pending", "unverify"} \cup Ended
      BY <2>4, <2>5, <2>7, <3>1, PendingMoves DEF Active
    <3> QED BY <2>5, <2>7, <3>1, <3>2 DEF Writers, Crossed
  <2>8. \A c \in Clients : (grants'[s][c] # None) <=> (grants[s][c] # None)
    BY <1>1 DEF SameLocals
  <2>9. /\ Active(s)' <=> Active(s)
        /\ Accepts(s)' <=> Accepts(s)
        /\ pc'[s] = pc[s] /\ held'[s] = held[s]
    BY <1>1 DEF SameLocals, Active, Accepts
  <2>10. /\ Active(s)' /\ req'[s].kind \in {"orginvite", "modify"} => \A c \in Clients : Backed(s, c)'
         /\ Active(s)' /\ req'[s].kind = "invite" => Backed(s, req[s].client)'
    BY <2>1, <2>2, <2>9 DEF GrantSponsor
  <2>11. pc'[s] \in {"create_user", "take_invite"} /\ held'[s] # NoInvite =>
           \A c \in Clients : PendingHere(s, c)' => Backed(s, c)' \/ Writers(s)' # {}
    BY <2>1, <2>2, <2>6, <2>9 DEF GrantSponsor
  <2>12. pc'[s] = "assert_valid" =>
           \A c \in Clients : grants'[s][c] # None =>
             Backed(s, c)' \/ Crossed(s)' \/ (Writers(s)' # {} /\ PendingHere(s, c)')
    BY <2>1, <2>2, <2>7, <2>8, <2>9 DEF GrantSponsor
  <2>13. pc'[s] \in Joining /\ Accepts(s)' /\ held'[s] # NoInvite =>
           \A c \in Clients : grants'[s][c] # None => Backed(s, c)' \/ Crossed(s)'
    BY <2>1, <2>2, <2>8, <2>9 DEF GrantSponsor
  <2> HIDE DEF Crossed
  <2> QED BY <2>1, <2>10, <2>11, <2>12, <2>13 DEF GrantSponsor
<1> QED BY <1>2, <1>3

(* A call begins: the checks of the handlers, and of the invitation that   *)
(* a signup brings.                                                        *)
LEMMA GrantsBegin ==
  ASSUME CallInv, NEW r \in Calls, Step(r), Record(r), BeginCall(r)
  PROVE  GrantSponsor(r)'
<1>1. TablesOK /\ LocalsOK /\ TypeInv /\ MetInv
  BY TypeParts DEF CallInv, TypeInv
<1>2. /\ UNCHANGED tables /\ req'[r] \in Request /\ pc'[r] \notin {"idle"} \cup Ended
      /\ req'[r].by \in Users /\ req'[r].to \in Users /\ req'[r].client \in Clients
  BY <1>1, Begins DEF Request, Ended, tables
<1>3. PowerNow \subseteq power'[r]
  <2>1. PowerNow' = PowerNow
    BY <1>2 DEF PowerNow, IsOwner, tables
  <2> QED BY <1>1, <1>2, <2>1, HistoryGrows
<1>4. CASE req'[r].kind \in {"orginvite", "modify"}
  <2>1. OwnerAct(req'[r].by) /\ pc'[r] \in {"decide", "drop_pending"}
    BY <1>1, <1>4, Begins
  <2>2. \A c \in Clients : Backed(r, c)'
    BY <1>2, <1>3, <1>4, <2>1, PowerOf DEF OwnerAct, Backed, Sponsor
  <2> QED BY <1>4, <2>1, <2>2 DEF GrantSponsor, Accepts
<1>5. CASE req'[r].kind = "invite"
  <2>1. Authorized(req'[r].by, req'[r].client) /\ pc'[r] \in {"decide", "drop_pending"}
    BY <1>1, <1>5, Begins
  <2>2. Backed(r, req[r].client)'
    BY <1>2, <1>3, <1>5, <2>1, PowerOf DEF Authorized, Backed, Sponsor
  <2> QED BY <1>5, <2>1, <2>2 DEF GrantSponsor, Accepts
<1>6. CASE req'[r].kind = "signup"
  <2>1. /\ pc'[r] = "create_user"
        /\ held'[r] # NoInvite => /\ invite[req'[r].to] # NoInvite /\ held'[r] = invite[req'[r].to]
                                  /\ Valid(req'[r].to, invite[req'[r].to])
    BY <1>1, <1>6, Begins
  <2>2. ASSUME held'[r] # NoInvite, NEW c \in Clients, PendingHere(r, c)'
        PROVE  Backed(r, c)'
    <3>1. PICK u \in Users, i \in InviteRow : u = req'[r].to /\ i = invite[u] /\ i = held'[r]
      BY <1>1, <1>2, <2>1, <2>2 DEF TablesOK
    <3>2. Valid(u, i) /\ i.inviter \in Users /\ PendingOf(u, i)[c] # None
      BY <1>2, <2>1, <2>2, <3>1 DEF PendingHere, PendingOf, To, InviteRow, tables
    <3> QED BY <1>3, <1>6, <3>1, <3>2, ValidBacks DEF Backed, Sponsor
  <2> QED BY <1>6, <2>1, <2>2 DEF GrantSponsor, Joining
<1>7. CASE req'[r].kind \notin {"orginvite", "modify", "invite", "signup"}
  <2>1. /\ pc'[r] \notin {"create_user", "take_invite", "assert_valid"}
        /\ pc'[r] \in Joining => req'[r].kind = "join"
    BY <1>1, <1>7, Begins DEF Joining
  <2> QED BY <1>7, <2>1 DEF GrantSponsor, Accepts
<1> QED BY <1>4, <1>5, <1>6, <1>7

(* A call goes on.                                                         *)
LEMMA GrantsGoOn ==
  ASSUME CallInv, Keys, GrantSponsors, NEW r \in Calls, Step(r), Record(r), IsStatement(r)
  PROVE  GrantSponsor(r)'
<1>1. /\ TablesOK /\ LocalsOK /\ TypeInv /\ MetInv /\ Shape(r) /\ Active(r) /\ pc[r] # "idle"
      /\ req' = req /\ To(r)' = To(r) /\ To(r) \in Users /\ GrantSponsor(r)
  BY TypeParts, Statements, ShapeKnown
  DEF CallInv, TypeInv, ShapeInv, Active, To, GrantSponsors
<1>2. CASE pc'[r] \in Ended
  BY <1>2 DEF GrantSponsor, Active, Joining, Ended
<1>3. CASE pc'[r] \notin Ended
  <2>1. /\ pc'[r] \notin {"idle"} \cup Ended
        /\ Crossed(r) => Crossed(r)'
        /\ Writers(r) # {} => Writers(r)' # {}
        /\ PowerNow' \subseteq power'[r]
        /\ (Accepts(r) => held'[r] = held[r]) => \A what : Backed(r, what) => Backed(r, what)'
    BY <1>1, <1>3, WitnessesStay, HistoryGrows, BackingLasts, Statements
  <2>2. /\ req[r].kind \in {"orginvite", "modify"} => \A c \in Clients : Backed(r, c)'
        /\ req[r].kind = "invite" => Backed(r, req[r].client)'
    BY <1>1, <2>1 DEF GrantSponsor, Accepts
  <2>3. ASSUME pc'[r] \in {"create_user", "take_invite"}, held'[r] # NoInvite,
               NEW c \in Clients, PendingHere(r, c)'
        PROVE  Backed(r, c)' \/ Writers(r)' # {}
    <3>1. CASE FindValid(r)
      <4>1. /\ UNCHANGED tables /\ held'[r] = invite[To(r)] /\ Valid(To(r), invite[To(r)])
            /\ invite[To(r)] # NoInvite /\ Accepts(r)
        BY <1>1, <2>3, <3>1 DEF FindValid, Shape, Accepts, Goto, Set, LocalsOK
      <4>2. PICK u \in Users, i \in InviteRow : u = To(r) /\ i = invite[u] /\ i = held'[r]
        BY <1>1, <4>1 DEF TablesOK
      <4>3. PendingOf(u, i)[c] # None /\ i.inviter \in Users
        BY <1>1, <2>3, <4>1, <4>2 DEF PendingHere, PendingOf, InviteRow, tables
      <4>4. <<i.inviter, c>> \in PowerNow'
        BY <4>1, <4>2, <4>3, ValidBacks DEF PowerNow, IsOwner, tables
      <4> QED BY <1>1, <2>1, <4>1, <4>2, <4>4 DEF Backed, Sponsor, Accepts
    <3>2. CASE CreateUser(r)
      <4>1. UNCHANGED <<held, invite, pending>> /\ pc[r] = "create_user"
        BY <3>2 DEF CreateUser, KeepLocals, Fail, tables, locals
      <4>2. PendingHere(r, c)
        BY <1>1, <2>3, <4>1 DEF PendingHere, PendingOf
      <4> QED BY <1>1, <2>1, <2>3, <4>1, <4>2 DEF GrantSponsor
    <3> QED BY <1>1, <2>3, <3>1, <3>2, Ways
  <2>4. ASSUME pc'[r] = "assert_valid", NEW c \in Clients, grants'[r][c] # None
        PROVE  Backed(r, c)' \/ (Writers(r)' # {} /\ PendingHere(r, c)')
    <3>1. TakeInvite(r)
      BY <1>1, <2>4, Ways
    <3>2. UNCHANGED <<tables, held>> /\ pc[r] = "take_invite" /\ held[r] # NoInvite
      BY <1>1, <3>1 DEF TakeInvite, Shape
    <3>3. grants'[r][c] # None => PendingHere(r, c)
      BY <1>1, <3>1 DEF TakeInvite, PendingHere, Set, LocalsOK
    <3>4. PendingHere(r, c)' <=> PendingHere(r, c)
      BY <1>1, <3>2 DEF PendingHere, PendingOf, tables
    <3> QED BY <1>1, <2>1, <2>4, <3>2, <3>3, <3>4 DEF GrantSponsor
  <2>5. ASSUME pc'[r] \in Joining, Accepts(r), held'[r] # NoInvite,
               NEW c \in Clients, grants'[r][c] # None
        PROVE  Backed(r, c)' \/ Crossed(r)'
    <3>1. CASE AssertValid(r)
      <4>0. held[r] # NoInvite
        BY <1>1, <3>1 DEF AssertValid, Shape
      <4>1. /\ UNCHANGED <<tables, locals>> /\ Valid(To(r), held[r]) /\ pc[r] = "assert_valid"
            /\ held[r].inviter \in Users
        <5>1. UNCHANGED <<tables, locals>> /\ pc[r] = "assert_valid"
          BY <3>1 DEF AssertValid, Fail
        <5>2. Valid(To(r), held[r])
          BY <1>1, <1>3, <3>1 DEF AssertValid, Fail, Goto, LocalsOK, Ended
        <5> QED BY <1>1, <4>0, <5>1, <5>2 DEF LocalsOK, HeldRow
      <4>2. CASE PendingHere(r, c)
        <5>1. <<held[r].inviter, c>> \in PowerNow'
          BY <4>1, <4>2, ValidBacks DEF PendingHere, PowerNow, IsOwner, tables
        <5> QED BY <1>1, <2>1, <2>5, <4>1, <5>1 DEF Backed, Sponsor, Accepts, locals
      <4>3. CASE ~PendingHere(r, c)
        BY <1>1, <2>1, <2>5, <4>1, <4>3 DEF GrantSponsor, locals
      <4> QED BY <4>2, <4>3
    <3>2. CASE InsertMembership(r) \/ Upsert(r) \/ UpsertWrite(r)
      <4>1. held' = held /\ pc[r] \in Joining
        BY <3>2 DEF InsertMembership, Upsert, UpsertWrite, KeepLocals, Fail, Joining, locals
      <4>2. grants[r][c] # None
        BY <1>1, <2>5, <3>2
        DEF InsertMembership, Upsert, UpsertWrite, KeepLocals, Fail, locals, LocalsOK, Grants,
            Shape
      <4> QED BY <1>1, <2>1, <2>5, <4>1, <4>2 DEF GrantSponsor
    <3>3. CASE FindValid(r) /\ pc'[r] \in Joining
      BY <1>1, <2>5, <3>3 DEF FindValid, Shape, Goto, Set, LocalsOK, Joining
    <3>4. CASE Decide(r) \/ DropPermissions(r)
      BY <1>1, <2>5, <3>4 DEF Decide, DropPermissions, Shape, Writing, Inviting, Accepts
    <3> QED BY <1>1, <2>5, <3>1, <3>2, <3>3, <3>4, Ways DEF Joining
  <2>6. Accepts(r)' <=> Accepts(r)
    BY <1>1 DEF Accepts
  <2> QED BY <1>1, <2>2, <2>3, <2>4, <2>5, <2>6 DEF GrantSponsor
<1> QED BY <1>2, <1>3

(* Permissions come from those who could give them (GrantsAreBacked):      *)
(* UpsertWrite writes what a handler was asked for by an administrator of  *)
(* that client or by an owner, or what TakeInvite read; AssertValid lets   *)
(* that pass only while the inviter can administer what is pending, so     *)
(* that it is backed unless another call withdrew, between the two, what   *)
(* a third one had written.                                                *)
THEOREM GrantsHaveSponsors == Spec => GrantsAreBacked
<1> DEFINE Inv == CallInv /\ Keys /\ GrantSponsors
<1>1. Init => GrantSponsors
  BY DEF Init, GrantSponsors, GrantSponsor, Active, Joining
<1>2. Inv /\ [Next]_vars => GrantSponsors'
  <2> SUFFICES ASSUME CallInv, Keys, GrantSponsors, [Next]_vars PROVE GrantSponsors'
    OBVIOUS
  <2>1. CASE UNCHANGED vars
    BY <2>1 DEF vars, tables, locals, history, GrantSponsors, GrantSponsor, Active, Accepts, Backed,
                Sponsor, Crossed, Writers, Rivals, To, Inviting, PendingHere, PendingOf
  <2>2. ASSUME NEW r \in Calls, Step(r), Record(r)
        PROVE  GrantSponsors'
    BY <2>2, StepCases, GrantsOfOthers, GrantsBegin, GrantsGoOn DEF GrantSponsors
  <2> QED BY <2>1, <2>2 DEF Next
<1>3. Inv /\ [Next]_vars =>
        [\A r \in Calls :
           Moves(r) /\ GrantsAPermission(r) /\ ~SignsUp(r)
          /\ ~(req[r].kind = "invite" /\ current[r] # req[r].client) =>
             Backed(r, current[r]) \/ (req[r].kind \in {"verify", "signup"} /\ Crossed(r))]_vars
  <2> SUFFICES ASSUME CallInv, Keys, GrantSponsors, NEW r \in Calls, Step(r), Record(r),
                      NEW s \in Calls, Moves(s), GrantsAPermission(s), ~SignsUp(s),
                      ~(req[s].kind = "invite" /\ current[s] # req[s].client)
               PROVE  Backed(s, current[s]) \/ (req[s].kind \in {"verify", "signup"} /\ Crossed(s))
    BY DEF Next
  <2>1. Shape(s) /\ pc[s] = "upsert_write" /\ GrantSponsor(s) /\ Active(s) /\ LocalsOK
    BY TypeParts
    DEF CallInv, TypeInv, ShapeInv, Moves, GrantsAPermission, GrantSponsors, Active, Ended
  <2>2. current[s] \in Clients /\ grants[s][current[s]] # None
    BY <2>1, NullAssumption DEF Shape, PermissionRole, Roles
  <2>3. CASE Inviting(s)
    BY <2>1, <2>2, <2>3 DEF GrantSponsor, Inviting
  <2>4. CASE Accepts(s) /\ held[s] # NoInvite
    BY <2>1, <2>2, <2>4 DEF GrantSponsor, Accepts, Joining
  <2> QED BY <2>1, <2>3, <2>4 DEF Shape, Joining, SignsUp, Accepts
<1> QED BY <1>1, <1>2, <1>3, KeysAlways, PTL DEF Spec, GrantsAreBacked

-----------------------------------------------------------------------------
(* Who was uninvited stays out *)

Entering == Writing \cup Joining \cup {"take_invite", "assert_valid"}

(* A call that uninvites from the organization, and has met no other, has  *)
(* deleted the membership before it deletes the invitation, unless the     *)
(* user was deleted before.                                                *)
Uninvites(s) ==
  pc[s] \in {"find_invite", "delete_pending", "delete_invite"} /\ req[s].kind = "orguninvite"
  /\ met[s] = {} => membership[To(s)] = None \/ account[To(s)] = "deleted"

(* No call is on its way to bring the user in.                             *)
StaysOut(u) ==
  /\ invite[u] = NoInvite
  /\ membership[u] = None \/ account[u] = "deleted"
  /\ \A s \in Calls :
       /\ pc[s] \in Entering => To(s) # u
       /\ pc[s] = "create_user" /\ held[s] # NoInvite => To(s) # u
       /\ pc[s] \in {"declare", "resend"} /\ To(s) = u => membership[u] = None
Outside == (\A s \in Calls : Uninvites(s)) /\ (\A u \in out : StaysOut(u))

LEMMA UninvitesStep ==
  ASSUME CallInv, CallInv', Keys, Outside, NEW r \in Calls, Step(r), Record(r), NEW s \in Calls
  PROVE  Uninvites(s)'
<1>1. TypeInv /\ MetInv /\ MetInv' /\ TablesOK /\ LocalsOK /\ Shape(r) /\ HistoryOK /\ HistoryOK'
  BY TypeParts DEF CallInv, TypeInv, ShapeInv, TypeOK, HistoryOK
<1> DEFINE labels == {"find_invite", "delete_pending", "delete_invite"}
<1>2. SUFFICES ASSUME pc'[s] \in labels, req'[s].kind = "orguninvite", met'[s] = {}
               PROVE  membership'[To(s)'] = None \/ account'[To(s)'] = "deleted"
  BY DEF Uninvites, To
<1>3. CASE s # r
  <2>1. SameLocals(s) /\ met[s] \subseteq met'[s] /\ Active(s) /\ pc'[r] # "idle"
    BY <1>1, <1>2, <1>3, HistoryGrows DEF SameLocals, Active, Ended
  <2>2. Active(s)' /\ (Active(r)' => r \in met'[s])
    BY <1>1, <1>2, <1>3 DEF Active, Ended, MetInv
  <2>3. Active(r) => r \in met[s]
    BY <1>1, <1>3, <2>1 DEF MetInv
  <2>4. Active(r) \/ Active(r)'
    BY <1>1, StepCases, Statements, Begins DEF Active, Ended
  <2> QED BY <1>2, <2>1, <2>2, <2>3, <2>4
<1>4. CASE s = r /\ BeginCall(r)
  <2>1. ~Exists(req'[r].to) /\ UNCHANGED tables /\ req'[r].to \in Users
    BY <1>1, <1>2, <1>4, Begins DEF Request, tables
  <2>2. account[req'[r].to] \in {"absent", "deleted"}
    BY <1>1, <2>1 DEF Exists, TablesOK, Accounts
  <2> QED BY <1>4, <2>1, <2>2 DEF Keys, To, tables
<1>5. CASE s = r /\ IsStatement(r)
  <2>1. /\ req' = req /\ To(r)' = To(r) /\ To(r) \in Users /\ met[r] = {} /\ pc[r] # "idle"
        /\ req[r].kind = "orguninvite"
    BY <1>1, <1>2, <1>5, HistoryGrows, Statements, ShapeKnown DEF Active, To
  <2>2. CASE FindInvite(r) \/ DeletePending(r)
    BY <1>5, <2>1, <2>2 DEF FindInvite, DeletePending, tables, Outside, Uninvites
  <2>3. CASE DeleteMembership(r)
    BY <1>1, <1>5, <2>1, <2>3 DEF DeleteMembership, TablesOK
  <2>4. CASE Count(r) \/ Visible(r) \/ Recheck(r)
    BY <1>1, <2>1, <2>4 DEF Count, Visible, Recheck, Shape, ByClient
  <2>5. CASE Upsert(r)
    BY <1>1, <2>1, <2>5 DEF Upsert, Shape, Joining, Inviting, Accepts
  <2> QED BY <1>1, <1>2, <1>5, <2>2, <2>3, <2>4, <2>5, Ways
<1> QED BY <1>3, <1>4, <1>5, StepCases

(* A user enters "out" when everything is gone ...                         *)
LEMMA GoesOut ==
  ASSUME CallInv, Keys, Outside, NEW r \in Calls, Step(r), Record(r), Remember(r),
         NEW u \in out', u \notin out
  PROVE  StaysOut(u)'
<1>1. TypeInv /\ MetInv /\ TablesOK /\ LocalsOK /\ Shape(r)
  BY TypeParts DEF CallInv, TypeInv, ShapeInv
<1>2. u = req'[r].to /\ met[r] = {} /\ pc'[r] = "done" /\ req'[r].kind = "orguninvite"
  BY DEF Remember
<1>3. IsStatement(r)
  BY <1>1, <1>2, StepCases, Begins
<1>4. Active(r) /\ req' = req /\ u = To(r) /\ To(r) \in Users /\ \A s \in Calls \ {r} : SameLocals(s)
  BY <1>1, <1>2, <1>3, Statements, ShapeKnown DEF Active, To
<1>5. DeleteInvite(r)
  <2>1. ~(Upsert(r) \/ InsertPending(r) \/ Unverify(r) \/ Resend(r) \/ Recheck(r) \/ CreateUser(r) \/ FlagUser(r)
          \/ StrayInvites(r))
    BY <1>1, <1>2, <1>4
    DEF Upsert, InsertPending, Unverify, Resend, Recheck, CreateUser, FlagUser, StrayInvites, Shape,
        Writing, Joining, Purging, Erasing, Inviting, Accepts, ByClient
  <2> QED BY <1>1, <1>2, <1>3, <2>1, Ways
<1>6. /\ invite'[u] = NoInvite /\ membership'[u] = membership[u] /\ account'[u] = account[u]
      /\ Uninvites(r) /\ pc[r] = "delete_invite"
  BY <1>1, <1>4, <1>5 DEF DeleteInvite, TablesOK, Outside
<1>7. \A s \in Calls : ~Active(s)'
  BY <1>1, <1>2, <1>4 DEF MetInv, Active, SameLocals, Ended
<1> QED BY <1>2, <1>4, <1>6, <1>7
        DEF StaysOut, Uninvites, Active, Ended, Entering, Writing, Joining

(* ... and no step brings that user back while "out" says so.              *)
LEMMA OutStays ==
  ASSUME CallInv, Keys, Outside, NEW r \in Calls, Step(r), Record(r), Remember(r),
         NEW u \in out, u \in out'
  PROVE  StaysOut(u)'
<1>1. TypeInv /\ MetInv /\ TablesOK /\ LocalsOK /\ Shape(r) /\ StaysOut(u) /\ u \in Users
  BY TypeParts DEF CallInv, TypeInv, ShapeInv, Outside, HistoryOK
<1>2. CASE BeginCall(r)
  <2>1. UNCHANGED tables /\ \A s \in Calls \ {r} : SameLocals(s)
    BY <1>1, <1>2, Begins DEF tables
  <2>2. pc[r] = "idle" /\ req'[r].kind \in {"invite", "orginvite", "join"} => To(r)' # u
    BY <1>1, <1>2, Begins DEF Remember, To
  <2>3. /\ pc'[r] \in Entering => To(r)' # u
        /\ pc'[r] = "create_user" /\ held'[r] # NoInvite => To(r)' # u
        /\ pc'[r] \in {"declare", "resend"} /\ To(r)' = u => account[u] # "deleted"
    BY <1>1, <1>2, <2>2, Begins
    DEF StaysOut, Entering, Writing, Joining, To, Exists
  <2> QED BY <1>1, <2>1, <2>3 DEF StaysOut, SameLocals, To, tables
<1>3. CASE IsStatement(r)
  <2>0. /\ To(r) \in Users /\ To(r)' = To(r) /\ pc[r] # "idle" /\ req' = req
        /\ \A s \in Calls \ {r} : SameLocals(s)
    BY <1>1, <1>3, Statements, ShapeKnown DEF Active, To
  <2>1. invite'[u] = NoInvite
    <3>1. CASE InsertInvite(r)
      BY <1>1, <2>0, <3>1
      DEF StaysOut, Entering, Writing, InsertInvite, TablesOK, Fail, tables
    <3>2. CASE DropInvite(r) \/ DeleteInvite(r) \/ PurgeInvites(r) \/ StrayInvites(r)
      BY <1>1, <2>0, <3>2
      DEF StaysOut, DropInvite, DeleteInvite, PurgeInvites, StrayInvites, TablesOK
    <3> QED BY <1>1, <1>3, <3>1, <3>2, Statements DEF StaysOut
  <2>2. membership[u] = None => membership'[u] = None
    <3>1. CASE Elevate(r) \/ InsertMembership(r)
      BY <1>1, <2>0, <3>1
      DEF StaysOut, Entering, Writing, Joining, Elevate, InsertMembership, TablesOK, Fail, tables
    <3>2. CASE DeleteMembership(r) \/ PurgeMembership(r) \/ membership' = membership
      BY <1>1, <2>0, <3>2 DEF DeleteMembership, PurgeMembership, TablesOK
    <3> QED BY <1>1, <1>3, <3>1, <3>2, Statements
  <2>3. membership[u] # None => account'[u] = "deleted"
    <3>1. CASE Unverify(r)
      BY <1>1, <2>0, <3>1 DEF StaysOut, Entering, Writing, Unverify, TablesOK
    <3>2. CASE Resend(r)
      BY <1>1, <2>0, <3>2 DEF StaysOut, Resend, TablesOK
    <3>3. CASE Declare(r)
      BY <1>1, <2>0, <3>3 DEF StaysOut, Declare, TablesOK
    <3>4. CASE CreateUser(r) \/ FlagUser(r) \/ account' = account
      BY <1>1, <2>0, <3>4 DEF StaysOut, CreateUser, FlagUser, TablesOK, Fail, tables
    <3> QED BY <1>1, <1>3, <3>1, <3>2, <3>3, <3>4, Statements
  <2>4. ASSUME pc'[r] \in Entering, To(r) = u
        PROVE  FALSE
    <3>1. CASE pc[r] \in Entering
      BY <1>1, <2>4, <3>1 DEF StaysOut
    <3>2. CASE FindValid(r)
      <4>1. CASE grants' = grants
        <5>1. grants[r] = NoGrants /\ grants \in [Calls -> [Clients -> Roles \cup {"missing", None}]]
          BY <1>1, <3>2 DEF FindValid, Shape, LocalsOK, Grants
        <5>2. \A c \in OpenClients \ deleted : grants' # [grants EXCEPT ![r][c] = "user"]
          BY <4>1, <5>1, NullAssumption, InputAssumption DEF NoGrants, Roles
        <5>3. pc'[r] = "visible"
          BY <1>1, <2>4, <3>2, <5>2 DEF FindValid, StaysOut, Goto, LocalsOK
        <5> QED BY <2>4, <5>3 DEF Entering, Writing, Joining
      <4>2. CASE grants' # grants
        BY <2>0, <2>4, <3>2, <4>2 DEF FindValid, Remember, To
      <4> QED BY <4>1, <4>2
    <3>3. CASE CreateUser(r)
      BY <1>1, <2>4, <3>3
      DEF CreateUser, StaysOut, Fail, Goto, LocalsOK, Entering, Writing, Joining
    <3>4. pc[r] \in Entering \/ FindValid(r) \/ CreateUser(r)
      BY <1>1, <1>3, <2>4, Ways
      DEF Entering, Writing, Joining, DropPending, DropInvite, Decide, Elevate, DropPermissions,
          InsertMembership, Upsert, UpsertWrite, AssertValid, InsertInvite, InsertPending,
          TakeInvite
    <3> QED BY <3>1, <3>2, <3>3, <3>4
  <2>5. pc'[r] \notin {"create_user", "declare", "resend"}
    BY <1>1, <1>3, Ways
  <2>6. ASSUME NEW s \in Calls
        PROVE  /\ pc'[s] \in Entering => To(s)' # u
               /\ pc'[s] = "create_user" /\ held'[s] # NoInvite => To(s)' # u
               /\ pc'[s] \in {"declare", "resend"} /\ To(s)' = u => membership'[u] = None
    <3>1. CASE s = r
      BY <2>0, <2>4, <2>5, <3>1
    <3>2. CASE s # r
      BY <1>1, <2>0, <2>2, <3>2 DEF StaysOut, SameLocals, To
    <3> QED BY <3>1, <3>2
  <2> QED BY <2>1, <2>2, <2>3, <2>6 DEF StaysOut
<1> QED BY <1>2, <1>3, StepCases

(* Who was uninvited stays out (UninvitedStaysOut): when                   *)
(* OrganizationsUninviteHandler has run alone, nothing is left that a      *)
(* later signup, verification, or call about others could turn into a      *)
(* membership: FindValid needs an invitation, DropPending and the uses of  *)
(* an invitation begin with one, and permissions need a membership.        *)
THEOREM UninvitedAreOut == Spec => []UninvitedStaysOut
<1>1. Init => Outside
  BY DEF Init, Outside, Uninvites
<1>2. (CallInv /\ CallInv' /\ Keys /\ Outside) /\ [Next]_vars => Outside'
  <2> SUFFICES ASSUME CallInv, CallInv', Keys, Outside, [Next]_vars PROVE Outside'
    OBVIOUS
  <2>1. CASE UNCHANGED vars
    BY <2>1 DEF vars, tables, locals, history, Outside, Uninvites, StaysOut, To
  <2>2. ASSUME NEW r \in Calls, Step(r), Record(r), Remember(r)
        PROVE  Outside'
    BY <2>2, UninvitesStep, GoesOut, OutStays DEF Outside
  <2> QED BY <2>1, <2>2 DEF Next
<1>3. CallInv /\ Keys /\ Outside => UninvitedStaysOut
  <2> SUFFICES ASSUME CallInv, Keys, Outside, NEW u \in out
               PROVE  invite[u] = NoInvite
                      /\ (account[u] # "deleted" => membership[u] = None /\ NoPermission(u))
    BY DEF UninvitedStaysOut
  <2>1. u \in Users /\ StaysOut(u)
    BY TypeParts DEF CallInv, TypeInv, HistoryOK, Outside
  <2> QED BY <2>1 DEF StaysOut, Keys, NoPermission, NoGrants
<1> QED BY <1>1, <1>2, <1>3, KeysAlways, PTL DEF Spec

-----------------------------------------------------------------------------
(* Owners need no permissions *)

Stopped(u) == \E e \in About(u) : "owner" \in did[e] /\ pc[e] \in {"failed", "dead"}
Excused(u) == Reissued(u) \/ Contested(u) \/ Stopped(u)
(* A rival has made the user of s an owner, or invited the user.           *)
Raised(s) == \E e \in Rivals(s) : "owner" \in did[e]
InvitedBy(s) == \E e \in Rivals(s) : Inviting(e)

(* What is said of the past stays true.                                    *)
LEMMA PastStays ==
  ASSUME CallInv, NEW r \in Calls, Step(r), Record(r)
  PROVE  /\ \A u \in Users : About(u) \subseteq About(u)'
         /\ \A u \in Users : Reissued(u) => Reissued(u)'
         /\ \A u \in Users : Contested(u) => Contested(u)'
         /\ \A u \in Users : Excused(u) => Excused(u)'
         /\ \A s \in Calls : pc[s] # "idle" /\ Raised(s) => Raised(s)'
         /\ \A s \in Calls : pc[s] # "idle" /\ InvitedBy(s) => InvitedBy(s)'
<1>1. /\ \A s \in Calls : pc[s] # "idle" =>
            /\ req'[s] = req[s] /\ pc'[s] # "idle" /\ met[s] \subseteq met'[s] /\ did[s] \subseteq did'[s]
            /\ Rivals(s) \subseteq Rivals(s)' /\ To(s)' = To(s)
            /\ \A e \in Rivals(s) : e \in Calls /\ pc[e] # "idle" /\ req'[e] = req[e] /\ did[e] \subseteq did'[e]
      /\ \A s \in Calls \ {r} : SameLocals(s)
  BY RivalsStay, HistoryGrows DEF CallInv
<1>2. \A u \in Users : About(u) \subseteq About(u)'
  BY <1>1 DEF About
<1>3. ASSUME NEW u \in Users, Reissued(u) PROVE Reissued(u)'
  <2>1. PICK e \in About(u), g \in Calls :
          req[e].kind = "modify" /\ g \in Rivals(e) /\ (Inviting(g) \/ req[g].kind \in {"verify", "signup"})
    BY <1>3 DEF Reissued
  <2>2. e \in About(u)' /\ req'[e] = req[e] /\ g \in Rivals(e)' /\ req'[g] = req[g]
    BY <1>1, <1>2, <2>1 DEF About
  <2> QED BY <2>1, <2>2 DEF Reissued, Inviting
<1>4. ASSUME NEW u \in Users, Contested(u) PROVE Contested(u)'
  <2>1. PICK e \in About(u), g \in Calls :
          /\ "owner" \in did[e] /\ g \in Rivals(e)
          /\ "grant" \in did[g] \/ Inviting(g) \/ req[g].kind = "deleteuser"
    BY <1>4 DEF Contested
  <2>2. /\ e \in About(u)' /\ "owner" \in did'[e] /\ g \in Rivals(e)' /\ req'[g] = req[g]
        /\ did[g] \subseteq did'[g]
    BY <1>1, <1>2, <2>1 DEF About
  <2> QED BY <2>1, <2>2 DEF Contested, Inviting
<1>5. ASSUME NEW u \in Users, Stopped(u) PROVE Stopped(u)'
  <2>1. PICK e \in About(u) : "owner" \in did[e] /\ pc[e] \in {"failed", "dead"}
    BY <1>5 DEF Stopped
  <2>2. e # r
    BY <2>1, TypeParts, StepCases, Statements, Begins DEF CallInv, TypeInv, Active, Ended
  <2>3. e \in About(u)' /\ "owner" \in did'[e] /\ pc'[e] = pc[e]
    BY <1>1, <1>2, <2>1, <2>2 DEF About, SameLocals
  <2> QED BY <2>1, <2>3 DEF Stopped
<1>6. ASSUME NEW s \in Calls, pc[s] # "idle", Raised(s) PROVE Raised(s)'
  BY <1>1, <1>6 DEF Raised
<1>7. ASSUME NEW s \in Calls, pc[s] # "idle", InvitedBy(s) PROVE InvitedBy(s)'
  BY <1>1, <1>7 DEF InvitedBy, Inviting
<1> QED BY <1>2, <1>3, <1>4, <1>5, <1>6, <1>7 DEF Excused

(* Rivals are rivals of each other.                                        *)
LEMMA RivalsMutual ==
  ASSUME CallInv, NEW s \in Calls, NEW e \in Rivals(s)
  PROVE  /\ e \in Calls /\ s \in Rivals(e) /\ pc[s] # "idle" /\ pc[e] # "idle"
         /\ e \in About(To(s)) /\ s \in About(To(s))
BY TypeParts DEF CallInv, TypeInv, MetInv, HistoryOK, Rivals, About

(* What a call that begins holds.                                          *)
LEMMA BeginsHolding ==
  ASSUME TablesOK, LocalsOK, NEW r \in Calls, BeginCall(r)
  PROVE  LET q == req'[r]
             i == invite[q.to] IN
         /\ q.kind = "invite" =>
              \/ i = NoInvite /\ pc'[r] = "decide" /\ held'[r].id = NewId
              \/ /\ i # NoInvite /\ pc'[r] = "drop_pending"
                 /\ held'[r].id = i.id /\ held'[r].type = i.type
         /\ q.kind = "orginvite" =>
              /\ i = NoInvite /\ pc'[r] = "decide" /\ held'[r].id = NewId
              /\ held'[r].type = "owner" => grants'[r] = NoGrants
         /\ q.kind = "modify" =>
              /\ i # NoInvite /\ pc'[r] = "drop_pending" /\ held'[r].id = i.id
              /\ held'[r].type = "owner" => grants'[r] = NoGrants
         /\ q.kind \notin {"invite", "orginvite", "modify"} => held'[r] \in {NoInvite, i}
         /\ q.kind = "join" => ~IsOwner(q.to)
<1>1. PICK q \in Requests[r] :
        \/ BeginInvite(r, q) \/ BeginOrgInvite(r, q) \/ BeginModify(r, q)
        \/ BeginUninvite(r, q) \/ BeginOrgUninvite(r, q) \/ BeginVerify(r, q)
        \/ BeginResend(r, q) \/ BeginSignup(r, q) \/ BeginJoin(r, q) \/ BeginDeleteUser(r, q)
        \/ BeginDeleteClient(r, q)
  BY DEF BeginCall
<1>2. q \in Request /\ q.by \in Users /\ q.to \in Users
  BY InputAssumption DEF Request
<1>3. \A l, h, g : Begin(r, q, l, h, g) => req'[r] = q /\ pc'[r] = l /\ held'[r] = h /\ grants'[r] = g
  BY DEF Begin, Set, Goto, LocalsOK
<1>4. invite[q.to] # NoInvite => invite[q.to] \in InviteRow
  BY <1>2 DEF TablesOK
<1>5. CASE BeginInvite(r, q)
  <2>1. CASE invite[q.to] = NoInvite
    BY <1>3, <1>5, <2>1 DEF BeginInvite, Replaceable
  <2>2. CASE invite[q.to] # NoInvite
    <3>1. /\ held'[r] = [invite[q.to] EXCEPT !.inviter = q.by] /\ req'[r] = q
          /\ pc'[r] = "drop_pending"
      BY <1>3, <1>5, <2>2 DEF BeginInvite, Replaceable
    <3>2. held'[r].id = invite[q.to].id /\ held'[r].type = invite[q.to].type
      BY <1>4, <2>2, <3>1 DEF InviteRow
    <3> QED BY <1>5, <2>2, <3>1, <3>2 DEF BeginInvite
  <2> QED BY <2>1, <2>2
<1>6. CASE BeginOrgInvite(r, q)
  BY <1>3, <1>6 DEF BeginOrgInvite
<1>7. CASE BeginModify(r, q)
  BY <1>3, <1>7 DEF BeginModify
<1>8. CASE BeginUninvite(r, q) \/ BeginOrgUninvite(r, q) \/ BeginVerify(r, q)
          \/ BeginResend(r, q) \/ BeginSignup(r, q)
  BY <1>3, <1>8 DEF BeginUninvite, BeginOrgUninvite, BeginVerify, BeginResend, BeginSignup
<1>9. CASE BeginJoin(r, q) \/ BeginDeleteUser(r, q) \/ BeginDeleteClient(r, q)
  BY <1>3, <1>9 DEF BeginJoin, BeginDeleteUser, BeginDeleteClient
<1> QED BY <1>1, <1>5, <1>6, <1>7, <1>8, <1>9

(* The invitation that a call writes or accepts.                           *)
Holds(s, u) == Active(s) /\ To(s) = u /\ (Inviting(s) \/ Accepts(s)) /\ held[s] # NoInvite
Replacing(s) == req[s].kind = "modify" /\ pc[s] \in {"drop_pending", "drop_invite"}
Differ(i, j) == i.id = j.id /\ i.type # j.type
(* Of two invitations with the same id that differ in their type, one      *)
(* replaces the other.                                                     *)
StoredAgrees ==
  \A u \in Users, s \in Calls :
    Holds(s, u) /\ invite[u] # NoInvite /\ Differ(held[s], invite[u]) => Reissued(u) \/ Replacing(s)
HeldAgree ==
  \A u \in Users, s, t \in Calls :
    /\ Holds(s, u) /\ Holds(t, u) /\ req[s].kind # "modify" /\ req[t].kind # "modify"
    /\ held[s].id # NewId /\ Differ(held[s], held[t])
    => Reissued(u)

(* A call that replaces an invitation and one that writes or accepts it.   *)
LEMMA Replaces ==
  ASSUME CallInv, NEW u \in Users, NEW s \in Calls, NEW t \in Calls, s # t,
         Holds(s, u), Holds(t, u), req[s].kind = "modify" \/ req[t].kind = "modify"
  PROVE  Reissued(u)
<1>1. /\ s \in Rivals(t) /\ t \in Rivals(s) /\ s \in About(u) /\ t \in About(u)
      /\ Inviting(s) \/ req[s].kind \in {"verify", "signup"}
      /\ Inviting(t) \/ req[t].kind \in {"verify", "signup"}
  BY DEF CallInv, MetInv, Holds, Rivals, About, Active, Accepts
<1> QED BY <1>1 DEF Reissued
(* What a call holds after a step of its own, and how invitations change.  *)
Same(i, j) == i.id = j.id /\ i.type = j.type
LEMMA HeldMoves ==
  ASSUME CallInv, NEW r \in Calls, Step(r), Record(r), NEW u \in Users, Holds(r, u)'
  PROVE  \/ Holds(r, u) /\ IsStatement(r) /\ Same(held'[r], held[r])
         \/ invite[u] # NoInvite /\ Same(held'[r], invite[u])
         \/ held'[r].id = NewId /\ BeginCall(r)
         \/ InsertInvite(r) /\ \A s \in Calls : held[s] # NoInvite => held[s].id # held'[r].id
         \/ BeginCall(r) /\ Replacing(r)'
<1>1. TablesOK /\ LocalsOK /\ Shape(r) /\ TypeInv
  BY TypeParts DEF CallInv, TypeInv, ShapeInv
<1>2. CASE BeginCall(r)
  <2>1. To(r)' = u /\ req'[r].to = u /\ held'[r] # NoInvite
    BY DEF Holds, To
  <2>2. UNCHANGED tables
    BY <1>1, <1>2, Begins
  <2> QED BY <1>1, <1>2, <2>1, <2>2, BeginsHolding DEF Same, Replacing, Holds, Inviting, Accepts
<1>3. CASE IsStatement(r)
  <2>1. Active(r) /\ req' = req /\ To(r) = u /\ pc'[r] \notin Ended /\ held'[r] # NoInvite
    BY <1>1, <1>3, Statements DEF Holds, To, Active
  <2>2. CASE InsertInvite(r)
    <3>1. pc'[r] # "failed"
      BY <2>1 DEF Ended
    <3>2. Inviting(r) /\ held[r] # NoInvite
      BY <1>1, <2>2 DEF InsertInvite, Shape, Writing
    <3> QED BY <1>1, <1>3, <2>1, <2>2, <3>1, <3>2, InvitationInserted DEF Same, Holds
  <2>3. CASE FindInvite(r) \/ FindValid(r)
    BY <1>1, <1>3, <2>1, <2>3 DEF FindInvite, FindValid, Set, LocalsOK, Same, Holds, Inviting, Accepts
  <2>4. CASE held' = held
    BY <1>3, <2>1, <2>4 DEF Same, Holds, Inviting, Accepts
  <2> QED BY <1>1, <1>3, <2>2, <2>3, <2>4, Statements
<1> QED BY <1>2, <1>3, StepCases

LEMMA InviteMoves ==
  ASSUME CallInv, NEW r \in Calls, IsStatement(r), NEW u \in Users
  PROVE  \/ invite'[u] \in {invite[u], NoInvite}
         \/ /\ InsertInvite(r) /\ To(r) = u /\ pc'[r] = "insert_pending"
            /\ invite[u] = NoInvite /\ invite'[u] = held'[r]
<1>1. TablesOK /\ LocalsOK /\ Shape(r) /\ TypeInv /\ To(r) \in Users
  BY TypeParts, Statements, ShapeKnown DEF CallInv, TypeInv, ShapeInv, Active
<1>2. CASE InsertInvite(r)
  <2>1. CASE pc'[r] = "failed"
    BY <1>1, <1>2, <2>1 DEF InsertInvite, Fail, Goto, LocalsOK, tables
  <2>2. CASE pc'[r] # "failed"
    BY <1>1, <1>2, <2>2, InvitationInserted DEF TablesOK
  <2> QED BY <2>1, <2>2
<1>3. CASE DropInvite(r) \/ DeleteInvite(r) \/ PurgeInvites(r) \/ StrayInvites(r)
  BY <1>1, <1>3 DEF DropInvite, DeleteInvite, PurgeInvites, StrayInvites, TablesOK
<1> QED BY <1>1, <1>2, <1>3, Statements

LEMMA NamesStep ==
  ASSUME CallInv, StoredAgrees, HeldAgree, NEW r \in Calls, Step(r), Record(r)
  PROVE  StoredAgrees' /\ HeldAgree'
<1>1. /\ TablesOK /\ LocalsOK /\ Shape(r) /\ TypeInv
      /\ \A s \in Calls \ {r} : SameLocals(s)
      /\ \A u \in Users : Reissued(u) => Reissued(u)'
  BY TypeParts, HistoryGrows, PastStays DEF CallInv, TypeInv, ShapeInv
<1>2. \A s \in Calls \ {r}, u \in Users :
        /\ Holds(s, u)' <=> Holds(s, u)
        /\ Replacing(s)' <=> Replacing(s)
        /\ held'[s] = held[s] /\ req'[s] = req[s]
  BY <1>1 DEF SameLocals, Holds, Replacing, Active, To, Inviting, Accepts
<1>3. ASSUME NEW u \in Users, NEW s \in Calls, Holds(s, u)', invite'[u] # NoInvite,
             Differ(held'[s], invite'[u])
      PROVE  Reissued(u)' \/ Replacing(s)'
  <2>1. CASE BeginCall(r)
    <3>1. invite' = invite
      BY <1>1, <2>1, Begins DEF tables
    <3>2. CASE s = r
      <4>1. invite[u] # NoInvite => invite[u].id # NewId
        BY <1>1, BoundAssumption DEF TablesOK, InviteRow
      <4> QED BY <1>1, <1>3, <2>1, <3>1, <3>2, <4>1, HeldMoves, StepCases, Statements, Begins
              DEF Same, Differ, Active, InsertInvite
    <3>3. CASE s # r
      BY <1>1, <1>2, <1>3, <3>1, <3>3 DEF StoredAgrees
    <3> QED BY <3>2, <3>3
  <2>2. CASE IsStatement(r) /\ invite'[u] = invite[u] /\ s # r
    BY <1>1, <1>2, <1>3, <2>2 DEF StoredAgrees
  <2>3. CASE IsStatement(r) /\ invite'[u] = invite[u] /\ s = r
    <3>0. Active(r) /\ pc[r] # "idle" /\ req' = req
      BY <1>1, <2>3, Statements DEF Active
    <3>1. CASE InsertInvite(r)
      <4>1. pc'[r] # "failed" /\ To(r) = u
        BY <1>3, <2>3, <3>0 DEF Holds, Active, Ended, To
      <4> QED BY <1>1, <1>3, <2>3, <3>1, <4>1, InvitationInserted
    <3>2. CASE invite[u] # NoInvite /\ Same(held'[r], invite[u])
      BY <1>3, <2>3, <3>2 DEF Same, Differ
    <3>3. CASE Holds(r, u) /\ Same(held'[r], held[r])
      <4>1. Reissued(u) \/ Replacing(r)
        BY <1>3, <2>3, <3>3 DEF StoredAgrees, Same, Differ
      <4>2. CASE Replacing(r) /\ ~Replacing(r)'
        <5>1. DropInvite(r)
          BY <1>1, <1>3, <2>3, <3>0, <4>2
          DEF IsStatement, Replacing, Holds, Active, Ended, DropPending, DropInvite, Decide, Elevate,
              DropPermissions, InsertMembership, Upsert, UpsertWrite, InsertInvite, InsertPending,
              Unverify, Resend, DeletePermission, Count, DeleteMembership, FindInvite, DeletePending,
              Recheck, DeleteInvite, Declare, FindValid, CreateUser, TakeInvite, AssertValid,
              Visible, PurgePermissions, PurgeMembership, PurgeInvites, FlagUser, ClientPending,
              ClientPermissions, FlagClient, StrayInvites, Die, Goto, LocalsOK
        <5> QED BY <1>1, <1>3, <2>3, <3>3, <5>1 DEF DropInvite, Holds, Same, Differ, TablesOK
      <4> QED BY <1>1, <2>3, <4>1, <4>2
    <3> QED BY <1>3, <2>3, <3>0, <3>1, <3>2, <3>3, <1>1, HeldMoves, Begins
  <2>4. CASE IsStatement(r) /\ invite'[u] # invite[u]
    <3>1. /\ InsertInvite(r) /\ To(r) = u /\ pc'[r] = "insert_pending" /\ invite'[u] = held'[r]
      BY <1>3, <2>4, InviteMoves
    <3>2. s # r
      BY <1>3, <3>1 DEF Differ
    <3>3. /\ held'[r].type = held[r].type
          /\ ~Updating(r) => (held[s] # NoInvite => held[s].id # held'[r].id)
          /\ Updating(r) => held'[r].id = held[r].id
          /\ Holds(s, u) /\ held'[s] = held[s] /\ held[s] # NoInvite
      BY <1>1, <1>2, <1>3, <3>1, <3>2, InvitationInserted DEF Holds
    <3>4. Holds(r, u)
      BY <1>1, <3>1 DEF Holds, InsertInvite, Shape, Writing, Active, Ended
    <3>5. Updating(r) /\ Differ(held[s], held[r]) /\ held[s].id # NewId
      BY <1>3, <3>1, <3>3 DEF Differ, Updating
    <3> QED BY <1>1, <3>2, <3>3, <3>4, <3>5, Replaces DEF HeldAgree
  <2> QED BY <2>1, <2>2, <2>3, <2>4, StepCases
<1>4. ASSUME NEW u \in Users, NEW t \in Calls \ {r}, Holds(r, u)', Holds(t, u)',
             req'[r].kind # "modify", req'[t].kind # "modify", held'[r].id # NewId,
             Differ(held'[r], held'[t])
      PROVE  Reissued(u)'
  <2>1. Holds(t, u) /\ held'[t] = held[t] /\ req'[t] = req[t] /\ held[t] # NoInvite
    BY <1>2, <1>4 DEF Holds
  <2>2. CASE Holds(r, u) /\ IsStatement(r) /\ Same(held'[r], held[r])
    <3>1. req'[r] = req[r]
      BY <1>1, <2>2, Statements
    <3> QED BY <1>1, <1>4, <2>1, <2>2, <3>1 DEF HeldAgree, Same, Differ
  <2>3. CASE invite[u] # NoInvite /\ Same(held'[r], invite[u])
    <3>1. Differ(held[t], invite[u])
      BY <1>4, <2>1, <2>3 DEF Same, Differ
    <3> QED BY <1>1, <1>4, <2>1, <2>3, <3>1 DEF StoredAgrees, Replacing
  <2> QED BY <1>4, <2>1, <2>2, <2>3, HeldMoves DEF Replacing, Differ
<1>5. HeldAgree'
  <2> SUFFICES ASSUME NEW u \in Users, NEW s \in Calls, NEW t \in Calls,
                      Holds(s, u)', Holds(t, u)', req'[s].kind # "modify", req'[t].kind # "modify",
                      held'[s].id # NewId, Differ(held'[s], held'[t])
               PROVE  Reissued(u)'
    BY DEF HeldAgree
  <2>1. s # t /\ Differ(held'[t], held'[s]) /\ held'[t].id # NewId
    BY DEF Differ
  <2>2. CASE s # r /\ t # r
    BY <1>1, <1>2, <2>2 DEF HeldAgree
  <2> QED BY <1>4, <2>1, <2>2
<1> QED BY <1>3, <1>5 DEF StoredAgrees

(* Calls that have not yet come to the statements that make an owner.      *)
Early == {"idle", "drop_pending", "drop_invite", "decide", "elevate", "create_user", "declare",
          "find_valid", "take_invite", "assert_valid", "insert_membership"}
(* Whoever invites, or becomes, an owner has no clients to grant, unless   *)
(* the invitation was replaced.                                            *)
OwnerGrants(s) ==
  /\ Active(s) /\ Inviting(s) /\ held[s].type = "owner" => grants[s] = NoGrants
  /\ /\ pc[s] \in {"assert_valid"} \cup Joining /\ Accepts(s)
     /\ held[s] # NoInvite /\ held[s].type = "owner"
     => grants[s] = NoGrants \/ Reissued(To(s))
  /\ pc[s] \in {"drop_permissions", "upsert", "upsert_write"} /\ "owner" \in did[s] =>
       held[s] # NoInvite /\ held[s].type = "owner"
  /\ pc[s] \in Early => "owner" \notin did[s]
OwnersGrantNothing == \A s \in Calls : OwnerGrants(s)
OwnersPending ==
  \A u \in Users :
    invite[u] # NoInvite /\ invite[u].type = "owner" /\ pending[u] # NoGrants => Reissued(u)

(* Who makes an owner: the two statements that write the type.             *)
LEMMA RaisesWhere ==
  ASSUME CallInv, NEW r \in Calls, Step(r), Record(r), "owner" \in did'[r], "owner" \notin did[r]
  PROVE  /\ Elevate(r) \/ InsertMembership(r)
         /\ Raises(r) /\ IsStatement(r) /\ pc'[r] \in {"drop_permissions", "upsert"}
         /\ held'[r] = held[r] /\ held[r] # NoInvite /\ held[r].type = "owner"
<1>1. TablesOK /\ LocalsOK /\ TypeInv /\ HistoryOK
  BY TypeParts DEF CallInv, TypeInv
<1>2. Raises(r) /\ pc[r] # "idle"
  BY <1>1 DEF Record, HistoryOK
<1>3. IsStatement(r) /\ To(r) \in Users /\ Shape(r)
  BY <1>1, <1>2, StepCases, Begins, ShapeKnown
<1>4. CASE Elevate(r)
  BY <1>1, <1>2, <1>3, <1>4
  DEF Elevate, Raises, IsOwner, Shape, Writing, Fail, Goto, KeepLocals, LocalsOK, tables
<1>5. CASE InsertMembership(r)
  BY <1>1, <1>2, <1>3, <1>5
  DEF InsertMembership, Raises, IsOwner, Fail, Goto, KeepLocals, LocalsOK, TablesOK, tables
<1>6. CASE DeleteMembership(r) \/ PurgeMembership(r) \/ membership' = membership
  BY <1>1, <1>2, <1>3, <1>6, NullAssumption
  DEF DeleteMembership, PurgeMembership, Raises, IsOwner, TablesOK, Types
<1> QED BY <1>1, <1>2, <1>3, <1>4, <1>5, <1>6, Statements

LEMMA OwnerGrantsStep ==
  ASSUME CallInv, StoredAgrees, OwnersGrantNothing, OwnersPending, NEW r \in Calls, Step(r), Record(r)
  PROVE  OwnersGrantNothing'
<1>1. /\ TablesOK /\ LocalsOK /\ Shape(r) /\ TypeInv /\ MetInv /\ HistoryOK /\ OwnerGrants(r)
      /\ \A s \in Calls \ {r} : SameLocals(s) /\ did'[s] = did[s]
      /\ \A u \in Users : Reissued(u) => Reissued(u)'
  <2>1. TypeInv /\ MetInv /\ Shape(r) /\ OwnerGrants(r)
    BY DEF CallInv, TypeInv, ShapeInv, OwnersGrantNothing
  <2>2. TablesOK /\ LocalsOK /\ HistoryOK
    BY <2>1, TypeParts DEF TypeInv
  <2>3. \A s \in Calls \ {r} : SameLocals(s) /\ did'[s] = did[s]
    BY <2>1, <2>2, HistoryGrows DEF Record, HistoryOK
  <2>4. \A u \in Users : Reissued(u) => Reissued(u)'
    BY <2>2, PastStays
  <2> QED BY <2>1, <2>2, <2>3, <2>4
<1>2. ASSUME NEW s \in Calls \ {r} PROVE OwnerGrants(s)'
  <2>1. pc[s] # "idle" => To(s) \in Users
    BY <1>1, ShapeKnown
  <2>2. To(s)' = To(s)
    BY <1>1 DEF SameLocals, To
  <2> QED BY <1>1, <2>1, <2>2
          DEF OwnersGrantNothing, OwnerGrants, SameLocals, Active, Inviting, Accepts, Joining
<1>3. ASSUME BeginCall(r) PROVE OwnerGrants(r)'
  <2>1. /\ did'[r] = {} /\ pc[r] = "idle"
        /\ req'[r].kind = "invite" => held'[r].type = "member"
        /\ pc'[r] \in {"assert_valid"} \cup Joining => req'[r].kind = "join"
    BY <1>1, <1>3, Begins DEF Record, MetInv, HistoryOK, Joining
  <2>2. Inviting(r)' /\ held'[r].type = "owner" => grants'[r] = NoGrants
    BY <1>1, <1>3, <2>1, BeginsHolding DEF Inviting
  <2>3. pc'[r] \in {"assert_valid"} \cup Joining => ~Accepts(r)'
    BY <2>1 DEF Accepts
  <2> QED BY <2>1, <2>2, <2>3 DEF OwnerGrants, NoGrants, Joining, Early
<1>4. ASSUME IsStatement(r) PROVE OwnerGrants(r)'
  <2>0. /\ Active(r) /\ req' = req /\ To(r)' = To(r) /\ To(r) \in Users /\ pc[r] # "idle"
        /\ (Inviting(r)' <=> Inviting(r)) /\ (Accepts(r)' <=> Accepts(r))
    BY <1>1, <1>4, Statements, ShapeKnown DEF To, Active, Inviting, Accepts
  <2>1. grants[r] = NoGrants /\ ~FindValid(r) /\ ~TakeInvite(r) => grants'[r] = NoGrants
    <3>1. CASE UpsertWrite(r) \/ InsertPending(r)
      BY <1>1, <3>1 DEF UpsertWrite, InsertPending, NoGrants, Fail, locals, LocalsOK
    <3> QED BY <1>1, <1>4, <3>1, Statements
  <2>2. ASSUME Active(r)', Inviting(r), held'[r].type = "owner"
        PROVE  grants'[r] = NoGrants
    <3>1. ~FindValid(r) /\ ~TakeInvite(r) /\ ~FindInvite(r)
      BY <1>1, <2>2 DEF FindValid, TakeInvite, FindInvite, Shape, Inviting, Accepts, Withdrawing
    <3>2. held'[r].type = held[r].type
      <4>1. CASE InsertInvite(r)
        <5>1. pc'[r] # "failed"
          BY <2>2 DEF Active, Ended
        <5> QED BY <1>1, <4>1, <5>1, InvitationInserted
      <4> QED BY <1>1, <1>4, <3>1, <4>1, Statements
    <3> QED BY <1>1, <2>0, <2>1, <2>2, <3>1, <3>2 DEF OwnerGrants
  <2>3. ASSUME pc'[r] \in {"assert_valid"} \cup Joining, Accepts(r),
               held'[r] # NoInvite, held'[r].type = "owner"
        PROVE  grants'[r] = NoGrants \/ Reissued(To(r))'
    <3>1. CASE TakeInvite(r)
      <4>1. held' = held /\ Holds(r, To(r)) /\ UNCHANGED tables
        BY <2>0, <2>3, <3>1 DEF TakeInvite, Holds
      <4>2. CASE PendingOf(To(r), held[r]) = NoGrants
        <5>1. \A c \in Clients : PendingOf(To(r), held[r])[c] = None
          BY <4>2 DEF NoGrants
        <5>2. grants'[r] = [c \in Clients |-> None]
          BY <1>1, <3>1, <5>1 DEF TakeInvite, Set, LocalsOK
        <5> QED BY <5>2 DEF NoGrants
      <4>3. CASE PendingOf(To(r), held[r]) # NoGrants
        <5>1. /\ invite[To(r)] # NoInvite /\ invite[To(r)].id = held[r].id
              /\ pending[To(r)] # NoGrants
          BY <4>3 DEF PendingOf
        <5>2. Reissued(To(r)) \/ invite[To(r)].type = "owner"
          BY <2>0, <2>3, <4>1, <5>1 DEF StoredAgrees, Differ, Replacing, Accepts
        <5> QED BY <1>1, <2>0, <5>1, <5>2, PastStays DEF OwnersPending, To
      <4> QED BY <4>2, <4>3
    <3>2. CASE FindValid(r)
      BY <1>1, <2>3, <3>2 DEF FindValid, Shape, Goto, Set, LocalsOK, Joining
    <3>3. CASE AssertValid(r) \/ InsertMembership(r) \/ Upsert(r) \/ UpsertWrite(r)
      <4>1. /\ held' = held /\ pc[r] \in {"assert_valid"} \cup Joining
            /\ ~FindValid(r) /\ ~TakeInvite(r)
        BY <3>3
        DEF AssertValid, InsertMembership, Upsert, UpsertWrite, Fail, KeepLocals, locals, Joining,
            FindValid, TakeInvite
      <4>2. grants[r] = NoGrants \/ Reissued(To(r))
        BY <1>1, <2>3, <4>1 DEF OwnerGrants
      <4> QED BY <1>1, <2>0, <2>1, <4>1, <4>2, PastStays DEF To
    <3>4. CASE Decide(r) \/ DropPermissions(r)
      BY <1>1, <2>3, <3>4 DEF Decide, DropPermissions, Shape, Writing, Inviting, Accepts
    <3> QED BY <1>1, <1>4, <2>3, <3>1, <3>2, <3>3, <3>4, Ways DEF Joining
  <2>4. ASSUME pc'[r] \in {"drop_permissions", "upsert", "upsert_write"}, "owner" \in did'[r]
        PROVE  held'[r] # NoInvite /\ held'[r].type = "owner"
    <3>1. CASE "owner" \notin did[r]
      BY <2>4, <3>1, RaisesWhere
    <3>2. CASE "owner" \in did[r]
      <4>1. pc[r] \notin Early
        BY <1>1, <3>2 DEF OwnerGrants
      <4>2. DropPermissions(r) \/ UpsertWrite(r) \/ Upsert(r)
        BY <1>1, <1>4, <2>4, <4>1, Ways
        DEF Early, Elevate, Decide, InsertMembership, FindValid, AssertValid
      <4>3. held' = held /\ pc[r] \in {"drop_permissions", "upsert", "upsert_write"}
        BY <4>2 DEF DropPermissions, UpsertWrite, Upsert, Fail, KeepLocals, locals
      <4> QED BY <1>1, <3>2, <4>3 DEF OwnerGrants
    <3> QED BY <3>1, <3>2
  <2>5. ASSUME pc'[r] \in Early PROVE "owner" \notin did'[r]
    <3>1. pc[r] \in Early
      BY <1>1, <1>4, <2>5, Statements, Ways
      DEF Early, DropPending, DropInvite, Decide, FindValid, AssertValid, Declare, CreateUser,
          TakeInvite
    <3>2. "owner" \notin did[r]
      BY <1>1, <3>1 DEF OwnerGrants
    <3> QED BY <2>5, <3>2, RaisesWhere DEF Early
  <2> QED BY <2>0, <2>2, <2>3, <2>4, <2>5 DEF OwnerGrants, NoGrants, Joining, Early
<1> QED BY <1>2, <1>3, <1>4, StepCases DEF OwnersGrantNothing

LEMMA OwnersPendingStep ==
  ASSUME CallInv, Keys, StoredAgrees, OwnersGrantNothing, OwnersPending,
         NEW r \in Calls, Step(r), Record(r)
  PROVE  OwnersPending'
<1>1. TablesOK /\ LocalsOK /\ Shape(r) /\ TypeInv
  BY TypeParts DEF CallInv, TypeInv, ShapeInv
<1>2. SUFFICES ASSUME NEW u \in Users, invite'[u] # NoInvite, invite'[u].type = "owner",
                      pending'[u] # NoGrants
               PROVE  Reissued(u)'
  BY DEF OwnersPending
<1>3. CASE BeginCall(r)
  BY <1>1, <1>2, <1>3, Begins, PastStays DEF OwnersPending, tables
<1>4. CASE IsStatement(r) /\ invite'[u] # invite[u]
  BY <1>1, <1>2, <1>4, InviteMoves, InvitationInserted DEF Keys
<1>5. CASE IsStatement(r) /\ invite'[u] = invite[u]
  <2>1. CASE pending[u] # NoGrants
    BY <1>2, <1>5, <2>1, PastStays DEF OwnersPending
  <2>2. CASE pending[u] = NoGrants
    <3>1. PICK i \in InviteRow : i = invite[u]
      BY <1>1, <1>2, <1>5 DEF TablesOK
    <3>2. PICK c \in Clients : pending'[u][c] # None
      <4>1. pending' \in [Users -> [Clients -> Roles \cup {None}]]
        BY <1>1, <1>5, StatementTypes DEF TablesOK
      <4> QED BY <1>2, <4>1 DEF NoGrants
    <3>3. PendingOf(u, i)[c] = None /\ PendingOf(u, i)'[c] # None
      BY <1>2, <1>5, <2>2, <3>1, <3>2 DEF PendingOf, NoGrants
    <3>4. pc[r] = "insert_pending" /\ pc'[r] = "insert_pending" /\ To(r) = u
      BY <1>5, <3>3, PendingMoves
    <3>5. InsertPending(r)
      BY <1>1, <1>5, <3>4, Ways DEF InsertInvite
    <3>6. Holds(r, u) /\ ~Replacing(r) /\ Inviting(r) /\ Active(r)
      BY <1>1, <3>4 DEF Holds, Replacing, Shape, Writing, Active, Ended
    <3>7. invite[u].id = held[r].id /\ grants[r] # NoGrants
      BY <1>1, <1>5, <3>2, <2>2, <3>4, <3>5 DEF InsertPending, Fail, tables, NoGrants, TablesOK
    <3>8. Reissued(u) \/ held[r].type = "owner"
      BY <1>2, <1>5, <3>6, <3>7 DEF StoredAgrees, Differ
    <3> QED BY <3>6, <3>7, <3>8, PastStays DEF OwnersGrantNothing, OwnerGrants
  <2> QED BY <2>1, <2>2
<1> QED BY <1>3, <1>4, <1>5, StepCases

(* A contest that a step makes or leaves.                                  *)
LEMMA Contest ==
  ASSUME CallInv, NEW r \in Calls, Step(r), Record(r), NEW u \in Users,
         NEW e \in Calls, NEW g \in Calls, g \in Rivals(e) \/ e \in Rivals(g), To(e) = u,
         "owner" \in did'[e], "grant" \in did'[g] \/ Inviting(g) \/ req[g].kind = "deleteuser"
  PROVE  Contested(u)' /\ Excused(u)'
<1>1. g \in Rivals(e) /\ pc[e] # "idle" /\ pc[g] # "idle"
  BY RivalsMutual
<1>2. e \in About(u)' /\ g \in Rivals(e)' /\ req'[g] = req[g]
  BY <1>1, RivalsStay, HistoryGrows DEF About, CallInv
<1> QED BY <1>2 DEF Contested, Excused, Inviting

(* Whoever makes a user an owner is about that user.                       *)
LEMMA OwnerMoves ==
  ASSUME CallInv, NEW r \in Calls, Step(r), Record(r), NEW u \in Users, ~IsOwner(u), IsOwner(u)'
  PROVE  /\ IsStatement(r) /\ To(r) = u /\ Raises(r) /\ "owner" \in did'[r]
         /\ Elevate(r) \/ InsertMembership(r)
<1>1. TypeInv /\ TablesOK /\ LocalsOK /\ HistoryOK
  BY TypeParts DEF CallInv, TypeInv
<1>2. IsStatement(r)
  BY <1>1, StepCases, Begins DEF IsOwner, tables
<1>3. Active(r) /\ To(r) \in Users /\ pc[r] # "idle" /\ To(r)' = To(r)
  BY <1>1, <1>2, Statements, ShapeKnown DEF Active, To
<1>4. To(r) = u /\ Raises(r) /\ (Elevate(r) \/ InsertMembership(r))
  <2>1. CASE Elevate(r) \/ InsertMembership(r)
    BY <1>1, <1>3, <2>1 DEF Elevate, InsertMembership, Raises, IsOwner, TablesOK, Fail, tables
  <2>2. CASE DeleteMembership(r) \/ PurgeMembership(r) \/ membership' = membership
    BY <1>1, <1>3, <2>2, NullAssumption
    DEF DeleteMembership, PurgeMembership, IsOwner, TablesOK, Types
  <2> QED BY <1>1, <1>2, <2>1, <2>2, Statements
<1>5. "owner" \in did'[r]
  BY <1>1, <1>3, <1>4 DEF Record, HistoryOK
<1> QED BY <1>2, <1>4, <1>5

LEMMA RaisedByRival ==
  ASSUME CallInv, NEW r \in Calls, Step(r), Record(r), NEW s \in Calls, Active(s), s # r,
         ~IsOwner(To(s)), IsOwner(To(s))'
  PROVE  Raised(s)'
<1>1. To(s) \in Users /\ To(s)' = To(s)
  BY ShapeKnown, RivalsStay DEF CallInv, Active
<1>2. IsStatement(r) /\ To(r) = To(s) /\ Raises(r)
  BY <1>1, OwnerMoves DEF IsOwner
<1> QED BY <1>2, RivalsSee DEF Raised

-----------------------------------------------------------------------------
(* The call that writes an invitation has cleared the one there was,       *)
(* unless a rival writes another.                                          *)
Cleared(s) ==
  /\ pc[s] \in {"drop_pending", "drop_invite"} =>
       invite[To(s)] = NoInvite \/ invite[To(s)].id = held[s].id \/ InvitedBy(s)
  /\ pc[s] \in {"decide", "elevate"} \/ (pc[s] = "insert_membership" /\ Inviting(s)) =>
       invite[To(s)] = NoInvite \/ InvitedBy(s)

LEMMA ClearedStep ==
  ASSUME CallInv, NEW s \in Calls, Cleared(s), NEW r \in Calls, Step(r), Record(r)
  PROVE  Cleared(s)'
<1>1. /\ TablesOK /\ LocalsOK /\ TypeInv /\ \A t \in Calls \ {r} : SameLocals(t)
      /\ pc[s] # "idle" => /\ To(s)' = To(s) /\ To(s) \in Users /\ Shape(s)
                           /\ InvitedBy(s) => InvitedBy(s)'
                           /\ Inviting(s)' <=> Inviting(s)
  BY TypeParts, HistoryGrows, ShapeKnown, RivalsStay, PastStays DEF CallInv, TypeInv, Inviting
<1>2. CASE BeginCall(r) /\ s = r
  <2>1. invite' = invite /\ To(r)' = req'[r].to
    BY <1>1, <1>2, Begins DEF tables, To
  <2>2. /\ pc'[r] \in {"drop_pending", "drop_invite", "decide", "elevate"} => Inviting(r)'
        /\ pc'[r] \notin {"drop_invite", "elevate"}
        /\ pc'[r] = "insert_membership" => ~Inviting(r)'
    BY <1>1, <1>2, Begins DEF Inviting
  <2> QED BY <1>1, <1>2, <2>1, <2>2, BeginsHolding DEF Cleared, Inviting
<1>3. CASE BeginCall(r) /\ s # r
  <2>1. invite' = invite /\ SameLocals(s)
    BY <1>1, <1>3, Begins DEF tables
  <2> QED BY <1>1, <2>1 DEF Cleared, SameLocals, Inviting, To
<1>4. CASE IsStatement(r) /\ s # r
  <2>1. CASE pc[s] = "idle"
    BY <1>1, <1>4, <2>1 DEF Cleared, SameLocals
  <2>2. CASE pc[s] # "idle" /\ invite'[To(s)] \in {invite[To(s)], NoInvite}
    BY <1>1, <1>4, <2>2 DEF Cleared, SameLocals
  <2>3. CASE pc[s] # "idle" /\ invite'[To(s)] \notin {invite[To(s)], NoInvite}
    <3>1. InsertInvite(r) /\ To(r) = To(s) /\ Shape(r) /\ Active(r) /\ req' = req
      BY <1>1, <1>4, <2>3, InviteMoves, Statements, ShapeKnown DEF Active
    <3>2. Inviting(r)'
      BY <3>1 DEF InsertInvite, Shape, Writing, Inviting
    <3>3. Active(s) => InvitedBy(s)'
      BY <1>4, <3>1, <3>2, RivalsSee DEF InvitedBy
    <3> QED BY <1>1, <1>4, <3>3 DEF Cleared, Active, Ended, SameLocals
  <2> QED BY <2>1, <2>2, <2>3
<1>5. CASE IsStatement(r) /\ s = r
  <2>0. Active(r) /\ pc[r] # "idle" /\ req' = req
    BY <1>1, <1>5, Statements DEF Active
  <2>1. CASE pc'[r] = "drop_invite"
    <3>1. DropPending(r)
      BY <1>1, <1>5, <2>1, Ways
    <3> QED BY <1>1, <1>5, <2>0, <2>1, <3>1 DEF DropPending, Cleared, KeepLocals
  <2>2. CASE pc'[r] = "decide"
    <3>1. DropInvite(r)
      BY <1>1, <1>5, <2>2, Ways
    <3>2. invite'[To(r)] = NoInvite \/ InvitedBy(r)
      BY <1>1, <1>5, <2>0, <3>1 DEF DropInvite, Cleared, TablesOK
    <3> QED BY <1>1, <1>5, <2>0, <2>2, <3>2 DEF Cleared
  <2>3. CASE pc'[r] = "elevate" \/ (pc'[r] = "insert_membership" /\ Inviting(r))
    <3>1. Decide(r)
      BY <1>1, <1>5, <2>0, <2>3, Ways
      DEF FindValid, AssertValid, Shape, Inviting, Accepts
    <3>2. invite' = invite /\ pc[r] = "decide"
      BY <3>1 DEF Decide, tables
    <3> QED BY <1>1, <1>5, <2>0, <2>3, <3>2 DEF Cleared
  <2>4. pc'[r] # "drop_pending"
    BY <1>1, <1>5, Ways
  <2> QED BY <1>1, <1>5, <2>0, <2>1, <2>2, <2>3, <2>4 DEF Cleared
<1> QED BY <1>2, <1>3, <1>4, <1>5, StepCases

(* Owners who are deleted are contested: calls that find the user exist    *)
(* meet the one that deletes the user, and that one deletes the membership *)
(* first.                                                                  *)
DeletedOwners == \A u \in Users : account[u] = "deleted" /\ IsOwner(u) => Excused(u)
Deletion(s) ==
  /\ pc[s] \in {"purge_invites", "flag_user"} /\ IsOwner(To(s)) => Raised(s)
  /\ pc[s] \in {"elevate", "insert_membership", "find_valid", "take_invite", "assert_valid"}
     /\ account[To(s)] = "deleted"
     => \E d \in Rivals(s) : req[d].kind = "deleteuser"

LEMMA DeletionStep ==
  ASSUME CallInv, NEW s \in Calls, Deletion(s), NEW r \in Calls, Step(r), Record(r)
  PROVE  Deletion(s)'
<1>1. /\ TablesOK /\ LocalsOK /\ TypeInv /\ \A t \in Calls \ {r} : SameLocals(t)
      /\ pc[s] # "idle" =>
           /\ To(s)' = To(s) /\ To(s) \in Users /\ Shape(s)
           /\ Raised(s) => Raised(s)'
           /\ (\E d \in Rivals(s) : req[d].kind = "deleteuser") =>
                \E d \in Rivals(s)' : req'[d].kind = "deleteuser"
  BY TypeParts, HistoryGrows, ShapeKnown, RivalsStay, PastStays DEF CallInv, TypeInv
<1>2. CASE BeginCall(r) /\ s = r
  <2>1. /\ pc'[r] \notin {"purge_invites", "flag_user", "elevate", "find_valid", "take_invite", "assert_valid"}
        /\ pc'[r] = "insert_membership" => account'[To(r)'] = "verified"
    BY <1>1, <1>2, Begins DEF To, tables
  <2> QED BY <1>2, <2>1 DEF Deletion
<1>3. CASE BeginCall(r) /\ s # r
  <2>1. UNCHANGED tables /\ SameLocals(s)
    BY <1>1, <1>3, Begins DEF tables
  <2> QED BY <1>1, <2>1 DEF Deletion, SameLocals, IsOwner, tables
<1>4. CASE IsStatement(r) /\ s # r
  <2>0. SameLocals(s) /\ (pc[s] # "idle" => pc'[s] = pc[s])
    BY <1>1, <1>4 DEF SameLocals
  <2>1. ASSUME pc[s] \in {"purge_invites", "flag_user"}, IsOwner(To(s))' PROVE Raised(s)'
    BY <1>1, <1>4, <2>1, RaisedByRival DEF Deletion, Active, Ended
  <2>2. ASSUME pc[s] \in {"elevate", "insert_membership", "find_valid", "take_invite", "assert_valid"},
               account'[To(s)] = "deleted"
        PROVE  \E d \in Rivals(s)' : req'[d].kind = "deleteuser"
    <3>0. Active(s)
      BY <2>2 DEF Active, Ended
    <3>1. CASE account[To(s)] = "deleted"
      BY <1>1, <2>2, <3>1 DEF Deletion
    <3>2. CASE account[To(s)] # "deleted"
      <4>1. Active(r) /\ req' = req /\ Shape(r) /\ To(r) \in Users
        BY <1>1, <1>4, Statements, ShapeKnown DEF Active
      <4>2. FlagUser(r) /\ To(r) = To(s)
        BY <1>1, <1>4, <2>2, <3>2, <4>1, Statements
        DEF Unverify, Resend, Declare, CreateUser, FlagUser, TablesOK, Fail, tables
      <4>3. req'[r].kind = "deleteuser"
        BY <4>1, <4>2 DEF FlagUser, Shape, Purging
      <4> QED BY <1>4, <3>0, <4>2, <4>3, RivalsSee
    <3> QED BY <3>1, <3>2
  <2> QED BY <1>1, <2>0, <2>1, <2>2 DEF Deletion, SameLocals
<1>5. CASE IsStatement(r) /\ s = r
  <2>0. Active(r) /\ pc[r] # "idle" /\ req' = req
    BY <1>1, <1>5, Statements DEF Active
  <2>1. ASSUME pc'[r] \in {"purge_invites", "flag_user"}, IsOwner(To(r))' PROVE Raised(r)'
    <3>1. PurgeMembership(r) \/ PurgeInvites(r)
      BY <1>1, <1>5, <2>1 DEF IsStatement, DropPending, DropInvite, Decide, Elevate,
              DropPermissions, InsertMembership, Upsert, AfterUpserts, UpsertWrite, InsertInvite,
              InsertPending, Unverify, Resend, DeletePermission, Count, DeleteMembership, FindInvite,
              DeletePending, Recheck, DeleteInvite, Declare, FindValid, CreateUser, TakeInvite,
              AssertValid, Visible, PurgePermissions, FlagUser, ClientPending, ClientPermissions,
              FlagClient, StrayInvites, Die, Fail, Goto, LocalsOK
    <3> QED BY <1>1, <1>5, <2>0, <2>1, <3>1, NullAssumption
            DEF PurgeMembership, PurgeInvites, IsOwner, TablesOK, Types, Deletion
  <2>2. ASSUME pc'[r] \in {"elevate", "insert_membership", "find_valid", "take_invite", "assert_valid"},
               account'[To(r)] = "deleted"
        PROVE  \E d \in Rivals(r)' : req'[d].kind = "deleteuser"
    <3>1. CASE Declare(r) \/ CreateUser(r)
      BY <1>1, <1>5, <2>0, <2>2, <3>1 DEF Declare, CreateUser, TablesOK, LocalsOK, Fail, Goto
    <3>2. CASE Decide(r)
      BY <1>1, <2>2, <3>2 DEF Decide, TakenAtOnce, Exists, Goto, LocalsOK, tables
    <3>3. CASE FindValid(r) \/ TakeInvite(r) \/ AssertValid(r)
      <4>1. account' = account /\ pc[r] \in {"find_valid", "take_invite", "assert_valid"}
        BY <3>3 DEF FindValid, TakeInvite, AssertValid, Fail, tables
      <4> QED BY <1>1, <1>5, <2>0, <2>2, <4>1 DEF Deletion
    <3> QED BY <1>1, <1>5, <2>2, <3>1, <3>2, <3>3, Ways
  <2> QED BY <1>1, <1>5, <2>0, <2>1, <2>2 DEF Deletion
<1> QED BY <1>2, <1>3, <1>4, <1>5, StepCases

LEMMA DeletedOwnersStep ==
  ASSUME CallInv, DeletedOwners, \A s \in Calls : Deletion(s), NEW r \in Calls, Step(r), Record(r)
  PROVE  DeletedOwners'
<1>1. TablesOK /\ LocalsOK /\ TypeInv
  BY TypeParts DEF CallInv, TypeInv
<1>2. SUFFICES ASSUME NEW u \in Users, account'[u] = "deleted", IsOwner(u)' PROVE Excused(u)'
  BY DEF DeletedOwners
<1>3. CASE account[u] = "deleted" /\ IsOwner(u)
  BY <1>3, PastStays DEF DeletedOwners
<1>4. CASE ~IsOwner(u)
  <2>1. IsStatement(r) /\ To(r) = u /\ "owner" \in did'[r] /\ (Elevate(r) \/ InsertMembership(r))
    BY <1>2, <1>4, OwnerMoves
  <2>2. account[u] = "deleted" /\ pc[r] \in {"elevate", "insert_membership"}
    BY <1>2, <2>1 DEF Elevate, InsertMembership, Fail, tables
  <2>3. PICK d \in Rivals(r) : req[d].kind = "deleteuser"
    BY <2>1, <2>2 DEF Deletion
  <2>4. d \in Calls
    BY RivalsMutual
  <2> QED BY <2>1, <2>3, <2>4, Contest
<1>5. CASE IsOwner(u) /\ account[u] # "deleted"
  <2>1. IsStatement(r)
    BY <1>1, <1>2, <1>5, StepCases, Begins DEF tables
  <2>2. Active(r) /\ To(r) \in Users /\ Shape(r)
    BY <1>1, <2>1, Statements, ShapeKnown DEF Active
  <2>3. FlagUser(r) /\ To(r) = u
    BY <1>1, <1>2, <1>5, <2>1, <2>2, Statements
    DEF Unverify, Resend, Declare, CreateUser, FlagUser, TablesOK, Fail, tables
  <2>4. Raised(r) /\ req[r].kind = "deleteuser"
    BY <1>5, <2>2, <2>3 DEF Deletion, FlagUser, Shape, Purging
  <2>5. PICK e \in Rivals(r) : "owner" \in did[e]
    BY <2>4 DEF Raised
  <2>6. e \in Calls /\ To(e) = u /\ "owner" \in did'[e] /\ pc[e] # "idle"
    BY <2>3, <2>5, RivalsMutual, HistoryGrows DEF Rivals, CallInv
  <2> QED BY <2>4, <2>5, <2>6, Contest
<1> QED BY <1>3, <1>4, <1>5

(* An invitation that is inserted for an owner, or found with one, has a   *)
(* call behind it that made the owner meanwhile.                           *)
Inserts(s) == pc[s] = "insert_invite" /\ IsOwner(To(s)) => Raised(s) \/ Excused(To(s))
AcceptedBy(u) == \E e \in About(u) : "owner" \in did[e] /\ Active(e) /\ Accepts(e)
InvitedOwners == \A u \in Users : IsOwner(u) /\ invite[u] # NoInvite => Excused(u) \/ AcceptedBy(u)

LEMMA InsertsStep ==
  ASSUME CallInv, Keys, DeletedOwners, NEW s \in Calls, Inserts(s), NEW r \in Calls, Step(r), Record(r)
  PROVE  Inserts(s)'
<1>1. /\ TablesOK /\ LocalsOK /\ TypeInv /\ \A t \in Calls \ {r} : SameLocals(t)
      /\ pc[s] # "idle" => /\ To(s)' = To(s) /\ To(s) \in Users
                           /\ Raised(s) => Raised(s)'
                           /\ Excused(To(s)) => Excused(To(s))'
  <2>1. pc[s] # "idle" => To(s)' = To(s) /\ To(s) \in Users
    BY ShapeKnown, RivalsStay DEF CallInv
  <2>2. ASSUME pc[s] # "idle", Excused(To(s)) PROVE Excused(To(s))'
    <3>1. PICK u \in Users : u = To(s) /\ u = To(s)'
      BY <2>1, <2>2
    <3>2. Excused(u)'
      BY <2>2, <3>1, PastStays
    <3> QED BY <3>1, <3>2 DEF Excused, Reissued, Contested, Stopped, About
  <2> QED BY <2>1, <2>2, TypeParts, HistoryGrows, PastStays DEF CallInv, TypeInv
<1>2. SUFFICES ASSUME pc'[s] = "insert_invite", IsOwner(To(s))' PROVE Raised(s)' \/ Excused(To(s))'
  BY DEF Inserts
<1>3. CASE pc[s] = "insert_invite"
  <2>1. CASE IsOwner(To(s))
    BY <1>1, <1>3, <2>1 DEF Inserts
  <2>2. CASE ~IsOwner(To(s))
    <3>1. s # r
      <4>1. InsertInvite(s) => pc'[s] # "insert_invite"
        BY <1>1 DEF InsertInvite, Fail, Goto, LocalsOK
      <4>2. PICK u \in Users : u = To(s) /\ u = To(s)'
        BY <1>1, <1>3
      <4>3. ~IsOwner(u) /\ IsOwner(u)'
        BY <1>2, <2>2, <4>2 DEF IsOwner
      <4> QED BY <1>3, <4>3, OwnerMoves DEF Elevate, InsertMembership
    <3> QED BY <1>2, <1>3, <2>2, <3>1, RaisedByRival DEF Active, Ended
  <2> QED BY <2>1, <2>2
<1>4. CASE pc[s] # "insert_invite"
  <2>1. s = r /\ IsStatement(r)
    BY <1>1, <1>2, <1>4, StepCases, Begins DEF SameLocals
  <2>2. Decide(r) /\ pc[r] = "decide" /\ pc[r] # "idle" /\ UNCHANGED tables
    BY <1>1, <1>2, <2>1, Ways DEF Decide, tables
  <2>3. IsOwner(To(r)) /\ membership[To(r)] # None
    BY <1>1, <1>2, <2>1, <2>2, NullAssumption DEF IsOwner, tables, Types
  <2>4. ~Exists(To(r))
    BY <1>1, <1>2, <2>1, <2>2, <2>3 DEF Decide, TakenAtOnce, Goto, LocalsOK
  <2>5. account[To(r)] = "deleted"
    BY <1>1, <2>1, <2>2, <2>3, <2>4 DEF Exists, Keys, TablesOK, Accounts
  <2> QED BY <1>1, <2>1, <2>2, <2>3, <2>5 DEF DeletedOwners
<1> QED BY <1>3, <1>4

LEMMA InvitedOwnersStep ==
  ASSUME CallInv, InvitedOwners, OwnersGrantNothing,
         \A s \in Calls : Cleared(s) /\ Inserts(s), NEW r \in Calls, Step(r), Record(r)
  PROVE  InvitedOwners'
<1>1. /\ TablesOK /\ LocalsOK /\ TypeInv /\ \A t \in Calls \ {r} : SameLocals(t)
  BY TypeParts, HistoryGrows DEF CallInv, TypeInv
<1>2. SUFFICES ASSUME NEW u \in Users, IsOwner(u)', invite'[u] # NoInvite
               PROVE  Excused(u)' \/ AcceptedBy(u)'
  BY DEF InvitedOwners
<1>3. CASE ~IsOwner(u)
  <2>1. /\ IsStatement(r) /\ To(r) = u /\ "owner" \in did'[r] /\ (Elevate(r) \/ InsertMembership(r))
        /\ Raises(r) /\ pc[r] \in {"elevate", "insert_membership"}
    BY <1>2, <1>3, OwnerMoves DEF Elevate, InsertMembership
  <2>2. /\ pc[r] # "idle" /\ req' = req /\ "owner" \notin did[r] /\ Shape(r)
        /\ invite' = invite
    BY <1>1, <2>1, Statements, ShapeKnown
    DEF OwnersGrantNothing, OwnerGrants, Early, Active, Elevate, InsertMembership, Fail, tables
  <2>3. pc'[r] \in {"drop_permissions", "upsert"} /\ held[r] # NoInvite
    BY <2>1, <2>2, RaisesWhere
  <2>4. Inviting(r) \/ Accepts(r)
    BY <2>1, <2>2, <2>3 DEF Shape, Writing, Joining
  <2>5. CASE Accepts(r)
    <3>1. r \in About(u)' /\ Active(r)' /\ Accepts(r)'
      BY <2>1, <2>2, <2>3, <2>5 DEF About, Active, Accepts, To, Ended
    <3> QED BY <2>1, <3>1 DEF AcceptedBy
  <2>6. CASE Inviting(r)
    <3>1. PICK g \in Rivals(r) : Inviting(g)
      BY <1>2, <2>1, <2>2, <2>6 DEF Cleared, InvitedBy
    <3>2. g \in Calls
      BY RivalsMutual
    <3> QED BY <2>1, <3>1, <3>2, Contest
  <2> QED BY <2>4, <2>5, <2>6
<1>4. CASE IsOwner(u) /\ invite[u] = NoInvite
  <2>1. IsStatement(r)
    BY <1>1, <1>2, <1>4, StepCases, Begins DEF tables
  <2>2. InsertInvite(r) /\ To(r) = u
    BY <1>2, <1>4, <2>1, InviteMoves
  <2>3. pc[r] = "insert_invite" /\ Inviting(r)
    BY <1>1, <2>2, ShapeKnown DEF InsertInvite, Shape, Writing
  <2>4. CASE Excused(u)
    BY <2>4, PastStays
  <2>5. CASE Raised(r)
    <3>1. PICK e \in Rivals(r) : "owner" \in did[e]
      BY <2>5 DEF Raised
    <3>2. e \in Calls /\ To(e) = u /\ "owner" \in did'[e] /\ pc[e] # "idle"
      BY <2>2, <3>1, RivalsMutual, HistoryGrows DEF Rivals, CallInv
    <3> QED BY <2>3, <3>1, <3>2, Contest
  <2> QED BY <1>4, <2>2, <2>3, <2>4, <2>5 DEF Inserts
<1>5. CASE IsOwner(u) /\ invite[u] # NoInvite
  <2>1. CASE Excused(u)
    BY <2>1, PastStays
  <2>2. ASSUME NEW e \in About(u), "owner" \in did[e], Active(e), Accepts(e)
        PROVE  Excused(u)' \/ AcceptedBy(u)'
    <3>1. e \in Calls /\ e \in About(u)' /\ "owner" \in did'[e] /\ Accepts(e)' /\ pc[e] # "idle" /\ To(e) = u
      BY <2>2, PastStays, HistoryGrows DEF About, CallInv, Accepts
    <3>2. CASE Active(e)'
      BY <3>1, <3>2 DEF AcceptedBy
    <3>3. CASE ~Active(e)'
      <4>1. e = r /\ IsStatement(r) /\ Shape(r)
        BY <1>1, <2>2, <3>1, <3>3, StepCases, Begins, ShapeKnown DEF SameLocals, Active
      <4>2. pc'[r] \in Ended
        BY <1>1, <3>3, <4>1, Statements DEF Active
      <4>3. CASE pc'[r] \in {"failed", "dead"}
        BY <3>1, <4>1, <4>3 DEF Stopped, Excused
      <4>4. CASE pc'[r] = "done"
        <5>1. DeleteInvite(r) \/ CreateUser(r)
          BY <1>1, <2>2, <4>1, <4>4, Ways
          DEF Upsert, AfterUpserts, InsertPending, Unverify, Resend, Recheck, FlagUser, StrayInvites,
              Fail, Goto, LocalsOK, Shape, Writing, Purging, Erasing, ByClient, Inviting, Accepts
        <5>2. CASE DeleteInvite(r)
          BY <1>1, <1>2, <3>1, <4>1, <5>2 DEF DeleteInvite, TablesOK
        <5>3. CASE CreateUser(r)
          BY <2>2, <4>1, <5>3 DEF CreateUser, OwnersGrantNothing, OwnerGrants, Early
        <5> QED BY <5>1, <5>2, <5>3
      <4> QED BY <4>2, <4>3, <4>4 DEF Ended
    <3> QED BY <3>2, <3>3
  <2> QED BY <1>5, <2>1, <2>2 DEF InvitedOwners, AcceptedBy
<1> QED BY <1>3, <1>4, <1>5

(* A call that has come past its reads for a user who is an owner now met  *)
(* the one that made the owner, unless that is the call itself.            *)
Settling == {"elevate", "drop_permissions", "take_invite", "assert_valid"} \cup Joining
Settled(s) ==
  pc[s] \in Settling /\ IsOwner(To(s)) /\ "owner" \notin did[s] => Raised(s) \/ Excused(To(s))

LEMMA SettledStep ==
  ASSUME CallInv, Keys, InvitedOwners, NEW s \in Calls, Settled(s), NEW r \in Calls, Step(r), Record(r)
  PROVE  Settled(s)'
<1>1. /\ TablesOK /\ LocalsOK /\ TypeInv /\ MetInv /\ \A t \in Calls \ {r} : SameLocals(t)
      /\ pc[s] # "idle" => To(s)' = To(s) /\ To(s) \in Users /\ did[s] \subseteq did'[s]
      /\ pc[s] # "idle" /\ Raised(s) => Raised(s)'
  BY TypeParts, HistoryGrows, ShapeKnown, RivalsStay, PastStays DEF CallInv, TypeInv
<1>2. SUFFICES ASSUME pc'[s] \in Settling, IsOwner(To(s))', "owner" \notin did'[s]
               PROVE  Raised(s)' \/ Excused(To(s))'
  BY DEF Settled, Settling, Joining
<1>3. ASSUME pc[s] # "idle", Excused(To(s)) PROVE Excused(To(s))'
  <2>1. PICK u \in Users : u = To(s) /\ u = To(s)'
    BY <1>1, <1>3
  <2>2. Excused(u)'
    BY <1>3, <2>1, PastStays
  <2> QED BY <2>1, <2>2 DEF Excused, Reissued, Contested, Stopped, About
<1>4. CASE pc[s] \in Settling /\ IsOwner(To(s))
  BY <1>1, <1>2, <1>3, <1>4 DEF Settled, Settling, Joining
<1>5. CASE pc[s] # "idle" /\ ~IsOwner(To(s))
  <2>1. PICK u \in Users : u = To(s) /\ u = To(s)'
    BY <1>1, <1>5
  <2>2. ~IsOwner(u) /\ IsOwner(u)'
    BY <1>2, <1>5, <2>1 DEF IsOwner
  <2>3. s # r
    BY <1>2, <2>2, OwnerMoves
  <2>4. Active(s)
    BY <1>1, <1>2, <1>5, <2>3 DEF SameLocals, Active, Settling, Joining, Ended
  <2> QED BY <1>2, <1>5, <2>3, <2>4, RaisedByRival
<1>6. CASE pc[s] \notin Settling /\ (pc[s] = "idle" \/ IsOwner(To(s)))
  <2>1. s = r
    BY <1>1, <1>2, <1>6 DEF SameLocals
  <2>2. CASE BeginCall(r)
    <3>1. req'[r].kind = "join" /\ UNCHANGED tables
      BY <1>1, <1>2, <2>1, <2>2, Begins DEF Settling, Joining, tables
    <3>2. ~IsOwner(To(r)')
      BY <1>1, <2>2, <3>1, BeginsHolding DEF To
    <3> QED BY <1>2, <2>1, <3>1, <3>2 DEF IsOwner, tables
  <2>3. CASE IsStatement(r)
    <3>0. Active(r) /\ pc[r] # "idle" /\ Shape(r) /\ IsOwner(To(r)) /\ To(r) \in Users
      BY <1>1, <1>6, <2>1, <2>3, Statements, ShapeKnown DEF Active
    <3>1. CASE Decide(r)
      BY <1>1, <1>2, <2>1, <3>0, <3>1, NullAssumption
      DEF Decide, Goto, LocalsOK, Settling, Joining, IsOwner, Types
    <3>2. CASE CreateUser(r)
      BY <1>1, <1>2, <2>1, <3>0, <3>2, NullAssumption
      DEF CreateUser, Keys, Fail, Goto, LocalsOK, Settling, Joining, IsOwner, Types
    <3>3. CASE FindValid(r)
      <4>1. pc'[r] = "take_invite" /\ invite[To(r)] # NoInvite
        BY <1>1, <1>2, <2>1, <3>0, <3>3 DEF FindValid, Goto, LocalsOK, Settling, Joining
      <4>2. CASE Excused(To(r))
        BY <1>3, <2>1, <3>0, <4>2
      <4>3. ASSUME NEW e \in About(To(r)), "owner" \in did[e], Active(e)
            PROVE  Raised(r)
        <5>1. e # r /\ e \in Calls /\ To(e) = To(r)
          BY <1>1, <1>2, <2>1, <3>0, <4>3 DEF About
        <5> QED BY <1>1, <3>0, <4>3, <5>1 DEF MetInv, Raised, Rivals
      <4> QED BY <1>1, <2>1, <3>0, <4>1, <4>2, <4>3 DEF InvitedOwners, AcceptedBy
    <3>4. Decide(r) \/ CreateUser(r) \/ FindValid(r)
      BY <1>1, <1>2, <1>6, <2>1, <2>3, <3>0, Ways
      DEF Settling, Joining, Elevate, DropPermissions, InsertMembership, Upsert, UpsertWrite,
          TakeInvite, AssertValid
    <3> QED BY <3>1, <3>2, <3>3, <3>4
  <2> QED BY <2>2, <2>3, StepCases
<1> QED BY <1>4, <1>5, <1>6 DEF Settling, Joining

(* Owners keep no permissions ...                                          *)
Dropping(u) == \E e \in About(u) : "owner" \in did[e] /\ pc[e] = "drop_permissions"
OwnersBare == \A u \in Users : IsOwner(u) /\ ~NoPermission(u) => Excused(u) \/ Dropping(u)

LEMMA OwnersBareStep ==
  ASSUME CallInv, Keys, OwnersBare, OwnersGrantNothing, \A s \in Calls : Settled(s),
         NEW r \in Calls, Step(r), Record(r)
  PROVE  OwnersBare'
<1>1. /\ TablesOK /\ LocalsOK /\ TypeInv /\ HistoryOK /\ \A t \in Calls \ {r} : SameLocals(t)
  BY TypeParts, HistoryGrows DEF CallInv, TypeInv
<1>2. SUFFICES ASSUME NEW u \in Users, IsOwner(u)', ~NoPermission(u)'
               PROVE  Excused(u)' \/ Dropping(u)'
  BY DEF OwnersBare
<1>3. CASE ~IsOwner(u)
  <2>1. /\ IsStatement(r) /\ To(r) = u /\ "owner" \in did'[r] /\ (Elevate(r) \/ InsertMembership(r))
        /\ Raises(r)
    BY <1>2, <1>3, OwnerMoves
  <2>2. pc[r] # "idle" /\ req' = req /\ permission' = permission
    BY <1>1, <2>1, Statements DEF Active, Elevate, InsertMembership, Fail, tables
  <2>3. CASE Elevate(r)
    <3>1. pc'[r] = "drop_permissions"
      BY <1>1, <1>2, <1>3, <2>1, <2>3 DEF Elevate, Fail, Goto, LocalsOK, IsOwner, tables
    <3>2. r \in About(u)'
      BY <2>1, <2>2, <3>1 DEF About, To
    <3> QED BY <2>1, <3>1, <3>2 DEF Dropping
  <2>4. CASE InsertMembership(r)
    <3>1. membership[u] = None
      BY <1>2, <1>3, <2>1, <2>4 DEF InsertMembership, Fail, IsOwner, tables
    <3> QED BY <1>2, <2>2, <3>1 DEF Keys, NoPermission, NoGrants
  <2> QED BY <2>1, <2>3, <2>4
<1>4. CASE IsOwner(u) /\ ~NoPermission(u)
  <2>1. CASE Excused(u)
    BY <2>1, PastStays
  <2>2. ASSUME NEW e \in About(u), "owner" \in did[e], pc[e] = "drop_permissions"
        PROVE  Excused(u)' \/ Dropping(u)'
    <3>1. e \in Calls /\ e \in About(u)' /\ "owner" \in did'[e] /\ To(e) = u
      BY <2>2, PastStays, HistoryGrows DEF About, CallInv
    <3>2. CASE pc'[e] = "drop_permissions"
      BY <3>1, <3>2 DEF Dropping
    <3>3. CASE pc'[e] # "drop_permissions"
      <4>1. e = r /\ IsStatement(r)
        BY <1>1, <2>2, <3>1, <3>3, StepCases, Begins DEF SameLocals
      <4>2. DropPermissions(r) \/ Die(r)
        BY <2>2, <4>1
        DEF IsStatement, DropPending, DropInvite, Decide, Elevate, InsertMembership, Upsert,
            UpsertWrite, InsertInvite, InsertPending, Unverify, Resend, DeletePermission, Count,
            DeleteMembership, FindInvite, DeletePending, Recheck, DeleteInvite, Declare, FindValid,
            CreateUser, TakeInvite, AssertValid, Visible, PurgePermissions, PurgeMembership,
            PurgeInvites, FlagUser, ClientPending, ClientPermissions, FlagClient, StrayInvites
      <4>3. CASE DropPermissions(r)
        BY <1>1, <1>2, <3>1, <4>1, <4>3 DEF DropPermissions, NoPermission, NoGrants, TablesOK
      <4>4. CASE Die(r)
        BY <1>1, <3>1, <4>1, <4>4 DEF Die, Goto, LocalsOK, Stopped, Excused
      <4> QED BY <4>2, <4>3, <4>4
    <3> QED BY <3>2, <3>3
  <2> QED BY <1>4, <2>1, <2>2 DEF OwnersBare, Dropping
<1>5. CASE IsOwner(u) /\ NoPermission(u)
  <2>1. IsStatement(r)
    BY <1>1, <1>2, <1>5, StepCases, Begins DEF NoPermission, tables
  <2>2. Active(r) /\ To(r) \in Users /\ Shape(r) /\ pc[r] # "idle"
    BY <1>1, <2>1, Statements, ShapeKnown DEF Active
  <2>3. UpsertWrite(r) /\ To(r) = u /\ pc[r] = "upsert_write" /\ permission' # permission
    <3>1. CASE UpsertWrite(r)
      BY <1>1, <1>2, <1>5, <2>2, <3>1 DEF UpsertWrite, NoPermission, TablesOK, Fail, tables
    <3>2. CASE DropPermissions(r) \/ DeleteMembership(r) \/ PurgePermissions(r) \/ PurgeMembership(r)
      BY <1>1, <1>2, <1>5, <2>2, <3>2
      DEF DropPermissions, DeleteMembership, PurgePermissions, PurgeMembership, NoPermission,
          NoGrants, TablesOK
    <3>3. CASE DeletePermission(r) \/ ClientPermissions(r)
      BY <1>1, <1>2, <1>5, <2>2, <3>3
      DEF DeletePermission, ClientPermissions, NoPermission, NoGrants, TablesOK
    <3>4. CASE permission' = permission
      BY <1>2, <1>5, <3>4 DEF NoPermission
    <3> QED BY <1>1, <2>1, <3>1, <3>2, <3>3, <3>4, Statements
  <2>4. "grant" \in did'[r]
    BY <1>1, <2>3 DEF Record, GrantsAPermission, HistoryOK
  <2>5. CASE "owner" \notin did[r]
    <3>1. Raised(r) \/ Excused(u)
      BY <1>5, <2>3, <2>5 DEF Settled, Settling, Joining
    <3>2. CASE Raised(r)
      <4>1. PICK e \in Rivals(r) : "owner" \in did[e]
        BY <3>2 DEF Raised
      <4>2. e \in Calls /\ To(e) = u /\ "owner" \in did'[e] /\ pc[e] # "idle"
        BY <2>3, <4>1, RivalsMutual, HistoryGrows DEF Rivals, CallInv
      <4> QED BY <2>4, <4>1, <4>2, Contest
    <3> QED BY <3>1, <3>2, PastStays
  <2>6. CASE "owner" \in did[r]
    <3>1. held[r] # NoInvite /\ held[r].type = "owner"
      BY <2>3, <2>6 DEF OwnersGrantNothing, OwnerGrants
    <3>2. Inviting(r) \/ Accepts(r)
      BY <2>2, <2>3, <3>1 DEF Shape, Joining
    <3>3. grants[r] # NoGrants
      BY <2>2, <2>3, NullAssumption DEF Shape, PermissionRole, NoGrants, Roles
    <3>4. Reissued(u)
      BY <2>2, <2>3, <3>1, <3>2, <3>3 DEF OwnersGrantNothing, OwnerGrants, Joining
    <3> QED BY <3>4, PastStays DEF Excused
  <2> QED BY <2>5, <2>6
<1> QED BY <1>3, <1>4, <1>5

(* Owners need no permissions (OwnersNeedNoPermission): Elevate leaves     *)
(* them to DropPermissions; a membership that is inserted has none; and a  *)
(* call that writes one to an owner either met the one that made the       *)
(* owner, or found a stray invitation, which an owner has only if its      *)
(* inviter met that call too (CanSet, TakenAtOnce).                        *)
THEOREM OwnersHaveNone == Spec => []OwnersNeedNoPermission
<1> DEFINE Inv == /\ CallInv /\ Keys /\ StoredAgrees /\ HeldAgree
                  /\ OwnersGrantNothing /\ OwnersPending /\ DeletedOwners /\ InvitedOwners
                  /\ \A s \in Calls : Cleared(s) /\ Deletion(s) /\ Inserts(s) /\ Settled(s)
                  /\ OwnersBare
<1>1. Init => Inv
  <2> SUFFICES ASSUME Init PROVE Inv
    OBVIOUS
  <2>1. CallInv /\ Keys
    <3>1. Keys
      BY InputAssumption DEF Init, Keys
    <3> QED BY <3>1, CallInit
  <2>2. /\ \A s \in Calls : pc[s] = "idle" /\ did[s] = {}
        /\ \A u \in Users :
             /\ IsOwner(u) => permission[u] = NoGrants /\ invite[u] = NoInvite /\ account[u] # "deleted"
             /\ invite[u] # NoInvite /\ invite[u].type = "owner" => pending[u] = NoGrants
    BY StartAssumption DEF Init, IsOwner
  <2>3. StoredAgrees /\ HeldAgree /\ OwnersPending /\ DeletedOwners /\ InvitedOwners /\ OwnersBare
    BY <2>2
    DEF StoredAgrees, HeldAgree, OwnersPending, DeletedOwners, InvitedOwners, OwnersBare, Holds,
        Active, NoPermission, NoGrants
  <2>4. /\ OwnersGrantNothing
        /\ \A s \in Calls : Cleared(s) /\ Deletion(s) /\ Inserts(s) /\ Settled(s)
    BY <2>2
    DEF OwnersGrantNothing, OwnerGrants, Cleared, Deletion, Inserts, Settled, Settling, Joining, Active
  <2> QED BY <2>1, <2>3, <2>4
<1>2. Inv /\ [Next]_vars => Inv'
  <2> SUFFICES ASSUME Inv, [Next]_vars PROVE Inv'
    OBVIOUS
  <2>1. CASE UNCHANGED vars
    BY <2>1, CallStep
    DEF vars, tables, locals, history, Keys, StoredAgrees, HeldAgree, Holds, Replacing, Active, To,
        Inviting, Accepts, Reissued, Contested, Stopped, Excused, About, Rivals, OwnersGrantNothing,
        OwnerGrants, OwnersPending, DeletedOwners, InvitedOwners, AcceptedBy, Raised, InvitedBy,
        Cleared, Deletion, Inserts, Settled, Settling, Joining, OwnersBare, Dropping, IsOwner,
        NoPermission, Early
  <2>2. ASSUME NEW r \in Calls, Step(r), Record(r), Remember(r) PROVE Inv'
    BY <2>2, CallStep, KeyStep, NamesStep, OwnerGrantsStep, OwnersPendingStep, DeletedOwnersStep,
       InvitedOwnersStep, ClearedStep, DeletionStep, InsertsStep, SettledStep, OwnersBareStep
    DEF Next
  <2> QED BY <2>1, <2>2 DEF Next
<1>3. Inv => OwnersNeedNoPermission
  BY DEF OwnersNeedNoPermission, OwnersPending, OwnersBare, Excused, Stopped, Dropping
<1> QED BY <1>1, <1>2, <1>3, PTL DEF Spec

=============================================================================
