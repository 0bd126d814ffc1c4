--------------------------- MODULE MCInvitations ---------------------------
EXTENDS Invitations
CONSTANTS o, a, guest, c1, c2, r1, r2, r3

Ask(kind, by, client, role, type, g) ==
  [kind |-> kind, by |-> by, to |-> guest, client |-> client, role |-> role,
   type |-> type, grants |-> g]
Only(c, role) == [NoGrants EXCEPT ![c] = role]

AllRequests ==
  {Ask("invite", a, c1, "user", "member", NoGrants),
   Ask("invite", o, c2, "admin", "member", NoGrants),
   Ask("invite", o, c1, "uninvited", "member", NoGrants),
   Ask("uninvite", a, c1, "user", "member", NoGrants),
   Ask("orginvite", o, c1, "user", "owner", NoGrants),
   Ask("orginvite", a, c1, "user", "owner", NoGrants),
   Ask("modify", o, c1, "user", "owner", NoGrants),
   Ask("modify", o, c1, "user", "member", Only(c2, "user")),
   Ask("orguninvite", o, c1, "user", "member", NoGrants),
   Ask("verify", guest, c1, "user", "member", NoGrants),
   Ask("resend", guest, c1, "user", "member", NoGrants),
   Ask("resendopen", guest, c1, "user", "member", NoGrants),
   Ask("signup", guest, c1, "user", "member", NoGrants),
   Ask("join", guest, c1, "user", "member", NoGrants),
   [Ask("deleteuser", a, c1, "user", "member", NoGrants) EXCEPT !.to = a],
   Ask("deleteclient", o, c1, "user", "member", NoGrants)}

\* The owner o and the administrator a of c1, or a second owner a; the user guest in
\* several situations.
Tab(other, acc, mem, perms, inv, pend) ==
  [account |-> (o :> "verified" @@ a :> "verified" @@ guest :> acc),
   membership |-> (o :> "owner" @@ a :> other @@ guest :> mem),
   permission |-> (o :> NoGrants @@ guest :> perms
                   @@ a :> IF other = "owner" THEN NoGrants ELSE Only(c1, "admin")),
   invite |-> (o :> NoInvite @@ a :> NoInvite @@ guest :> inv),
   pending |-> (o :> NoGrants @@ a :> NoGrants @@ guest :> pend)]
Invited(type) == [id |-> 1, inviter |-> a, type |-> type]
MCInitialStates ==
  {Tab("member", "absent", None, NoGrants, NoInvite, NoGrants),
   Tab("member", "absent", None, NoGrants, Invited("member"), Only(c1, "user")),
   Tab("owner", "unverified", None, NoGrants, Invited("owner"), NoGrants),
   Tab("member", "verified", "member", Only(c1, "user"), NoInvite, NoGrants)}
\* The first call may ask for nearly anything, the others for what it can collide
\* with: a second one for changes of the same invitation or membership, a third one
\* for an acceptance.
MCRequests ==
  (r1 :> {q \in AllRequests : /\ q.kind \notin {"verify", "signup"}
                              /\ q.kind = "invite" => q.by = o}
   @@ r2 :> {q \in AllRequests : (q.kind \in {"invite", "uninvite"} /\ q.by = a)
                                 \/ (q.kind = "modify" /\ q.type = "owner")}
   @@ r3 :> {q \in AllRequests : q.kind \in {"verify", "signup"}})
=============================================================================
