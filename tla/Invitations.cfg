SPECIFICATION Spec
CONSTANTS
  o = o
  a = a
  guest = guest
  c1 = c1
  c2 = c2
  r1 = r1
  r2 = r2
  r3 = r3
  Users = {o, a, guest}
  Clients = {c1, c2}
  Calls = {r1, r2, r3}
  Requests <- MCRequests
  InitialStates <- MCInitialStates
  OpenClients = {c1}
  AllowCreateOrganization = TRUE
  InviteIds = {1, 2, 3}
  Mortal = {r1}
  NoInvite = NoInvite
  NoRequest = NoRequest
  None = None
CHECK_DEADLOCK FALSE
INVARIANT TypeOK
INVARIANT OwnersNeedNoPermission
INVARIANT MembersHaveClients
INVARIANT UninvitedStaysOut
INVARIANT PromisesAreKept
PROPERTY OwnersMadeByOwners
PROPERTY GrantsAreBacked
PROPERTY OwnersAreKept
PROPERTY VerifiedStays
