SPECIFICATION Spec
CONSTANTS
  c1 = c1
  c2 = c2
  Clients <- MCClients
  TicketLifetime = 2
  CodeLifetime = 1
  AccessLifetime = 3
  RefreshLifetime = 4
  PendingLimit = 1
  FamilyLimit = 2
  RefreshLimit = 3
  MaxTime = 5
  MaxTokens = 12
INVARIANT GrantInv
INVARIANT ReuseEndsGrant
INVARIANT BearerIsOwed
SYMMETRY Symmetric
