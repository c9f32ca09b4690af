----------------------------- MODULE OAuthGrants -----------------------------
(***************************************************************************)
(* Owner-approved OAuth grants for the public endpoint                     *)
(* (internal/oauth/oauth.go).  A client asks for approval and gets a       *)
(* ticket; the owner turns the ticket into a code; the client redeems the  *)
(* code for a family of tokens: access tokens that open the endpoint and a *)
(* chain of refresh tokens, each good for one rotation.                    *)
(*                                                                         *)
(* Every handler holds Server.mu from its cleanup to its last write, so a  *)
(* handler is one action, and each action starts from the maps as cleanup  *)
(* leaves them.  What a request repeats or proves (cookie, owner key,      *)
(* client secret, redirect URI, resource, verifier) either matches or the  *)
(* request is refused, which is the action Cleanup.  A random token is the *)
(* next number: it was never drawn before.                                 *)
(***************************************************************************)
EXTENDS Integers, FiniteSets

CONSTANTS
  Clients,             \* the preregistered clients
  TicketLifetime, CodeLifetime, AccessLifetime, RefreshLifetime,
  PendingLimit, FamilyLimit, RefreshLimit,
  MaxTime,             \* bound on the clock
  MaxTokens            \* bound on the random tokens drawn

ASSUME GrantsAssumption ==
  /\ Clients # {}
  /\ {TicketLifetime, CodeLifetime, AccessLifetime, RefreshLifetime} \subseteq Nat \ {0}
  /\ {PendingLimit, FamilyLimit, RefreshLimit} \subseteq Nat \ {0}
  /\ {MaxTime, MaxTokens} \subseteq Nat

VARIABLES
  now,                 \* what Server.now returns
  tickets,             \* ticket -> who asked and until when it can be approved
  codes,               \* code -> who may redeem it, until when, and what it gave
  families,            \* family -> client and end of the grant
  access,              \* access token -> family and end
  refresh,             \* refresh token -> family and whether it was rotated
  drawn,               \* tokens drawn so far
  approved,            \* history: code -> the client the owner approved
  redeemed,            \* history: <<code, family>> for every redemption
  rotated,             \* history: <<refresh token, family>> for every rotation
  ended                \* history: families ended by revocation or by reuse

storage == <<tickets, codes, families, access, refresh>>
history == <<approved, redeemed, rotated, ended>>
vars == <<now, storage, drawn, history>>

Tokens == 1..MaxTokens
NoFamily == 0          \* the zero value of a code's family

TicketRecord == [client : Clients, expires : Nat]
CodeRecord == [client : Clients, expires : Nat, consumed : BOOLEAN, family : Tokens \cup {NoFamily}]
FamilyRecord == [client : Clients, expires : Nat]
AccessRecord == [family : Tokens, expires : Nat]
RefreshRecord == [family : Tokens, used : BOOLEAN]

-----------------------------------------------------------------------------
(* Maps, and what cleanup leaves of them. *)

Only(map, keys) == [k \in DOMAIN map \cap keys |-> map[k]]
Without(map, key) == [k \in DOMAIN map \ {key} |-> map[k]]
With(map, key, value) == [k \in DOMAIN map \cup {key} |-> IF k = key THEN value ELSE map[k]]

Unexpired(map) == Only(map, {k \in DOMAIN map : now < map[k].expires})

LiveTickets == Unexpired(tickets)
LiveCodes == Unexpired(codes)
LiveFamilies == Unexpired(families)
OfLiveFamily(map) == Only(map, {t \in DOMAIN map : map[t].family \in DOMAIN LiveFamilies})
LiveAccess == OfLiveFamily(Unexpired(access))
LiveRefresh == OfLiveFamily(refresh)

(* ValidateBearer's answer. *)
ValidateBearer(token) == token \in DOMAIN LiveAccess

(* What a request does that is refused or only validates a bearer. *)
KeepRequests == tickets' = LiveTickets /\ codes' = LiveCodes
KeepGrants == families' = LiveFamilies /\ access' = LiveAccess /\ refresh' = LiveRefresh

Cleanup ==
  /\ KeepRequests
  /\ KeepGrants
  /\ UNCHANGED <<now, drawn, history>>

-----------------------------------------------------------------------------
(* Approval. *)

BeginApproval(c) ==
  /\ drawn < MaxTokens
  /\ Cardinality(DOMAIN LiveTickets) < PendingLimit
  /\ tickets' = With(LiveTickets, drawn + 1, [client |-> c, expires |-> now + TicketLifetime])
  /\ codes' = LiveCodes
  /\ KeepGrants
  /\ drawn' = drawn + 1
  /\ UNCHANGED <<now, history>>

Deny(t) ==
  /\ t \in DOMAIN LiveTickets
  /\ tickets' = Without(LiveTickets, t)
  /\ codes' = LiveCodes
  /\ KeepGrants
  /\ UNCHANGED <<now, drawn, history>>

Approve(t) ==
  LET code == drawn + 1
      client == LiveTickets[t].client
  IN  /\ drawn < MaxTokens
      /\ t \in DOMAIN LiveTickets
      /\ Cardinality(DOMAIN LiveCodes) < PendingLimit
      /\ tickets' = Without(LiveTickets, t)
      /\ codes' = With(LiveCodes, code, [client |-> client, expires |-> now + CodeLifetime,
                                         consumed |-> FALSE, family |-> NoFamily])
      /\ KeepGrants
      /\ drawn' = code
      /\ approved' = With(approved, code, client)
      /\ UNCHANGED <<now, redeemed, rotated, ended>>

-----------------------------------------------------------------------------
(* The token endpoint. *)

RevokeFamily(f) ==
  /\ families' = Without(LiveFamilies, f)
  /\ access' = Only(LiveAccess, {t \in DOMAIN LiveAccess : LiveAccess[t].family # f})
  /\ refresh' = Only(LiveRefresh, {t \in DOMAIN LiveRefresh : LiveRefresh[t].family # f})

IssueTokens(f, accessToken, refreshToken, kept) ==
  /\ access' = With(LiveAccess, accessToken, [family |-> f, expires |-> now + AccessLifetime])
  /\ refresh' = With(kept, refreshToken, [family |-> f, used |-> FALSE])

RoomForTokens == Cardinality(DOMAIN LiveRefresh) < RefreshLimit

(* The families an earlier exchange of the credential gave: presenting the  *)
(* credential again is reuse.                                               *)
GivenFor(credential, exchanges) == {e[2] : e \in {x \in exchanges : x[1] = credential}}

\* Mutant: the code is good for any client that presents it.
RedeemableByAnyone(c, code) == code \in DOMAIN LiveCodes

RedeemableBy(c, code) == code \in DOMAIN LiveCodes /\ LiveCodes[code].client = c

Redeem(c, code) ==
  LET family == drawn + 1
  IN  /\ drawn + 3 <= MaxTokens
      /\ RedeemableBy(c, code)
      /\ ~LiveCodes[code].consumed
      /\ Cardinality(DOMAIN LiveFamilies) < FamilyLimit
      /\ RoomForTokens
      /\ IssueTokens(family, drawn + 2, drawn + 3, LiveRefresh)
      /\ families' = With(LiveFamilies, family, [client |-> c, expires |-> now + RefreshLifetime])
      /\ codes' = [LiveCodes EXCEPT ![code].consumed = TRUE, ![code].family = family]
      /\ tickets' = LiveTickets
      /\ drawn' = drawn + 3
      /\ redeemed' = redeemed \cup {<<code, family>>}
      /\ ended' = ended \cup GivenFor(code, redeemed)
      /\ UNCHANGED <<now, approved, rotated>>

\* Mutant: reuse of a code is refused and nothing more.
RedeemAgainRefused(c, code) ==
  /\ RedeemableBy(c, code)
  /\ LiveCodes[code].consumed
  /\ KeepGrants
  /\ KeepRequests
  /\ ended' = ended \cup GivenFor(code, redeemed)
  /\ UNCHANGED <<now, drawn, approved, redeemed, rotated>>

RedeemAgain(c, code) ==
  /\ RedeemableBy(c, code)
  /\ LiveCodes[code].consumed
  /\ RevokeFamily(LiveCodes[code].family)
  /\ KeepRequests
  /\ ended' = ended \cup GivenFor(code, redeemed)
  /\ UNCHANGED <<now, drawn, approved, redeemed, rotated>>

RotatableBy(c, t) == t \in DOMAIN LiveRefresh /\ LiveFamilies[LiveRefresh[t].family].client = c

\* Mutant: a rotated refresh token stays good.
MarkNothing(t) == LiveRefresh

MarkUsed(t) == [LiveRefresh EXCEPT ![t].used = TRUE]

Rotate(c, t) ==
  LET family == LiveRefresh[t].family
  IN  /\ drawn + 2 <= MaxTokens
      /\ RotatableBy(c, t)
      /\ ~LiveRefresh[t].used
      /\ RoomForTokens
      /\ IssueTokens(family, drawn + 1, drawn + 2, MarkUsed(t))
      /\ families' = LiveFamilies
      /\ KeepRequests
      /\ drawn' = drawn + 2
      /\ rotated' = rotated \cup {<<t, family>>}
      /\ ended' = ended \cup GivenFor(t, rotated)
      /\ UNCHANGED <<now, approved, redeemed>>

RotateAgain(c, t) ==
  /\ RotatableBy(c, t)
  /\ LiveRefresh[t].used
  /\ RevokeFamily(LiveRefresh[t].family)
  /\ KeepRequests
  /\ ended' = ended \cup GivenFor(t, rotated)
  /\ UNCHANGED <<now, drawn, approved, redeemed, rotated>>

(* The revocation endpoint takes a refresh token or an access token. *)
FamiliesOf(token) ==
  {LiveRefresh[t].family : t \in {token} \cap DOMAIN LiveRefresh} \cup
  {LiveAccess[t].family : t \in {token} \cap DOMAIN LiveAccess}

Revoke(c, token) ==
  \E f \in FamiliesOf(token) :
    /\ LiveFamilies[f].client = c
    /\ RevokeFamily(f)
    /\ KeepRequests
    /\ ended' = ended \cup {f}
    /\ UNCHANGED <<now, drawn, approved, redeemed, rotated>>

Tick ==
  /\ now < MaxTime
  /\ now' = now + 1
  /\ UNCHANGED <<storage, drawn, history>>

Nothing == [k \in {} |-> k]

Init ==
  /\ now = 0
  /\ tickets = Nothing /\ codes = Nothing /\ families = Nothing
  /\ access = Nothing /\ refresh = Nothing
  /\ drawn = 0
  /\ approved = Nothing /\ redeemed = {} /\ rotated = {} /\ ended = {}

Next ==
  \/ Tick
  \/ Cleanup
  \/ \E c \in Clients : BeginApproval(c)
  \/ \E t \in DOMAIN tickets : Approve(t) \/ Deny(t)
  \/ \E c \in Clients, code \in DOMAIN codes : Redeem(c, code) \/ RedeemAgain(c, code)
  \/ \E c \in Clients, t \in DOMAIN refresh : Rotate(c, t) \/ RotateAgain(c, t)
  \/ \E c \in Clients, t \in DOMAIN refresh \cup DOMAIN access : Revoke(c, t)

Spec == Init /\ [][Next]_vars

-----------------------------------------------------------------------------
(* Properties. *)

Types ==
  /\ now \in Nat
  /\ drawn \in 0..MaxTokens
  /\ \A t \in DOMAIN tickets : t \in 1..drawn /\ tickets[t] \in TicketRecord
  /\ \A k \in DOMAIN codes : k \in 1..drawn /\ codes[k] \in CodeRecord
  /\ \A f \in DOMAIN families : f \in 1..drawn /\ families[f] \in FamilyRecord
  /\ \A t \in DOMAIN access : t \in 1..drawn /\ access[t] \in AccessRecord
  /\ \A t \in DOMAIN refresh : t \in 1..drawn /\ refresh[t] \in RefreshRecord

(* No token outlives the record of its family. *)
Rooted ==
  /\ \A t \in DOMAIN access : access[t].family \in DOMAIN families
  /\ \A t \in DOMAIN refresh : refresh[t].family \in DOMAIN families

(* A family is one chain of rotations: one refresh token of it is unused. *)
ChainIsLinear ==
  \A f \in DOMAIN families :
    \E t \in DOMAIN refresh :
      /\ refresh[t] = [family |-> f, used |-> FALSE]
      /\ \A u \in DOMAIN refresh : refresh[u].family = f /\ ~refresh[u].used => u = t

(* The limits hold, and access tokens, which have no limit of their own, stay *)
(* within that of the refresh tokens.                                        *)
StorageBounded ==
  /\ Cardinality(DOMAIN tickets) <= PendingLimit
  /\ Cardinality(DOMAIN codes) <= PendingLimit
  /\ Cardinality(DOMAIN families) <= FamilyLimit
  /\ Cardinality(DOMAIN refresh) <= RefreshLimit
  /\ Cardinality(DOMAIN access) <= Cardinality(DOMAIN refresh)

(* The five maps agree after every handler: types, no orphaned token, one    *)
(* unused refresh token per family, and bounded storage although access      *)
(* tokens are counted nowhere (token, issueTokens, revokeFamily, cleanup).   *)
GrantInv == Types /\ Rooted /\ ChainIsLinear /\ StorageBounded

(* Presenting a code or a refresh token again, or revoking any token of a    *)
(* family, ends the family for good: no later redemption, rotation or        *)
(* request gives it a usable token (token, revoke, ValidateBearer).          *)
ReuseEndsGrant ==
  /\ ended \cap DOMAIN families = {}
  /\ \A t \in DOMAIN access : ValidateBearer(t) => access[t].family \notin ended

(* A bearer that opens the endpoint goes back to one approval by the owner   *)
(* for the same client: that code was redeemed for this family and for no    *)
(* other (approve, token, ValidateBearer).                                   *)
BearerIsOwed ==
  \A t \in DOMAIN access : ValidateBearer(t) =>
    \E code \in DOMAIN approved :
      /\ approved[code] = families[access[t].family].client
      /\ GivenFor(code, redeemed) = {access[t].family}
=============================================================================
