-------------------------- MODULE OAuthGrantsProofs --------------------------
(***************************************************************************)
(* Proofs about OAuthGrants, for any clients, lifetimes, limits and bounds.*)
(*                                                                         *)
(* Every handler starts from the maps as cleanup leaves them, so the parts *)
(* of the invariant are operators of the maps: cleanup and revocation      *)
(* shrink the maps and keep them, issuing tokens extends the shrunk maps.  *)
(***************************************************************************)
EXTENDS OAuthGrants, FiniteSetTheorems, TLAPS

(* The token maps fit each other.  An access token is drawn just before its *)
(* refresh token, which stays as long as the family does.                   *)
GrantsFit(fam, acc, ref, d) ==
  /\ \A f \in DOMAIN fam :
       /\ f \in 1..d
       /\ fam[f] \in FamilyRecord
  /\ \A t \in DOMAIN acc :
       /\ t \in 1..d
       /\ acc[t] \in AccessRecord
       /\ acc[t].family \in DOMAIN fam
       /\ t + 1 \in DOMAIN ref
  /\ \A t \in DOMAIN ref :
       /\ t \in 1..d
       /\ ref[t] \in RefreshRecord
       /\ ref[t].family \in DOMAIN fam
  /\ \A t \in DOMAIN acc : ref[t + 1].family = acc[t].family

Linear(fam, ref) ==
  \A f \in DOMAIN fam :
    \E t \in DOMAIN ref :
      /\ ref[t] = [family |-> f, used |-> FALSE]
      /\ \A u \in DOMAIN ref : ref[u].family = f /\ ~ref[u].used => u = t

RequestsFit(tck, cod, d) ==
  /\ \A t \in DOMAIN tck :
       /\ t \in 1..d
       /\ tck[t] \in TicketRecord
  /\ \A k \in DOMAIN cod :
       /\ k \in 1..d
       /\ cod[k] \in CodeRecord

(* The record of what was approved, redeemed and rotated agrees with the    *)
(* maps, and an ended family is in none of them.                            *)
CodesRemember(cod, app, red) ==
  \A k \in DOMAIN cod :
    /\ k \in DOMAIN app
    /\ app[k] = cod[k].client
    /\ GivenFor(k, red) = IF cod[k].consumed THEN {cod[k].family} ELSE {}

FamiliesRemember(fam, app, red) ==
  \A f \in DOMAIN fam :
    \E code \in DOMAIN app :
      /\ app[code] = fam[f].client
      /\ GivenFor(code, red) = {f}

RotationsRemember(ref, rot) ==
  \A t \in DOMAIN ref :
    GivenFor(t, rot) = IF ref[t].used THEN {ref[t].family} ELSE {}

HistoryFits(app, red, rot, end, d) ==
  /\ DOMAIN app \subseteq 1..d
  /\ \A e \in red : e[1] \in 1..d /\ e[2] \in 1..d
  /\ \A e \in rot : e[1] \in 1..d
  /\ end \subseteq 1..d

Counted ==
  /\ Cardinality(DOMAIN tickets) <= PendingLimit
  /\ Cardinality(DOMAIN codes) <= PendingLimit
  /\ Cardinality(DOMAIN families) <= FamilyLimit
  /\ Cardinality(DOMAIN refresh) <= RefreshLimit

OAuthInv ==
  /\ now \in Nat
  /\ drawn \in 0..MaxTokens
  /\ RequestsFit(tickets, codes, drawn)
  /\ GrantsFit(families, access, refresh, drawn)
  /\ Linear(families, refresh)
  /\ CodesRemember(codes, approved, redeemed)
  /\ FamiliesRemember(families, approved, redeemed)
  /\ RotationsRemember(refresh, rotated)
  /\ HistoryFits(approved, redeemed, rotated, ended, drawn)
  /\ ended \cap DOMAIN families = {}
  /\ Counted

-----------------------------------------------------------------------------
(* Shrunk maps. *)

(* A map whose keys are some of another's and whose values are the other's. *)
Part(small, map) ==
  /\ DOMAIN small \subseteq DOMAIN map
  /\ \A k \in DOMAIN small : small[k] = map[k]

(* The token maps after some families have been dropped with their tokens. *)
Shrunk(fam, acc, ref) ==
  /\ Part(fam, families)
  /\ Part(acc, access)
  /\ Part(ref, refresh)
  /\ \A t \in DOMAIN acc : access[t].family \in DOMAIN fam
  /\ \A t \in DOMAIN refresh : t \in DOMAIN ref <=> refresh[t].family \in DOMAIN fam

LEMMA CleanIsShrunk ==
  OAuthInv => /\ Shrunk(LiveFamilies, LiveAccess, LiveRefresh)
              /\ Part(LiveTickets, tickets)
              /\ Part(LiveCodes, codes)
  BY DEF OAuthInv, Shrunk, Part, LiveFamilies, LiveAccess, LiveRefresh, LiveTickets, LiveCodes,
         OfLiveFamily, Unexpired, Only, GrantsFit

LEMMA RevokedIsShrunk ==
  ASSUME OAuthInv, NEW f, RevokeFamily(f)
  PROVE  /\ Shrunk(families', access', refresh')
         /\ f \notin DOMAIN families'
<1>1. Shrunk(LiveFamilies, LiveAccess, LiveRefresh)
  BY CleanIsShrunk
<1>2. /\ DOMAIN families' = DOMAIN LiveFamilies \ {f}
      /\ \A k \in DOMAIN families' : families'[k] = LiveFamilies[k]
  BY DEF RevokeFamily, Without
<1>3. /\ DOMAIN access' = {t \in DOMAIN LiveAccess : LiveAccess[t].family # f}
      /\ \A k \in DOMAIN access' : access'[k] = LiveAccess[k]
  BY DEF RevokeFamily, Only
<1>4. /\ DOMAIN refresh' = {t \in DOMAIN LiveRefresh : LiveRefresh[t].family # f}
      /\ \A k \in DOMAIN refresh' : refresh'[k] = LiveRefresh[k]
  BY DEF RevokeFamily, Only
<1> QED
  BY <1>1, <1>2, <1>3, <1>4 DEF Shrunk, Part

(* What holds of the maps holds of the shrunk maps. *)
LEMMA ShrinkingKeeps ==
  ASSUME OAuthInv, NEW fam, NEW acc, NEW ref, Shrunk(fam, acc, ref)
  PROVE  /\ GrantsFit(fam, acc, ref, drawn)
         /\ Linear(fam, ref)
         /\ FamiliesRemember(fam, approved, redeemed)
         /\ RotationsRemember(ref, rotated)
         /\ ended \cap DOMAIN fam = {}
<1>1. GrantsFit(fam, acc, ref, drawn)
  BY DEF OAuthInv, GrantsFit, Shrunk, Part
<1>2. Linear(fam, ref)
  BY DEF OAuthInv, GrantsFit, Linear, Shrunk, Part
<1>3. FamiliesRemember(fam, approved, redeemed)
  BY DEF OAuthInv, FamiliesRemember, Shrunk, Part
<1>4. RotationsRemember(ref, rotated)
  BY DEF OAuthInv, RotationsRemember, Shrunk, Part
<1>5. ended \cap DOMAIN fam = {}
  BY DEF OAuthInv, Shrunk, Part
<1> QED
  BY <1>1, <1>2, <1>3, <1>4, <1>5

LEMMA KeysAreFinite ==
  ASSUME OAuthInv
  PROVE  /\ IsFiniteSet(DOMAIN tickets)
         /\ IsFiniteSet(DOMAIN codes)
         /\ IsFiniteSet(DOMAIN families)
         /\ IsFiniteSet(DOMAIN refresh)
<1>1. IsFiniteSet(1..drawn)
  BY FS_Interval DEF OAuthInv
<1>2. /\ DOMAIN tickets \subseteq 1..drawn
      /\ DOMAIN codes \subseteq 1..drawn
      /\ DOMAIN families \subseteq 1..drawn
      /\ DOMAIN refresh \subseteq 1..drawn
  BY DEF OAuthInv, RequestsFit, GrantsFit
<1> QED
  BY <1>1, <1>2, FS_Subset

(* Fewer keys stay within a limit, and one more does when there was room. *)
LEMMA FewerKeys ==
  ASSUME NEW S, NEW U, IsFiniteSet(U), S \subseteq U, NEW limit \in Nat, Cardinality(U) <= limit
  PROVE  Cardinality(S) <= limit
<1>1. /\ IsFiniteSet(S)
      /\ Cardinality(S) <= Cardinality(U)
  BY FS_Subset
<1>2. Cardinality(S) \in Nat /\ Cardinality(U) \in Nat
  BY <1>1, FS_CardinalityType
<1> QED
  BY <1>1, <1>2

LEMMA OneMoreKey ==
  ASSUME NEW S, NEW U, IsFiniteSet(U), S \subseteq U, NEW limit \in Nat, Cardinality(S) < limit, NEW k
  PROVE  Cardinality(S \cup {k}) <= limit
<1>1. IsFiniteSet(S)
  BY FS_Subset
<1>2. Cardinality(S) \in Nat
  BY <1>1, FS_CardinalityType
<1>3. Cardinality(S \cup {k}) \in {Cardinality(S), Cardinality(S) + 1}
  BY <1>1, FS_AddElement
<1> QED
  BY <1>2, <1>3

LEMMA CountedRequests ==
  ASSUME OAuthInv, KeepRequests
  PROVE  /\ Cardinality(DOMAIN tickets') <= PendingLimit
         /\ Cardinality(DOMAIN codes') <= PendingLimit
<1>1. DOMAIN tickets' \subseteq DOMAIN tickets /\ DOMAIN codes' \subseteq DOMAIN codes
  BY CleanIsShrunk DEF KeepRequests, Part
<1> QED
  BY <1>1, KeysAreFinite, FewerKeys, GrantsAssumption DEF OAuthInv, Counted, GrantsAssumption

LEMMA CountedGrants ==
  ASSUME OAuthInv, Shrunk(families', access', refresh')
  PROVE  /\ Cardinality(DOMAIN families') <= FamilyLimit
         /\ Cardinality(DOMAIN refresh') <= RefreshLimit
<1>1. DOMAIN families' \subseteq DOMAIN families /\ DOMAIN refresh' \subseteq DOMAIN refresh
  BY DEF Shrunk, Part
<1> QED
  BY <1>1, KeysAreFinite, FewerKeys, GrantsAssumption DEF OAuthInv, Counted, GrantsAssumption

-----------------------------------------------------------------------------
(* The steps that leave the token maps as they are or shrink them. *)

(* What the requests part of the invariant says after a step that keeps it. *)
LEMMA RequestsKept ==
  ASSUME OAuthInv, KeepRequests, UNCHANGED <<drawn, approved, redeemed>>
  PROVE  /\ RequestsFit(tickets', codes', drawn')
         /\ CodesRemember(codes', approved', redeemed')
  BY CleanIsShrunk DEF OAuthInv, KeepRequests, RequestsFit, CodesRemember, Part

(* The token maps keep their part although more tokens have been drawn and  *)
(* more codes approved.                                                     *)
LEMMA GrantsKept ==
  ASSUME OAuthInv, Shrunk(families', access', refresh'),
         UNCHANGED <<redeemed, rotated>>,
         drawn' \in drawn..MaxTokens,
         Part(approved, approved')
  PROVE  /\ GrantsFit(families', access', refresh', drawn')
         /\ Linear(families', refresh')
         /\ FamiliesRemember(families', approved', redeemed')
         /\ RotationsRemember(refresh', rotated')
         /\ ended \cap DOMAIN families' = {}
<1>1. /\ GrantsFit(families', access', refresh', drawn)
      /\ Linear(families', refresh')
      /\ FamiliesRemember(families', approved, redeemed)
      /\ RotationsRemember(refresh', rotated)
      /\ ended \cap DOMAIN families' = {}
  BY ShrinkingKeeps
<1>2. GrantsFit(families', access', refresh', drawn')
  BY <1>1 DEF GrantsFit, OAuthInv
<1>3. FamiliesRemember(families', approved', redeemed')
  BY <1>1 DEF FamiliesRemember, Part
<1>4. RotationsRemember(refresh', rotated')
  BY <1>1
<1> QED
  BY <1>1, <1>2, <1>3, <1>4

LEMMA KeptIsShrunk == OAuthInv /\ KeepGrants => Shrunk(families', access', refresh')
  BY CleanIsShrunk DEF KeepGrants

(* Cleanup, and every step that only ends a family besides. *)
LEMMA ShrinkingStep ==
  ASSUME OAuthInv, KeepRequests, Shrunk(families', access', refresh'),
         UNCHANGED <<now, drawn, approved, redeemed, rotated>>,
         ended' \subseteq 1..drawn,
         ended' \cap DOMAIN families' = {}
  PROVE  OAuthInv'
<1>1. drawn' \in drawn..MaxTokens /\ Part(approved, approved')
  BY DEF OAuthInv, Part
<1>2. /\ GrantsFit(families', access', refresh', drawn')
      /\ Linear(families', refresh')
      /\ FamiliesRemember(families', approved', redeemed')
      /\ RotationsRemember(refresh', rotated')
  BY <1>1, GrantsKept
<1>3. /\ RequestsFit(tickets', codes', drawn')
      /\ CodesRemember(codes', approved', redeemed')
  BY RequestsKept
<1>4. HistoryFits(approved', redeemed', rotated', ended', drawn')
  BY DEF OAuthInv, HistoryFits
<1>5. Counted'
  BY CountedRequests, CountedGrants DEF Counted
<1>6. now' \in Nat /\ drawn' \in 0..MaxTokens
  BY DEF OAuthInv
<1> QED
  BY <1>2, <1>3, <1>4, <1>5, <1>6 DEF OAuthInv

LEMMA CleanupStep == OAuthInv /\ Cleanup => OAuthInv'
<1> SUFFICES ASSUME OAuthInv, Cleanup PROVE OAuthInv'
  OBVIOUS
<1>1. /\ KeepRequests
      /\ KeepGrants
      /\ UNCHANGED <<now, drawn, approved, redeemed, rotated, ended>>
  BY DEF Cleanup, history
<1>2. Shrunk(families', access', refresh')
  BY <1>1, KeptIsShrunk
<1>3. ended' \subseteq 1..drawn /\ ended' \cap DOMAIN families' = {}
  BY <1>1, <1>2 DEF OAuthInv, HistoryFits, Shrunk, Part
<1> QED
  BY <1>1, <1>2, <1>3, ShrinkingStep

(* A step that ends family f, and puts no other family among the ended. *)
LEMMA RevokingStep ==
  ASSUME OAuthInv, NEW f, f \in DOMAIN families, RevokeFamily(f), KeepRequests,
         UNCHANGED <<now, drawn, approved, redeemed, rotated>>,
         ended' \subseteq ended \cup {f}
  PROVE  OAuthInv'
<1>1. Shrunk(families', access', refresh') /\ f \notin DOMAIN families'
  BY RevokedIsShrunk
<1>2. f \in 1..drawn
  BY DEF OAuthInv, GrantsFit
<1>3. ended' \subseteq 1..drawn /\ ended' \cap DOMAIN families' = {}
  BY <1>1, <1>2 DEF OAuthInv, HistoryFits, Shrunk, Part
<1> QED
  BY <1>1, <1>3, ShrinkingStep

LEMMA RedeemAgainStep ==
  ASSUME OAuthInv, NEW c \in Clients, NEW code \in DOMAIN codes, RedeemAgain(c, code)
  PROVE  OAuthInv'
<1> DEFINE f == codes[code].family
<1>1. /\ LiveCodes[code] = codes[code]
      /\ codes[code].consumed
  BY CleanIsShrunk DEF RedeemAgain, RedeemableBy, Part
<1>2. GivenFor(code, redeemed) = {f}
  BY <1>1 DEF OAuthInv, CodesRemember
<1>3. f \in 1..drawn
  BY <1>2 DEF OAuthInv, HistoryFits, GivenFor
<1>4. Shrunk(families', access', refresh') /\ f \notin DOMAIN families'
  BY <1>1, RevokedIsShrunk DEF RedeemAgain
<1>5. ended' = ended \cup {f} /\ KeepRequests
      /\ UNCHANGED <<now, drawn, approved, redeemed, rotated>>
  BY <1>2 DEF RedeemAgain
<1>6. ended' \subseteq 1..drawn /\ ended' \cap DOMAIN families' = {}
  BY <1>3, <1>4, <1>5 DEF OAuthInv, HistoryFits, Shrunk, Part
<1> QED
  BY <1>4, <1>5, <1>6, ShrinkingStep

LEMMA LiveToken ==
  ASSUME OAuthInv, NEW t \in DOMAIN LiveRefresh
  PROVE  /\ t \in DOMAIN refresh
         /\ LiveRefresh[t] = refresh[t]
         /\ refresh[t].family \in DOMAIN LiveFamilies
         /\ refresh[t].family \in DOMAIN families
  BY CleanIsShrunk DEF Shrunk, Part

LEMMA RotateAgainStep ==
  ASSUME OAuthInv, NEW c \in Clients, NEW t \in DOMAIN refresh, RotateAgain(c, t)
  PROVE  OAuthInv'
<1>1. /\ t \in DOMAIN LiveRefresh
      /\ LiveRefresh[t].used
      /\ RevokeFamily(LiveRefresh[t].family)
      /\ KeepRequests
      /\ ended' = ended \cup GivenFor(t, rotated)
      /\ UNCHANGED <<now, drawn, approved, redeemed, rotated>>
  BY DEF RotateAgain, RotatableBy
<1>2. /\ LiveRefresh[t] = refresh[t]
      /\ refresh[t].family \in DOMAIN families
  BY <1>1, LiveToken
<1>3. GivenFor(t, rotated) = {refresh[t].family}
  BY <1>1, <1>2 DEF OAuthInv, RotationsRemember
<1> QED
  BY <1>1, <1>2, <1>3, RevokingStep

LEMMA RevokeStep ==
  ASSUME OAuthInv, NEW c \in Clients, NEW t, Revoke(c, t)
  PROVE  OAuthInv'
<1>1. PICK f \in FamiliesOf(t) :
        /\ RevokeFamily(f)
        /\ KeepRequests
        /\ ended' = ended \cup {f}
        /\ UNCHANGED <<now, drawn, approved, redeemed, rotated>>
  BY DEF Revoke
<1>2. f \in DOMAIN families
  BY CleanIsShrunk DEF FamiliesOf, Shrunk, Part
<1> QED
  BY <1>1, <1>2, RevokingStep

LEMMA TickStep == OAuthInv /\ Tick => OAuthInv'
<1> SUFFICES ASSUME OAuthInv, Tick PROVE OAuthInv'
  OBVIOUS
<1>1. now' \in Nat
  BY DEF Tick, OAuthInv
<1> QED
  BY <1>1 DEF Tick, OAuthInv, storage, history, Counted

-----------------------------------------------------------------------------
(* The approval page: the token maps only shrink. *)

(* An approval step: cleanup of the token maps, and changed requests. *)
LEMMA ApprovalStep ==
  ASSUME OAuthInv, KeepGrants,
         UNCHANGED <<now, redeemed, rotated, ended>>,
         drawn' \in drawn..MaxTokens,
         Part(approved, approved'),
         DOMAIN approved' \subseteq 1..drawn',
         RequestsFit(tickets', codes', drawn'),
         CodesRemember(codes', approved', redeemed'),
         Cardinality(DOMAIN tickets') <= PendingLimit,
         Cardinality(DOMAIN codes') <= PendingLimit
  PROVE  OAuthInv'
<1>1. Shrunk(families', access', refresh')
  BY KeptIsShrunk
<1>2. /\ GrantsFit(families', access', refresh', drawn')
      /\ Linear(families', refresh')
      /\ FamiliesRemember(families', approved', redeemed')
      /\ RotationsRemember(refresh', rotated')
      /\ ended' \cap DOMAIN families' = {}
  BY <1>1, GrantsKept
<1>3. HistoryFits(approved', redeemed', rotated', ended', drawn')
  BY DEF OAuthInv, HistoryFits
<1>4. Counted'
  BY <1>1, CountedGrants DEF Counted
<1>5. now' \in Nat /\ drawn' \in 0..MaxTokens
  BY DEF OAuthInv
<1> QED
  BY <1>2, <1>3, <1>4, <1>5 DEF OAuthInv

LEMMA BeginApprovalStep ==
  ASSUME OAuthInv, NEW c \in Clients, BeginApproval(c)
  PROVE  OAuthInv'
<1> USE GrantsAssumption DEF GrantsAssumption
<1>1. /\ drawn < MaxTokens
      /\ Cardinality(DOMAIN LiveTickets) < PendingLimit
      /\ tickets' = With(LiveTickets, drawn + 1, [client |-> c, expires |-> now + TicketLifetime])
      /\ codes' = LiveCodes
      /\ KeepGrants
      /\ drawn' = drawn + 1
      /\ UNCHANGED <<now, approved, redeemed, rotated, ended>>
  BY DEF BeginApproval, history
<1>2. drawn' \in drawn..MaxTokens /\ drawn' \in Nat /\ drawn \in Nat
  BY <1>1 DEF OAuthInv
<1>3. Part(approved, approved') /\ DOMAIN approved' \subseteq 1..drawn'
  BY <1>1, <1>2 DEF Part, OAuthInv, HistoryFits
<1>4. RequestsFit(tickets', codes', drawn')
  <2>1. [client |-> c, expires |-> now + TicketLifetime] \in TicketRecord
    BY DEF OAuthInv, TicketRecord
  <2> QED
    BY <1>1, <1>2, <2>1, CleanIsShrunk DEF OAuthInv, RequestsFit, With, Part
<1>5. CodesRemember(codes', approved', redeemed')
  BY <1>1, CleanIsShrunk DEF OAuthInv, CodesRemember, Part
<1>6. Cardinality(DOMAIN tickets') <= PendingLimit
  <2>1. DOMAIN tickets' = DOMAIN LiveTickets \cup {drawn + 1}
    BY <1>1 DEF With
  <2>2. DOMAIN LiveTickets \subseteq DOMAIN tickets
    BY CleanIsShrunk DEF Part
  <2> QED
    BY <1>1, <2>1, <2>2, KeysAreFinite, OneMoreKey
<1>7. Cardinality(DOMAIN codes') <= PendingLimit
  BY <1>1, KeysAreFinite, CleanIsShrunk, FewerKeys DEF OAuthInv, Counted, Part
<1> QED
  BY <1>1, <1>2, <1>3, <1>4, <1>5, <1>6, <1>7, ApprovalStep

LEMMA DenyStep ==
  ASSUME OAuthInv, NEW t, Deny(t)
  PROVE  OAuthInv'
<1> USE GrantsAssumption DEF GrantsAssumption
<1>1. /\ tickets' = Without(LiveTickets, t)
      /\ codes' = LiveCodes
      /\ KeepGrants
      /\ UNCHANGED <<now, drawn, approved, redeemed, rotated, ended>>
  BY DEF Deny, history
<1>2. drawn' \in drawn..MaxTokens
  BY <1>1 DEF OAuthInv
<1>3. Part(approved, approved') /\ DOMAIN approved' \subseteq 1..drawn'
  BY <1>1 DEF Part, OAuthInv, HistoryFits
<1>4. Part(tickets', tickets) /\ Part(codes', codes)
  BY <1>1, CleanIsShrunk DEF Part, Without
<1>5. RequestsFit(tickets', codes', drawn')
  BY <1>1, <1>4 DEF OAuthInv, RequestsFit, Part
<1>6. CodesRemember(codes', approved', redeemed')
  BY <1>1, <1>4 DEF OAuthInv, CodesRemember, Part
<1>7. Cardinality(DOMAIN tickets') <= PendingLimit /\ Cardinality(DOMAIN codes') <= PendingLimit
  BY <1>4, KeysAreFinite, FewerKeys DEF OAuthInv, Counted, Part
<1> QED
  BY <1>1, <1>2, <1>3, <1>5, <1>6, <1>7, ApprovalStep

LEMMA ApproveStep ==
  ASSUME OAuthInv, NEW t, Approve(t)
  PROVE  OAuthInv'
<1> USE GrantsAssumption DEF GrantsAssumption
<1> DEFINE code == drawn + 1
           client == LiveTickets[t].client
           record == [client |-> client, expires |-> now + CodeLifetime,
                      consumed |-> FALSE, family |-> NoFamily]
<1>1. /\ drawn < MaxTokens
      /\ t \in DOMAIN LiveTickets
      /\ Cardinality(DOMAIN LiveCodes) < PendingLimit
      /\ tickets' = Without(LiveTickets, t)
      /\ codes' = With(LiveCodes, code, record)
      /\ KeepGrants
      /\ drawn' = code
      /\ approved' = With(approved, code, client)
      /\ UNCHANGED <<now, redeemed, rotated, ended>>
  BY DEF Approve
<1>2. drawn' \in drawn..MaxTokens /\ drawn' \in Nat /\ drawn \in Nat
  BY <1>1 DEF OAuthInv
<1>3. code \notin DOMAIN approved
  BY <1>2 DEF OAuthInv, HistoryFits
<1>4. Part(approved, approved') /\ DOMAIN approved' \subseteq 1..drawn'
  BY <1>1, <1>2, <1>3 DEF Part, With, OAuthInv, HistoryFits
<1>5. Part(tickets', tickets) /\ Part(LiveCodes, codes)
  BY <1>1, CleanIsShrunk DEF Part, Without
<1>6. record \in CodeRecord
  <2>1. client \in Clients
    BY <1>1, CleanIsShrunk DEF OAuthInv, RequestsFit, Part, TicketRecord
  <2>2. now + CodeLifetime \in Nat
    BY DEF OAuthInv
  <2> QED
    BY <2>1, <2>2 DEF CodeRecord
<1>7. RequestsFit(tickets', codes', drawn')
  BY <1>1, <1>2, <1>5, <1>6 DEF OAuthInv, RequestsFit, Part, With
<1>8. CodesRemember(codes', approved', redeemed')
  <2>1. GivenFor(code, redeemed) = {}
    BY <1>2 DEF OAuthInv, HistoryFits, GivenFor
  <2>2. /\ code \in DOMAIN approved'
        /\ approved'[code] = codes'[code].client
        /\ ~codes'[code].consumed
    BY <1>1 DEF With
  <2>3. ASSUME NEW k \in DOMAIN codes', k # code
        PROVE  /\ k \in DOMAIN approved'
               /\ approved'[k] = codes'[k].client
               /\ GivenFor(k, redeemed) = IF codes'[k].consumed THEN {codes'[k].family} ELSE {}
    <3>1. k \in DOMAIN codes /\ codes'[k] = codes[k]
      BY <1>1, <1>5, <2>3 DEF With, Part
    <3> QED
      BY <1>1, <1>4, <3>1 DEF OAuthInv, CodesRemember, Part
  <2> QED
    BY <1>1, <2>1, <2>2, <2>3 DEF CodesRemember
<1>9. Cardinality(DOMAIN tickets') <= PendingLimit
  BY <1>5, KeysAreFinite, FewerKeys DEF OAuthInv, Counted, Part
<1>10. Cardinality(DOMAIN codes') <= PendingLimit
  <2>1. DOMAIN codes' = DOMAIN LiveCodes \cup {code} /\ DOMAIN LiveCodes \subseteq DOMAIN codes
    BY <1>1, <1>5 DEF With, Part
  <2> QED
    BY <1>1, <2>1, KeysAreFinite, OneMoreKey
<1> QED
  BY <1>1, <1>2, <1>4, <1>7, <1>8, <1>9, <1>10, ApprovalStep

-----------------------------------------------------------------------------
(* The token endpoint: the maps as cleanup leaves them, and new tokens. *)

LEMMA LiveMapsFit ==
  ASSUME OAuthInv
  PROVE  /\ GrantsFit(LiveFamilies, LiveAccess, LiveRefresh, drawn)
         /\ Linear(LiveFamilies, LiveRefresh)
         /\ FamiliesRemember(LiveFamilies, approved, redeemed)
         /\ RotationsRemember(LiveRefresh, rotated)
         /\ ended \cap DOMAIN LiveFamilies = {}
  BY CleanIsShrunk, ShrinkingKeeps

(* A recorded exchange is what its credential gave, and no other's. *)
LEMMA GivenForOneMore ==
  ASSUME NEW S, NEW k, NEW v
  PROVE  GivenFor(k, S \cup {<<k, v>>}) = GivenFor(k, S) \cup {v}
<1> DEFINE e == <<k, v>>
<1>1. e[1] = k /\ e[2] = v
  OBVIOUS
<1>2. {x \in S \cup {e} : x[1] = k} = {x \in S : x[1] = k} \cup {e}
  BY <1>1
<1> QED
  BY <1>1, <1>2 DEF GivenFor

LEMMA RedeemStep ==
  ASSUME OAuthInv, NEW c \in Clients, NEW code, Redeem(c, code)
  PROVE  OAuthInv'
<1> USE GrantsAssumption DEF GrantsAssumption
<1> DEFINE f == drawn + 1
           a == drawn + 2
           r == drawn + 3
<1>1. /\ r <= MaxTokens
      /\ code \in DOMAIN LiveCodes
      /\ LiveCodes[code].client = c
      /\ ~LiveCodes[code].consumed
      /\ Cardinality(DOMAIN LiveFamilies) < FamilyLimit
      /\ Cardinality(DOMAIN LiveRefresh) < RefreshLimit
      /\ access' = With(LiveAccess, a, [family |-> f, expires |-> now + AccessLifetime])
      /\ refresh' = With(LiveRefresh, r, [family |-> f, used |-> FALSE])
      /\ families' = With(LiveFamilies, f, [client |-> c, expires |-> now + RefreshLifetime])
      /\ codes' = [LiveCodes EXCEPT ![code].consumed = TRUE, ![code].family = f]
      /\ tickets' = LiveTickets
      /\ drawn' = r
      /\ redeemed' = redeemed \cup {<<code, f>>}
      /\ ended' = ended \cup GivenFor(code, redeemed)
      /\ UNCHANGED <<now, approved, rotated>>
  BY DEF Redeem, RedeemableBy, RoomForTokens, IssueTokens
<1>2. drawn \in Nat /\ now \in Nat /\ f \in Tokens /\ MaxTokens \in Nat
  BY <1>1 DEF OAuthInv, Tokens
<1>3. now' \in Nat /\ drawn' \in 0..MaxTokens
  BY <1>1, <1>2
<1>4. Part(LiveCodes, codes) /\ Part(LiveTickets, tickets)
  BY CleanIsShrunk
<1>5. GivenFor(code, redeemed) = {}
  BY <1>1, <1>4 DEF OAuthInv, CodesRemember, Part
<1>6. /\ DOMAIN codes' = DOMAIN LiveCodes
      /\ code \in DOMAIN codes
      /\ codes'[code] = [codes[code] EXCEPT !.consumed = TRUE, !.family = f]
      /\ \A k \in DOMAIN codes' \ {code} : codes'[k] = codes[k]
  BY <1>1, <1>4 DEF Part
<1>7. RequestsFit(tickets', codes', drawn')
  <2>1. codes[code] \in CodeRecord /\ code \in 1..drawn
    BY <1>6 DEF OAuthInv, RequestsFit
  <2>2. codes'[code] \in CodeRecord
    BY <1>2, <1>6, <2>1 DEF CodeRecord
  <2> QED
    BY <1>1, <1>2, <1>4, <1>6, <2>1, <2>2 DEF OAuthInv, RequestsFit, Part
<1>8. \A k : k # code => GivenFor(k, redeemed') = GivenFor(k, redeemed)
  BY <1>1 DEF GivenFor
<1>9. GivenFor(code, redeemed') = {f}
  <2>1. GivenFor(code, redeemed \cup {<<code, f>>}) = GivenFor(code, redeemed) \cup {f}
    BY GivenForOneMore
  <2> QED
    BY <1>1, <1>5, <2>1
<1>10. CodesRemember(codes', approved', redeemed')
  <2>1. /\ codes'[code].consumed
        /\ codes'[code].family = f
        /\ codes'[code].client = codes[code].client
    BY <1>6 DEF OAuthInv, RequestsFit, CodeRecord
  <2>2. /\ code \in DOMAIN approved
        /\ approved[code] = codes[code].client
    BY <1>6 DEF OAuthInv, CodesRemember
  <2>3. ASSUME NEW k \in DOMAIN codes', k # code
        PROVE  /\ k \in DOMAIN approved'
               /\ approved'[k] = codes'[k].client
               /\ GivenFor(k, redeemed') = IF codes'[k].consumed THEN {codes'[k].family} ELSE {}
    <3>1. k \in DOMAIN codes /\ codes'[k] = codes[k]
      BY <1>4, <1>6, <2>3 DEF Part
    <3> QED
      BY <1>1, <1>8, <2>3, <3>1 DEF OAuthInv, CodesRemember
  <2> QED
    BY <1>1, <1>9, <2>1, <2>2, <2>3 DEF CodesRemember
<1>11. FamiliesRemember(families', approved', redeemed')
  <2>1. /\ code \in DOMAIN approved
        /\ approved[code] = c
    BY <1>1, <1>4, <1>6 DEF OAuthInv, CodesRemember, Part
  <2>2. families'[f].client = c
    BY <1>1 DEF With
  <2>3. ASSUME NEW g \in DOMAIN families', g # f
        PROVE  \E k \in DOMAIN approved' :
                 approved'[k] = families'[g].client /\ GivenFor(k, redeemed') = {g}
    <3>1. g \in DOMAIN LiveFamilies /\ families'[g] = LiveFamilies[g]
      BY <1>1, <2>3 DEF With
    <3>2. PICK k \in DOMAIN approved :
            approved[k] = LiveFamilies[g].client /\ GivenFor(k, redeemed) = {g}
      BY <3>1, LiveMapsFit DEF FamiliesRemember
    <3>3. k # code
      BY <1>5, <3>2
    <3> QED
      BY <1>1, <1>8, <3>1, <3>2, <3>3
  <2> QED
    BY <1>1, <1>9, <2>1, <2>2, <2>3 DEF FamiliesRemember
<1>12. GrantsFit(families', access', refresh', drawn')
  <2>1. /\ [client |-> c, expires |-> now + RefreshLifetime] \in FamilyRecord
        /\ [family |-> f, expires |-> now + AccessLifetime] \in AccessRecord
        /\ [family |-> f, used |-> FALSE] \in RefreshRecord
    BY <1>2 DEF FamilyRecord, AccessRecord, RefreshRecord
  <2> QED
    BY <1>1, <1>2, <2>1, LiveMapsFit DEF GrantsFit, With
<1>13. Linear(families', refresh')
  <2>1. ASSUME NEW g \in DOMAIN families'
        PROVE  \E t \in DOMAIN refresh' :
                 /\ refresh'[t] = [family |-> g, used |-> FALSE]
                 /\ \A u \in DOMAIN refresh' : refresh'[u].family = g /\ ~refresh'[u].used => u = t
    <3>1. \A u \in DOMAIN LiveRefresh : u \in 1..drawn /\ LiveRefresh[u].family \in 1..drawn
      BY LiveMapsFit DEF GrantsFit
    <3>2. /\ DOMAIN refresh' = DOMAIN LiveRefresh \cup {r}
          /\ refresh'[r] = [family |-> f, used |-> FALSE]
          /\ \A u \in DOMAIN LiveRefresh : refresh'[u] = LiveRefresh[u]
      BY <1>1, <1>2, <3>1 DEF With
    <3>3. CASE g = f
      BY <1>2, <3>1, <3>2, <3>3
    <3>4. CASE g # f
      <4>1. g \in DOMAIN LiveFamilies
        BY <1>1, <3>4 DEF With
      <4>2. PICK t \in DOMAIN LiveRefresh :
              /\ LiveRefresh[t] = [family |-> g, used |-> FALSE]
              /\ \A u \in DOMAIN LiveRefresh : LiveRefresh[u].family = g /\ ~LiveRefresh[u].used => u = t
        BY <4>1, LiveMapsFit DEF Linear
      <4>3. refresh'[t] = [family |-> g, used |-> FALSE] /\ t \in DOMAIN refresh'
        BY <3>2, <4>2
      <4>4. ASSUME NEW u \in DOMAIN refresh', refresh'[u].family = g, ~refresh'[u].used
            PROVE  u = t
        <5>1. u # r
          BY <3>2, <3>4, <4>4
        <5>2. u \in DOMAIN LiveRefresh /\ refresh'[u] = LiveRefresh[u]
          BY <3>2, <5>1
        <5> QED
          BY <4>2, <4>4, <5>2
      <4> QED
        BY <4>3, <4>4
    <3> QED
      BY <3>3, <3>4
  <2> QED
    BY <2>1 DEF Linear
<1>14. RotationsRemember(refresh', rotated')
  <2>1. GivenFor(r, rotated) = {}
    BY <1>2 DEF OAuthInv, HistoryFits, GivenFor
  <2> QED
    BY <1>1, <2>1, LiveMapsFit DEF RotationsRemember, With
<1>15. HistoryFits(approved', redeemed', rotated', ended', drawn')
  <2>1. code \in 1..drawn
    BY <1>6 DEF OAuthInv, RequestsFit
  <2> QED
    BY <1>1, <1>2, <1>5, <2>1 DEF OAuthInv, HistoryFits
<1>16. ended' \cap DOMAIN families' = {}
  BY <1>1, <1>2, <1>5, LiveMapsFit DEF OAuthInv, HistoryFits, With
<1>17. Counted'
  <2>1. /\ DOMAIN families' = DOMAIN LiveFamilies \cup {f}
        /\ DOMAIN refresh' = DOMAIN LiveRefresh \cup {r}
        /\ DOMAIN LiveFamilies \subseteq DOMAIN families
        /\ DOMAIN LiveRefresh \subseteq DOMAIN refresh
    BY <1>1, CleanIsShrunk DEF With, Shrunk, Part
  <2>2. Cardinality(DOMAIN families') <= FamilyLimit
    BY <1>1, <2>1, KeysAreFinite, OneMoreKey
  <2>3. Cardinality(DOMAIN refresh') <= RefreshLimit
    BY <1>1, <2>1, KeysAreFinite, OneMoreKey
  <2>4. Cardinality(DOMAIN tickets') <= PendingLimit /\ Cardinality(DOMAIN codes') <= PendingLimit
    BY <1>1, <1>4, <1>6, KeysAreFinite, FewerKeys DEF OAuthInv, Counted, Part
  <2> QED
    BY <2>2, <2>3, <2>4 DEF Counted
<1> QED
  BY <1>3, <1>7, <1>10, <1>11, <1>12, <1>13, <1>14, <1>15, <1>16, <1>17 DEF OAuthInv

LEMMA RotateStep ==
  ASSUME OAuthInv, NEW c \in Clients, NEW t, Rotate(c, t)
  PROVE  OAuthInv'
<1> USE GrantsAssumption DEF GrantsAssumption
<1> DEFINE f == LiveRefresh[t].family
           a == drawn + 1
           r == drawn + 2
<1>1. /\ r <= MaxTokens
      /\ t \in DOMAIN LiveRefresh
      /\ ~LiveRefresh[t].used
      /\ Cardinality(DOMAIN LiveRefresh) < RefreshLimit
      /\ access' = With(LiveAccess, a, [family |-> f, expires |-> now + AccessLifetime])
      /\ refresh' = With(MarkUsed(t), r, [family |-> f, used |-> FALSE])
      /\ families' = LiveFamilies
      /\ KeepRequests
      /\ drawn' = r
      /\ rotated' = rotated \cup {<<t, f>>}
      /\ ended' = ended \cup GivenFor(t, rotated)
      /\ UNCHANGED <<now, approved, redeemed>>
  BY DEF Rotate, RotatableBy, RoomForTokens, IssueTokens
<1>2. drawn \in Nat /\ now \in Nat /\ MaxTokens \in Nat
  BY <1>1 DEF OAuthInv
<1>3. now' \in Nat /\ drawn' \in 0..MaxTokens
  BY <1>1, <1>2
<1>4. /\ t \in 1..drawn
      /\ f \in DOMAIN LiveFamilies
      /\ f \in Tokens
      /\ f \in 1..drawn
      /\ LiveRefresh[t] \in RefreshRecord
  BY <1>1, LiveMapsFit DEF GrantsFit, RefreshRecord
<1>5. GivenFor(t, rotated) = {}
  BY <1>1, LiveMapsFit DEF RotationsRemember
<1>6. /\ DOMAIN refresh' = DOMAIN LiveRefresh \cup {r}
      /\ refresh'[r] = [family |-> f, used |-> FALSE]
      /\ refresh'[t] = [family |-> f, used |-> TRUE]
      /\ \A u \in DOMAIN LiveRefresh \ {t} : refresh'[u] = LiveRefresh[u]
      /\ r \notin DOMAIN LiveRefresh
  <2>1. r \notin DOMAIN LiveRefresh
    BY <1>2, LiveMapsFit DEF GrantsFit
  <2> QED
    BY <1>1, <1>4, <2>1 DEF With, MarkUsed, RefreshRecord
<1>7. /\ RequestsFit(tickets', codes', drawn')
      /\ CodesRemember(codes', approved', redeemed')
  BY <1>1, <1>2, CleanIsShrunk DEF OAuthInv, KeepRequests, RequestsFit, CodesRemember, Part
<1>8. FamiliesRemember(families', approved', redeemed')
  BY <1>1, LiveMapsFit
<1>9. GrantsFit(families', access', refresh', drawn')
  <2>1. /\ [family |-> f, expires |-> now + AccessLifetime] \in AccessRecord
        /\ [family |-> f, used |-> FALSE] \in RefreshRecord
        /\ [family |-> f, used |-> TRUE] \in RefreshRecord
    BY <1>2, <1>4 DEF AccessRecord, RefreshRecord
  <2>2. \A u \in DOMAIN LiveRefresh : refresh'[u].family = LiveRefresh[u].family
    BY <1>6
  <2>3. ASSUME NEW u \in DOMAIN refresh'
        PROVE  /\ u \in 1..drawn'
               /\ refresh'[u] \in RefreshRecord
               /\ refresh'[u].family \in DOMAIN families'
    <3>1. CASE u \in {r, t}
      BY <1>1, <1>2, <1>4, <1>6, <2>1, <3>1
    <3>2. CASE u \notin {r, t}
      <4>1. u \in DOMAIN LiveRefresh /\ refresh'[u] = LiveRefresh[u]
        BY <1>6, <3>2
      <4> QED
        BY <1>1, <1>2, <4>1, LiveMapsFit DEF GrantsFit
    <3> QED
      BY <3>1, <3>2
  <2>4. /\ DOMAIN access' = DOMAIN LiveAccess \cup {a}
        /\ access'[a] = [family |-> f, expires |-> now + AccessLifetime]
        /\ \A u \in DOMAIN LiveAccess \ {a} : access'[u] = LiveAccess[u]
    BY <1>1 DEF With
  <2>5. ASSUME NEW u \in DOMAIN access'
        PROVE  /\ u \in 1..drawn'
               /\ access'[u] \in AccessRecord
               /\ access'[u].family \in DOMAIN families'
               /\ u + 1 \in DOMAIN refresh'
               /\ refresh'[u + 1].family = access'[u].family
    <3>1. CASE u = a
      BY <1>1, <1>2, <1>4, <1>6, <2>1, <2>4, <3>1
    <3>2. CASE u # a
      <4>1. u \in DOMAIN LiveAccess /\ access'[u] = LiveAccess[u]
        BY <2>4, <3>2
      <4>2. /\ u \in 1..drawn
            /\ LiveAccess[u] \in AccessRecord
            /\ LiveAccess[u].family \in DOMAIN LiveFamilies
            /\ u + 1 \in DOMAIN LiveRefresh
            /\ LiveRefresh[u + 1].family = LiveAccess[u].family
        BY <4>1, LiveMapsFit DEF GrantsFit
      <4>3. refresh'[u + 1].family = LiveRefresh[u + 1].family /\ u + 1 \in DOMAIN refresh'
        BY <1>6, <2>2, <4>2
      <4> QED
        BY <1>1, <1>2, <4>1, <4>2, <4>3
    <3> QED
      BY <3>1, <3>2
  <2>6. ASSUME NEW g \in DOMAIN families'
        PROVE  g \in 1..drawn' /\ families'[g] \in FamilyRecord
    BY <1>1, <1>2, LiveMapsFit DEF GrantsFit
  <2> QED
    BY <2>3, <2>5, <2>6 DEF GrantsFit
<1>10. Linear(families', refresh')
  <2>1. ASSUME NEW g \in DOMAIN families'
        PROVE  \E v \in DOMAIN refresh' :
                 /\ refresh'[v] = [family |-> g, used |-> FALSE]
                 /\ \A u \in DOMAIN refresh' : refresh'[u].family = g /\ ~refresh'[u].used => u = v
    <3>1. PICK v \in DOMAIN LiveRefresh :
            /\ LiveRefresh[v] = [family |-> g, used |-> FALSE]
            /\ \A u \in DOMAIN LiveRefresh : LiveRefresh[u].family = g /\ ~LiveRefresh[u].used => u = v
      BY <1>1, LiveMapsFit DEF Linear
    <3>2. CASE g = f
      <4>1. \A u \in DOMAIN LiveRefresh : LiveRefresh[u].family = f /\ ~LiveRefresh[u].used => u = t
        BY <1>1, <3>1, <3>2
      <4> QED
        BY <1>6, <3>2, <4>1
    <3>3. CASE g # f
      <4>1. v # t
        BY <3>1, <3>3
      <4>2. refresh'[v] = [family |-> g, used |-> FALSE] /\ v \in DOMAIN refresh'
        BY <1>6, <3>1, <4>1
      <4>3. ASSUME NEW u \in DOMAIN refresh', refresh'[u].family = g, ~refresh'[u].used
            PROVE  u = v
        <5>1. u # r /\ u # t
          BY <1>6, <3>3, <4>3
        <5>2. u \in DOMAIN LiveRefresh /\ refresh'[u] = LiveRefresh[u]
          BY <1>6, <5>1
        <5> QED
          BY <3>1, <4>3, <5>2
      <4> QED
        BY <4>2, <4>3
    <3> QED
      BY <3>2, <3>3
  <2> QED
    BY <2>1 DEF Linear
<1>11. RotationsRemember(refresh', rotated')
  <2>1. GivenFor(r, rotated') = {}
    BY <1>1, <1>2, <1>4 DEF OAuthInv, HistoryFits, GivenFor
  <2>2. GivenFor(t, rotated') = {f}
    <3>1. GivenFor(t, rotated \cup {<<t, f>>}) = GivenFor(t, rotated) \cup {f}
      BY GivenForOneMore
    <3> QED
      BY <1>1, <1>5, <3>1
  <2>3. \A u : u # t => GivenFor(u, rotated') = GivenFor(u, rotated)
    BY <1>1 DEF GivenFor
  <2> QED
    BY <1>6, <2>1, <2>2, <2>3, LiveMapsFit DEF RotationsRemember
<1>12. HistoryFits(approved', redeemed', rotated', ended', drawn')
  BY <1>1, <1>2, <1>4, <1>5 DEF OAuthInv, HistoryFits
<1>13. ended' \cap DOMAIN families' = {}
  BY <1>1, <1>5, LiveMapsFit
<1>14. Counted'
  <2>1. /\ DOMAIN LiveFamilies \subseteq DOMAIN families
        /\ DOMAIN LiveRefresh \subseteq DOMAIN refresh
    BY CleanIsShrunk DEF Shrunk, Part
  <2>2. Cardinality(DOMAIN families') <= FamilyLimit
    BY <1>1, <2>1, KeysAreFinite, FewerKeys DEF OAuthInv, Counted
  <2>3. Cardinality(DOMAIN refresh') <= RefreshLimit
    BY <1>1, <1>6, <2>1, KeysAreFinite, OneMoreKey
  <2> QED
    BY <1>1, <2>2, <2>3, CountedRequests DEF Counted
<1> QED
  BY <1>3, <1>7, <1>8, <1>9, <1>10, <1>11, <1>12, <1>13, <1>14 DEF OAuthInv

-----------------------------------------------------------------------------
(* The theorems. *)

LEMMA OAuthInit == Init => OAuthInv
<1> SUFFICES ASSUME Init PROVE OAuthInv
  OBVIOUS
<1> USE GrantsAssumption DEF GrantsAssumption
<1>1. \A m \in {tickets, codes, families, access, refresh, approved} : DOMAIN m = {}
  BY DEF Init, Nothing
<1>2. Counted
  BY <1>1, FS_EmptySet DEF Counted
<1>3. /\ RequestsFit(tickets, codes, drawn)
      /\ GrantsFit(families, access, refresh, drawn)
      /\ Linear(families, refresh)
      /\ CodesRemember(codes, approved, redeemed)
      /\ FamiliesRemember(families, approved, redeemed)
      /\ RotationsRemember(refresh, rotated)
  BY <1>1 DEF RequestsFit, GrantsFit, Linear, CodesRemember, FamiliesRemember, RotationsRemember
<1>4. /\ now \in Nat
      /\ drawn \in 0..MaxTokens
      /\ HistoryFits(approved, redeemed, rotated, ended, drawn)
      /\ ended \cap DOMAIN families = {}
  BY <1>1 DEF Init, HistoryFits
<1> QED
  BY <1>2, <1>3, <1>4 DEF OAuthInv

LEMMA OAuthStep == OAuthInv /\ [Next]_vars => OAuthInv'
<1> SUFFICES ASSUME OAuthInv, [Next]_vars PROVE OAuthInv'
  OBVIOUS
<1>1. CASE Tick
  BY <1>1, TickStep
<1>2. CASE Cleanup
  BY <1>2, CleanupStep
<1>3. CASE \E c \in Clients : BeginApproval(c)
  BY <1>3, BeginApprovalStep
<1>4. CASE \E t \in DOMAIN tickets : Approve(t) \/ Deny(t)
  BY <1>4, ApproveStep, DenyStep
<1>5. CASE \E c \in Clients, code \in DOMAIN codes : Redeem(c, code) \/ RedeemAgain(c, code)
  BY <1>5, RedeemStep, RedeemAgainStep
<1>6. CASE \E c \in Clients, t \in DOMAIN refresh : Rotate(c, t) \/ RotateAgain(c, t)
  BY <1>6, RotateStep, RotateAgainStep
<1>7. CASE \E c \in Clients, t \in DOMAIN refresh \cup DOMAIN access : Revoke(c, t)
  BY <1>7, RevokeStep
<1>8. CASE UNCHANGED vars
  BY <1>8 DEF vars, storage, history, OAuthInv, Counted
<1> HIDE DEF OAuthInv
<1> QED
  BY <1>1, <1>2, <1>3, <1>4, <1>5, <1>6, <1>7, <1>8 DEF Next

(* The inductive invariant holds in every reachable state. *)
THEOREM OAuthInvariance == Spec => []OAuthInv
  BY OAuthInit, OAuthStep, PTL DEF Spec

(* Every access token has the refresh token drawn after it to itself, so    *)
(* there are never more of them.                                            *)
LEMMA AccessWithinRefresh ==
  ASSUME OAuthInv
  PROVE  Cardinality(DOMAIN access) <= Cardinality(DOMAIN refresh)
<1> DEFINE next == [t \in DOMAIN access |-> t + 1]
<1>1. IsFiniteSet(DOMAIN refresh)
  BY KeysAreFinite
<1>2. next \in Injection(DOMAIN access, DOMAIN refresh)
  <2>1. \A t \in DOMAIN access : t \in Int /\ t + 1 \in DOMAIN refresh
    BY DEF OAuthInv, GrantsFit
  <2> QED
    BY <2>1 DEF Injection, IsInjective
<1> QED
  BY <1>1, <1>2, FS_Injection

(* The maps of the server agree after every handler, and its storage is     *)
(* bounded although nothing counts the access tokens.                       *)
THEOREM GrantsAgree == Spec => []GrantInv
<1>1. OAuthInv => GrantInv
  <2> SUFFICES ASSUME OAuthInv PROVE GrantInv
    OBVIOUS
  <2>1. Types
    BY DEF OAuthInv, Types, RequestsFit, GrantsFit
  <2>2. Rooted
    BY DEF OAuthInv, Rooted, GrantsFit
  <2>3. ChainIsLinear
    BY DEF OAuthInv, ChainIsLinear, Linear
  <2>4. StorageBounded
    BY AccessWithinRefresh DEF OAuthInv, StorageBounded, Counted
  <2> QED
    BY <2>1, <2>2, <2>3, <2>4 DEF GrantInv
<1> QED
  BY <1>1, OAuthInvariance, PTL

(* A family that was revoked, or one of whose credentials was presented     *)
(* twice, never again gives a token that is good for anything.              *)
THEOREM ReuseIsFinal == Spec => []ReuseEndsGrant
<1>1. OAuthInv => ReuseEndsGrant
  BY DEF OAuthInv, GrantsFit, ReuseEndsGrant, ValidateBearer
<1> QED
  BY <1>1, OAuthInvariance, PTL

(* Every bearer the endpoint accepts goes back to an approval by the owner  *)
(* for the client that holds it, by the only redemption of that approval.   *)
THEOREM BearersAreOwed == Spec => []BearerIsOwed
<1>1. OAuthInv => BearerIsOwed
  BY DEF OAuthInv, GrantsFit, FamiliesRemember, BearerIsOwed
<1> QED
  BY <1>1, OAuthInvariance, PTL
=============================================================================
