------------------------- MODULE ClientSession_proofs -------------------------
(***************************************************************************)
(* Whose permissions and whose data a tab holds, for any users, addresses  *)
(* and number of requests.                                                 *)
(*                                                                         *)
(* PermissionsOfUser rests on the requests in flight carrying the token of *)
(* now (AsksOfToken), and both on every change of token passing through a  *)
(* tab that nobody is signed in to (Who).                                  *)
(***************************************************************************)
EXTENDS ClientSession, ClientAgreement, SequenceTheorems, TLAPS

\* The types of what the session is made of: all but the address.
SessionType ==
    /\ token \in UserOrNone /\ isLoading \in BOOLEAN /\ flow \in Flows
    /\ permissions \in UserOrNone /\ outdated \in BOOLEAN /\ permissionsLoading \in BOOLEAN
    /\ asks \in Seq(Asks) /\ saves \in Seq(Saves)
    /\ outlived \in BOOLEAN /\ crossed \in BOOLEAN

\* Who is signed in, and what the provider is doing about it.
Who ==
    /\ user \in {token, NoUser}
    /\ flow.name = "none" => ~isLoading
    /\ flow.name = "signing in" => token = NoUser
    /\ flow.name \in {"restoring", "signing in", "identifying"} => user = NoUser /\ isLoading
    /\ flow.name \in {"restoring", "identifying", "signing out"} => flow.of = token
    /\ flow.name = "signing out" => isLoading
    /\ flow.name = "restoring" => cache = {}
    /\ user = NoUser /\ ~isLoading => token = NoUser

\* Until a request outlives its session, those in flight are the session's.
AsksOfToken ==
    ~outlived => /\ \A i \in DOMAIN asks : asks[i].of = token
                 /\ token = NoUser => asks = << >>

SaveApplied == \E j \in DOMAIN saves : saves[j].applied

\* An answer that lacks a change of roles is known by the change's own answer being on its way.
OldAsksOfSave ==
    ~crossed /\ ~outlived => \A i \in DOMAIN asks : asks[i].old => SaveApplied

IInv == /\ SessionType /\ Who /\ AsksOfToken /\ OldAsksOfSave
        /\ PermissionsOfUser /\ CacheOfUser /\ OwnRolesHeld

-----------------------------------------------------------------------------
\* What is left of a sequence without one of its elements were its elements.
LEMMA RemovedOnly ==
    ASSUME NEW S, NEW s \in Seq(S), NEW i \in DOMAIN s
    PROVE  /\ RemoveAt(s, i) \in Seq(S)
           /\ \A k \in DOMAIN RemoveAt(s, i) : \E j \in DOMAIN s : RemoveAt(s, i)[k] = s[j]
<1> DEFINE Elements == {s[j] : j \in DOMAIN s}
           before == SubSeq(s, 1, i - 1)
           after == SubSeq(s, i + 1, Len(s))
<1>1. DOMAIN s = 1 .. Len(s) /\ Len(s) \in Nat /\ i \in 1 .. Len(s) /\ Elements \subseteq S
  OBVIOUS
<1>2. before \in Seq(Elements)
  <2>1. \A j \in 1 .. i - 1 : s[j] \in Elements
    BY <1>1
  <2> QED
    BY <1>1, <2>1, SubSeqProperties
<1>3. after \in Seq(Elements)
  <2>1. \A j \in i + 1 .. Len(s) : s[j] \in Elements
    BY <1>1
  <2> QED
    BY <1>1, <2>1, SubSeqProperties
<1>4. RemoveAt(s, i) \in Seq(Elements)
  BY <1>2, <1>3, ConcatProperties DEF RemoveAt
<1> QED
  <2> HIDE DEF before, after
  <2>1. \A k \in DOMAIN RemoveAt(s, i) : RemoveAt(s, i)[k] \in Elements
    BY <1>4
  <2>2. RemoveAt(s, i) \in Seq(S)
    BY <1>1, <1>4
  <2> QED
    BY <2>1, <2>2

\* The others stay.
LEMMA OthersStay ==
    ASSUME NEW S, NEW s \in Seq(S), NEW i \in DOMAIN s, NEW j \in DOMAIN s, i # j
    PROVE  \E k \in DOMAIN RemoveAt(s, i) : RemoveAt(s, i)[k] = s[j]
<1> DEFINE before == SubSeq(s, 1, i - 1)
           after == SubSeq(s, i + 1, Len(s))
<1>1. Len(s) \in Nat /\ i \in 1 .. Len(s) /\ j \in 1 .. Len(s)
  OBVIOUS
<1>2. before \in Seq(S) /\ Len(before) = i - 1 /\ \A m \in 1 .. i - 1 : before[m] = s[m]
  <2>1. \A m \in 1 .. i - 1 : s[m] \in S
    BY <1>1
  <2> QED
    BY <1>1, <2>1, SubSeqProperties
<1>3. /\ after \in Seq(S) /\ Len(after) = Len(s) - i
      /\ \A m \in 1 .. Len(s) - i : after[m] = s[i + m]
  <2>1. \A m \in i + 1 .. Len(s) : s[m] \in S
    BY <1>1
  <2>2. /\ after \in Seq(S) /\ Len(after) = IF i + 1 <= Len(s) THEN Len(s) - (i + 1) + 1 ELSE 0
        /\ \A m \in 1 .. Len(s) - (i + 1) + 1 : after[m] = s[(i + 1) + m - 1]
    BY <1>1, <2>1, SubSeqProperties
  <2> QED
    BY <1>1, <2>2
<1>4. RemoveAt(s, i) = before \o after
  BY DEF RemoveAt
<1> HIDE DEF before, after
<1>5. /\ RemoveAt(s, i) \in Seq(S) /\ Len(RemoveAt(s, i)) = Len(s) - 1
      /\ \A m \in 1 .. Len(s) - 1 :
            RemoveAt(s, i)[m] = IF m <= i - 1 THEN before[m] ELSE after[m - (i - 1)]
  <2>1. /\ before \o after \in Seq(S) /\ Len(before \o after) = Len(before) + Len(after)
        /\ \A m \in 1 .. Len(before) + Len(after) :
              (before \o after)[m] = IF m <= Len(before) THEN before[m]
                                     ELSE after[m - Len(before)]
    BY <1>2, <1>3, ConcatProperties
  <2>2. Len(before) + Len(after) = Len(s) - 1
    BY <1>1, <1>2, <1>3
  <2>3. /\ RemoveAt(s, i) \in Seq(S) /\ Len(RemoveAt(s, i)) = Len(s) - 1
        /\ \A m \in 1 .. Len(s) - 1 :
              RemoveAt(s, i)[m] = IF m <= Len(before) THEN before[m]
                                  ELSE after[m - Len(before)]
    BY <1>4, <2>1, <2>2
  <2> QED
    BY <1>2, <2>3
<1>6. CASE j < i
  <2>1. j \in DOMAIN RemoveAt(s, i) /\ RemoveAt(s, i)[j] = s[j]
    BY <1>1, <1>2, <1>5, <1>6
  <2> QED
    BY <2>1
<1>7. CASE j > i
  <2>1. j - 1 \in DOMAIN RemoveAt(s, i) /\ RemoveAt(s, i)[j - 1] = after[j - i]
    BY <1>1, <1>5, <1>7
  <2>2. after[j - i] = s[i + (j - i)] /\ i + (j - i) = j
    BY <1>1, <1>3, <1>7
  <2> QED
    BY <2>1, <2>2
<1> QED
  BY <1>1, <1>6, <1>7

-----------------------------------------------------------------------------
\* What a step leaves alone in the invariant, it preserves.
LEMMA OldAsksKept ==
    ASSUME OldAsksOfSave, UNCHANGED <<asks, saves, history>>
    PROVE  OldAsksOfSave'
BY DEF OldAsksOfSave, SaveApplied, history

LEMMA OwnRolesKept ==
    ASSUME OwnRolesHeld, UNCHANGED <<outdated, permissionsLoading, saves, history>>
    PROVE  OwnRolesHeld'
BY DEF OwnRolesHeld, history

LEMMA TokenKept ==
    ASSUME AsksOfToken, PermissionsOfUser, UNCHANGED <<token, permissions, asks, outlived>>
    PROVE  AsksOfToken' /\ PermissionsOfUser'
BY DEF AsksOfToken, PermissionsOfUser

\* A sign-out: whatever is in flight has outlived the session.
LEMMA SignedOutKeeps ==
    ASSUME IInv, SignedOut
    PROVE  IInv'
<1>1. SessionType'
  BY DEF IInv, SessionType, SignedOut, NoFlow, Flows, UserOrNone
<1>2. Who'
  BY DEF SignedOut, NoFlow, Who
<1>3. AsksOfToken' /\ PermissionsOfUser'
  <2>1. ~outlived' => asks = << >>
    BY DEF SignedOut
  <2>2. asks' = asks /\ permissions' = NoUser
    BY DEF SignedOut
  <2> QED
    BY <2>1, <2>2 DEF AsksOfToken, PermissionsOfUser
<1>4. OldAsksOfSave'
  <2>1. asks' = asks /\ saves' = saves /\ crossed' = crossed /\ (~outlived' => ~outlived)
    BY DEF SignedOut, IInv, SessionType
  <2> QED
    BY <2>1 DEF IInv, OldAsksOfSave, SaveApplied
<1>5. CacheOfUser'
  BY DEF SignedOut, CacheOfUser
<1>6. OwnRolesHeld'
  BY DEF SignedOut, OwnRolesHeld
<1> QED
  BY <1>1, <1>2, <1>3, <1>4, <1>5, <1>6 DEF IInv

\* A request made now is of the token of now and, while no two cross, the only one.
LEMMA RefreshAsks ==
    ASSUME NEW now \in {permissions, NoUser}, IInv, refreshPermissions(now),
           UNCHANGED <<token, outlived>>
    PROVE  /\ AsksOfToken' /\ PermissionsOfUser'
           /\ asks' \in Seq(Asks) /\ permissions' \in UserOrNone
           /\ permissionsLoading' \in BOOLEAN /\ crossed' \in BOOLEAN
           /\ ~crossed' => ~crossed
           /\ ~crossed' /\ ~outlived' => \A i \in DOMAIN asks' : ~asks'[i].old
           /\ token # NoUser => permissionsLoading'
<1> USE DEF refreshPermissions
<1>1. permissions' \in UserOrNone /\ permissionsLoading' \in BOOLEAN /\ crossed' \in BOOLEAN
  BY DEF IInv, SessionType, UserOrNone
<1>2. PermissionsOfUser'
  BY DEF IInv, PermissionsOfUser
<1>3. CASE token = NoUser
  <2>1. asks' = asks /\ crossed' = crossed
    BY <1>3
  <2>2. ~outlived => asks = << >>
    BY <1>3 DEF IInv, AsksOfToken
  <2>3. AsksOfToken'
    BY <2>1 DEF IInv, AsksOfToken
  <2> QED
    BY <1>1, <1>2, <1>3, <2>1, <2>2, <2>3 DEF IInv, SessionType
<1>4. CASE token # NoUser
  <2> DEFINE asked == [of |-> token, old |-> FALSE]
  <2>1. asked \in Asks /\ asks \in Seq(Asks)
    BY DEF IInv, SessionType, Asks
  <2>2. /\ asks' = Append(asks, asked)
        /\ crossed' = (crossed \/ \E i \in DOMAIN asks : asks[i].of = token)
    BY <1>4
  <2>3. /\ asks' \in Seq(Asks) /\ Len(asks') = Len(asks) + 1
        /\ \A i \in DOMAIN asks' : asks'[i] = asked \/ (i \in DOMAIN asks /\ asks'[i] = asks[i])
    <3> HIDE DEF asked
    <3> QED
      BY <2>1, <2>2
  <2>4. asked.of = token /\ asked.old = FALSE
    OBVIOUS
  <2> HIDE DEF asked
  <2>5. AsksOfToken'
    BY <1>4, <2>3, <2>4 DEF IInv, AsksOfToken
  <2>6. ~crossed' /\ ~outlived' => \A i \in DOMAIN asks' : ~asks'[i].old
    <3> SUFFICES ASSUME ~crossed', ~outlived PROVE \A i \in DOMAIN asks' : ~asks'[i].old
      OBVIOUS
    <3>1. \A i \in DOMAIN asks : asks[i].of = token
      BY DEF IInv, AsksOfToken
    <3>2. ~ \E i \in DOMAIN asks : asks[i].of = token
      BY <2>2
    <3> QED
      BY <2>3, <2>4, <3>1, <3>2
  <2>7. ~crossed' => ~crossed
    BY <2>2
  <2> QED
    BY <1>1, <1>2, <1>4, <2>3, <2>5, <2>6, <2>7
<1> QED
  BY <1>3, <1>4

-----------------------------------------------------------------------------
\* The session.
LEMMA LoginKeeps ==
    ASSUME IInv, NEW u \in Arrivals, login(u)
    PROVE  IInv'
<1> USE DEF login
<1>1. SessionType'
  <2>1. u \in UserOrNone
    BY UsersAssumption DEF UserOrNone
  <2> QED
    BY <2>1 DEF IInv, SessionType, Flows, held, history
<1>2. Who'
  BY DEF IInv, Who
<1>3. AsksOfToken' /\ PermissionsOfUser'
  BY TokenKept DEF IInv, held, history
<1>4. OldAsksOfSave' /\ OwnRolesHeld'
  BY OldAsksKept, OwnRolesKept DEF IInv, held
<1>5. CacheOfUser'
  BY DEF IInv, CacheOfUser
<1> QED
  BY <1>1, <1>2, <1>3, <1>4, <1>5 DEF IInv

LEMMA LoginAcceptedKeeps ==
    ASSUME IInv, LoginAccepted
    PROVE  IInv'
<1>1. flow' = [name |-> "identifying", of |-> flow.of] /\ flow.of \in UserOrNone
  BY DEF IInv, SessionType, Flows, LoginAccepted
<1>2. /\ flow.name = "signing in" /\ token' = flow.of
      /\ UNCHANGED <<user, isLoading, permissions, outdated, permissionsLoading, asks, saves,
                     cache, outlived, crossed>>
  BY DEF LoginAccepted, held, history
<1>3. SessionType'
  BY <1>1, <1>2 DEF IInv, SessionType, Flows
<1>4. Who'
  BY <1>1, <1>2 DEF IInv, Who
<1>5. AsksOfToken' /\ PermissionsOfUser'
  <2>1. token = NoUser
    BY <1>2 DEF IInv, Who
  <2>2. ~outlived => asks = << >> /\ permissions = NoUser
    BY <2>1 DEF IInv, AsksOfToken, PermissionsOfUser
  <2>3. DOMAIN << >> = {}
    OBVIOUS
  <2>4. AsksOfToken'
    BY <1>2, <2>2, <2>3 DEF AsksOfToken
  <2> QED
    BY <1>2, <2>2, <2>4 DEF PermissionsOfUser
<1>6. OldAsksOfSave' /\ OwnRolesHeld'
  BY <1>2, OldAsksKept, OwnRolesKept DEF IInv, history
<1>7. CacheOfUser'
  BY <1>2 DEF IInv, CacheOfUser
<1> QED
  BY <1>3, <1>4, <1>5, <1>6, <1>7 DEF IInv

LEMMA IdentifiedKeeps ==
    ASSUME IInv, Identified
    PROVE  IInv'
<1>1. /\ flow.name \in {"restoring", "identifying"} /\ user' = flow.of /\ isLoading' = FALSE
      /\ flow' = NoFlow /\ cache' = IF flow.name = "identifying" THEN {} ELSE cache
      /\ refreshPermissions(NoUser) /\ outdated' = FALSE
      /\ token' = token /\ saves' = saves /\ outlived' = outlived
  BY DEF Identified
<1>2. flow.of = token /\ cache' = {}
  BY <1>1 DEF IInv, Who
<1>3. /\ AsksOfToken' /\ PermissionsOfUser'
      /\ asks' \in Seq(Asks) /\ permissions' \in UserOrNone
      /\ permissionsLoading' \in BOOLEAN /\ crossed' \in BOOLEAN
      /\ ~crossed' /\ ~outlived' => \A i \in DOMAIN asks' : ~asks'[i].old
  BY <1>1, RefreshAsks
<1>4. SessionType'
  BY <1>1, <1>3 DEF IInv, SessionType, Flows, NoFlow, UserOrNone
<1>5. Who'
  BY <1>1, <1>2 DEF Who, NoFlow
<1>6. OldAsksOfSave'
  BY <1>3 DEF OldAsksOfSave
<1>7. CacheOfUser' /\ OwnRolesHeld'
  BY <1>1, <1>2 DEF CacheOfUser, OwnRolesHeld
<1> QED
  BY <1>3, <1>4, <1>5, <1>6, <1>7 DEF IInv

LEMMA LogoutKeeps ==
    ASSUME IInv, logout
    PROVE  IInv'
<1> USE DEF logout
<1>1. user = token
  BY DEF IInv, Who
<1>2. SessionType'
  BY <1>1 DEF IInv, SessionType, Flows, held, history
<1>3. Who'
  BY <1>1 DEF IInv, Who
<1>4. AsksOfToken' /\ PermissionsOfUser'
  BY TokenKept DEF IInv, held, history
<1>5. OldAsksOfSave' /\ OwnRolesHeld'
  BY OldAsksKept, OwnRolesKept DEF IInv, held
<1>6. CacheOfUser'
  BY DEF IInv, CacheOfUser
<1> QED
  BY <1>2, <1>3, <1>4, <1>5, <1>6 DEF IInv

LEMMA LoadKeeps ==
    ASSUME IInv, NEW route, Load(route)
    PROVE  IInv'
<1> USE DEF Load
<1>1. SessionType'
  <2>1. token' \in UserOrNone /\ isLoading' \in BOOLEAN /\ flow' \in Flows
    BY DEF IInv, SessionType, Flows, NoFlow, UserOrNone
  <2>2. asks' \in Seq(Asks) /\ saves' \in Seq(Saves)
    OBVIOUS
  <2>3. permissions' \in UserOrNone
    BY DEF UserOrNone
  <2> QED
    BY <2>1, <2>2, <2>3 DEF SessionType
<1>2. Who'
  BY DEF Who, NoFlow
<1>3. AsksOfToken' /\ PermissionsOfUser' /\ OldAsksOfSave'
  BY DEF AsksOfToken, PermissionsOfUser, OldAsksOfSave
<1>4. CacheOfUser' /\ OwnRolesHeld'
  BY DEF CacheOfUser, OwnRolesHeld
<1> QED
  BY <1>1, <1>2, <1>3, <1>4 DEF IInv

-----------------------------------------------------------------------------
\* The answers to permission requests.
LEMMA AnsweredKeeps ==
    ASSUME IInv, NEW i \in DOMAIN asks, ReceivePermissions(i) \/ LosePermissions(i)
    PROVE  IInv'
<1>1. /\ asks' = RemoveAt(asks, i) /\ permissionsLoading' = FALSE
      /\ \/ permissions' = asks[i].of /\ outdated' = asks[i].old
         \/ permissions' = NoUser /\ outdated' = FALSE
      /\ UNCHANGED <<token, user, isLoading, flow, saves, cache, outlived, crossed>>
  BY DEF ReceivePermissions, LosePermissions, session, history
<1>2. asks \in Seq(Asks) /\ asks[i] \in Asks
  BY DEF IInv, SessionType
<1>3. asks' \in Seq(Asks) /\ \A k \in DOMAIN asks' : \E j \in DOMAIN asks : asks'[k] = asks[j]
  BY <1>1, <1>2, RemovedOnly
<1>4. asks[i].of \in UserOrNone /\ asks[i].old \in BOOLEAN
  BY <1>2 DEF Asks
<1>5. SessionType'
  <2>1. permissions' \in UserOrNone
    BY <1>1, <1>4 DEF UserOrNone
  <2>2. outdated' \in BOOLEAN
    BY <1>1, <1>4
  <2> QED
    BY <1>1, <1>3, <2>1, <2>2 DEF IInv, SessionType
<1>6. Who'
  BY <1>1 DEF IInv, Who
<1>7. AsksOfToken'
  <2>1. ~outlived => token # NoUser /\ \A j \in DOMAIN asks : asks[j].of = token
    BY DEF IInv, AsksOfToken
  <2> QED
    BY <1>1, <1>3, <2>1 DEF AsksOfToken
<1>8. PermissionsOfUser'
  BY <1>1 DEF IInv, AsksOfToken, PermissionsOfUser
<1>9. OldAsksOfSave'
  BY <1>1, <1>3 DEF IInv, OldAsksOfSave, SaveApplied
<1>10. CacheOfUser'
  BY <1>1 DEF IInv, CacheOfUser
<1>11. OwnRolesHeld'
  <2>1. outdated' /\ ~crossed /\ ~outlived => SaveApplied
    BY <1>1 DEF IInv, OldAsksOfSave
  <2> QED
    BY <1>1, <2>1 DEF OwnRolesHeld, SaveApplied
<1> QED
  BY <1>5, <1>6, <1>7, <1>8, <1>9, <1>10, <1>11 DEF IInv

LEMMA RetryKeeps ==
    ASSUME IInv, RetryPermissions
    PROVE  IInv'
<1>1. /\ user # NoUser /\ refreshPermissions(permissions)
      /\ UNCHANGED <<token, user, isLoading, flow, outdated, saves, cache, outlived>>
  BY DEF RetryPermissions, session
<1>2. token # NoUser
  BY <1>1 DEF IInv, Who
<1>3. /\ AsksOfToken' /\ PermissionsOfUser'
      /\ asks' \in Seq(Asks) /\ permissions' \in UserOrNone
      /\ permissionsLoading' \in BOOLEAN /\ crossed' \in BOOLEAN /\ permissionsLoading'
      /\ ~crossed' /\ ~outlived' => \A i \in DOMAIN asks' : ~asks'[i].old
  BY <1>1, <1>2, RefreshAsks
<1>4. SessionType'
  BY <1>1, <1>3 DEF IInv, SessionType
<1>5. Who' /\ CacheOfUser'
  BY <1>1 DEF IInv, Who, CacheOfUser
<1>6. OldAsksOfSave' /\ OwnRolesHeld'
  BY <1>3 DEF OldAsksOfSave, OwnRolesHeld
<1> QED
  BY <1>3, <1>4, <1>5, <1>6 DEF IInv

-----------------------------------------------------------------------------
\* The pages: only the address, or the cache.
LEMMA BrowseKeeps ==
    ASSUME IInv, (\E route \in DOMAIN Pages : Follow(route)) \/ Redirect \/ FetchPage
    PROVE  IInv'
<1>1. UNCHANGED <<token, user, isLoading, flow, permissions, outdated, permissionsLoading, asks,
                  saves, outlived, crossed>>
  BY DEF Follow, Redirect, FetchPage, session, held, history
<1>2. cache' = cache \/ (user # NoUser /\ ~isLoading /\ cache' = cache \cup {token})
  BY DEF Follow, Redirect, FetchPage, PageShown
<1>3. SessionType'
  BY <1>1 DEF IInv, SessionType
<1>4. Who'
  BY <1>1, <1>2 DEF IInv, Who
<1>5. AsksOfToken' /\ PermissionsOfUser'
  BY <1>1, TokenKept DEF IInv
<1>6. OldAsksOfSave' /\ OwnRolesHeld'
  BY <1>1, OldAsksKept, OwnRolesKept DEF IInv, history
<1>7. CacheOfUser'
  BY <1>1, <1>2 DEF IInv, CacheOfUser, Who
<1> QED
  BY <1>3, <1>4, <1>5, <1>6, <1>7 DEF IInv

-----------------------------------------------------------------------------
\* The changes of roles.
LEMMA SendSaveKeeps ==
    ASSUME IInv, SendSave
    PROVE  IInv'
<1> DEFINE sent == [of |-> token, applied |-> FALSE]
<1>1. /\ saves' = Append(saves, sent)
      /\ UNCHANGED <<token, user, isLoading, flow, permissions, outdated, permissionsLoading,
                     asks, cache, outlived, crossed>>
  BY DEF SendSave, session, held, history
<1>2. sent \in Saves /\ saves \in Seq(Saves)
  BY DEF IInv, SessionType, Saves
<1> HIDE DEF sent
<1>3. saves' \in Seq(Saves) /\ \A j \in DOMAIN saves : j \in DOMAIN saves' /\ saves'[j] = saves[j]
  BY <1>1, <1>2
<1>4. SaveApplied => SaveApplied'
  BY <1>3 DEF SaveApplied
<1>5. SessionType'
  BY <1>1, <1>3 DEF IInv, SessionType
<1>6. Who' /\ CacheOfUser'
  BY <1>1 DEF IInv, Who, CacheOfUser
<1>7. AsksOfToken' /\ PermissionsOfUser'
  BY <1>1, TokenKept DEF IInv
<1>8. OldAsksOfSave'
  BY <1>1, <1>4 DEF IInv, OldAsksOfSave
<1>9. OwnRolesHeld'
  BY <1>1, <1>4 DEF IInv, OwnRolesHeld, SaveApplied
<1> QED
  BY <1>5, <1>6, <1>7, <1>8, <1>9 DEF IInv

LEMMA ApplySaveKeeps ==
    ASSUME IInv, NEW i \in DOMAIN saves, ApplySave(i)
    PROVE  IInv'
<1>1. /\ saves' = [saves EXCEPT ![i].applied = TRUE]
      /\ UNCHANGED <<token, user, isLoading, flow, permissions, outdated, permissionsLoading,
                     cache, outlived, crossed>>
  BY DEF ApplySave, session, held, history
<1>2. PICK answered \in SUBSET DOMAIN asks :
        asks' = [a \in DOMAIN asks |-> [asks[a] EXCEPT !.old = @ \/ a \in answered]]
  BY DEF ApplySave
<1>3. saves \in Seq(Saves) /\ asks \in Seq(Asks)
  BY DEF IInv, SessionType
<1>4. saves' \in Seq(Saves) /\ SaveApplied'
  <2>1. saves[i] \in Saves
    BY <1>3
  <2>2. [saves[i] EXCEPT !.applied = TRUE] \in Saves /\ [saves[i] EXCEPT !.applied = TRUE].applied
    BY <2>1 DEF Saves
  <2>3. saves' \in Seq(Saves) /\ i \in DOMAIN saves' /\ saves'[i] = [saves[i] EXCEPT !.applied = TRUE]
    BY <1>1, <1>3, <2>2
  <2> QED
    BY <2>2, <2>3 DEF SaveApplied
<1>5. /\ asks' \in Seq(Asks) /\ DOMAIN asks' = DOMAIN asks
      /\ \A a \in DOMAIN asks : asks'[a].of = asks[a].of
  <2>1. \A a \in DOMAIN asks : /\ [asks[a] EXCEPT !.old = @ \/ a \in answered] \in Asks
                               /\ [asks[a] EXCEPT !.old = @ \/ a \in answered].of = asks[a].of
    <3> SUFFICES ASSUME NEW a \in DOMAIN asks
                 PROVE  /\ [asks[a] EXCEPT !.old = @ \/ a \in answered] \in Asks
                        /\ [asks[a] EXCEPT !.old = @ \/ a \in answered].of = asks[a].of
      OBVIOUS
    <3>1. asks[a] \in Asks
      BY <1>3
    <3>2. (asks[a].old \/ a \in answered) \in BOOLEAN
      BY <3>1 DEF Asks
    <3> QED
      BY <3>1, <3>2 DEF Asks
  <2>2. DOMAIN asks = 1 .. Len(asks) /\ Len(asks) \in Nat
    BY <1>3
  <2>3. \A a \in 1 .. Len(asks) : asks'[a] \in Asks /\ asks'[a].of = asks[a].of
    BY <1>2, <2>1, <2>2
  <2>4. asks' = [a \in 1 .. Len(asks) |-> asks'[a]]
    BY <1>2, <2>2
  <2>5. asks' \in Seq(Asks)
    BY <2>2, <2>3, <2>4
  <2>6. DOMAIN asks' = DOMAIN asks
    BY <1>2
  <2> QED
    BY <2>2, <2>3, <2>5, <2>6
<1>6. SessionType'
  BY <1>1, <1>4, <1>5 DEF IInv, SessionType
<1>7. Who' /\ CacheOfUser' /\ PermissionsOfUser'
  BY <1>1 DEF IInv, Who, CacheOfUser, PermissionsOfUser
<1>8. AsksOfToken'
  <2>1. asks = << >> => asks' = << >>
    BY <1>3, <1>5
  <2> QED
    BY <1>1, <1>5, <2>1 DEF IInv, AsksOfToken
<1>9. OldAsksOfSave' /\ OwnRolesHeld'
  BY <1>4 DEF OldAsksOfSave, OwnRolesHeld, SaveApplied
<1> QED
  BY <1>6, <1>7, <1>8, <1>9 DEF IInv

LEMMA ReceiveSaveKeeps ==
    ASSUME IInv, NEW i \in DOMAIN saves, ReceiveSave(i)
    PROVE  IInv'
<1>1. /\ saves' = RemoveAt(saves, i) /\ refreshPermissions(permissions)
      /\ outdated' = (permissions' # NoUser)
      /\ UNCHANGED <<token, user, isLoading, flow, cache, outlived>>
  BY DEF ReceiveSave, session
<1>2. /\ AsksOfToken' /\ PermissionsOfUser'
      /\ asks' \in Seq(Asks) /\ permissions' \in UserOrNone
      /\ permissionsLoading' \in BOOLEAN /\ crossed' \in BOOLEAN
      /\ ~crossed' /\ ~outlived' => \A a \in DOMAIN asks' : ~asks'[a].old
      /\ token # NoUser => permissionsLoading'
  BY <1>1, RefreshAsks
<1>3. saves' \in Seq(Saves)
  BY <1>1, RemovedOnly DEF IInv, SessionType
<1>4. SessionType'
  BY <1>1, <1>2, <1>3 DEF IInv, SessionType
<1>5. Who' /\ CacheOfUser'
  BY <1>1 DEF IInv, Who, CacheOfUser
<1>6. OldAsksOfSave'
  BY <1>2 DEF OldAsksOfSave
<1>7. OwnRolesHeld'
  <2>1. token = NoUser => permissions' = NoUser
    BY <1>1 DEF refreshPermissions
  <2> QED
    BY <1>1, <1>2, <2>1 DEF OwnRolesHeld
<1> QED
  BY <1>2, <1>4, <1>5, <1>6, <1>7 DEF IInv

LEMMA LoseSaveKeeps ==
    ASSUME IInv, NEW i \in DOMAIN saves, LoseSave(i)
    PROVE  IInv'
<1>1. /\ saves' = RemoveAt(saves, i) /\ crossed' = (crossed \/ saves[i].applied)
      /\ UNCHANGED <<token, user, isLoading, flow, permissions, outdated, permissionsLoading,
                     asks, cache, outlived>>
  BY DEF LoseSave, session, held
<1>2. saves \in Seq(Saves) /\ saves[i] \in Saves
  BY DEF IInv, SessionType
<1>3. saves' \in Seq(Saves)
  BY <1>1, <1>2, RemovedOnly
<1>4. ~crossed' => ~crossed /\ (SaveApplied => SaveApplied')
  <2> SUFFICES ASSUME ~crossed', SaveApplied PROVE SaveApplied'
    BY <1>1
  <2>1. PICK j \in DOMAIN saves : saves[j].applied
    BY DEF SaveApplied
  <2>2. i # j
    BY <1>1, <2>1
  <2>3. \E k \in DOMAIN saves' : saves'[k] = saves[j]
    BY <1>1, <1>2, <2>2, OthersStay
  <2> QED
    BY <2>1, <2>3 DEF SaveApplied
<1>5. SessionType'
  <2>1. crossed' \in BOOLEAN
    BY <1>1
  <2> QED
    BY <1>1, <1>3, <2>1 DEF IInv, SessionType
<1>6. Who' /\ CacheOfUser'
  BY <1>1 DEF IInv, Who, CacheOfUser
<1>7. AsksOfToken' /\ PermissionsOfUser'
  BY <1>1, TokenKept DEF IInv
<1>8. OldAsksOfSave'
  BY <1>1, <1>4 DEF IInv, OldAsksOfSave
<1>9. OwnRolesHeld'
  BY <1>1, <1>4 DEF IInv, OwnRolesHeld, SaveApplied
<1> QED
  BY <1>5, <1>6, <1>7, <1>8, <1>9 DEF IInv

-----------------------------------------------------------------------------
LEMMA InitInv == Init => IInv
<1> SUFFICES ASSUME Init PROVE IInv
  OBVIOUS
<1> USE DEF Init
<1>1. SessionType
  <2>1. token \in UserOrNone /\ isLoading \in BOOLEAN /\ flow \in Flows
    BY DEF Flows, NoFlow, UserOrNone
  <2>2. asks \in Seq(Asks) /\ saves \in Seq(Saves)
    OBVIOUS
  <2>3. permissions \in UserOrNone
    BY DEF UserOrNone
  <2> QED
    BY <2>1, <2>2, <2>3 DEF SessionType
<1>2. Who
  BY DEF Who, NoFlow
<1>3. AsksOfToken /\ PermissionsOfUser /\ OldAsksOfSave
  BY DEF AsksOfToken, PermissionsOfUser, OldAsksOfSave
<1>4. CacheOfUser /\ OwnRolesHeld
  BY DEF CacheOfUser, OwnRolesHeld
<1> QED
  BY <1>1, <1>2, <1>3, <1>4 DEF IInv

LEMMA NextInv == IInv /\ [Next]_vars => IInv'
<1> SUFFICES ASSUME IInv, [Next]_vars PROVE IInv'
  OBVIOUS
<1>1. ASSUME NEW u \in Arrivals, login(u) PROVE IInv'
  BY <1>1, LoginKeeps
<1>2. CASE SessionStep
  BY <1>2, LoginAcceptedKeeps, IdentifiedKeeps, SignedOutKeeps
     DEF SessionStep, NotIdentified, LoggedOut
<1>3. CASE logout
  BY <1>3, LogoutKeeps
<1>4. CASE AnswerPermissions
  BY <1>4, AnsweredKeeps DEF AnswerPermissions
<1>5. CASE RetryPermissions
  BY <1>5, RetryKeeps
<1>6. CASE Browse
  <2>1. ASSUME NEW route \in DOMAIN Pages, Load(route) PROVE IInv'
    BY <2>1, LoadKeeps
  <2> QED
    BY <1>6, <2>1, BrowseKeeps DEF Browse
<1>7. CASE Save
  BY <1>7, SendSaveKeeps, ApplySaveKeeps, ReceiveSaveKeeps, LoseSaveKeeps DEF Save
<1>8. CASE UNCHANGED vars
  <2>1. UNCHANGED <<token, user, isLoading, flow, permissions, outdated, permissionsLoading,
                    asks, saves, cache, outlived, crossed>>
    BY <1>8 DEF vars, session, held, history
  <2>2. SessionType'
    BY <2>1 DEF IInv, SessionType
  <2>3. Who' /\ CacheOfUser'
    BY <2>1 DEF IInv, Who, CacheOfUser
  <2>4. AsksOfToken' /\ PermissionsOfUser'
    BY <2>1, TokenKept DEF IInv
  <2>5. OldAsksOfSave' /\ OwnRolesHeld'
    BY <2>1, OldAsksKept, OwnRolesKept DEF IInv, history
  <2> QED
    BY <2>2, <2>3, <2>4, <2>5 DEF IInv
<1> QED
  BY <1>1, <1>2, <1>3, <1>4, <1>5, <1>6, <1>7, <1>8 DEF Next

LEMMA Invariance == Spec => []IInv
<1>1. Init => IInv
  BY InitInv
<1>2. IInv /\ [Next]_vars => IInv'
  BY NextInv
<1> QED
  BY <1>1, <1>2, PTL DEF Spec

-----------------------------------------------------------------------------
\* The gates a tab applies are those of the user whose token its requests carry, unless a
\* permission request outlived the session that made it.
THEOREM PermissionsAreOfUser == Spec => []PermissionsOfUser
<1>1. IInv => PermissionsOfUser
  BY DEF IInv
<1> QED
  BY <1>1, Invariance, PTL

\* Nobody finds in the query cache what somebody else was answered.
THEOREM CacheIsOfUser == Spec => []CacheOfUser
<1>1. IInv => CacheOfUser
  BY DEF IInv
<1> QED
  BY <1>1, Invariance, PTL

\* Once the answer of a change of roles is in and the permissions have been asked for again, a tab
\* holds permissions that know of it, unless two requests crossed.
THEOREM OwnRolesAreHeld == Spec => []OwnRolesHeld
<1>1. IInv => OwnRolesHeld
  BY DEF IInv
<1> QED
  BY <1>1, Invariance, PTL

-----------------------------------------------------------------------------
(***************************************************************************)
(* The address, and what a page shows. The address is always a page of the *)
(* client or the login page, where nothing of the client is shown.         *)
(***************************************************************************)
Bounded ==
    /\ page \in DOMAIN Pages \cup {LoginPage} /\ permissionsError \in BOOLEAN
    /\ Len(asks) <= MaxAsks /\ Len(saves) <= MaxSaves /\ cache \subseteq Users

\* Until it is answered, a request is one of those the tab has sent, and no more than the bound.
LEMMA RemovedShorter ==
    ASSUME NEW S, NEW s \in Seq(S), NEW i \in DOMAIN s
    PROVE  Len(RemoveAt(s, i)) <= Len(s)
<1>1. Len(s) \in Nat /\ i \in 1 .. Len(s)
  OBVIOUS
<1> DEFINE before == SubSeq(s, 1, i - 1)
           after == SubSeq(s, i + 1, Len(s))
<1>2. before \in Seq(S) /\ Len(before) = i - 1
  <2>1. \A m \in 1 .. i - 1 : s[m] \in S
    BY <1>1
  <2> QED
    BY <1>1, <2>1, SubSeqProperties
<1>3. after \in Seq(S) /\ Len(after) = Len(s) - i
  <2>1. \A m \in i + 1 .. Len(s) : s[m] \in S
    BY <1>1
  <2> QED
    BY <1>1, <2>1, SubSeqProperties
<1> HIDE DEF before, after
<1>4. Len(before \o after) = Len(before) + Len(after)
  BY <1>2, <1>3, ConcatProperties
<1>5. RemoveAt(s, i) = before \o after
  BY DEF RemoveAt, before, after
<1> QED
  BY <1>1, <1>2, <1>3, <1>4, <1>5

LEMMA RefreshBounded ==
    ASSUME NEW now, IInv, Len(asks) <= MaxAsks, refreshPermissions(now)
    PROVE  Len(asks') <= MaxAsks /\ permissionsError' \in BOOLEAN
<1>1. CASE token = NoUser
  BY <1>1 DEF refreshPermissions
<1>2. CASE token # NoUser
  <2> DEFINE asked == [of |-> token, old |-> FALSE]
  <2>1. asks \in Seq(Asks) /\ asked \in Asks
    BY DEF IInv, SessionType, Asks
  <2>2. Len(asks) < MaxAsks /\ asks' = Append(asks, asked)
    BY <1>2 DEF refreshPermissions
  <2> HIDE DEF asked
  <2>3. Len(asks') = Len(asks) + 1 /\ Len(asks) \in Nat
    BY <2>1, <2>2
  <2>4. permissionsError' = FALSE
    BY DEF refreshPermissions
  <2>5. MaxAsks \in Nat
    BY BoundsAssumption
  <2>6. Len(asks') <= MaxAsks
    BY <2>2, <2>3, <2>5
  <2> QED
    BY <2>4, <2>6
<1> QED
  BY <1>1, <1>2

\* A tab that loads, signs in or out, or is identified.
LEMMA SessionBounded ==
    ASSUME IInv, Bounded, (\E u \in Arrivals : login(u)) \/ SessionStep \/ logout
                         \/ (\E route \in DOMAIN Pages : Load(route))
    PROVE  Bounded'
<1>1. MaxAsks \in Nat /\ MaxSaves \in Nat
  BY BoundsAssumption
<1>2. ASSUME (\E u \in Arrivals : login(u)) \/ LoginAccepted \/ logout PROVE Bounded'
  BY <1>2 DEF Bounded, login, LoginAccepted, logout, held
<1>3. ASSUME SignedOut PROVE Bounded'
  BY <1>3 DEF Bounded, SignedOut
<1>4. ASSUME Identified PROVE Bounded'
  <2>1. Len(asks') <= MaxAsks /\ permissionsError' \in BOOLEAN
    BY <1>4, RefreshBounded DEF Identified, Bounded
  <2>2. page' \in DOMAIN Pages \cup {LoginPage} /\ saves' = saves /\ cache' \subseteq Users
    BY <1>4, PagesAssumption DEF Identified, Bounded
  <2> QED
    BY <2>1, <2>2 DEF Bounded
<1>5. ASSUME NEW route \in DOMAIN Pages, Load(route) PROVE Bounded'
  <2>1. asks' = << >> /\ saves' = << >> /\ cache' = {} /\ permissionsError' = FALSE
        /\ page' \in {LoginPage, route}
    BY <1>5 DEF Load
  <2>2. Len(<< >>) <= MaxAsks /\ Len(<< >>) <= MaxSaves
    BY <1>1
  <2> QED
    BY <2>1, <2>2 DEF Bounded
<1> QED
  BY <1>2, <1>3, <1>4, <1>5 DEF SessionStep, NotIdentified, LoggedOut

\* The answers, the pages and the changes of roles.
LEMMA RequestsBounded ==
    ASSUME IInv, Bounded, AnswerPermissions \/ RetryPermissions \/ Redirect \/ FetchPage \/ Save
                         \/ (\E route \in DOMAIN Pages : Follow(route))
    PROVE  Bounded'
<1>1. asks \in Seq(Asks) /\ saves \in Seq(Saves) /\ Len(asks) \in Nat /\ Len(saves) \in Nat
  BY DEF IInv, SessionType
<1>2. MaxAsks \in Nat /\ MaxSaves \in Nat
  BY BoundsAssumption
<1>3. CASE AnswerPermissions
  <2>1. PICK i \in DOMAIN asks : ReceivePermissions(i) \/ LosePermissions(i)
    BY <1>3 DEF AnswerPermissions
  <2>2. /\ asks' = RemoveAt(asks, i) /\ permissionsError' \in BOOLEAN
        /\ UNCHANGED <<page, saves, cache>>
    BY <2>1 DEF ReceivePermissions, LosePermissions
  <2>3. Len(asks') <= Len(asks) /\ Len(asks') \in Nat
    BY <1>1, <2>2, RemovedShorter, RemovedOnly
  <2> QED
    BY <1>1, <1>2, <2>2, <2>3 DEF Bounded
<1>4. CASE RetryPermissions
  <2>1. Len(asks') <= MaxAsks /\ permissionsError' \in BOOLEAN
    BY <1>4, RefreshBounded DEF RetryPermissions, Bounded
  <2> QED
    BY <1>4, <2>1 DEF RetryPermissions, Bounded
<1>5. CASE Redirect
  <2>1. page' = resolveEmployeeFmTicketRedirect[page] /\ page \in StaffTicketPages
        /\ UNCHANGED <<permissionsError, asks, saves, cache>>
    BY <1>5 DEF Redirect, held
  <2>2. page' \in {"/my-requests", "/my-requests/new", "/my-requests/f"}
    BY <2>1 DEF resolveEmployeeFmTicketRedirect, StaffTicketPages
  <2>3. page' \in DOMAIN Pages
    BY <2>2, PagesAssumption
  <2> QED
    BY <2>1, <2>3 DEF Bounded
<1>6. CASE FetchPage
  <2>1. token \in Users
    BY <1>6 DEF FetchPage, PageShown, IInv, SessionType, Who, UserOrNone
  <2> QED
    BY <1>6, <2>1 DEF FetchPage, Bounded, held
<1>7. ASSUME NEW route \in DOMAIN Pages, Follow(route) PROVE Bounded'
  BY <1>7 DEF Follow, Bounded, held
<1>8. CASE SendSave
  <2> DEFINE sent == [of |-> token, applied |-> FALSE]
  <2>1. Len(saves) < MaxSaves /\ saves' = Append(saves, sent) /\ sent \in Saves
        /\ UNCHANGED <<page, permissionsError, asks, cache>>
    BY <1>8 DEF SendSave, held, IInv, SessionType, Saves
  <2> HIDE DEF sent
  <2>2. Len(saves') = Len(saves) + 1
    BY <1>1, <2>1
  <2> QED
    BY <1>1, <1>2, <2>1, <2>2 DEF Bounded
<1>9. ASSUME NEW i \in DOMAIN saves, ApplySave(i) PROVE Bounded'
  <2>1. /\ saves' = [saves EXCEPT ![i].applied = TRUE] /\ UNCHANGED <<page, permissionsError, cache>>
        /\ \E answered \in SUBSET DOMAIN asks :
               asks' = [a \in DOMAIN asks |-> [asks[a] EXCEPT !.old = @ \/ a \in answered]]
    BY <1>9 DEF ApplySave, held
  <2>2. DOMAIN asks' = DOMAIN asks /\ DOMAIN saves' = DOMAIN saves
    BY <2>1
  <2>3. asks' \in Seq(Asks) /\ saves' \in Seq(Saves)
    BY <1>9, ApplySaveKeeps DEF IInv, SessionType
  <2>4. Len(asks') = Len(asks) /\ Len(saves') = Len(saves)
    BY <1>1, <2>2, <2>3
  <2> QED
    BY <2>1, <2>4 DEF Bounded
<1>10. ASSUME NEW i \in DOMAIN saves, ReceiveSave(i) \/ LoseSave(i) PROVE Bounded'
  <2>1. saves' = RemoveAt(saves, i) /\ UNCHANGED <<page, cache>>
    BY <1>10 DEF ReceiveSave, LoseSave
  <2>2. Len(saves') <= Len(saves) /\ Len(saves') \in Nat
    BY <1>1, <2>1, RemovedShorter, RemovedOnly
  <2>3. Len(asks') <= MaxAsks /\ permissionsError' \in BOOLEAN
    BY <1>10, RefreshBounded DEF ReceiveSave, LoseSave, Bounded, held
  <2> QED
    BY <1>1, <1>2, <2>1, <2>2, <2>3 DEF Bounded
<1> QED
  BY <1>3, <1>4, <1>5, <1>6, <1>7, <1>8, <1>9, <1>10 DEF Save

LEMMA BoundedInvariance == Spec => []Bounded
<1>1. Init => Bounded
  <2> SUFFICES ASSUME Init PROVE Bounded
    OBVIOUS
  <2>1. Len(<< >>) <= MaxAsks /\ Len(<< >>) <= MaxSaves
    BY BoundsAssumption
  <2> QED
    BY <2>1, PagesAssumption DEF Init, Bounded
<1>2. IInv /\ Bounded /\ [Next]_vars => Bounded'
  <2>1. ASSUME IInv, Bounded, UNCHANGED vars PROVE Bounded'
    BY <2>1 DEF Bounded, vars, held
  <2> QED
    BY <2>1, SessionBounded, RequestsBounded DEF Next, Browse
<1> QED
  BY <1>1, <1>2, Invariance, PTL DEF Spec

\* What is shown is what the page shows to its user, or to a role without permissions.
LEMMA ShownByGates ==
    ASSUME IInv, Bounded, PageShown
    PROVE  /\ page \in DOMAIN Pages /\ gates \in Roles /\ token \in Roles /\ Enter(page, gates)
           /\ ~outlived => gates \in {token, "inspector"}
<1>1. token \in Users /\ permissions \in Users \cup {NoUser}
  BY DEF PageShown, IInv, SessionType, Who, UserOrNone
<1>2. gates \in Roles /\ token \in Roles
  BY <1>1, UsersAssumption DEF gates, Roles
<1>3. page \in DOMAIN Pages
  BY DEF PageShown, Bounded
<1>4. Enter(page, gates)
  BY <1>2 DEF PageShown, Enter, Anyone
<1>5. ~outlived => gates \in {token, "inspector"}
  BY DEF IInv, PermissionsOfUser, gates
<1> QED
  BY <1>2, <1>3, <1>4, <1>5

-----------------------------------------------------------------------------
\* Everything a tab holds stays in its set; in particular the address is always a page that exists.
THEOREM TypesOfSession == Spec => []TypeOK
<1>1. IInv /\ Bounded => TypeOK
  BY DEF IInv, SessionType, Who, UserOrNone, Bounded, TypeOK
<1> QED
  BY <1>1, Invariance, BoundedInvariance, PTL

\* However sessions, permission requests and pages follow one another, a page asks only for what
\* the server grants the user whose token it sends.
THEOREM ReadsAreGranted == Spec => []ReadsGranted
<1>1. IInv /\ Bounded => ReadsGranted
  BY ShownByGates, GatesAssumption DEF ReadsGranted, GatesAgree
<1> QED
  BY <1>1, Invariance, BoundedInvariance, PTL

\* However sessions, permission requests and pages follow one another, a page offers only the
\* changes the server lets the user make whose token it sends.
THEOREM OffersAreGranted == Spec => []OffersGranted
<1>1. IInv /\ Bounded => OffersGranted
  BY ShownByGates, GatesAssumption DEF OffersGranted, GatesAgree
<1> QED
  BY <1>1, Invariance, BoundedInvariance, PTL

\* No page that is shown has a link to a page that is not there or refuses its user.
THEOREM LinksOpen == Spec => []NoDeadLinks
<1>1. IInv /\ Bounded => NoDeadLinks
  BY ShownByGates, GatesAssumption DEF NoDeadLinks, GatesAgree
<1> QED
  BY <1>1, Invariance, BoundedInvariance, PTL

=============================================================================
