---- MODULE AdminAccessProofs ----
(* Proofs about AdminAccess for any number of tabs, browsers, users, permissions,
   sessions and confirmations, and any length of either. *)
EXTENDS AdminAccess, WellFoundedInduction, TLAPS

-----------------------------------------------------------------------------
(* The steps, one disjunct per action. *)

TabStep(t) ==
    \/ Ask(t) \/ Navigate(t)
    \/ FindUser(t) \/ CreateSession(t)
    \/ FindSession(t) \/ FindHolder(t) \/ FindGrants(t)
    \/ Authorise(t) \/ Operate(t)
    \/ FindAgain(t) \/ CreateGrant(t)
    \/ RevokeSession(t) \/ RevokeGrants(t)
    \/ Answer(t) \/ Fail(t)

ScriptStep == \E x \in Scripts : FindOwner(x) \/ CreateOwner(x)

LEMMA StepCases ==
  ASSUME [Next]_vars
  PROVE  \/ Tick
         \/ ScriptStep
         \/ \E u \in Users : Disable(u)
         \/ \E t \in Tabs : TabStep(t)
         \/ UNCHANGED vars
  BY DEF Next, Serve, TabStep, ScriptStep

-----------------------------------------------------------------------------
(* The expiry a copy of the confirmations carries is a number. *)

LEMMA LeastElement ==
  ASSUME NEW T, T \subseteq Nat, T # {}
  PROVE  \E m \in T : \A y \in T : ~(y < m)
  <1> DEFINE R == OpToRel(<, Nat)
  <1>1. IsWellFoundedOn(R, Nat)
    BY NatLessThanWellFounded
  <1>2. \A x, y \in Nat : x < y => <<x, y>> \in R
    BY Zenon DEF OpToRel
  <1> HIDE DEF R
  <1>3. PICK m \in T : \A y \in T : <<y, m>> \notin R
    BY <1>1, WFMin
  <1>4. QED
    BY <1>2, <1>3

LEMMA MaxIsMember ==
  ASSUME NEW B \in Nat, NEW S, S \subseteq 0..B, S # {}
  PROVE  Max(S) \in S
  <1> DEFINE T == {B - x : x \in S}
  <1>1. T \subseteq Nat /\ T # {}
    <2>1. \A x \in S : B - x \in Nat
      OBVIOUS
    <2>2. PICK x \in S : TRUE
      OBVIOUS
    <2>3. B - x \in T
      OBVIOUS
    <2>4. QED
      BY <2>1, <2>3
  <1>2. PICK m \in T : \A y \in T : ~(y < m)
    <2> HIDE DEF T
    <2>1. QED
      BY <1>1, LeastElement
  <1>3. PICK x \in S : m = B - x
    BY <1>2
  <1>4. ASSUME NEW y \in S PROVE x >= y
    <2>1. ~(B - y < B - x)
      BY <1>2, <1>3
    <2>2. x \in Nat /\ y \in Nat
      OBVIOUS
    <2>3. QED
      BY <2>1, <2>2
  <1>5. QED
    BY <1>4 DEF Max

LEMMA Numbers ==
  /\ SessionMinutes \in Nat /\ StepUpMinutes \in Nat \ {0}
  /\ MaxTime \in Nat /\ MaxBegun \in Nat
  BY AdminAssumption

LEMMA Zero == 0 \in 0..MaxTime
  BY Numbers

LEMMA StepUpTyped ==
  ASSUME AccessTypeOK, RowsKnown, NEW active \in SUBSET {g \in Grants : grant[g] # None}
  PROVE  StepUpOf(active) \in StepUpType \cup {None}
  <1>0. MaxTime + StepUpMinutes \in Nat
    BY Numbers
  <1>1. ASSUME NEW g \in active
        PROVE  /\ grant[g].codes \subseteq Asked
               /\ grant[g].expiresAt \in 0..(MaxTime + StepUpMinutes)
    <2>1. g \in Grants /\ grant[g] # None
      OBVIOUS
    <2>2. grant[g] \in GrantRow
      BY <2>1 DEF AccessTypeOK
    <2>3. grant[g].verifiedAt \in 0..MaxTime
          /\ grant[g].expiresAt = grant[g].verifiedAt + StepUpMinutes
      BY <2>1 DEF RowsKnown
    <2>4. grant[g].expiresAt \in 0..(MaxTime + StepUpMinutes)
      BY <2>3, Numbers
    <2>5. QED
      BY <2>2, <2>4 DEF GrantRow
  <1>2. CASE active = {}
    BY <1>2 DEF StepUpOf
  <1>3. CASE active # {}
    <2> DEFINE ends == {grant[g].expiresAt : g \in active}
    <2>1. ends \subseteq 0..(MaxTime + StepUpMinutes) /\ ends # {}
      BY <1>1, <1>3
    <2>2. Max(ends) \in Nat
      <3> HIDE DEF ends
      <3>1. Max(ends) \in ends
        BY <1>0, <2>1, MaxIsMember
      <3>2. \A n \in 0..(MaxTime + StepUpMinutes) : n \in Nat
        BY <1>0
      <3>3. QED
        BY <2>1, <3>1, <3>2
    <2>3. UNION {grant[g].codes : g \in active} \subseteq Asked
      BY <1>1
    <2>4. QED
      BY <1>3, <2>2, <2>3 DEF StepUpOf, StepUpType
  <1>4. QED
    BY <1>2, <1>3

-----------------------------------------------------------------------------
(* What happens to rows: sessions and confirmations are only ever revoked, and a
   user who is not active does not become so again. *)

RowsEnd ==
    /\ \A s \in Sessions : session[s] # None =>
         session'[s] \in {session[s], [session[s] EXCEPT !.revoked = TRUE]}
    /\ \A g \in Grants : grant[g] # None =>
         grant'[g] \in {grant[g], [grant[g] EXCEPT !.revoked = TRUE]}

UsersEnd ==
    \A u \in Users : users[u].status # "absent" =>
      /\ users'[u].status # "absent"
      /\ users[u].status # "active" => users'[u].status # "active"

\* The actions that write rows.
RowStep ==
    \/ \E x \in Scripts : CreateOwner(x)
    \/ \E u \in Users : Disable(u)
    \/ \E t \in Tabs : CreateSession(t) \/ CreateGrant(t) \/ RevokeSession(t) \/ RevokeGrants(t)

LEMMA RowCases ==
  ASSUME [Next]_vars
  PROVE  RowStep \/ UNCHANGED rows
  <1>1. ASSUME NEW t \in Tabs, TabStep(t) PROVE RowStep \/ UNCHANGED rows
    BY <1>1 DEF TabStep, RowStep, Ask, Navigate, FindUser, FindSession, FindHolder, FindGrants,
                Authorise, Operate, FindAgain, Answer, Fail
  <1>2. ASSUME ScriptStep PROVE RowStep \/ UNCHANGED rows
    BY <1>2 DEF ScriptStep, RowStep, FindOwner
  <1>3. QED
    BY <1>1, <1>2, StepCases DEF RowStep, Tick, vars

LEMMA RowsStep ==
  ASSUME AccessTypeOK, [Next]_vars
  PROVE  RowsEnd /\ UsersEnd
  <1>0. /\ session \in [Sessions -> SessionRow \cup {None}]
        /\ grant \in [Grants -> GrantRow \cup {None}]
        /\ users \in [Users -> [status : {"absent", "active", "disabled"}, roles : SUBSET Roles]]
    BY DEF AccessTypeOK
  <1>1. UNCHANGED <<session, grant>> => RowsEnd
    BY DEF RowsEnd
  <1>2. UNCHANGED users => UsersEnd
    BY DEF UsersEnd
  <1>3. ASSUME NEW x \in Scripts, CreateOwner(x) PROVE RowsEnd /\ UsersEnd
    <2>1. PICK u \in Users :
            users[u] = NoUser /\ \E new : users' = [users EXCEPT ![u] = new]
      BY <1>3 DEF CreateOwner
    <2>2. UsersEnd
      BY <1>0, <2>1 DEF UsersEnd, NoUser
    <2>3. QED
      BY <1>1, <1>3, <2>2 DEF CreateOwner
  <1>4. ASSUME NEW u \in Users, Disable(u) PROVE RowsEnd /\ UsersEnd
    <2>1. users' = [users EXCEPT ![u].status = "disabled"]
      BY <1>4 DEF Disable
    <2>2. \A v \in Users : users'[v].status \in {users[v].status, "disabled"}
      BY <1>0, <2>1
    <2>3. QED
      BY <1>1, <1>4, <2>2 DEF Disable, UsersEnd
  <1>5. ASSUME NEW t \in Tabs, CreateSession(t) PROVE RowsEnd /\ UsersEnd
    <2>1. PICK s \in Sessions : session[s] = None /\ \E new : session' = [session EXCEPT ![s] = new]
      BY <1>5 DEF CreateSession
    <2>2. UNCHANGED <<grant, users>>
      BY <1>5 DEF CreateSession
    <2>3. QED
      BY <1>0, <1>2, <2>1, <2>2 DEF RowsEnd
  <1>6. ASSUME NEW t \in Tabs, CreateGrant(t) PROVE RowsEnd /\ UsersEnd
    <2>1. PICK g \in Grants : grant[g] = None /\ \E new : grant' = [grant EXCEPT ![g] = new]
      BY <1>6 DEF CreateGrant
    <2>2. UNCHANGED <<session, users>>
      BY <1>6 DEF CreateGrant
    <2>3. QED
      BY <1>0, <1>2, <2>1, <2>2 DEF RowsEnd
  <1>7. ASSUME NEW t \in Tabs, RevokeSession(t) PROVE RowsEnd /\ UsersEnd
    <2>1. PICK s : session' = [session EXCEPT ![s].revoked = TRUE]
      BY <1>7 DEF RevokeSession
    <2>2. UNCHANGED <<grant, users>>
      BY <1>7 DEF RevokeSession
    <2>3. QED
      BY <1>0, <1>2, <2>1, <2>2 DEF RowsEnd
  <1>8. ASSUME NEW t \in Tabs, RevokeGrants(t) PROVE RowsEnd /\ UsersEnd
    <2>1. /\ \A g \in Grants : grant'[g] \in {grant[g], [grant[g] EXCEPT !.revoked = TRUE]}
          /\ UNCHANGED <<session, users>>
      BY <1>8 DEF RevokeGrants
    <2>2. QED
      BY <1>2, <2>1 DEF RowsEnd
  <1>9. CASE UNCHANGED rows
    BY <1>1, <1>2, <1>9 DEF rows
  <1>10. QED
    BY <1>3, <1>4, <1>5, <1>6, <1>7, <1>8, <1>9, RowCases DEF RowStep

-----------------------------------------------------------------------------
(* A request that does not move stays in order while the others' steps end rows. *)

LEMMA OthersInOrder ==
  ASSUME AccessTypeOK, RowsEnd, UsersEnd, RowsKnown,
         NEW t \in Tabs, RequestInOrder(request[t]), request'[t] = request[t]
  PROVE  RequestInOrder(request[t])'
  <1> DEFINE r == request[t]
  <1>1. /\ r.token \in Sessions \cup {None} /\ r.user \in Users \cup {None} /\ r.at \in Nat
        /\ None \notin Sessions
    BY AdminAssumption DEF AccessTypeOK, RequestType
  <1>2. ASSUME NEW s \in Sessions, session[s] # None
        PROVE  /\ session'[s] # None
               /\ session'[s].user = session[s].user
               /\ session'[s].expiresAt = session[s].expiresAt
               /\ session[s].revoked => session'[s].revoked
               /\ session[s].user \in Users
               /\ users[session[s].user].status # "absent"
    <2>1. session[s] \in SessionRow
      BY <1>2 DEF AccessTypeOK
    <2>2. session'[s] \in SessionRow
      BY <1>2, <2>1 DEF RowsEnd, SessionRow
    <2>3. QED
      BY <1>2, <2>1, <2>2, NoneAssumption DEF RowsEnd, RowsKnown, SessionRow
  <1>3. ASSUME NEW g \in Grants, grant[g] # None
        PROVE  /\ grant'[g] # None
               /\ grant'[g].session = grant[g].session
               /\ grant'[g].codes = grant[g].codes
               /\ grant'[g].verifiedAt = grant[g].verifiedAt
    <2>1. grant[g] \in GrantRow
      BY <1>3 DEF AccessTypeOK
    <2>2. grant'[g] \in GrantRow
      BY <1>3, <2>1 DEF RowsEnd, GrantRow
    <2>3. QED
      BY <1>3, <2>1, <2>2, NoneAssumption DEF RowsEnd, GrantRow
  <1>4. HandlerKnows(r)'
    <2>1. HandlerKnows(r)
      BY DEF RequestInOrder
    <2>2. QED
      BY <1>1, <1>2, <2>1 DEF HandlerKnows, UsersEnd, WithSession, WithHolder
  <1>5. LateStopped(r)'
    <2>1. LateStopped(r) /\ HandlerKnows(r)
      BY DEF RequestInOrder
    <2>2. QED
      BY <1>1, <1>2, <2>1 DEF LateStopped, HandlerKnows, UsersEnd, WithSession, WithHolder
  <1>6. LogoutRevokes(r)'
    <2>1. LogoutRevokes(r) /\ HandlerKnows(r)
      BY DEF RequestInOrder
    <2>2. QED
      BY <1>1, <1>2, <2>1 DEF LogoutRevokes, HandlerKnows
  <1>7. CopyConfirmed(r)'
    <2>1. CopyConfirmed(r)
      BY DEF RequestInOrder
    <2>2. ASSUME NEW g \in Grants, NEW p, Confirms(g, r, p) PROVE Confirms(g, r, p)'
      BY <1>3, <2>2 DEF Confirms
    <2>3. QED
      BY <2>1, <2>2 DEF CopyConfirmed
  <1>8. QED
    BY <1>4, <1>5, <1>6, <1>7 DEF RequestInOrder

-----------------------------------------------------------------------------
(* Where a step leaves the request it serves. *)

Moved(t) ==
    /\ request' \in [Tabs -> RequestType]
    /\ RequestInOrder(request[t])'
    /\ \A u \in Tabs \ {t} : request'[u] = request[u]

LEMMA IdleTyped == Idle \in RequestType
  BY Zero DEF Idle, RequestType, Stages

\* The request a handler goes on with.
LEMMA PutIn ==
  ASSUME AccessTypeOK, NEW t \in Tabs, NEW new \in RequestType,
         request' = [request EXCEPT ![t] = new]
  PROVE  /\ request'[t] = new
         /\ request' \in [Tabs -> RequestType]
         /\ \A u \in Tabs \ {t} : request'[u] = request[u]
  BY DEF AccessTypeOK

\* An answer, or no request at all, has nothing left to be in order but a logout's success.
LEMMA AnswerInOrder ==
  ASSUME AccessTypeOK, NEW t \in Tabs, NEW new \in RequestType,
         request' = [request EXCEPT ![t] = new],
         new.stage \in {"idle", "answer"},
         new.token # None => session'[new.token] # None,
         new.kind # "step_up" \/ new.wants = {},
         new.kind = "logout" /\ new.stage = "answer" /\ new.ok =>
            new.token # None /\ session'[new.token].revoked
  PROVE  Moved(t)
  <1>1. /\ request'[t] = new
        /\ request' \in [Tabs -> RequestType]
        /\ \A u \in Tabs \ {t} : request'[u] = request[u]
    BY DEF AccessTypeOK
  <1>2. RequestInOrder(request[t])'
    BY <1>1 DEF RequestInOrder, HandlerKnows, LateStopped, LogoutRevokes, CopyConfirmed,
                WithSession, WithHolder
  <1>3. QED
    BY <1>1, <1>2 DEF Moved

LEMMA FinishInOrder ==
  ASSUME AccessTypeOK, NEW t \in Tabs, NEW ok \in BOOLEAN, Finish(t, ok),
         request[t].token # None => session'[request[t].token] # None,
         request[t].kind = "logout" /\ ok =>
            request[t].token # None /\ session'[request[t].token].revoked
  PROVE  Moved(t)
  <1> DEFINE new == [Idle EXCEPT !.stage = "answer", !.kind = request[t].kind,
                                 !.token = request[t].token, !.ok = ok]
  <1>1. /\ request[t].kind \in {"none", "login", "page", "use", "logout", "step_up"}
        /\ request[t].token \in Sessions \cup {None}
    BY DEF AccessTypeOK, RequestType
  <1>2. /\ new \in RequestType
        /\ new.stage = "answer" /\ new.kind = request[t].kind
        /\ new.token = request[t].token /\ new.ok = ok /\ new.wants = {}
    BY <1>1, Zero DEF Idle, RequestType, Stages
  <1>3. request' = [request EXCEPT ![t] = new]
    BY DEF Finish
  <1> HIDE DEF new
  <1>4. QED
    BY <1>2, <1>3, AnswerInOrder

\* What a tab sends: a late request is late for a reason its restore will meet.
LEMMA SentInOrder ==
  ASSUME AccessTypeOK, RowsKnown, UNCHANGED <<rows>>, NEW t \in Tabs,
         NEW kind, NEW stage, NEW wants \in SUBSET (Permissions \cup Asked),
         \/ kind = "login" /\ stage = "find_user"
         \/ kind \in {"page", "use", "logout", "step_up"} /\ stage = "find_session",
         kind = "step_up" => wants \subseteq Asked,
         Send(t, kind, stage, wants)
  PROVE  Moved(t)
  <1> DEFINE token == cookie[JarOf[t]]
             new == Asking(t, kind, stage, wants)
  <1>1. /\ token \in Sessions \cup {None}
        /\ token # None => session[token] # None
        /\ now \in 0..MaxTime
    BY AdminAssumption DEF AccessTypeOK, RowsKnown, Browsers
  <1>2. /\ new.kind = kind /\ new.token = token /\ new.at = now /\ new.wants = wants
        /\ new.ok = FALSE /\ new.late = (kind = "use" /\ Dead(token))
        /\ new.stage = (IF stage = "find_session" /\ token = None THEN "answer" ELSE stage)
        /\ new.user = None /\ new.held = {} /\ new.stepUp = None
    BY DEF Asking, Idle
  <1>3. new \in RequestType
    <2>1. Dead(token) \in BOOLEAN
      BY <1>1 DEF Dead, Live, AccessTypeOK
    <2>2. QED
      BY <1>1, <2>1 DEF Asking, Idle, RequestType, Stages
  <1>4. request' = [request EXCEPT ![t] = new]
    BY DEF Send
  <1>5. new.late => Dead(token)
    <2>1. ASSUME ~Dead(token) PROVE new.late = FALSE
      BY <2>1 DEF Asking, Idle
    <2>2. QED
      BY <2>1
  <1> HIDE DEF new
  <1>6. new.late /\ token # None =>
          \/ session[token].revoked
          \/ session[token].expiresAt <= now
          \/ users[session[token].user].status # "active"
    <2>1. ASSUME token # None
          PROVE  session[token].expiresAt \in Nat
      BY <1>1, <2>1 DEF AccessTypeOK, SessionRow
    <2>2. QED
      BY <1>1, <1>5, <2>1 DEF Dead, Live
  <1>7. /\ request'[t] = new
        /\ request' \in [Tabs -> RequestType]
        /\ \A u \in Tabs \ {t} : request'[u] = request[u]
    BY <1>3, <1>4, PutIn
  <1>8. RequestInOrder(request[t])'
    BY <1>1, <1>2, <1>6, <1>7 DEF RequestInOrder, HandlerKnows, LateStopped, LogoutRevokes,
       CopyConfirmed, WithSession, WithHolder, rows
  <1>9. QED
    BY <1>7, <1>8 DEF Moved

-----------------------------------------------------------------------------
(* The actions, one by one. *)

LEMMA OldInOrder ==
  ASSUME AccessTypeOK, RequestsInOrder, NEW t \in Tabs
  PROVE  /\ request[t] \in RequestType
         /\ HandlerKnows(request[t]) /\ LateStopped(request[t])
         /\ LogoutRevokes(request[t]) /\ CopyConfirmed(request[t])
         /\ request[t].token \in Sessions \cup {None}
         /\ None \notin Sessions
  BY AdminAssumption DEF AccessTypeOK, RequestsInOrder, RequestInOrder, RequestType

LEMMA MovedByBrowser ==
  ASSUME AccessTypeOK, RowsKnown, RequestsInOrder, NEW t \in Tabs,
         Ask(t) \/ Navigate(t) \/ Fail(t)
  PROVE  Moved(t)
  <1>1. CASE Ask(t)
    <2>1. UNCHANGED <<rows>>
      BY <1>1 DEF Ask, rows
    <2>2. CASE Send(t, "login", "find_user", {})
      BY <2>1, <2>2, SentInOrder
    <2>3. ASSUME NEW p \in Permissions, Send(t, "use", "find_session", {p}) PROVE Moved(t)
      BY <2>1, <2>3, SentInOrder
    <2>4. CASE Send(t, "logout", "find_session", {})
      BY <2>1, <2>4, SentInOrder
    <2>5. ASSUME NEW code \in Asked, Send(t, "step_up", "find_session", {code}) PROVE Moved(t)
      BY <2>1, <2>5, SentInOrder
    <2>6. QED
      BY <1>1, <2>2, <2>3, <2>4, <2>5 DEF Ask
  <1>2. CASE Navigate(t)
    <2>1. UNCHANGED <<rows>> /\ Send(t, "page", "find_session", {})
      BY <1>2 DEF Navigate, rows
    <2>2. QED
      BY <2>1, SentInOrder
  <1>3. CASE Fail(t)
    <2>1. UNCHANGED <<rows>>
      BY <1>3 DEF Fail, rows
    <2>2. CASE Send(t, "page", "find_session", {})
      BY <2>1, <2>2, SentInOrder
    <2>3. CASE request' = [request EXCEPT ![t] = Idle]
      <3>1. /\ Idle.stage = "idle" /\ Idle.token = None /\ Idle.kind = "none"
            /\ Idle \in RequestType
        BY IdleTyped DEF Idle
      <3>2. QED
        BY <2>3, <3>1, AnswerInOrder
    <2>4. QED
      BY <1>3, <2>2, <2>3 DEF Fail
  <1>4. QED
    BY <1>1, <1>2, <1>3

LEMMA MovedByLogin ==
  ASSUME AccessTypeOK, RowsKnown, RequestsInOrder, NEW t \in Tabs,
         FindUser(t) \/ CreateSession(t)
  PROVE  Moved(t)
  <1> DEFINE r == request[t]
  <1>0. /\ r \in RequestType /\ HandlerKnows(r)
        /\ r.token # None => session[r.token] # None
    BY OldInOrder DEF HandlerKnows
  <1>1. CASE FindUser(t)
    <2>1. ASSUME NEW u \in Users, users[u].status = "active",
                 request' = [request EXCEPT ![t].stage = "create_session", ![t].user = u]
          PROVE  Moved(t)
      <3> DEFINE new == [r EXCEPT !.stage = "create_session", !.user = u]
      <3>1. /\ new \in RequestType
            /\ new.stage = "create_session" /\ new.user = u /\ new.kind = r.kind
            /\ new.token = r.token /\ new.wants = r.wants /\ new.late = r.late
        BY <1>0 DEF RequestType, Stages
      <3>2. request' = [request EXCEPT ![t] = new]
        BY <1>0, <2>1 DEF AccessTypeOK
      <3> HIDE DEF new
      <3>3. UNCHANGED rows /\ u # None
        BY <1>1, AdminAssumption DEF FindUser
      <3>4. /\ request'[t] = new
            /\ request' \in [Tabs -> RequestType]
            /\ \A v \in Tabs \ {t} : request'[v] = request[v]
        BY <3>1, <3>2, PutIn
      <3>5. RequestInOrder(request[t])'
        BY <1>0, <2>1, <3>1, <3>3, <3>4 DEF RequestInOrder, HandlerKnows, LateStopped,
           LogoutRevokes, CopyConfirmed, WithSession, WithHolder, rows
      <3>6. QED
        BY <3>4, <3>5 DEF Moved
    <2>2. CASE Finish(t, FALSE)
      <3>1. UNCHANGED session
        BY <1>1 DEF FindUser, rows
      <3>2. QED
        BY <1>0, <2>2, <3>1, FinishInOrder
    <2>3. QED
      BY <1>1, <2>1, <2>2 DEF FindUser
  <1>2. CASE CreateSession(t)
    <2>1. PICK s \in Sessions :
            /\ session' = [session EXCEPT ![s] =
                   [user |-> r.user, expiresAt |-> r.at + SessionMinutes, revoked |-> FALSE]]
            /\ request' = [request EXCEPT ![t] =
                   [Idle EXCEPT !.stage = "answer", !.kind = "login", !.token = s, !.ok = TRUE]]
      BY <1>2 DEF CreateSession
    <2> DEFINE new == [Idle EXCEPT !.stage = "answer", !.kind = "login", !.token = s, !.ok = TRUE]
    <2>2. /\ new \in RequestType
          /\ new.stage = "answer" /\ new.kind = "login" /\ new.token = s
      BY Zero DEF Idle, RequestType, Stages
    <2>3. session'[s] # None
      <3>1. r.user # None /\ r.user \in Users /\ r.at \in 0..MaxTime
        BY <1>0, <1>2 DEF CreateSession, HandlerKnows, RequestType
      <3>2. [user |-> r.user, expiresAt |-> r.at + SessionMinutes, revoked |-> FALSE]
              \in SessionRow
        BY <3>1, Numbers DEF SessionRow
      <3>3. QED
        BY <2>1, <3>2, NoneAssumption DEF AccessTypeOK
    <2>4. request' = [request EXCEPT ![t] = new]
      BY <2>1
    <2> HIDE DEF new
    <2>5. QED
      BY <2>2, <2>3, <2>4, AnswerInOrder
  <1>3. QED
    BY <1>1, <1>2

\* Going on to another step of the handler.
LEMMA Goes ==
  ASSUME AccessTypeOK, NEW t \in Tabs, NEW stage \in Stages, Goto(t, stage)
  PROVE  /\ request'[t] = [request[t] EXCEPT !.stage = stage]
         /\ request'[t] \in RequestType /\ request'[t].stage = stage
         /\ request'[t].kind = request[t].kind /\ request'[t].token = request[t].token
         /\ request'[t].at = request[t].at /\ request'[t].user = request[t].user
         /\ request'[t].stepUp = request[t].stepUp /\ request'[t].wants = request[t].wants
         /\ request'[t].late = request[t].late
         /\ request' \in [Tabs -> RequestType]
         /\ \A u \in Tabs \ {t} : request'[u] = request[u]
  <1> DEFINE new == [request[t] EXCEPT !.stage = stage]
  <1>0. request[t] \in RequestType
    BY DEF AccessTypeOK
  <1>1. /\ new \in RequestType /\ new.stage = stage
        /\ new.kind = request[t].kind /\ new.token = request[t].token
        /\ new.at = request[t].at /\ new.user = request[t].user
        /\ new.stepUp = request[t].stepUp /\ new.wants = request[t].wants
        /\ new.late = request[t].late
    BY <1>0 DEF RequestType
  <1>2. request' = [request EXCEPT ![t] = new]
    BY DEF AccessTypeOK, Goto
  <1> HIDE DEF new
  <1>3. QED
    <2>1. request'[t] = new
      BY <1>1, <1>2, PutIn
    <2>2. QED
      BY <1>1, <1>2, <2>1, PutIn DEF new

LEMMA NotRestoredInOrder ==
  ASSUME AccessTypeOK, RequestsInOrder, NEW t \in Tabs, UNCHANGED <<rows>>,
         request[t].stage \in {"find_session", "find_holder"}, NotRestored(t)
  PROVE  Moved(t)
  <1>0. HandlerKnows(request[t]) /\ request[t].token # None /\ UNCHANGED session
    BY OldInOrder DEF HandlerKnows, WithSession, rows
  <1>1. CASE request[t].kind = "logout"
    <2>1. Goto(t, "revoke_session") /\ "revoke_session" \in Stages
      BY <1>1 DEF NotRestored, Stages
    <2>2. /\ request'[t].stage = "revoke_session" /\ request'[t].kind = "logout"
          /\ request'[t].token = request[t].token
          /\ request' \in [Tabs -> RequestType]
          /\ \A u \in Tabs \ {t} : request'[u] = request[u]
      BY <1>1, <2>1, Goes
    <2>3. RequestInOrder(request[t])'
      BY <1>0, <2>2 DEF RequestInOrder, HandlerKnows, LateStopped, LogoutRevokes,
         CopyConfirmed, WithSession, WithHolder
    <2>4. QED
      BY <2>2, <2>3 DEF Moved
  <1>2. CASE request[t].kind # "logout"
    <2>1. Finish(t, FALSE)
      BY <1>2 DEF NotRestored
    <2>2. QED
      BY <1>0, <2>1, FinishInOrder DEF HandlerKnows
  <1>3. QED
    BY <1>1, <1>2

LEMMA MovedByFindSession ==
  ASSUME AccessTypeOK, RowsKnown, RequestsInOrder, NEW t \in Tabs, FindSession(t)
  PROVE  Moved(t)
  <1> DEFINE r == request[t]
  <1>0. /\ r \in RequestType /\ HandlerKnows(r) /\ LateStopped(r)
        /\ r.stage = "find_session" /\ r.token \in Sessions /\ session[r.token] # None
        /\ UNCHANGED <<rows>>
    BY OldInOrder DEF FindSession, HandlerKnows, WithSession, rows
  <1>1. CASE NotRestored(t)
    BY <1>0, <1>1, NotRestoredInOrder
  <1>2. CASE /\ ~session[r.token].revoked /\ ~(session[r.token].expiresAt <= r.at)
             /\ request' = [request EXCEPT ![t].stage = "find_holder",
                                           ![t].user = session[r.token].user]
    <2> DEFINE new == [r EXCEPT !.stage = "find_holder", !.user = session[r.token].user]
    <2>1. session[r.token] \in SessionRow
      BY <1>0 DEF AccessTypeOK
    <2>2. /\ new \in RequestType
          /\ new.stage = "find_holder" /\ new.user = session[r.token].user
          /\ new.token = r.token /\ new.kind = r.kind
          /\ new.wants = r.wants /\ new.late = r.late
      BY <1>0, <2>1 DEF RequestType, Stages, SessionRow
    <2>3. request' = [request EXCEPT ![t] = new]
      BY <1>0, <1>2 DEF AccessTypeOK
    <2> HIDE DEF new
    <2>4. /\ request'[t] = new
          /\ request' \in [Tabs -> RequestType]
          /\ \A u \in Tabs \ {t} : request'[u] = request[u]
      BY <2>2, <2>3, PutIn
    <2>5. RequestInOrder(request[t])'
      BY <1>0, <1>2, <2>2, <2>4 DEF RequestInOrder, HandlerKnows, LateStopped, LogoutRevokes,
         CopyConfirmed, WithSession, WithHolder, rows
    <2>6. QED
      BY <2>4, <2>5 DEF Moved
  <1>3. QED
    BY <1>1, <1>2 DEF FindSession

LEMMA MovedByFindHolder ==
  ASSUME AccessTypeOK, RowsKnown, RequestsInOrder, NEW t \in Tabs, FindHolder(t)
  PROVE  Moved(t)
  <1> DEFINE r == request[t]
             held == IF r.kind = "use" THEN PermissionsOf(r.user) ELSE {}
  <1>0. /\ r \in RequestType /\ HandlerKnows(r) /\ LateStopped(r)
        /\ r.stage = "find_holder" /\ r.token \in Sessions /\ session[r.token] # None
        /\ r.user = session[r.token].user /\ UNCHANGED <<rows>>
    BY OldInOrder DEF FindHolder, HandlerKnows, WithSession, WithHolder, rows
  <1>1. CASE NotRestored(t)
    BY <1>0, <1>1, NotRestoredInOrder
  <1>2. CASE /\ users[r.user].status = "active"
             /\ request' = [request EXCEPT ![t].stage = "find_grants", ![t].held = held]
    <2> DEFINE new == [r EXCEPT !.stage = "find_grants", !.held = held]
    <2>1. held \subseteq Permissions
      <3>1. r.user \in Users
        BY <1>0 DEF AccessTypeOK, SessionRow
      <3>2. users[r.user].roles \subseteq Roles
        BY <3>1 DEF AccessTypeOK
      <3>3. QED
        BY <3>2, AdminAssumption DEF PermissionsOf
    <2> HIDE DEF held
    <2>2. /\ new \in RequestType
          /\ new.stage = "find_grants" /\ new.user = r.user
          /\ new.token = r.token /\ new.kind = r.kind
          /\ new.wants = r.wants /\ new.late = r.late
      BY <1>0, <2>1 DEF RequestType, Stages
    <2>3. request' = [request EXCEPT ![t] = new]
      BY <1>0, <1>2 DEF AccessTypeOK
    <2> HIDE DEF new
    <2>4. /\ request'[t] = new
          /\ request' \in [Tabs -> RequestType]
          /\ \A u \in Tabs \ {t} : request'[u] = request[u]
      BY <2>2, <2>3, PutIn
    <2>5. RequestInOrder(request[t])'
      BY <1>0, <1>2, <2>2, <2>4 DEF RequestInOrder, HandlerKnows, LateStopped, LogoutRevokes,
         CopyConfirmed, WithSession, WithHolder, rows
    <2>6. QED
      BY <2>4, <2>5 DEF Moved
  <1>3. QED
    BY <1>1, <1>2 DEF FindHolder

LEMMA MovedByFindGrants ==
  ASSUME AccessTypeOK, RowsKnown, RequestsInOrder, NEW t \in Tabs, FindGrants(t)
  PROVE  Moved(t)
  <1> DEFINE r == request[t]
             active == ActiveGrants(r.token, r.at)
             stepUp == StepUpOf(active)
  <1>0. /\ r \in RequestType /\ HandlerKnows(r) /\ r.late # TRUE
        /\ r.stage = "find_grants" /\ r.token \in Sessions /\ session[r.token] # None
        /\ r.user = session[r.token].user /\ UNCHANGED <<rows>>
        /\ r.kind \in {"page", "use", "logout", "step_up"}
    BY OldInOrder DEF FindGrants, HandlerKnows, LateStopped, WithSession, WithHolder, rows
  <1>1. CASE r.kind = "page"
    <2> DEFINE new == [Idle EXCEPT !.stage = "answer", !.kind = "page", !.ok = TRUE]
    <2>1. /\ new \in RequestType
          /\ new.stage = "answer" /\ new.kind = "page" /\ new.token = None
      BY Zero DEF Idle, RequestType, Stages
    <2>2. request' = [request EXCEPT ![t] = new]
      BY <1>1 DEF FindGrants
    <2> HIDE DEF new
    <2>3. QED
      BY <2>1, <2>2, AnswerInOrder
  <1>2. CASE r.kind = "use"
    <2> DEFINE new == [r EXCEPT !.stepUp = stepUp, !.stage = "authorise"]
    <2>1. stepUp \in StepUpType \cup {None}
      <3>1. active \in SUBSET {g \in Grants : grant[g] # None}
        BY DEF ActiveGrants
      <3>2. QED
        BY <3>1, StepUpTyped
    <2>2. ASSUME stepUp # None, NEW p \in stepUp.codes
          PROVE  \E g \in Grants : Confirms(g, r, p)
      <3>1. active # {} /\ stepUp.codes = UNION {grant[g].codes : g \in active}
        BY <2>2 DEF StepUpOf
      <3>2. PICK g \in active : p \in grant[g].codes
        BY <2>2, <3>1
      <3>3. /\ g \in Grants /\ grant[g] # None /\ grant[g].session = r.token
            /\ r.at < grant[g].expiresAt
        BY <3>2 DEF ActiveGrants
      <3>4. QED
        BY <3>2, <3>3 DEF Confirms, RowsKnown
    <2> HIDE DEF stepUp
    <2>3. /\ new \in RequestType
          /\ new.stage = "authorise" /\ new.user = r.user /\ new.stepUp = stepUp
          /\ new.token = r.token /\ new.kind = r.kind /\ new.at = r.at
          /\ new.wants = r.wants /\ new.late = r.late
      BY <1>0, <2>1 DEF RequestType, Stages
    <2>4. request' = [request EXCEPT ![t] = new]
      BY <1>2 DEF FindGrants, stepUp
    <2> HIDE DEF new
    <2>5. /\ request'[t] = new
          /\ request' \in [Tabs -> RequestType]
          /\ \A u \in Tabs \ {t} : request'[u] = request[u]
      BY <2>3, <2>4, PutIn
    <2>6. RequestInOrder(request[t])'
      <3>1. (HandlerKnows(request[t]) /\ LateStopped(request[t]) /\ LogoutRevokes(request[t]))'
        BY <1>0, <1>2, <2>3, <2>5 DEF HandlerKnows, LateStopped, LogoutRevokes,
           WithSession, WithHolder, rows
      <3>2. CopyConfirmed(request[t])'
        BY <1>0, <2>2, <2>3, <2>5 DEF CopyConfirmed, Confirms, rows
      <3>3. QED
        BY <3>1, <3>2 DEF RequestInOrder
    <2>7. QED
      BY <2>5, <2>6 DEF Moved
  <1>3. CASE r.kind = "logout"
    <2> DEFINE new == [Idle EXCEPT !.stage = "revoke_session", !.kind = "logout", !.token = r.token]
    <2>1. /\ new \in RequestType
          /\ new.stage = "revoke_session" /\ new.kind = "logout" /\ new.token = r.token
          /\ new.late = FALSE
      BY <1>0, Zero DEF Idle, RequestType, Stages
    <2>2. request' = [request EXCEPT ![t] = new]
      BY <1>3 DEF FindGrants
    <2> HIDE DEF new
    <2>3. /\ request'[t] = new
          /\ request' \in [Tabs -> RequestType]
          /\ \A u \in Tabs \ {t} : request'[u] = request[u]
      BY <2>1, <2>2, PutIn
    <2>4. RequestInOrder(request[t])'
      BY <1>0, <2>1, <2>3, AdminAssumption DEF RequestInOrder, HandlerKnows, LateStopped,
         LogoutRevokes, CopyConfirmed, WithSession, WithHolder, rows
    <2>5. QED
      BY <2>3, <2>4 DEF Moved
  <1>4. CASE r.kind = "step_up"
    <2>1. Goto(t, "find_again") /\ "find_again" \in Stages
      <3>1. request' = [request EXCEPT ![t] = [r EXCEPT !.stage = "find_again"]]
        BY <1>4 DEF FindGrants
      <3>2. QED
        BY <3>1 DEF Goto, Stages, AccessTypeOK
    <2>2. /\ request'[t].stage = "find_again" /\ request'[t].kind = "step_up"
          /\ request'[t].token = r.token /\ request'[t].user = r.user
          /\ request'[t].wants = r.wants /\ request'[t].late = r.late
          /\ request' \in [Tabs -> RequestType]
          /\ \A u \in Tabs \ {t} : request'[u] = request[u]
      BY <1>4, <2>1, Goes
    <2>3. RequestInOrder(request[t])'
      BY <1>0, <1>4, <2>2 DEF RequestInOrder, HandlerKnows, LateStopped,
         LogoutRevokes, CopyConfirmed, WithSession, WithHolder, rows
    <2>4. QED
      BY <2>2, <2>3 DEF Moved
  <1>5. QED
    BY <1>0, <1>1, <1>2, <1>3, <1>4

LEMMA MovedByUse ==
  ASSUME AccessTypeOK, RowsKnown, RequestsInOrder, NEW t \in Tabs,
         Authorise(t) \/ Operate(t)
  PROVE  Moved(t)
  <1> DEFINE r == request[t]
  <1>0. /\ r \in RequestType /\ HandlerKnows(r) /\ LateStopped(r) /\ CopyConfirmed(r)
        /\ r.stage \in {"authorise", "authorised"} /\ r.kind = "use"
        /\ r.token \in Sessions /\ session[r.token] # None
        /\ UNCHANGED <<rows>>
    BY OldInOrder DEF Authorise, Operate, HandlerKnows, WithSession, rows
  <1>1. ASSUME NEW ok \in BOOLEAN, Finish(t, ok) PROVE Moved(t)
    BY <1>0, <1>1, FinishInOrder DEF rows
  <1>2. CASE Authorise(t) /\ Authorised(r)
    <2>1. Goto(t, "authorised") /\ "authorised" \in Stages /\ r.stage = "authorise"
      BY <1>2 DEF Authorise, Stages
    <2>2. /\ request'[t].stage = "authorised" /\ request'[t].kind = r.kind
          /\ request'[t].token = r.token /\ request'[t].user = r.user
          /\ request'[t].at = r.at /\ request'[t].stepUp = r.stepUp
          /\ request'[t].wants = r.wants /\ request'[t].late = r.late
          /\ request' \in [Tabs -> RequestType]
          /\ \A u \in Tabs \ {t} : request'[u] = request[u]
      BY <2>1, Goes
    <2>3. \A p \in r.wants \cap NeedsStepUp : r.stepUp # None /\ p \in r.stepUp.codes
      BY <1>2 DEF Authorised, StepUpValid
    <2>4. (HandlerKnows(request[t]) /\ LateStopped(request[t]) /\ LogoutRevokes(request[t]))'
      BY <1>0, <2>1, <2>2 DEF HandlerKnows, LateStopped, LogoutRevokes,
         WithSession, WithHolder, rows
    <2>5. CopyConfirmed(request[t])'
      BY <1>0, <2>1, <2>2, <2>3 DEF CopyConfirmed, Confirms, rows
    <2>6. QED
      BY <2>2, <2>4, <2>5 DEF Moved, RequestInOrder
  <1>3. QED
    BY <1>1, <1>2 DEF Authorise, Operate

LEMMA MovedByStepUp ==
  ASSUME AccessTypeOK, RowsKnown, RequestsInOrder, NEW t \in Tabs,
         FindAgain(t) \/ CreateGrant(t)
  PROVE  Moved(t)
  <1> DEFINE r == request[t]
  <1>0. /\ r \in RequestType /\ HandlerKnows(r) /\ LateStopped(r)
        /\ r.stage \in {"find_again", "create_grant"} /\ r.kind = "step_up"
        /\ r.token \in Sessions /\ session[r.token] # None
        /\ UNCHANGED <<users, session>>
    BY OldInOrder DEF FindAgain, CreateGrant, HandlerKnows, WithSession, rows
  <1>1. ASSUME NEW ok \in BOOLEAN, Finish(t, ok) PROVE Moved(t)
    BY <1>0, <1>1, FinishInOrder
  <1>2. CASE /\ r.stage = "find_again"
             /\ request' = [request EXCEPT ![t].stage = "create_grant", ![t].at = now]
    <2> DEFINE new == [r EXCEPT !.stage = "create_grant", !.at = now]
    <2>1. now \in 0..MaxTime
      BY DEF AccessTypeOK
    <2>2. /\ new \in RequestType
          /\ new.stage = "create_grant" /\ new.user = r.user
          /\ new.token = r.token /\ new.kind = r.kind
          /\ new.wants = r.wants /\ new.late = r.late
      BY <1>0, <2>1 DEF RequestType, Stages
    <2>3. request' = [request EXCEPT ![t] = new]
      BY <1>0, <1>2 DEF AccessTypeOK
    <2> HIDE DEF new
    <2>4. /\ request'[t] = new
          /\ request' \in [Tabs -> RequestType]
          /\ \A u \in Tabs \ {t} : request'[u] = request[u]
      BY <2>2, <2>3, PutIn
    <2>5. RequestInOrder(request[t])'
      BY <1>0, <1>2, <2>2, <2>4 DEF RequestInOrder, HandlerKnows, LateStopped, LogoutRevokes,
         CopyConfirmed, WithSession, WithHolder
    <2>6. QED
      BY <2>4, <2>5 DEF Moved
  <1>3. QED
    BY <1>1, <1>2 DEF FindAgain, CreateGrant

LEMMA MovedByLogout ==
  ASSUME AccessTypeOK, RowsKnown, RequestsInOrder, NEW t \in Tabs,
         RevokeSession(t) \/ RevokeGrants(t)
  PROVE  Moved(t)
  <1> DEFINE r == request[t]
  <1>0. /\ r \in RequestType /\ HandlerKnows(r) /\ LogoutRevokes(r)
        /\ r.stage \in {"revoke_session", "revoke_grants"} /\ r.kind = "logout"
        /\ r.token \in Sessions /\ session[r.token] # None
    BY OldInOrder DEF RevokeSession, RevokeGrants, HandlerKnows, WithSession
  <1>1. CASE RevokeSession(t)
    <2>1. /\ session' = [session EXCEPT ![r.token].revoked = TRUE]
          /\ Goto(t, "revoke_grants") /\ "revoke_grants" \in Stages
      BY <1>1 DEF RevokeSession, Stages
    <2>2. session'[r.token] # None /\ session'[r.token].revoked
      <3>1. session[r.token] \in SessionRow /\ session \in [Sessions -> SessionRow \cup {None}]
        BY <1>0 DEF AccessTypeOK
      <3>2. [session[r.token] EXCEPT !.revoked = TRUE] \in SessionRow
            /\ [session[r.token] EXCEPT !.revoked = TRUE].revoked = TRUE
        BY <3>1 DEF SessionRow
      <3>3. session'[r.token] = [session[r.token] EXCEPT !.revoked = TRUE]
        BY <1>0, <2>1, <3>1
      <3>4. QED
        BY <3>2, <3>3, NoneAssumption
    <2>3. /\ request'[t].stage = "revoke_grants" /\ request'[t].kind = "logout"
          /\ request'[t].token = r.token
          /\ request' \in [Tabs -> RequestType]
          /\ \A u \in Tabs \ {t} : request'[u] = request[u]
      BY <1>0, <2>1, Goes
    <2>4. r.token # None
      BY <1>0, AdminAssumption
    <2>5. RequestInOrder(request[t])'
      BY <1>0, <2>2, <2>3, <2>4 DEF RequestInOrder, HandlerKnows, LateStopped,
         LogoutRevokes, CopyConfirmed, WithSession, WithHolder
    <2>6. QED
      BY <2>3, <2>5 DEF Moved
  <1>2. CASE RevokeGrants(t)
    <2>1. r.stage = "revoke_grants" /\ Finish(t, TRUE) /\ UNCHANGED session
      BY <1>2 DEF RevokeGrants
    <2>2. QED
      BY <1>0, <2>1, FinishInOrder DEF LogoutRevokes
  <1>3. QED
    BY <1>1, <1>2

\* The cookie of each browser, whatever answer it got.
LEMMA CookieKnown ==
  ASSUME AccessTypeOK, RowsKnown, RequestsInOrder, NEW t \in Tabs, Answer(t)
  PROVE  /\ cookie' \in [Browsers -> Sessions \cup {None}]
         /\ \A b \in Browsers : cookie'[b] # None => session[cookie'[b]] # None
  <1> DEFINE r == request[t]
             c == CASE r.kind = "login" /\ r.ok          -> r.token
                    [] r.kind = "logout" /\ Succeeded(r) -> None
                    [] OTHER                             -> cookie[JarOf[t]]
  <1>0. /\ r \in RequestType /\ r.token \in Sessions \cup {None}
        /\ r.token # None => session[r.token] # None
        /\ JarOf[t] \in Browsers /\ cookie[JarOf[t]] \in Sessions \cup {None}
        /\ cookie[JarOf[t]] # None => session[cookie[JarOf[t]]] # None
    BY OldInOrder, AdminAssumption DEF HandlerKnows, AccessTypeOK, RowsKnown, Browsers
  <1>1. c \in Sessions \cup {None} /\ (c # None => session[c] # None)
    <2>1. CASE r.kind = "login" /\ r.ok
      BY <1>0, <2>1
    <2>2. CASE r.kind = "logout" /\ Succeeded(r)
      BY <2>2
    <2>3. CASE ~(r.kind = "login" /\ r.ok) /\ ~(r.kind = "logout" /\ Succeeded(r))
      BY <1>0, <2>3
    <2>4. QED
      BY <2>1, <2>2, <2>3
  <1>2. cookie' = [cookie EXCEPT ![JarOf[t]] = c]
    BY DEF Answer
  <1> HIDE DEF c
  <1>3. QED
    BY <1>0, <1>1, <1>2 DEF AccessTypeOK, RowsKnown

LEMMA MovedByAnswer ==
  ASSUME AccessTypeOK, RowsKnown, RequestsInOrder, NEW t \in Tabs, Answer(t)
  PROVE  Moved(t)
  <1>0. PICK c : c = cookie'[JarOf[t]]
    OBVIOUS
  <1>1. /\ c \in Sessions \cup {None} /\ (c # None => session[c] # None)
        /\ UNCHANGED <<rows>> /\ now \in 0..MaxTime
    <2>1. JarOf[t] \in Browsers
      BY AdminAssumption DEF Browsers
    <2>2. c \in Sessions \cup {None} /\ (c # None => session[c] # None)
      BY <1>0, <2>1, CookieKnown
    <2>3. UNCHANGED <<rows>> /\ now \in 0..MaxTime
      BY DEF Answer, rows, AccessTypeOK
    <2>4. QED
      BY <2>2, <2>3
  <1>2. CASE request' = [request EXCEPT ![t] = Opening(c)]
    <2> DEFINE new == Opening(c)
    <2>1. /\ new \in RequestType
          /\ new.kind = "page" /\ new.token = c /\ new.wants = {} /\ new.late = FALSE
          /\ new.stage = (IF c = None THEN "answer" ELSE "find_session")
      BY <1>1 DEF Opening, Idle, RequestType, Stages
    <2> HIDE DEF new
    <2>2. /\ request'[t] = new
          /\ request' \in [Tabs -> RequestType]
          /\ \A u \in Tabs \ {t} : request'[u] = request[u]
      BY <1>2, <2>1, PutIn DEF new
    <2>3. RequestInOrder(request[t])'
      BY <1>1, <2>1, <2>2 DEF RequestInOrder, HandlerKnows, LateStopped,
         LogoutRevokes, CopyConfirmed, WithSession, WithHolder, rows
    <2>4. QED
      BY <2>2, <2>3 DEF Moved
  <1>3. CASE request' = [request EXCEPT ![t] = Idle]
    <2>1. Idle.stage = "idle" /\ Idle.token = None /\ Idle.kind = "none" /\ Idle \in RequestType
      BY IdleTyped DEF Idle
    <2>2. QED
      BY <1>3, <2>1, AnswerInOrder
  <1>4. QED
    BY <1>0, <1>2, <1>3 DEF Answer

LEMMA MovedByTab ==
  ASSUME AccessTypeOK, RowsKnown, RequestsInOrder, NEW t \in Tabs, TabStep(t)
  PROVE  Moved(t)
  BY MovedByBrowser, MovedByLogin, MovedByFindSession, MovedByFindHolder, MovedByFindGrants,
     MovedByUse, MovedByStepUp, MovedByLogout, MovedByAnswer DEF TabStep

-----------------------------------------------------------------------------
(* The invariant that the actions preserve together. *)

AccessInv == AccessTypeOK /\ RowsKnown /\ RequestsInOrder

LEMMA RequestsStep ==
  ASSUME AccessInv, [Next]_vars
  PROVE  request' \in [Tabs -> RequestType] /\ RequestsInOrder'
  <1>1. AccessTypeOK /\ RowsKnown /\ RequestsInOrder /\ RowsEnd /\ UsersEnd
    BY RowsStep DEF AccessInv
  <1>2. ASSUME NEW t \in Tabs, request'[t] = request[t] PROVE RequestInOrder(request[t])'
    BY <1>1, <1>2, OthersInOrder DEF RequestsInOrder
  <1>3. ASSUME NEW t \in Tabs, TabStep(t)
        PROVE  request' \in [Tabs -> RequestType] /\ RequestsInOrder'
    <2>1. Moved(t)
      BY <1>1, <1>3, MovedByTab
    <2>2. QED
      BY <1>2, <2>1 DEF Moved, RequestsInOrder
  <1>4. CASE UNCHANGED request
    BY <1>1, <1>2, <1>4 DEF RequestsInOrder, AccessTypeOK
  <1>5. ScriptStep \/ (\E u \in Users : Disable(u)) \/ Tick \/ UNCHANGED vars => UNCHANGED request
    BY DEF ScriptStep, FindOwner, CreateOwner, Disable, Tick, vars
  <1>6. QED
    BY <1>3, <1>4, <1>5, StepCases

LEMMA UsersTyped ==
  ASSUME AccessTypeOK, [Next]_vars
  PROVE  users' \in [Users -> [status : {"absent", "active", "disabled"}, roles : SUBSET Roles]]
  <1> DEFINE Row == [status : {"absent", "active", "disabled"}, roles : SUBSET Roles]
  <1>0. users \in [Users -> Row]
    BY DEF AccessTypeOK
  <1>1. ASSUME NEW x \in Scripts, CreateOwner(x) PROVE users' \in [Users -> Row]
    <2>1. PICK u \in Users, extra \in SUBSET Roles :
            users' = [users EXCEPT ![u] = [status |-> "active", roles |-> OwnerRoles \cup extra]]
      BY <1>1 DEF CreateOwner
    <2>2. OwnerRoles \cup extra \subseteq Roles
      BY AdminAssumption
    <2>3. QED
      BY <1>0, <2>1, <2>2
  <1>2. ASSUME NEW u \in Users, Disable(u) PROVE users' \in [Users -> Row]
    <2>1. users' = [users EXCEPT ![u].status = "disabled"]
      BY <1>2 DEF Disable
    <2>2. QED
      BY <1>0, <2>1
  <1>3. CASE UNCHANGED users
    BY <1>0, <1>3
  <1>4. ASSUME NEW t \in Tabs, CreateSession(t) \/ CreateGrant(t) \/ RevokeSession(t) \/ RevokeGrants(t)
        PROVE  UNCHANGED users
    BY <1>4 DEF CreateSession, CreateGrant, RevokeSession, RevokeGrants
  <1>5. QED
    BY <1>1, <1>2, <1>3, <1>4, RowCases DEF RowStep, rows

LEMMA SessionsTyped ==
  ASSUME AccessInv, [Next]_vars
  PROVE  /\ session' \in [Sessions -> SessionRow \cup {None}]
         /\ \A s \in Sessions : session'[s] # None => users'[session'[s].user].status # "absent"
  <1>0. /\ session \in [Sessions -> SessionRow \cup {None}]
        /\ UsersEnd /\ RowsEnd
        /\ \A s \in Sessions : session[s] # None =>
             session[s].user \in Users /\ users[session[s].user].status # "absent"
    BY RowsStep DEF AccessInv, AccessTypeOK, RowsKnown, SessionRow
  <1>1. ASSUME NEW t \in Tabs, CreateSession(t)
        PROVE  /\ session' \in [Sessions -> SessionRow \cup {None}]
               /\ \A s \in Sessions : session'[s] # None =>
                    users'[session'[s].user].status # "absent"
    <2>1. PICK s \in Sessions : session' = [session EXCEPT ![s] =
            [user |-> request[t].user, expiresAt |-> request[t].at + SessionMinutes,
             revoked |-> FALSE]]
      BY <1>1 DEF CreateSession
    <2> DEFINE new == [user |-> request[t].user, expiresAt |-> request[t].at + SessionMinutes,
                       revoked |-> FALSE]
    <2>2. /\ request[t].user \in Users /\ request[t].at \in 0..MaxTime
          /\ users[request[t].user].status # "absent" /\ UNCHANGED users
      BY <1>1, OldInOrder DEF AccessInv, CreateSession, HandlerKnows, RequestType
    <2>3. new \in SessionRow /\ new.user = request[t].user
      BY <2>2, Numbers DEF SessionRow
    <2> HIDE DEF new
    <2>4. session' = [session EXCEPT ![s] = new]
      BY <2>1 DEF new
    <2>5. QED
      BY <1>0, <2>2, <2>3, <2>4
  <1>2. ASSUME NEW t \in Tabs, RevokeSession(t) PROVE session' \in [Sessions -> SessionRow \cup {None}]
    <2>1. /\ session' = [session EXCEPT ![request[t].token].revoked = TRUE]
          /\ request[t].token \in Sessions /\ session[request[t].token] # None
      BY <1>2, OldInOrder DEF AccessInv, RevokeSession, HandlerKnows, WithSession
    <2>2. [session[request[t].token] EXCEPT !.revoked = TRUE] \in SessionRow
      BY <1>0, <2>1 DEF SessionRow
    <2>3. QED
      BY <1>0, <2>1, <2>2
  <1>3. ASSUME session' \in [Sessions -> SessionRow \cup {None}],
               \A s \in Sessions : session[s] = None => session'[s] = None
        PROVE  \A s \in Sessions : session'[s] # None => users'[session'[s].user].status # "absent"
    <2>1. ASSUME NEW s \in Sessions, session'[s] # None
          PROVE  users'[session'[s].user].status # "absent"
      <3>1. session[s] # None /\ session[s] \in SessionRow
        BY <1>0, <1>3, <2>1
      <3>2. session'[s].user = session[s].user
        BY <1>0, <3>1 DEF RowsEnd, SessionRow
      <3>3. QED
        BY <1>0, <3>1, <3>2 DEF UsersEnd
    <2>2. QED
      BY <2>1
  <1>4. ASSUME NEW t \in Tabs, RevokeSession(t)
        PROVE  \A s \in Sessions : session[s] = None => session'[s] = None
    BY <1>0, <1>4, OldInOrder DEF AccessInv, RevokeSession, HandlerKnows, WithSession
  <1>5. ASSUME NEW x \in Scripts, CreateOwner(x) PROVE UNCHANGED session
    BY <1>5 DEF CreateOwner
  <1>6. ASSUME NEW u \in Users, Disable(u) PROVE UNCHANGED session
    BY <1>6 DEF Disable
  <1>7. ASSUME NEW t \in Tabs, CreateGrant(t) \/ RevokeGrants(t) PROVE UNCHANGED session
    BY <1>7 DEF CreateGrant, RevokeGrants
  <1>8. CASE UNCHANGED session
    BY <1>0, <1>3, <1>8
  <1>9. UNCHANGED rows => UNCHANGED session
    BY DEF rows
  <1>10. QED
    BY <1>1, <1>2, <1>3, <1>4, <1>5, <1>6, <1>7, <1>8, <1>9, RowCases DEF RowStep

GrantKnown(g) ==
    grant[g] # None =>
      /\ session[grant[g].session] # None
      /\ grant[g].verifiedAt \in 0..MaxTime
      /\ grant[g].expiresAt = grant[g].verifiedAt + StepUpMinutes

LEMMA GrantsTyped ==
  ASSUME AccessInv, [Next]_vars
  PROVE  /\ grant' \in [Grants -> GrantRow \cup {None}]
         /\ \A g \in Grants : GrantKnown(g)'
  <1>0. /\ grant \in [Grants -> GrantRow \cup {None}]
        /\ \A g \in Grants : GrantKnown(g)
    BY DEF AccessInv, AccessTypeOK, RowsKnown, GrantKnown
  <1>1. \A s \in Sessions : session[s] # None => session'[s] # None
    <2>1. ASSUME NEW s \in Sessions, session[s] # None PROVE session'[s] # None
      <3>1. session[s] \in SessionRow
        BY <2>1 DEF AccessInv, AccessTypeOK
      <3>2. [session[s] EXCEPT !.revoked = TRUE] \in SessionRow
        BY <3>1 DEF SessionRow
      <3>3. QED
        BY <2>1, <3>1, <3>2, RowsStep, NoneAssumption DEF AccessInv, RowsEnd
    <2>2. QED
      BY <2>1
  <1>2. ASSUME NEW g \in Grants, grant[g] # None,
               grant'[g] \in {grant[g], [grant[g] EXCEPT !.revoked = TRUE]}
        PROVE  grant'[g] \in GrantRow /\ GrantKnown(g)'
    <2>1. grant[g] \in GrantRow /\ GrantKnown(g)
      BY <1>0, <1>2
    <2>2. /\ grant'[g] \in GrantRow /\ grant'[g].session = grant[g].session
          /\ grant'[g].verifiedAt = grant[g].verifiedAt
          /\ grant'[g].expiresAt = grant[g].expiresAt
          /\ grant[g].session \in Sessions
      BY <1>2, <2>1 DEF GrantRow
    <2>3. QED
      BY <1>1, <1>2, <2>1, <2>2 DEF GrantKnown
  <1>3. ASSUME NEW t \in Tabs, CreateGrant(t)
        PROVE  grant' \in [Grants -> GrantRow \cup {None}] /\ \A g \in Grants : GrantKnown(g)'
    <2> DEFINE new == [session |-> request[t].token, codes |-> request[t].wants,
                       verifiedAt |-> request[t].at,
                       expiresAt |-> request[t].at + StepUpMinutes, revoked |-> FALSE]
    <2>1. PICK g \in Grants : grant[g] = None /\ grant' = [grant EXCEPT ![g] = new]
      BY <1>3 DEF CreateGrant
    <2>2. /\ request[t].token \in Sessions /\ session[request[t].token] # None
          /\ request[t].wants \subseteq Asked /\ request[t].at \in 0..MaxTime
          /\ UNCHANGED session
      BY <1>3, OldInOrder DEF AccessInv, CreateGrant, HandlerKnows, RequestType, WithSession
    <2>3. request[t].at \in Nat /\ request[t].at + StepUpMinutes \in Nat
      BY <2>2, Numbers
    <2>4. /\ new \in GrantRow /\ new.session = request[t].token
          /\ new.verifiedAt = request[t].at /\ new.expiresAt = request[t].at + StepUpMinutes
      BY <2>2, <2>3 DEF GrantRow
    <2> HIDE DEF new
    <2>5. grant' \in [Grants -> GrantRow \cup {None}]
      BY <1>0, <2>1, <2>4
    <2>6. GrantKnown(g)'
      BY <1>0, <2>1, <2>2, <2>4 DEF GrantKnown
    <2>7. ASSUME NEW h \in Grants \ {g} PROVE GrantKnown(h)'
      BY <1>0, <2>1, <2>2 DEF GrantKnown
    <2>8. QED
      BY <2>5, <2>6, <2>7
  <1>4. ASSUME grant' \in [Grants -> GrantRow \cup {None}],
               \A g \in Grants : grant[g] = None => grant'[g] = None
        PROVE  \A g \in Grants : GrantKnown(g)'
    <2>1. ASSUME NEW g \in Grants PROVE GrantKnown(g)'
      <3>1. CASE grant[g] = None
        BY <1>4, <3>1 DEF GrantKnown
      <3>2. CASE grant[g] # None
        BY <1>2, <3>2, RowsStep DEF RowsEnd, AccessInv
      <3>3. QED
        BY <3>1, <3>2
    <2>2. QED
      BY <2>1
  <1>5. ASSUME NEW t \in Tabs, RevokeGrants(t)
        PROVE  /\ grant' \in [Grants -> GrantRow \cup {None}]
               /\ \A g \in Grants : grant[g] = None => grant'[g] = None
    <2>1. grant' = [g \in Grants |->
            IF grant[g] # None /\ grant[g].session = request[t].token
            THEN [grant[g] EXCEPT !.revoked = TRUE] ELSE grant[g]]
      BY <1>5 DEF RevokeGrants
    <2>2. ASSUME NEW g \in Grants, grant[g] # None PROVE [grant[g] EXCEPT !.revoked = TRUE] \in GrantRow
      BY <1>0, <2>2 DEF GrantRow
    <2>3. QED
      BY <1>0, <2>1, <2>2
  <1>6. ASSUME NEW x \in Scripts, CreateOwner(x) PROVE UNCHANGED grant
    BY <1>6 DEF CreateOwner
  <1>7. ASSUME NEW u \in Users, Disable(u) PROVE UNCHANGED grant
    BY <1>7 DEF Disable
  <1>8. ASSUME NEW t \in Tabs, CreateSession(t) \/ RevokeSession(t) PROVE UNCHANGED grant
    BY <1>8 DEF CreateSession, RevokeSession
  <1>9. CASE UNCHANGED grant
    BY <1>0, <1>4, <1>9
  <1>10. UNCHANGED rows => UNCHANGED grant
    BY DEF rows
  <1>11. QED
    BY <1>3, <1>4, <1>5, <1>6, <1>7, <1>8, <1>9, <1>10, RowCases DEF RowStep

\* What the browsers show, the scripts and the bounds.
LEMMA OthersTyped ==
  ASSUME AccessInv, [Next]_vars
  PROVE  /\ now' \in 0..MaxTime /\ begun' \in 0..MaxBegun
         /\ cookie' \in [Browsers -> Sessions \cup {None}]
         /\ page' \in [Tabs -> {"login", "admin"}]
         /\ script' \in [Scripts -> {"ready", "creating", "done"}] /\ raced' \in BOOLEAN
  <1>0. /\ now \in 0..MaxTime /\ begun \in 0..MaxBegun
        /\ cookie \in [Browsers -> Sessions \cup {None}]
        /\ page \in [Tabs -> {"login", "admin"}]
        /\ script \in [Scripts -> {"ready", "creating", "done"}] /\ raced \in BOOLEAN
        /\ MaxTime \in Nat /\ MaxBegun \in Nat
    BY Numbers DEF AccessInv, AccessTypeOK
  <1>1. CASE Tick
    BY <1>0, <1>1 DEF Tick, setup
  <1>2. ASSUME NEW x \in Scripts, FindOwner(x) \/ CreateOwner(x)
        PROVE  /\ begun' \in 0..MaxBegun /\ UNCHANGED <<now, cookie, page>>
               /\ script' \in [Scripts -> {"ready", "creating", "done"}] /\ raced' \in BOOLEAN
    <2>1. CASE FindOwner(x)
      <3>1. /\ begun < MaxBegun /\ begun' = begun + 1 /\ UNCHANGED <<now, cookie, page>>
            /\ script' = [script EXCEPT ![x] = IF Owners = {} THEN "creating" ELSE "done"]
        BY <2>1 DEF FindOwner, Begin
      <3>2. begun' \in 0..MaxBegun
        BY <1>0, <3>1
      <3>3. script' \in [Scripts -> {"ready", "creating", "done"}]
        BY <1>0, <3>1
      <3>4. raced' \in BOOLEAN
        BY <1>0, <2>1 DEF FindOwner
      <3>5. QED
        BY <3>1, <3>2, <3>3, <3>4
    <2>2. CASE CreateOwner(x)
      <3>1. /\ UNCHANGED <<now, cookie, page, begun, raced>>
            /\ script' = [script EXCEPT ![x] = "done"]
        BY <2>2 DEF CreateOwner
      <3>2. QED
        BY <1>0, <3>1
    <2>3. QED
      BY <1>2, <2>1, <2>2
  <1>3. ASSUME NEW u \in Users, Disable(u)
        PROVE  begun' \in 0..MaxBegun /\ UNCHANGED <<now, cookie, page, setup>>
    BY <1>0, <1>3 DEF Disable, Begin
  <1>4. ASSUME NEW t \in Tabs, Ask(t) \/ Navigate(t)
        PROVE  begun' \in 0..MaxBegun /\ UNCHANGED <<now, cookie, page, setup>>
    BY <1>0, <1>4 DEF Ask, Navigate, Begin
  <1>5. ASSUME NEW t \in Tabs, TabStep(t), ~Ask(t), ~Navigate(t), ~Answer(t)
        PROVE  UNCHANGED <<now, cookie, page, begun, setup>>
    BY <1>5 DEF TabStep, FindUser, CreateSession, FindSession, FindHolder, FindGrants, Authorise,
                Operate, FindAgain, CreateGrant, RevokeSession, RevokeGrants, Fail
  <1>6. ASSUME NEW t \in Tabs, Answer(t)
        PROVE  /\ UNCHANGED <<now, begun, setup>>
               /\ cookie' \in [Browsers -> Sessions \cup {None}]
               /\ page' \in [Tabs -> {"login", "admin"}]
    <2>1. cookie' \in [Browsers -> Sessions \cup {None}]
      BY <1>6, CookieKnown DEF AccessInv
    <2>2. page' \in [Tabs -> {"login", "admin"}]
      BY <1>0, <1>6 DEF Answer
    <2>3. QED
      BY <1>6, <2>1, <2>2 DEF Answer
  <1>7. CASE UNCHANGED vars
    BY <1>0, <1>7 DEF vars, setup
  <1>8. QED
    BY <1>0, <1>1, <1>2, <1>3, <1>4, <1>5, <1>6, <1>7, StepCases DEF setup, ScriptStep

LEMMA CookiesKnown ==
  ASSUME AccessInv, [Next]_vars
  PROVE  \A b \in Browsers : cookie'[b] # None => session'[cookie'[b]] # None
  <1>1. \A b \in Browsers : cookie'[b] # None => cookie'[b] \in Sessions /\ session[cookie'[b]] # None
    <2>1. ASSUME NEW t \in Tabs, Answer(t)
          PROVE  \A b \in Browsers : cookie'[b] # None => session[cookie'[b]] # None
      BY <2>1, CookieKnown DEF AccessInv
    <2>2. CASE UNCHANGED cookie
      BY <2>2, OthersTyped DEF AccessInv, RowsKnown
    <2>3. ASSUME NEW t \in Tabs, TabStep(t), ~Answer(t) PROVE UNCHANGED cookie
      BY <2>3 DEF TabStep, Ask, Navigate, FindUser, CreateSession, FindSession, FindHolder,
         FindGrants, Authorise, Operate, FindAgain, CreateGrant, RevokeSession, RevokeGrants, Fail
    <2>4. Tick \/ ScriptStep \/ (\E u \in Users : Disable(u)) \/ UNCHANGED vars => UNCHANGED cookie
      BY DEF Tick, ScriptStep, FindOwner, CreateOwner, Disable, vars
    <2>5. QED
      BY <2>1, <2>2, <2>3, <2>4, StepCases, OthersTyped
  <1>2. \A s \in Sessions : session[s] # None => session'[s] # None
    <2>1. ASSUME NEW s \in Sessions, session[s] # None PROVE session'[s] # None
      <3>1. session[s] \in SessionRow
        BY <2>1 DEF AccessInv, AccessTypeOK
      <3>2. [session[s] EXCEPT !.revoked = TRUE] \in SessionRow
        BY <3>1 DEF SessionRow
      <3>3. QED
        BY <2>1, <3>1, <3>2, RowsStep, NoneAssumption DEF AccessInv, RowsEnd
    <2>2. QED
      BY <2>1
  <1>3. QED
    BY <1>1, <1>2

LEMMA AccessStep == AccessInv /\ [Next]_vars => AccessInv'
  <1> SUFFICES ASSUME AccessInv, [Next]_vars PROVE AccessInv'
    OBVIOUS
  <1>1. AccessTypeOK'
    BY OthersTyped, UsersTyped, SessionsTyped, GrantsTyped, RequestsStep DEF AccessInv, AccessTypeOK
  <1>2. RowsKnown'
    BY SessionsTyped, GrantsTyped, CookiesKnown DEF RowsKnown, GrantKnown
  <1>3. QED
    BY <1>1, <1>2, RequestsStep DEF AccessInv

LEMMA AccessInit == Init => AccessInv
  <1> SUFFICES ASSUME Init PROVE AccessInv
    OBVIOUS
  <1>1. AccessTypeOK
    <2>1. request \in [Tabs -> RequestType]
      BY IdleTyped DEF Init
    <2>2. /\ now \in 0..MaxTime /\ begun \in 0..MaxBegun
      BY Numbers DEF Init
    <2>3. QED
      BY <2>1, <2>2 DEF Init, AccessTypeOK, NoUser
  <1>2. RowsKnown
    BY DEF Init, RowsKnown
  <1>3. ASSUME NEW t \in Tabs PROVE RequestInOrder(request[t])
    <2>1. /\ request[t].stage = "idle" /\ request[t].token = None /\ request[t].kind = "none"
          /\ request[t].late = FALSE
      BY DEF Init, Idle
    <2>2. QED
      BY <2>1 DEF RequestInOrder, HandlerKnows, LateStopped, LogoutRevokes, CopyConfirmed,
                  WithSession, WithHolder
  <1>4. QED
    BY <1>1, <1>2, <1>3 DEF AccessInv, RequestsInOrder

-----------------------------------------------------------------------------
(* Theorems *)

\* The rows, cookies, pages and requests have their types, and a request's handler finds the
\* rows it goes on from, at every step.
THEOREM AccessCorrect == Spec => []AccessInv
  BY AccessInit, AccessStep, PTL DEF Spec

\* A logout is final, for any number of tabs and however they interleave: what is sent
\* after it is never authorised, and no answer to a logout leaves a live session.
THEOREM LogoutCorrect == Spec => []LogoutIsFinal
  <1>1. AccessInv => LogoutIsFinal
    <2> SUFFICES ASSUME AccessInv, NEW t \in Tabs
                 PROVE  /\ request[t].stage = "authorised" => ~request[t].late
                        /\ /\ request[t].kind = "logout" /\ request[t].stage = "answer"
                           /\ Succeeded(request[t]) /\ request[t].token # None
                           => ~Live(request[t].token)
      BY DEF LogoutIsFinal, NothingAfterLogout, LogoutEndsSession
    <2>1. LateStopped(request[t]) /\ LogoutRevokes(request[t])
      BY OldInOrder DEF AccessInv
    <2>2. request[t].stage = "authorised" => ~request[t].late
      BY <2>1 DEF LateStopped
    <2>3. /\ request[t].kind = "logout" /\ request[t].stage = "answer"
          /\ Succeeded(request[t]) /\ request[t].token # None
          => ~Live(request[t].token)
      BY <2>1 DEF LogoutRevokes, Succeeded, Live
    <2>4. QED
      BY <2>2, <2>3
  <1>2. QED
    BY <1>1, AccessCorrect, PTL

\* Every use of a sensitive permission has a confirmation of its own session behind it, of
\* that permission and in time, although the copy the request goes by holds the codes of
\* several confirmations under the expiry of the latest.
THEOREM ConfirmedCorrect == Spec => []EachConfirmed
  <1>1. AccessInv => EachConfirmed
    <2> SUFFICES ASSUME AccessInv, NEW t \in Tabs, request[t].stage = "authorised",
                        NEW p \in request[t].wants \cap NeedsStepUp
                 PROVE  \E g \in Grants :
                          /\ grant[g] # None /\ grant[g].session = request[t].token
                          /\ p \in grant[g].codes
                          /\ request[t].at < grant[g].verifiedAt + StepUpMinutes
      BY DEF EachConfirmed
    <2>1. CopyConfirmed(request[t])
      BY OldInOrder DEF AccessInv
    <2>2. QED
      BY <2>1 DEF CopyConfirmed, Confirms
  <1>2. QED
    BY <1>1, AccessCorrect, PTL

\* No step gives a session back after it was revoked, lengthens it, or changes a
\* confirmation other than by revoking it.
THEOREM RowsOnlyEndCorrect == Spec => RowsOnlyEnd
  <1>1. AccessInv /\ [Next]_vars => RowsEnd
    BY RowsStep DEF AccessInv
  <1>2. QED
    BY <1>1, AccessCorrect, PTL DEF Spec, RowsOnlyEnd, RowsEnd

\* Running the script again never makes a second owner, unless two runs overlapped.
THEOREM OneOwnerCorrect == Spec => []OneOwner
  <1>1. Init => ScriptsInOrder /\ OneOwner
    BY DEF Init, ScriptsInOrder, OneOwner, Owners, NoUser
  <1>2. ASSUME AccessTypeOK, ScriptsInOrder, OneOwner, [Next]_vars
        PROVE  ScriptsInOrder' /\ OneOwner'
    <2>0. /\ script \in [Scripts -> {"ready", "creating", "done"}] /\ raced \in BOOLEAN
          /\ users \in [Users -> [status : {"absent", "active", "disabled"}, roles : SUBSET Roles]]
      BY <1>2 DEF AccessTypeOK
    <2>1. ASSUME NEW x \in Scripts, FindOwner(x) PROVE ScriptsInOrder' /\ OneOwner'
      BY <1>2, <2>0, <2>1 DEF FindOwner, ScriptsInOrder, OneOwner, Owners, rows
    <2>2. ASSUME NEW x \in Scripts, CreateOwner(x) PROVE ScriptsInOrder' /\ OneOwner'
      <3>1. PICK u \in Users : \E new : users' = [users EXCEPT ![u] = new]
        BY <2>2 DEF CreateOwner
      <3>2. ~raced => Owners' \subseteq {u}
        BY <1>2, <2>0, <2>2, <3>1 DEF CreateOwner, ScriptsInOrder, Owners
      <3>3. QED
        BY <1>2, <2>0, <2>2, <3>2 DEF CreateOwner, ScriptsInOrder, OneOwner
    <2>3. ASSUME NEW u \in Users, Disable(u) PROVE ScriptsInOrder' /\ OneOwner'
      <3>1. Owners' = Owners /\ UNCHANGED <<script, raced>>
        BY <2>0, <2>3 DEF Disable, Owners, setup
      <3>2. QED
        BY <1>2, <3>1 DEF ScriptsInOrder, OneOwner
    <2>4. CASE UNCHANGED <<users, script, raced>>
      BY <1>2, <2>4 DEF ScriptsInOrder, OneOwner, Owners
    <2>5. ASSUME NEW t \in Tabs, TabStep(t) PROVE UNCHANGED <<users, script, raced>>
      BY <2>5 DEF TabStep, Ask, Navigate, FindUser, CreateSession, FindSession, FindHolder,
         FindGrants, Authorise, Operate, FindAgain, CreateGrant, RevokeSession, RevokeGrants,
         Answer, Fail, rows, setup
    <2>6. Tick \/ UNCHANGED vars => UNCHANGED <<users, script, raced>>
      BY DEF Tick, vars, rows, setup
    <2>7. QED
      BY <1>2, <2>1, <2>2, <2>3, <2>4, <2>5, <2>6, StepCases DEF ScriptStep
  <1>3. AccessInv => AccessTypeOK
    BY DEF AccessInv
  <1>4. QED
    BY <1>1, <1>2, <1>3, AccessCorrect, PTL DEF Spec
====
