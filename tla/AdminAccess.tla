---- MODULE AdminAccess ----
(* How an administrator comes to act: the bootstrap script that creates the first
   one, login, the restoring of a session that precedes every page and every
   action, the confirmation of the password for sensitive permissions (step-up),
   and logout.  A restore is a sequence of database calls and its result is a copy
   that the request keeps, so each call is an action and the tabs of the browsers
   interleave between them.  Requests may die and answers may be lost anywhere. *)
EXTENDS Naturals, FiniteSets, FiniteSetsExt, Functions

CONSTANTS
    Users,            \* rows of User the script may create
    Scripts,          \* runs of the bootstrap script
    Roles,            \* role codes the script may add to the owner's
    OwnerRoles,       \* DEFAULT_INITIAL_ADMIN_ROLE_CODES
    Permissions,      \* permission codes
    RolePermissions,  \* role |-> its permission codes, as seeded
    NeedsStepUp,      \* the codes whose stepUp is yes or conditional
    Asked,            \* the codes a confirmation may name: any strings
    Sessions,         \* fresh session rows; a row stands for its token as well
    Grants,           \* fresh step-up rows
    Tabs, JarOf,      \* tabs, and the browser whose cookies a tab shares
    None,
    SessionMinutes,   \* ADMIN_SESSION_TTL_MINUTES
    StepUpMinutes,    \* ADMIN_STEP_UP_TTL_MINUTES
    MaxTime,          \* bound: the clock stops there
    MaxBegun          \* bound on what is begun: requests, script runs, disablings

ASSUME AdminAssumption ==
    /\ {SessionMinutes, StepUpMinutes, MaxTime, MaxBegun} \subseteq Nat \ {0}
    /\ RolePermissions \in [Roles -> SUBSET Permissions]
    /\ OwnerRoles \subseteq Roles
    /\ JarOf \in [Tabs -> Range(JarOf)]
    /\ None \notin Users \cup Sessions \cup Grants

SessionRow == [user : Users, expiresAt : Nat, revoked : BOOLEAN]
GrantRow == [session : Sessions, codes : SUBSET Asked, verifiedAt : Nat, expiresAt : Nat,
             revoked : BOOLEAN]
StepUpType == [codes : SUBSET Asked, until : Nat]

\* None stands for no row where there may be one.
ASSUME NoneAssumption == None \notin SessionRow \cup GrantRow \cup StepUpType

Browsers == Range(JarOf)

VARIABLES
    now,
    users,    \* [status, roles] of every row; status "absent" before it is created
    session,  \* AdminSession rows, or None
    grant,    \* AdminStepUpGrant rows, or None
    cookie,   \* the admin_session cookie of each browser, or None
    page,     \* what a tab shows: "login" or "admin"
    request,  \* what a tab waits for
    begun,    \* how many requests, script runs and disablings there were (bound)
    script,   \* "ready", "creating" or "done"
    raced     \* whether two scripts ever overlapped (history)

rows == <<users, session, grant>>
setup == <<script, raced>>
vars == <<now, rows, cookie, page, request, begun, setup>>

Stages == {"idle", "find_user", "create_session", "find_session", "find_holder",
           "find_grants", "authorise", "authorised", "find_again", "create_grant",
           "revoke_session", "revoke_grants", "answer"}

Idle == [stage |-> "idle", kind |-> "none", token |-> None, at |-> 0, user |-> None,
         held |-> {}, stepUp |-> None, wants |-> {},
         ok |-> FALSE, late |-> FALSE]

NoUser == [status |-> "absent", roles |-> {}]

Init ==
    /\ now = 0
    /\ users = [u \in Users |-> NoUser]
    /\ session = [s \in Sessions |-> None]
    /\ grant = [g \in Grants |-> None]
    /\ cookie = [b \in Browsers |-> None]
    /\ page = [t \in Tabs |-> "login"]
    /\ request = [t \in Tabs |-> Idle]
    /\ begun = 0
    /\ script = [x \in Scripts |-> "ready"]
    /\ raced = FALSE

\* everything somebody starts counts against the bound
Begin == begun < MaxBegun /\ begun' = begun + 1

Tick == now < MaxTime /\ now' = now + 1 /\ UNCHANGED <<rows, cookie, page, request, begun, setup>>

-----------------------------------------------------------------------------
(* bootstrapInitialAdmin: looks for an owner, then creates one in a transaction. *)

Owners == {u \in Users : users[u].roles \cap OwnerRoles # {}}

FindOwner(x) ==
    /\ script[x] = "ready" /\ Begin
    /\ script' = [script EXCEPT ![x] = IF Owners = {} THEN "creating" ELSE "done"]
    /\ raced' = (raced \/ \E y \in Scripts \ {x} : script[y] = "creating")
    /\ UNCHANGED <<now, rows, cookie, page, request>>

CreateOwner(x) ==
    /\ script[x] = "creating"
    /\ script' = [script EXCEPT ![x] = "done"]
    /\ \E u \in Users, extra \in SUBSET Roles :
         /\ users[u] = NoUser /\ Cardinality(extra) <= 1
         /\ users' = [users EXCEPT ![u] = [status |-> "active", roles |-> OwnerRoles \cup extra]]
    /\ UNCHANGED <<now, session, grant, cookie, page, request, begun, raced>>

\* nothing in the program disables a user; the status is set in the database by hand
Disable(u) ==
    /\ users[u].status = "active" /\ Begin
    /\ users' = [users EXCEPT ![u].status = "disabled"]
    /\ UNCHANGED <<now, session, grant, cookie, page, request, setup>>

PermissionsOf(u) == UNION {RolePermissions[r] : r \in users[u].roles}

-----------------------------------------------------------------------------
(* What a tab sends.  A page can be opened from anywhere; the login form is on the
   login page, the other buttons are on the pages of an administrator. *)

Live(s) == s # None /\ session[s] # None /\ ~session[s].revoked /\ now < session[s].expiresAt

\* whether no restore that starts now could succeed (history, for the properties)
Dead(s) == ~Live(s) \/ users[session[s].user].status # "active"

Asking(t, kind, stage, wants) ==
    LET token == cookie[JarOf[t]] IN
    [Idle EXCEPT !.kind = kind, !.token = token, !.at = now, !.wants = wants,
                 !.late = kind = "use" /\ Dead(token),
                 !.stage = IF stage = "find_session" /\ token = None THEN "answer" ELSE stage]

Send(t, kind, stage, wants) ==
    request' = [request EXCEPT ![t] = Asking(t, kind, stage, wants)]

Ask(t) ==
    /\ request[t].stage = "idle" /\ Begin
    /\ \/ page[t] = "login" /\ Send(t, "login", "find_user", {})
       \/ page[t] = "admin" /\ \E p \in Permissions : Send(t, "use", "find_session", {p})
       \/ page[t] = "admin" /\ Send(t, "logout", "find_session", {})
       \/ page[t] = "admin" /\ \E code \in Asked : Send(t, "step_up", "find_session", {code})
    /\ UNCHANGED <<now, rows, cookie, page, setup>>

\* an address is typed, a link followed, or the page reloaded: the layout of the
\* administrator's pages and the login page restore the session and redirect by it
Navigate(t) ==
    /\ request[t].stage = "idle" /\ Begin
    /\ Send(t, "page", "find_session", {})
    /\ UNCHANGED <<now, rows, cookie, page, setup>>

Goto(t, stage) == request' = [request EXCEPT ![t].stage = stage]

\* the answer carries what the browser looks at, and the session it is about
Finish(t, ok) == request' = [request EXCEPT ![t] =
    [Idle EXCEPT !.stage = "answer", !.kind = request[t].kind, !.token = request[t].token,
                 !.ok = ok]]

-----------------------------------------------------------------------------
(* loginAdmin *)

FindUser(t) ==
    /\ request[t].stage = "find_user"
    /\ \/ \E u \in Users :
            /\ users[u].status = "active"
            /\ request' = [request EXCEPT ![t].stage = "create_session", ![t].user = u]
       \/ Finish(t, FALSE)      \* no active user of that name, or a wrong password
    /\ UNCHANGED <<now, rows, cookie, page, begun, setup>>

CreateSession(t) ==
    /\ request[t].stage = "create_session"
    /\ \E s \in Sessions :
         /\ session[s] = None
         /\ session' = [session EXCEPT ![s] =
                [user |-> request[t].user, expiresAt |-> request[t].at + SessionMinutes,
                 revoked |-> FALSE]]
         /\ request' = [request EXCEPT ![t] =
                [Idle EXCEPT !.stage = "answer", !.kind = "login", !.token = s, !.ok = TRUE]]
    /\ UNCHANGED <<now, users, grant, cookie, page, begun, setup>>

-----------------------------------------------------------------------------
(* restoreAdminSession, at the start of every other request.  `at' is the time the
   restore began; the session it returns is a copy. *)

\* Mutant: a logout that gives up when there is nothing to restore, and is answered all the same
NotRestoredEither(t) == Finish(t, request[t].kind = "logout")

NotRestored(t) ==
    IF request[t].kind = "logout" THEN Goto(t, "revoke_session") ELSE Finish(t, FALSE)

\* Mutant: a lookup that takes a session for what its expiry says
FindSessionByExpiry(t) ==
    LET r == request[t] IN
    /\ r.stage = "find_session"
    /\ IF session[r.token].expiresAt <= r.at
       THEN NotRestored(t)
       ELSE request' = [request EXCEPT ![t].stage = "find_holder",
                                       ![t].user = session[r.token].user]
    /\ UNCHANGED <<now, rows, cookie, page, begun, setup>>

FindSession(t) ==
    LET r == request[t] IN
    /\ r.stage = "find_session"
    /\ IF session[r.token].revoked \/ session[r.token].expiresAt <= r.at
       THEN NotRestored(t)
       ELSE request' = [request EXCEPT ![t].stage = "find_holder",
                                       ![t].user = session[r.token].user]
    /\ UNCHANGED <<now, rows, cookie, page, begun, setup>>

FindHolder(t) ==
    LET r == request[t] IN
    /\ r.stage = "find_holder"
    /\ IF users[r.user].status # "active" THEN NotRestored(t)
       ELSE request' = [request EXCEPT ![t].stage = "find_grants",
              ![t].held = IF r.kind = "use" THEN PermissionsOf(r.user) ELSE {}]
    /\ UNCHANGED <<now, rows, cookie, page, begun, setup>>

\* Mutant: the grants of the user, whichever session confirmed them
ActiveGrantsOfUser(s, at) ==
    {g \in Grants : /\ grant[g] # None /\ session[grant[g].session].user = session[s].user
                    /\ ~grant[g].revoked /\ at < grant[g].expiresAt}

\* Mutant: expired grants too, since the expiry of the latest is checked afterwards
ActiveGrantsEver(s, at) ==
    {g \in Grants : grant[g] # None /\ grant[g].session = s /\ ~grant[g].revoked}

ActiveGrants(s, at) ==
    {g \in Grants : /\ grant[g] # None /\ grant[g].session = s
                    /\ ~grant[g].revoked /\ at < grant[g].expiresAt}

\* createSessionDto: the codes of all grants, the expiry of the latest
StepUpOf(active) ==
    IF active = {} THEN None
    ELSE [codes |-> UNION {grant[g].codes : g \in active},
          until |-> Max({grant[g].expiresAt : g \in active})]

FindGrants(t) ==
    LET r == request[t]
        restored == [r EXCEPT !.stepUp = StepUpOf(ActiveGrants(r.token, r.at))] IN
    /\ r.stage = "find_grants"
    /\ request' = [request EXCEPT ![t] =
         CASE r.kind = "page"    -> [Idle EXCEPT !.stage = "answer", !.kind = "page", !.ok = TRUE]
           [] r.kind = "use"     -> [restored EXCEPT !.stage = "authorise"]
           [] r.kind = "logout"  -> [Idle EXCEPT !.stage = "revoke_session", !.kind = "logout",
                                                 !.token = r.token]
           [] r.kind = "step_up" -> [r EXCEPT !.stage = "find_again"]]
    /\ UNCHANGED <<now, rows, cookie, page, begun, setup>>

-----------------------------------------------------------------------------
(* requirePermissionWithStepUp, on the copy the restore returned. *)

StepUpValid(stepUp, permission) ==
    stepUp # None /\ now < stepUp.until /\ permission \in stepUp.codes

Authorised(r) ==
    \A p \in r.wants : p \in r.held /\ (p \in NeedsStepUp => StepUpValid(r.stepUp, p))

Authorise(t) ==
    /\ request[t].stage = "authorise"
    /\ IF Authorised(request[t]) THEN Goto(t, "authorised") ELSE Finish(t, FALSE)
    /\ UNCHANGED <<now, rows, cookie, page, begun, setup>>

\* the operation itself is in the modules of the elections and results
Operate(t) ==
    /\ request[t].stage = "authorised"
    /\ Finish(t, TRUE)
    /\ UNCHANGED <<now, rows, cookie, page, begun, setup>>

-----------------------------------------------------------------------------
(* createPasswordStepUpGrant: the user is read again; the codes begun for are not
   compared with the user's permissions. *)

FindAgain(t) ==
    LET r == request[t] IN
    /\ r.stage = "find_again"
    /\ \/ /\ users[r.user].status = "active" /\ r.wants # {}
          /\ request' = [request EXCEPT ![t].stage = "create_grant", ![t].at = now]
       \/ Finish(t, FALSE)      \* disabled meanwhile, or a wrong password
    /\ UNCHANGED <<now, rows, cookie, page, begun, setup>>

CreateGrant(t) ==
    LET r == request[t] IN
    /\ r.stage = "create_grant"
    /\ \E g \in Grants :
         /\ grant[g] = None
         /\ grant' = [grant EXCEPT ![g] =
                [session |-> r.token, codes |-> r.wants, verifiedAt |-> r.at,
                 expiresAt |-> r.at + StepUpMinutes, revoked |-> FALSE]]
    /\ Finish(t, TRUE)
    /\ UNCHANGED <<now, users, session, cookie, page, begun, setup>>

-----------------------------------------------------------------------------
(* logoutAdmin: two updates, whether or not the session could be restored. *)

RevokeSession(t) ==
    LET s == request[t].token IN
    /\ request[t].stage = "revoke_session"
    /\ session' = [session EXCEPT ![s].revoked = TRUE]
    /\ Goto(t, "revoke_grants")
    /\ UNCHANGED <<now, users, grant, cookie, page, begun, setup>>

RevokeGrants(t) ==
    /\ request[t].stage = "revoke_grants"
    /\ grant' = [g \in Grants |->
         IF grant[g] # None /\ grant[g].session = request[t].token
         THEN [grant[g] EXCEPT !.revoked = TRUE] ELSE grant[g]]
    /\ Finish(t, TRUE)
    /\ UNCHANGED <<now, users, session, cookie, page, begun, setup>>

-----------------------------------------------------------------------------
(* The answer, as the browser takes it. *)

\* a logout without a cookie has nothing to do and succeeds
Succeeded(r) == r.ok \/ (r.kind = "logout" /\ r.token = None)

Opening(token) ==
    [Idle EXCEPT !.kind = "page", !.token = token, !.at = now,
                 !.stage = IF token = None THEN "answer" ELSE "find_session"]

\* after a login, and after any logout, the form goes to a page
Answer(t) ==
    LET r == request[t]  b == JarOf[t] IN
    /\ r.stage = "answer"
    /\ cookie' = [cookie EXCEPT ![b] =
         CASE r.kind = "login" /\ r.ok         -> r.token
           [] r.kind = "logout" /\ Succeeded(r) -> None
           [] OTHER                             -> @]
    /\ page' = [page EXCEPT ![t] = IF r.kind # "page" THEN @ ELSE IF r.ok THEN "admin" ELSE "login"]
    /\ request' = [request EXCEPT ![t] =
         IF (r.kind = "login" /\ r.ok) \/ r.kind = "logout"
         THEN Opening(cookie'[b])
         ELSE Idle]
    /\ UNCHANGED <<now, rows, begun, setup>>

\* the process dies or the answer is lost: the logout button leaves the page anyway
Fail(t) ==
    /\ request[t].stage # "idle"
    /\ IF request[t].kind = "logout" THEN Send(t, "page", "find_session", {})
       ELSE request' = [request EXCEPT ![t] = Idle]
    /\ UNCHANGED <<now, rows, cookie, page, begun, setup>>

Serve(t) ==
    \/ FindUser(t) \/ CreateSession(t)
    \/ FindSession(t) \/ FindHolder(t) \/ FindGrants(t)
    \/ Authorise(t) \/ Operate(t)
    \/ FindAgain(t) \/ CreateGrant(t)
    \/ RevokeSession(t) \/ RevokeGrants(t)

Next ==
    \/ Tick
    \/ \E x \in Scripts : FindOwner(x) \/ CreateOwner(x)
    \/ \E u \in Users : Disable(u)
    \/ \E t \in Tabs : Ask(t) \/ Navigate(t) \/ Serve(t) \/ Answer(t) \/ Fail(t)

Spec == Init /\ [][Next]_vars

-----------------------------------------------------------------------------
(* Properties *)

RequestType ==
    [stage : Stages, kind : {"none", "login", "page", "use", "logout", "step_up"},
     token : Sessions \cup {None}, at : 0..MaxTime, user : Users \cup {None},
     held : SUBSET Permissions, stepUp : StepUpType \cup {None},
     wants : SUBSET (Permissions \cup Asked), ok : BOOLEAN, late : BOOLEAN]

\* Types of the rows, the browsers and what a request carries with it.
AccessTypeOK ==
    /\ now \in 0..MaxTime
    /\ users \in [Users -> [status : {"absent", "active", "disabled"}, roles : SUBSET Roles]]
    /\ session \in [Sessions -> SessionRow \cup {None}]
    /\ grant \in [Grants -> GrantRow \cup {None}]
    /\ cookie \in [Browsers -> Sessions \cup {None}]
    /\ page \in [Tabs -> {"login", "admin"}]
    /\ request \in [Tabs -> RequestType]
    /\ begun \in 0..MaxBegun
    /\ script \in [Scripts -> {"ready", "creating", "done"}] /\ raced \in BOOLEAN

\* A sensitive permission is used only when the same session confirmed the password for
\* that very permission, no longer before the request than a confirmation lasts: although
\* the session holds the codes of all its confirmations under the latest expiry.
EachConfirmed ==
    \A t \in Tabs : request[t].stage = "authorised" =>
      \A p \in request[t].wants \cap NeedsStepUp : \E g \in Grants :
        /\ grant[g] # None /\ grant[g].session = request[t].token
        /\ p \in grant[g].codes
        /\ request[t].at < grant[g].verifiedAt + StepUpMinutes

\* A request sent after its session was revoked or had run out, or after its user was
\* disabled, is never authorised, whatever logins, logouts and confirmations overlap
\* with it in other tabs: not even by a step-up row that a confirmation inserted after
\* the logout had revoked the others.
NothingAfterLogout ==
    \A t \in Tabs : request[t].stage = "authorised" => ~request[t].late

\* A session whose logout got as far as its second update is revoked together with every
\* step-up row there was, and a logout the user was told of leaves no usable session behind.
LogoutEndsSession ==
    \A t \in Tabs :
      LET r == request[t] IN
      r.kind = "logout" /\ r.stage = "answer" /\ Succeeded(r) /\ r.token # None =>
        ~Live(r.token)

\* A logout is final: both of the above.
LogoutIsFinal == NothingAfterLogout /\ LogoutEndsSession

\* The script makes one owner however often it is run, except when two runs overlap.
OneOwner == ~raced => \A u, v \in Owners : u = v

\* What a step may never do: give a session back after it was revoked, or lengthen it;
\* or change a step-up row other than by revoking it.
RowsOnlyEnd ==
    [][/\ \A s \in Sessions : session[s] # None =>
            session'[s] \in {session[s], [session[s] EXCEPT !.revoked = TRUE]}
       /\ \A g \in Grants : grant[g] # None =>
            grant'[g] \in {grant[g], [grant[g] EXCEPT !.revoked = TRUE]}]_vars

-----------------------------------------------------------------------------
(* The inductive invariant behind the properties above. *)

\* Rows and cookies name rows that exist.
RowsKnown ==
    /\ \A s \in Sessions : session[s] # None => users[session[s].user].status # "absent"
    /\ \A g \in Grants : grant[g] # None =>
         /\ session[grant[g].session] # None
         /\ grant[g].verifiedAt \in 0..MaxTime
         /\ grant[g].expiresAt = grant[g].verifiedAt + StepUpMinutes
    /\ \A b \in Browsers : cookie[b] # None => session[cookie[b]] # None

Confirms(g, r, p) ==
    /\ grant[g] # None /\ grant[g].session = r.token /\ p \in grant[g].codes
    /\ r.at < grant[g].verifiedAt + StepUpMinutes

WithSession == {"find_session", "find_holder", "find_grants", "authorise", "authorised",
                "find_again", "create_grant", "revoke_session", "revoke_grants"}
WithHolder == WithSession \ {"find_session", "revoke_session", "revoke_grants"}

\* What the handler of a request may rely on at each of its steps.
HandlerKnows(r) ==
    /\ r.token # None => session[r.token] # None
    /\ r.stage \in WithSession => r.token # None
    /\ r.stage = "create_session" => r.user # None /\ users[r.user].status # "absent"
    /\ r.stage \in WithHolder => r.user = session[r.token].user
    /\ r.stage \in {"find_session", "find_holder", "find_grants"} =>
         r.kind \in {"page", "use", "logout", "step_up"}
    /\ r.stage \in {"authorise", "authorised"} => r.kind = "use"
    /\ r.stage \in {"find_again", "create_grant"} => r.kind = "step_up"
    /\ r.stage \in {"revoke_session", "revoke_grants"} => r.kind = "logout"
    /\ r.kind = "step_up" => r.wants \subseteq Asked

\* A request that was late stays behind whatever made it late.
LateStopped(r) ==
    r.late =>
      /\ r.stage \notin {"find_grants", "authorise", "authorised"}
      /\ r.stage = "find_session" =>
           \/ session[r.token].revoked
           \/ session[r.token].expiresAt <= r.at
           \/ users[session[r.token].user].status # "active"
      /\ r.stage = "find_holder" => users[r.user].status # "active"

\* From its first update on, the session of a logout is revoked.
LogoutRevokes(r) ==
    r.kind = "logout" /\ (r.stage = "revoke_grants" \/ (r.stage = "answer" /\ r.ok)) =>
      r.token # None /\ session[r.token].revoked

\* Every code the copy holds was confirmed in time, though under one expiry for all.
CopyConfirmed(r) ==
    /\ r.stage \in {"authorise", "authorised"} /\ r.stepUp # None =>
         \A p \in r.stepUp.codes : \E g \in Grants : Confirms(g, r, p)
    /\ r.stage = "authorised" =>
         \A p \in r.wants \cap NeedsStepUp : \E g \in Grants : Confirms(g, r, p)

RequestInOrder(r) == HandlerKnows(r) /\ LateStopped(r) /\ LogoutRevokes(r) /\ CopyConfirmed(r)

RequestsInOrder == \A t \in Tabs : RequestInOrder(request[t])

\* Only one run at a time is about to create the owner, and only while there is none.
ScriptsInOrder ==
    ~raced => \A x \in Scripts : script[x] = "creating" =>
                /\ Owners = {}
                /\ \A y \in Scripts : script[y] = "creating" => y = x
====
