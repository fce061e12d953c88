--------------------------- MODULE VoterBrowserProofs ---------------------------
(***************************************************************************)
(* Proofs about the sign-in of voters and about their pages: of VoterAuth, *)
(* and of VoterBrowser, whose invariant rests on it.  They hold for any    *)
(* number of voters, elections, tabs and browsers, any limit of failed     *)
(* attempts, any length of locks and sessions and any addresses typed.     *)
(***************************************************************************)
EXTENDS VoterBrowser, TLAPS

-----------------------------------------------------------------------------
(* The parts of the inductive invariants.                                  *)

(* A row that is not there yet has run out.                                *)
FreshHasExpired == \A s \in Fresh : session[s].expiresAt = 0

(* What a handler may rely on between its calls, whatever the others write.*)
CheckKnows(t) ==
  LET c == check[t] IN
  /\ c.at <= now
  /\ c.pc \in {"idle", "find"} <=> c.voter = None
  /\ c.pc \in {"look", "right", "wrong", "admit"} =>
       c.session # None /\ session[c.session].voter = c.voter
  /\ c.pc \in {"right", "admit", "listed", "clear"} => c.person = c.voter
  /\ c.pc = "clear" => c.session # None

ChecksKnow == \A t \in Tabs : CheckKnows(t)

(* Without overlap a handler has its credential to itself.                 *)
CheckAlone(t) ==
  LET c == check[t] IN
  /\ \A u \in Tabs : c.voter # None /\ check[u].voter = c.voter => u = t
  /\ c.pc \in {"right", "wrong"} =>
       /\ c.attempts = credential[c.voter].attempts
       /\ c.status = credential[c.voter].status
  /\ c.pc \in {"listed", "clear"} => credential[c.voter].status # "locked"

ChecksAlone == ~overlapped => \A t \in Tabs : CheckAlone(t)

-----------------------------------------------------------------------------
(* The steps, one disjunct per action.                                     *)

TabStep(t) ==
  \/ \E v \in Voters : OpenLink(t, v)
  \/ \E e \in Elections : Choose(t, e)
  \/ \E p \in Persons : SendIdentifier(t, p)
  \/ \E p \in Persons : SendListed(t, p)
  \/ GoHome(t)
  \/ LookUp(t) \/ CountWrong(t) \/ ClearWrong(t) \/ Admit(t)
  \/ FindListed(t) \/ AdmitListed(t) \/ ClearListed(t)
  \/ FailCheck(t)

LEMMA StepCases ==
  ASSUME [AuthNext]_authVars
  PROVE  \/ Tick
         \/ \E e \in Elections, to \in Stages : Administer(e, to)
         \/ \E t \in Tabs : TabStep(t)
         \/ UNCHANGED authVars
  BY DEF AuthNext, Judge, TabStep

LEMMA Numbers ==
  /\ MaxTime \in Nat /\ MaxFailures \in Nat /\ EndsAt \in Nat
  /\ LockMinutes \in Nat /\ SessionMinutes \in Nat
  /\ MaxFailedAttempts \in Nat /\ MaxFailedAttempts > 0
  BY VoterAuthAssumption

LEMMA Names ==
  /\ Voters \subseteq Persons
  /\ None \notin Persons /\ None \notin Sessions /\ None \notin Elections /\ None \notin Voters
  BY VoterAuthAssumption

LEMMA Zero == 0 \in 0..MaxTime
  BY Numbers

-----------------------------------------------------------------------------
(* The handler of a tab after its step.                                    *)

Moved(t) ==
  /\ check' \in [Tabs -> CheckType]
  /\ CheckKnows(t)'
  /\ \A u \in Tabs \ {t} : check'[u] = check[u]

LEMMA PutIn ==
  ASSUME AuthTypeOK, NEW t \in Tabs, NEW new \in CheckType,
         check' = [check EXCEPT ![t] = new]
  PROVE  /\ check'[t] = new
         /\ check' \in [Tabs -> CheckType]
         /\ \A u \in Tabs \ {t} : check'[u] = check[u]
  BY DEF AuthTypeOK

LEMMA IdleTyped ==
  /\ Idle \in CheckType
  /\ Idle.pc = "idle" /\ Idle.voter = None /\ Idle.at = 0 /\ Idle.session = None
  BY Zero DEF Idle, CheckType, Pcs, States

LEMMA AnswerMoves ==
  ASSUME AuthTypeOK, NEW t \in Tabs, NEW to, Answer(t, to), UNCHANGED now
  PROVE  Moved(t) /\ check'[t] = Idle
  <1>1. check' = [check EXCEPT ![t] = Idle]
    BY DEF Answer
  <1>2. check'[t] = Idle
    BY <1>1, IdleTyped, PutIn
  <1>3. now \in Nat
    BY Numbers DEF AuthTypeOK
  <1>4. CheckKnows(t)'
    BY <1>2, <1>3, IdleTyped DEF CheckKnows
  <1>5. QED
    BY <1>1, <1>2, <1>4, IdleTyped, PutIn DEF Moved

LEMMA RefuseMoves ==
  ASSUME AuthTypeOK, NEW t \in Tabs, Refuse(t), UNCHANGED now
  PROVE  Moved(t) /\ check'[t] = Idle
  BY AnswerMoves DEF Refuse

\* What the handler knew, spelled out.
LEMMA Known ==
  ASSUME AuthTypeOK, ChecksKnow, NEW t \in Tabs
  PROVE  /\ check[t] \in CheckType /\ CheckKnows(t)
         /\ check[t].pc \notin {"idle", "find"} => check[t].voter \in Voters
         /\ check[t].pc = "admit" => check[t].session \in Sessions
         /\ check[t].pc = "clear" => check[t].session \in Sessions
  BY DEF AuthTypeOK, ChecksKnow, CheckKnows, CheckType

LEMMA MovedByForm ==
  ASSUME AuthTypeOK, ChecksKnow, FreshHasExpired, NEW t \in Tabs, NEW p \in Persons,
         SendIdentifier(t, p) \/ SendListed(t, p)
  PROVE  Moved(t) \/ UNCHANGED check
  <1>0. now \in 0..MaxTime /\ now \in Nat
    BY Numbers DEF AuthTypeOK
  <1>1. CASE SendIdentifier(t, p) /\ Valid(HeldBy(t), now)
    <2> DEFINE s == HeldBy(t)
               v == session[s].voter
               new == [Idle EXCEPT !.pc = "look", !.session = s, !.person = p,
                                   !.voter = v, !.at = now]
    <2>1. s \in Sessions
      BY <1>1 DEF Valid, HeldBy, AuthTypeOK, Jars
    <2>2. session[s] \in SessionRow /\ session[s].expiresAt > now
      BY <1>1, <2>1 DEF Valid, AuthTypeOK
    <2>3. v \in Voters
      <3>1. v \in Voters \cup {None} /\ session[s].expiresAt # 0
        BY <1>0, <2>2 DEF SessionRow
      <3>2. QED
        BY <2>1, <3>1 DEF FreshHasExpired, Fresh
    <2> HIDE DEF v, s
    <2>4. /\ new \in CheckType
          /\ new.pc = "look" /\ new.session = s /\ new.voter = v /\ new.at = now
      BY <1>0, <2>1, <2>3 DEF Idle, CheckType, Pcs, States
    <2>5. check' = [check EXCEPT ![t] = new] /\ UNCHANGED <<session, now>>
      BY <1>1 DEF SendIdentifier, Others, v, s
    <2> HIDE DEF new
    <2>6. check'[t] = new
      BY <2>4, <2>5, PutIn
    <2>7. CheckKnows(t)'
      BY <1>0, <2>1, <2>3, <2>4, <2>5, <2>6, Names DEF CheckKnows, v
    <2>8. QED
      BY <2>4, <2>5, <2>7, PutIn DEF Moved
  <1>2. CASE SendIdentifier(t, p) /\ ~Valid(HeldBy(t), now)
    BY <1>2 DEF SendIdentifier
  <1>3. CASE SendListed(t, p)
    <2> DEFINE new == [Idle EXCEPT !.pc = "find", !.person = p, !.election = page[t][2]]
    <2>1. page[t][2] \in Elections \cup {None}
      BY DEF AuthTypeOK
    <2>2. /\ new \in CheckType
          /\ new.pc = "find" /\ new.voter = None /\ new.at = 0
      BY <2>1, Zero DEF Idle, CheckType, Pcs, States
    <2>3. check' = [check EXCEPT ![t] = new] /\ UNCHANGED now
      BY <1>3 DEF SendListed, Others
    <2> HIDE DEF new
    <2>4. check'[t] = new
      BY <2>2, <2>3, PutIn
    <2>5. CheckKnows(t)'
      BY <1>0, <2>2, <2>3, <2>4 DEF CheckKnows
    <2>6. QED
      BY <2>2, <2>3, <2>5, PutIn DEF Moved
  <1>4. QED
    BY <1>1, <1>2, <1>3

LEMMA MovedByIdentifier ==
  ASSUME AuthTypeOK, ChecksKnow, NEW t \in Tabs,
         LookUp(t) \/ CountWrong(t) \/ ClearWrong(t) \/ Admit(t)
  PROVE  Moved(t)
  <1> DEFINE c == check[t]
  <1>0. c \in CheckType /\ CheckKnows(t)
    BY Known
  <1>1. CASE LookUp(t)
    <2>1. CASE Refuse(t)
      BY <1>1, <2>1, RefuseMoves DEF LookUp, Others
    <2>2. CASE check' = [check EXCEPT
                 ![t].pc = IF c.person = c.voter THEN "right" ELSE "wrong",
                 ![t].attempts = credential[c.voter].attempts,
                 ![t].status = credential[c.voter].status]
      <3> DEFINE new == [c EXCEPT !.pc = IF c.person = c.voter THEN "right" ELSE "wrong",
                                  !.attempts = credential[c.voter].attempts,
                                  !.status = credential[c.voter].status]
      <3>1. credential[c.voter] \in CredentialRow /\ c.pc = "look"
        BY <1>1, Known DEF LookUp, AuthTypeOK
      <3>2. /\ new \in CheckType /\ new.pc \in {"right", "wrong"}
            /\ new.pc = "right" => c.person = c.voter
            /\ new.person = c.person /\ new.voter = c.voter /\ new.session = c.session
            /\ new.at = c.at
        BY <1>0, <3>1 DEF CheckType, CredentialRow, Pcs
      <3>3. check' = [check EXCEPT ![t] = new] /\ UNCHANGED <<session, now>>
        BY <1>0, <1>1, <2>2 DEF AuthTypeOK, LookUp, Others
      <3> HIDE DEF new
      <3>4. check'[t] = new
        BY <3>2, <3>3, PutIn
      <3>5. CheckKnows(t)'
        BY <1>0, <3>1, <3>2, <3>3, <3>4 DEF CheckKnows
      <3>6. QED
        BY <3>2, <3>3, <3>5, PutIn DEF Moved
    <2>3. QED
      BY <1>1, <2>1, <2>2 DEF LookUp
  <1>2. CASE CountWrong(t)
    BY <1>2, RefuseMoves DEF CountWrong, Others
  <1>3. CASE ClearWrong(t)
    <2> DEFINE new == [c EXCEPT !.pc = "admit"]
    <2>1. /\ new \in CheckType /\ new.pc = "admit"
          /\ new.person = c.person /\ new.voter = c.voter /\ new.session = c.session
          /\ new.at = c.at
      BY <1>0 DEF CheckType, Pcs
    <2>2. check' = [check EXCEPT ![t] = new] /\ c.pc = "right" /\ UNCHANGED <<session, now>>
      BY <1>0, <1>3 DEF AuthTypeOK, ClearWrong, Goto, Others
    <2> HIDE DEF new
    <2>3. check'[t] = new
      BY <2>1, <2>2, PutIn
    <2>4. CheckKnows(t)'
      BY <1>0, <2>1, <2>2, <2>3 DEF CheckKnows
    <2>5. QED
      BY <2>1, <2>2, <2>4, PutIn DEF Moved
  <1>4. CASE Admit(t)
    BY <1>4, AnswerMoves DEF Admit, Others
  <1>5. QED
    BY <1>1, <1>2, <1>3, <1>4

LEMMA MovedByList ==
  ASSUME AuthTypeOK, ChecksKnow, NEW t \in Tabs,
         FindListed(t) \/ AdmitListed(t) \/ ClearListed(t)
  PROVE  Moved(t)
  <1> DEFINE c == check[t]
  <1>0. c \in CheckType /\ CheckKnows(t) /\ now \in 0..MaxTime
    BY Known DEF AuthTypeOK
  <1>1. CASE FindListed(t)
    <2>1. CASE Refuse(t)
      BY <1>1, <2>1, RefuseMoves DEF FindListed, Others
    <2>2. CASE Answer(t, At("portal"))
      BY <1>1, <2>2, AnswerMoves DEF FindListed, Others
    <2>3. CASE Finds(t) /\ check' = [check EXCEPT ![t].pc = "listed", ![t].voter = c.person,
                                                  ![t].at = now, ![t].state = state[c.election]]
      <3> DEFINE new == [c EXCEPT !.pc = "listed", !.voter = c.person, !.at = now,
                                  !.state = state[c.election]]
      <3>1. c.person \in Voters /\ state[c.election] \in States
        BY <2>3, VoterAuthAssumption DEF Finds, AuthTypeOK
      <3>2. /\ new \in CheckType /\ new.pc = "listed" /\ new.at = now
            /\ new.person = c.person /\ new.voter = c.person
        BY <1>0, <3>1 DEF CheckType, Pcs
      <3>3. check' = [check EXCEPT ![t] = new] /\ UNCHANGED now
        BY <1>0, <1>1, <2>3 DEF AuthTypeOK, FindListed, Others
      <3> HIDE DEF new
      <3>4. check'[t] = new
        BY <3>2, <3>3, PutIn
      <3>5. CheckKnows(t)'
        BY <1>0, <3>1, <3>2, <3>3, <3>4, Names, Numbers DEF CheckKnows
      <3>6. QED
        BY <3>2, <3>3, <3>5, PutIn DEF Moved
    <2>4. QED
      BY <1>1, <2>1, <2>2, <2>3 DEF FindListed
  <1>2. CASE AdmitListed(t)
    <2>1. PICK s \in Fresh : check' = [check EXCEPT ![t].pc = "clear", ![t].session = s]
      BY <1>2 DEF AdmitListed
    <2> DEFINE new == [c EXCEPT !.pc = "clear", !.session = s]
    <2>2. s \in Sessions /\ c.pc = "listed"
      BY <1>2 DEF Fresh, AdmitListed
    <2>3. /\ new \in CheckType /\ new.pc = "clear" /\ new.session = s
          /\ new.person = c.person /\ new.voter = c.voter /\ new.at = c.at
      BY <1>0, <2>2 DEF CheckType, Pcs
    <2>4. check' = [check EXCEPT ![t] = new] /\ UNCHANGED now
      BY <1>0, <1>2, <2>1 DEF AuthTypeOK, AdmitListed, Others
    <2> HIDE DEF new
    <2>5. check'[t] = new
      BY <2>3, <2>4, PutIn
    <2>6. CheckKnows(t)'
      BY <1>0, <2>2, <2>3, <2>4, <2>5, Names DEF CheckKnows
    <2>7. QED
      BY <2>3, <2>4, <2>6, PutIn DEF Moved
  <1>3. CASE ClearListed(t)
    BY <1>3, AnswerMoves DEF ClearListed, Others
  <1>4. QED
    BY <1>1, <1>2, <1>3

LEMMA MovedByTab ==
  ASSUME AuthTypeOK, ChecksKnow, FreshHasExpired, NEW t \in Tabs, TabStep(t)
  PROVE  Moved(t) \/ UNCHANGED check
  <1>1. ASSUME FailCheck(t) PROVE Moved(t)
    BY <1>1, RefuseMoves DEF FailCheck
  <1>2. ASSUME NEW v \in Voters, OpenLink(t, v) PROVE UNCHANGED check
    BY <1>2 DEF OpenLink
  <1>3. ASSUME NEW e \in Elections, Choose(t, e) PROVE UNCHANGED check
    BY <1>3 DEF Choose
  <1>4. ASSUME GoHome(t) PROVE UNCHANGED check
    BY <1>4 DEF GoHome
  <1>5. QED
    BY <1>1, <1>2, <1>3, <1>4, MovedByForm, MovedByIdentifier, MovedByList DEF TabStep

-----------------------------------------------------------------------------
(* The rows of the sessions after a step of a tab.                         *)

SessionsGood ==
  /\ session \in [Sessions -> SessionRow]
  /\ FreshHasExpired /\ SessionsAreProved

SessionsStay == \A s \in Sessions : session[s].voter # None => session'[s].voter = session[s].voter

LEMMA RowPut ==
  ASSUME SessionsGood, NEW s \in Sessions, NEW row \in SessionRow,
         row.voter # None, session[s].voter \in {None, row.voter},
         row.authenticated => row.shownBy = row.voter,
         session' = [session EXCEPT ![s] = row]
  PROVE  SessionsGood' /\ SessionsStay
  <1>1. /\ session' \in [Sessions -> SessionRow]
        /\ session'[s] = row
        /\ \A u \in Sessions \ {s} : session'[u] = session[u]
    BY DEF SessionsGood
  <1>2. FreshHasExpired'
    BY <1>1 DEF SessionsGood, FreshHasExpired, Fresh
  <1>3. SessionsAreProved'
    BY <1>1 DEF SessionsGood, SessionsAreProved
  <1>4. SessionsStay
    BY <1>1 DEF SessionsStay
  <1>5. QED
    BY <1>1, <1>2, <1>3, <1>4 DEF SessionsGood

LEMMA RowsUntouched ==
  ASSUME SessionsGood, UNCHANGED session
  PROVE  SessionsGood' /\ SessionsStay
  BY DEF SessionsGood, SessionsStay, FreshHasExpired, Fresh, SessionsAreProved

LEMMA NewSessionTyped ==
  ASSUME NEW v \in Voters, NEW authenticated \in BOOLEAN, NEW at \in Nat
  PROVE  /\ NewSession(v, authenticated, at) \in SessionRow
         /\ NewSession(v, authenticated, at).voter = v
         /\ NewSession(v, authenticated, at).authenticated = authenticated
         /\ authenticated => NewSession(v, authenticated, at).shownBy = v
  BY Numbers, Names DEF NewSession, SessionRow

LEMMA RowByLink ==
  ASSUME AuthTypeOK, SessionsGood, NEW t \in Tabs, NEW v \in Voters, OpenLink(t, v)
  PROVE  SessionsGood' /\ SessionsStay
  <1>1. CASE now < EndsAt
    <2> DEFINE row == NewSession(v, FALSE, now)
    <2>1. PICK s \in Fresh : session' = [session EXCEPT ![s] = row]
      BY <1>1 DEF OpenLink
    <2>2. s \in Sessions /\ session[s].voter = None /\ now \in Nat
      BY Numbers DEF Fresh, AuthTypeOK
    <2>3. v # None
      BY Names
    <2>4. row \in SessionRow /\ row.voter = v /\ row.authenticated = FALSE
      BY <2>2, NewSessionTyped
    <2> HIDE DEF row
    <2>5. QED
      BY <2>1, <2>2, <2>3, <2>4, RowPut
  <1>2. CASE ~(now < EndsAt)
    BY <1>2, RowsUntouched DEF OpenLink
  <1>3. QED
    BY <1>1, <1>2

LEMMA RowByAdmit ==
  ASSUME AuthTypeOK, ChecksKnow, SessionsGood, NEW t \in Tabs, Admit(t)
  PROVE  SessionsGood' /\ SessionsStay
  <1> DEFINE c == check[t]
             s == c.session
             row == [session[s] EXCEPT !.authenticated = TRUE, !.shownBy = c.person]
  <1>1. /\ c \in CheckType /\ c.voter \in Voters /\ s \in Sessions
        /\ session[s].voter = c.voter /\ c.person = c.voter
    BY Known DEF Admit, CheckKnows
  <1>2. session[s] \in SessionRow
    BY <1>1 DEF SessionsGood
  <1>3. /\ row \in SessionRow /\ row.voter = c.voter /\ row.shownBy = c.voter
    BY <1>1, <1>2 DEF SessionRow, CheckType
  <1>4. session' = [session EXCEPT ![s] = row]
    BY <1>1, <1>2 DEF Admit, SessionsGood, SessionRow
  <1>5. c.voter # None
    BY <1>1, Names
  <1> HIDE DEF row
  <1>6. QED
    BY <1>1, <1>3, <1>4, <1>5, RowPut

LEMMA RowByList ==
  ASSUME AuthTypeOK, ChecksKnow, SessionsGood, NEW t \in Tabs, AdmitListed(t)
  PROVE  SessionsGood' /\ SessionsStay
  <1> DEFINE c == check[t]
             new == NewSession(c.voter, TRUE, c.at)
             row == [new EXCEPT !.shownBy = c.person]
  <1>1. /\ c \in CheckType /\ c.voter \in Voters /\ c.at \in Nat
        /\ c.person = c.voter
    BY Known, Numbers DEF AdmitListed, CheckKnows, CheckType
  <1>2. PICK s \in Fresh : session' = [session EXCEPT ![s] = row]
    BY DEF AdmitListed
  <1>3. s \in Sessions /\ session[s].voter = None
    BY DEF Fresh
  <1>6. new \in SessionRow /\ new.voter = c.voter
    BY <1>1, NewSessionTyped
  <1> HIDE DEF new
  <1>4. row \in SessionRow /\ row.voter = c.voter /\ row.shownBy = c.voter
    BY <1>1, <1>6 DEF SessionRow, CheckType
  <1>5. c.voter # None
    BY <1>1, Names
  <1> HIDE DEF row
  <1>7. QED
    BY <1>2, <1>3, <1>4, <1>5, RowPut

LEMMA RowByTab ==
  ASSUME AuthTypeOK, ChecksKnow, SessionsGood, NEW t \in Tabs, TabStep(t)
  PROVE  SessionsGood' /\ SessionsStay
  <1>1. ASSUME NEW e \in Elections, Choose(t, e) PROVE UNCHANGED session
    BY <1>1 DEF Choose
  <1>2. ASSUME NEW p \in Persons, SendIdentifier(t, p) PROVE UNCHANGED session
    BY <1>2 DEF SendIdentifier
  <1>3. ASSUME NEW p \in Persons, SendListed(t, p) PROVE UNCHANGED session
    BY <1>3 DEF SendListed
  <1>4. GoHome(t) \/ LookUp(t) \/ CountWrong(t) \/ ClearWrong(t) => UNCHANGED session
    BY DEF GoHome, LookUp, CountWrong, ClearWrong
  <1>5. FindListed(t) \/ ClearListed(t) \/ FailCheck(t) => UNCHANGED session
    BY DEF FindListed, ClearListed, FailCheck
  <1>6. QED
    BY <1>1, <1>2, <1>3, <1>4, <1>5, RowByLink, RowByAdmit, RowByList, RowsUntouched
       DEF TabStep

-----------------------------------------------------------------------------
(* The rest of the state after a step of a tab.                            *)

\* Another handler's session keeps its voter, and time does not go back.
LEMMA OthersKnow ==
  ASSUME AuthTypeOK, ChecksKnow, SessionsStay, now \in Nat, now' \in Nat, now <= now',
         NEW u \in Tabs, check'[u] = check[u]
  PROVE  CheckKnows(u)'
  <1>1. CheckKnows(u) /\ check[u] \in CheckType
    BY Known
  <1>2. check[u].at \in Nat
    BY <1>1, Numbers DEF CheckType
  <1>3. check[u].at <= now'
    BY <1>1, <1>2 DEF CheckKnows
  <1>4. check[u].pc \in {"look", "right", "wrong", "admit"} =>
          session'[check[u].session].voter = check[u].voter
    <2>1. SUFFICES ASSUME check[u].pc \in {"look", "right", "wrong", "admit"}
                   PROVE  session'[check[u].session].voter = check[u].voter
      OBVIOUS
    <2>2. /\ check[u].session \in Sessions
          /\ session[check[u].session].voter = check[u].voter
          /\ check[u].voter # None
      BY <1>1, <2>1 DEF CheckKnows, CheckType
    <2>3. QED
      BY <2>2 DEF SessionsStay
  <1>5. QED
    BY <1>1, <1>3, <1>4 DEF CheckKnows

LEMMA CredentialsTyped ==
  ASSUME AuthTypeOK, ChecksKnow, NEW t \in Tabs, TabStep(t)
  PROVE  credential' \in [Voters -> CredentialRow]
  <1> DEFINE v == check[t].voter
  <1>1. credential \in [Voters -> CredentialRow]
    BY DEF AuthTypeOK
  <1>2. CASE CountWrong(t)
    <2>1. /\ check[t].attempts \in Nat /\ check[t].status \in {"active", "locked"}
          /\ check[t].at \in Nat /\ v \in Voters
      BY <1>2, Known, Numbers DEF CountWrong, CheckType
    <2> DEFINE attempts == check[t].attempts + 1
               locked == attempts >= MaxFailedAttempts
               row == [status |-> IF locked THEN "locked" ELSE check[t].status,
                       attempts |-> attempts,
                       lockedUntil |-> IF locked THEN check[t].at + LockMinutes ELSE 0,
                       auth |-> "failed", wrong |-> credential[v].wrong + 1]
    <2>2. credential[v].wrong \in Nat
      BY <1>1, <2>1 DEF CredentialRow
    <2>3. row \in CredentialRow
      BY <2>1, <2>2, Numbers DEF CredentialRow
    <2>4. credential' = [credential EXCEPT ![v] = row]
      BY <1>1, <1>2, <2>1 DEF CountWrong
    <2> HIDE DEF row
    <2>5. QED
      BY <1>1, <2>3, <2>4
  <1>3. CASE ClearWrong(t)
    <2> DEFINE row == [NewCredential EXCEPT !.auth = "authenticated"]
    <2>1. row \in CredentialRow
      BY DEF NewCredential, CredentialRow
    <2>2. credential' = [credential EXCEPT ![v] = row]
      BY <1>3 DEF ClearWrong
    <2> HIDE DEF row
    <2>3. QED
      BY <1>1, <2>1, <2>2
  <1>4. CASE ClearListed(t)
    <2>1. v \in Voters
      BY <1>4, Known DEF ClearListed
    <2> DEFINE row == [credential[v] EXCEPT !.auth = "authenticated", !.attempts = 0,
                                            !.lockedUntil = 0, !.wrong = 0]
    <2>2. credential[v] \in CredentialRow
      BY <1>1, <2>1
    <2>3. row \in CredentialRow
      BY <2>2 DEF CredentialRow
    <2>4. credential' = [credential EXCEPT ![v] = row]
      BY <1>1, <1>4, <2>1, <2>2 DEF ClearListed, CredentialRow
    <2> HIDE DEF row
    <2>5. QED
      BY <1>1, <2>3, <2>4
  <1>5. CASE UNCHANGED credential
    BY <1>1, <1>5
  <1>6. QED
    BY <1>2, <1>3, <1>4, <1>5
       DEF TabStep, OpenLink, Choose, SendIdentifier, SendListed, GoHome, LookUp, Admit,
           FindListed, AdmitListed, FailCheck

LEMMA CookiesTyped ==
  ASSUME AuthTypeOK, ChecksKnow, NEW t \in Tabs, TabStep(t)
  PROVE  cookie' \in [Jars -> Sessions \cup {None}]
  <1>1. cookie \in [Jars -> Sessions \cup {None}] /\ JarOf[t] \in Jars
    BY DEF AuthTypeOK, Jars
  <1>2. ASSUME NEW v \in Voters, OpenLink(t, v)
        PROVE  cookie' \in [Jars -> Sessions \cup {None}]
    BY <1>1, <1>2 DEF OpenLink, Fresh
  <1>3. CASE ClearListed(t)
    <2>1. check[t].session \in Sessions
      BY <1>3, Known DEF ClearListed
    <2>2. QED
      BY <1>1, <1>3, <2>1 DEF ClearListed
  <1>4. CASE UNCHANGED cookie
    BY <1>1, <1>4
  <1>5. QED
    BY <1>2, <1>3, <1>4
       DEF TabStep, Choose, SendIdentifier, SendListed, GoHome, LookUp, CountWrong,
           ClearWrong, Admit, FindListed, AdmitListed, FailCheck

LEMMA PagePut ==
  ASSUME AuthTypeOK, NEW t \in Tabs, NEW name \in Pages, NEW e \in Elections \cup {None},
         page' = [page EXCEPT ![t] = <<name, e>>]
  PROVE  page' \in [Tabs -> Pages \X (Elections \cup {None})]
  BY DEF AuthTypeOK

LEMMA PageRefused ==
  ASSUME AuthTypeOK, NEW t \in Tabs, Refuse(t)
  PROVE  page' \in [Tabs -> Pages \X (Elections \cup {None})]
  BY DEF AuthTypeOK, Refuse, Answer

LEMMA PagesTyped ==
  ASSUME AuthTypeOK, ChecksKnow, NEW t \in Tabs, TabStep(t)
  PROVE  page' \in [Tabs -> Pages \X (Elections \cup {None})]
  <1> DEFINE PageTyped == page' \in [Tabs -> Pages \X (Elections \cup {None})]
  <1>0. UNCHANGED page => PageTyped
    BY DEF AuthTypeOK
  <1>1. ASSUME NEW v \in Voters, OpenLink(t, v) PROVE PageTyped
    <2>1. PICK name \in {"identify", "election", "invite"} :
            page' = [page EXCEPT ![t] = <<name, None>>]
      BY <1>1 DEF OpenLink, At
    <2>2. name \in Pages
      BY DEF Pages
    <2>3. QED
      BY <2>1, <2>2, PagePut
  <1>2. ASSUME NEW e \in Elections, Choose(t, e) PROVE PageTyped
    BY <1>2, PagePut DEF Choose, Pages
  <1>3. GoHome(t) => PageTyped
    BY PagePut DEF GoHome, At, Pages
  <1>4. Admit(t) => PageTyped
    BY PagePut DEF Admit, Answer, At, Pages
  <1>5. ClearListed(t) => PageTyped
    <2>1. SUFFICES ASSUME ClearListed(t) PROVE PageTyped
      OBVIOUS
    <2>2. PICK name \in {"ballot", "results", "portal"}, e \in {check[t].election, None} :
            page' = [page EXCEPT ![t] = <<name, e>>]
      BY <2>1 DEF ClearListed, Answer, At
    <2>3. name \in Pages /\ e \in Elections \cup {None}
      BY Known DEF Pages, CheckType
    <2>4. QED
      BY <2>2, <2>3, PagePut
  <1>6. FindListed(t) => PageTyped
    <2>1. SUFFICES ASSUME FindListed(t) PROVE PageTyped
      OBVIOUS
    <2>2. CASE Answer(t, At("portal"))
      BY <2>2, PagePut DEF Answer, At, Pages
    <2>3. QED
      BY <1>0, <2>1, <2>2, PageRefused DEF FindListed
  <1>7. LookUp(t) => PageTyped
    BY <1>0, PageRefused DEF LookUp
  <1>8. CountWrong(t) \/ FailCheck(t) => PageTyped
    BY PageRefused DEF CountWrong, FailCheck
  <1>9. ClearWrong(t) \/ AdmitListed(t) => PageTyped
    BY <1>0 DEF ClearWrong, AdmitListed
  <1>10. ASSUME NEW p \in Persons, SendIdentifier(t, p) \/ SendListed(t, p) PROVE PageTyped
    BY <1>0, <1>10 DEF SendIdentifier, SendListed
  <1> HIDE DEF PageTyped
  <1>11. QED
    BY <1>1, <1>2, <1>3, <1>4, <1>5, <1>6, <1>7, <1>8, <1>9, <1>10 DEF TabStep, PageTyped

LEMMA BoundsTyped ==
  ASSUME AuthTypeOK, NEW t \in Tabs, TabStep(t)
  PROVE  /\ UNCHANGED <<now, state>>
         /\ failures' \in 0..MaxFailures /\ overlapped' \in BOOLEAN
  <1> USE DEF AuthTypeOK, Others
  <1>1. ASSUME NEW v \in Voters, OpenLink(t, v) PROVE UNCHANGED <<now, state, failures, overlapped>>
    BY <1>1 DEF OpenLink
  <1>2. ASSUME NEW e \in Elections, Choose(t, e) PROVE UNCHANGED <<now, state, failures, overlapped>>
    BY <1>2 DEF Choose
  <1>3. ASSUME NEW p \in Persons, SendIdentifier(t, p)
        PROVE  UNCHANGED <<now, state, failures>> /\ overlapped' \in BOOLEAN
    BY <1>3 DEF SendIdentifier
  <1>4. ASSUME NEW p \in Persons, SendListed(t, p)
        PROVE  UNCHANGED <<now, state, failures, overlapped>>
    BY <1>4 DEF SendListed
  <1>5. FindListed(t) => UNCHANGED <<now, state, failures>> /\ overlapped' \in BOOLEAN
    BY DEF FindListed
  <1>6. FailCheck(t) => UNCHANGED <<now, state, overlapped>> /\ failures' \in 0..MaxFailures
    BY Numbers DEF FailCheck
  <1>7. GoHome(t) \/ LookUp(t) \/ CountWrong(t) => UNCHANGED <<now, state, failures, overlapped>>
    BY DEF GoHome, LookUp, CountWrong
  <1>8. ClearWrong(t) \/ Admit(t) \/ AdmitListed(t) \/ ClearListed(t)
          => UNCHANGED <<now, state, failures, overlapped>>
    BY DEF ClearWrong, Admit, AdmitListed, ClearListed
  <1>9. QED
    BY <1>1, <1>2, <1>3, <1>4, <1>5, <1>6, <1>7, <1>8 DEF TabStep

-----------------------------------------------------------------------------
(* Types, what handlers rely on, and whose sessions are authenticated.     *)

AuthInv == AuthTypeOK /\ ChecksKnow /\ FreshHasExpired /\ SessionsAreProved

LEMMA AuthInvStarts ==
  ASSUME AuthInit
  PROVE  AuthInv
  <1>1. AuthTypeOK
    <2>1. NewCredential \in CredentialRow /\ NoSession \in SessionRow
      BY DEF NewCredential, CredentialRow, NoSession, SessionRow
    <2>2. At("portal") \in Pages \X (Elections \cup {None}) /\ "open" \in States
      BY DEF At, Pages, States
    <2>3. now \in 0..MaxTime /\ failures \in 0..MaxFailures /\ overlapped \in BOOLEAN
      <3>1. now = 0 /\ failures = 0 /\ overlapped = FALSE
        BY DEF AuthInit
      <3>2. 0 \in 0..MaxTime /\ 0 \in 0..MaxFailures
        BY Numbers
      <3>3. overlapped \in BOOLEAN
        BY <3>1
      <3>4. QED
        BY <3>1, <3>2, <3>3
    <2>4. /\ credential \in [Voters -> CredentialRow] /\ session \in [Sessions -> SessionRow]
          /\ state \in [Elections -> States] /\ cookie \in [Jars -> Sessions \cup {None}]
      BY <2>1, <2>2 DEF AuthInit
    <2>5. page \in [Tabs -> Pages \X (Elections \cup {None})] /\ check \in [Tabs -> CheckType]
      BY <2>2, IdleTyped DEF AuthInit
    <2>6. QED
      BY <2>3, <2>4, <2>5 DEF AuthTypeOK
  <1>2. ChecksKnow
    BY IdleTyped, Numbers DEF AuthInit, ChecksKnow, CheckKnows
  <1>3. FreshHasExpired /\ SessionsAreProved
    BY DEF AuthInit, FreshHasExpired, SessionsAreProved, NoSession, Fresh
  <1>4. QED
    BY <1>1, <1>2, <1>3 DEF AuthInv

LEMMA AuthInvByTab ==
  ASSUME AuthInv, NEW t \in Tabs, TabStep(t)
  PROVE  AuthInv'
  <1>1. AuthTypeOK /\ ChecksKnow /\ FreshHasExpired /\ SessionsGood
    BY DEF AuthInv, SessionsGood, AuthTypeOK
  <1>2. Moved(t) \/ UNCHANGED check
    BY <1>1, MovedByTab
  <1>3. SessionsGood' /\ SessionsStay
    BY <1>1, RowByTab
  <1>4. /\ UNCHANGED <<now, state>>
        /\ failures' \in 0..MaxFailures /\ overlapped' \in BOOLEAN
    BY <1>1, BoundsTyped
  <1>5. check' \in [Tabs -> CheckType]
    BY <1>1, <1>2 DEF Moved, AuthTypeOK
  <1>6. AuthTypeOK'
    BY <1>1, <1>3, <1>4, <1>5, CredentialsTyped, CookiesTyped, PagesTyped
       DEF AuthTypeOK, SessionsGood
  <1>7. now \in Nat /\ now' \in Nat /\ now <= now'
    BY <1>1, <1>4, Numbers DEF AuthTypeOK
  <1>8. ChecksKnow'
    <2>1. SUFFICES ASSUME NEW u \in Tabs PROVE CheckKnows(u)'
      BY DEF ChecksKnow
    <2>2. CASE check'[u] = check[u]
      BY <1>1, <1>3, <1>7, <2>2, OthersKnow
    <2>3. CASE check'[u] # check[u]
      BY <1>2, <2>3 DEF Moved
    <2>4. QED
      BY <2>2, <2>3
  <1>9. QED
    BY <1>3, <1>6, <1>8 DEF AuthInv, SessionsGood

LEMMA AuthInvByOther ==
  ASSUME AuthInv, UNCHANGED <<credential, session, cookie, check, page, failures, overlapped>>,
         now' \in 0..MaxTime, now <= now', state' \in [Elections -> States]
  PROVE  AuthInv'
  <1>1. AuthTypeOK /\ ChecksKnow /\ SessionsGood
    BY DEF AuthInv, SessionsGood, AuthTypeOK
  <1>2. AuthTypeOK'
    BY <1>1 DEF AuthTypeOK, Jars
  <1>3. SessionsGood' /\ SessionsStay
    BY <1>1, RowsUntouched
  <1>4. now \in Nat /\ now' \in Nat
    BY <1>1, Numbers DEF AuthTypeOK
  <1>5. ChecksKnow'
    BY <1>1, <1>3, <1>4, OthersKnow DEF ChecksKnow
  <1>6. QED
    BY <1>2, <1>3, <1>5 DEF AuthInv, SessionsGood

LEMMA AuthInvKept ==
  ASSUME AuthInv, [AuthNext]_authVars
  PROVE  AuthInv'
  <1>0. AuthTypeOK
    BY DEF AuthInv
  <1>1. CASE Tick
    <2>1. now' \in 0..MaxTime /\ now <= now'
      BY <1>0, <1>1, Numbers DEF Tick, AuthTypeOK
    <2>2. QED
      BY <1>0, <1>1, <2>1, AuthInvByOther DEF Tick, AuthTypeOK
  <1>2. ASSUME NEW e \in Elections, NEW to \in Stages, Administer(e, to) PROVE AuthInv'
    <2>1. to \in States
      BY VoterAuthAssumption
    <2>2. state' \in [Elections -> States]
      BY <1>0, <1>2, <2>1 DEF Administer, AuthTypeOK
    <2>3. now' \in 0..MaxTime /\ now <= now'
      BY <1>0, <1>2, Numbers DEF Administer, AuthTypeOK
    <2>4. QED
      BY <1>2, <2>2, <2>3, AuthInvByOther DEF Administer
  <1>3. CASE UNCHANGED authVars
    <2>1. now' \in 0..MaxTime /\ now <= now' /\ state' \in [Elections -> States]
      BY <1>0, <1>3, Numbers DEF authVars, AuthTypeOK
    <2>2. QED
      BY <1>3, <2>1, AuthInvByOther DEF authVars
  <1>4. QED
    BY <1>1, <1>2, <1>3, StepCases, AuthInvByTab

(***************************************************************************)
(* Whatever the tabs of a browser do to their common cookie between the    *)
(* database calls of a check, every value of VoterAuth's variables keeps   *)
(* its type and a session is authenticated only by the identifier of the   *)
(* voter it belongs to.                                                    *)
(***************************************************************************)
THEOREM SessionsCorrect == AuthSpec => [](AuthTypeOK /\ SessionsAreProved)
  <1>1. AuthInit => AuthInv
    BY AuthInvStarts
  <1>2. AuthInv /\ [AuthNext]_authVars => AuthInv'
    BY AuthInvKept
  <1>3. AuthInv => AuthTypeOK /\ SessionsAreProved
    BY DEF AuthInv
  <1>4. QED
    BY <1>1, <1>2, <1>3, PTL DEF AuthSpec

-----------------------------------------------------------------------------
(* Locks                                                                   *)

\* A lock in force refuses the handlers at their look-up.
LEMMA LockRefuses ==
  ASSUME AuthInv, NEW t \in Tabs, NEW v \in Voters, InForce(v), TabStep(t),
         check'[t].voter = v, check'[t].pc \in {"right", "wrong", "admit", "listed", "clear"}
  PROVE  check[t].voter = v /\ check[t].pc \in {"right", "wrong", "admit", "listed", "clear"}
  <1> DEFINE c == check[t]
             Judged == {"right", "wrong", "admit", "listed", "clear"}
  <1>1. /\ AuthTypeOK /\ c \in CheckType /\ CheckKnows(t)
        /\ now \in Nat /\ c.at \in Nat /\ c.at <= now
    BY Known, Numbers DEF AuthInv, AuthTypeOK, CheckType, CheckKnows
  <1>2. ASSUME NEW to, Answer(t, to) PROVE FALSE
    <2>1. check'[t] = Idle
      BY <1>1, <1>2, IdleTyped, PutIn DEF Answer
    <2>2. QED
      BY <2>1, IdleTyped
  <1>3. ~Refuse(t)
    BY <1>2 DEF Refuse
  <1>4. UNCHANGED check => c.voter = v /\ c.pc \in Judged
    OBVIOUS
  <1>5. ASSUME NEW p \in Persons, SendIdentifier(t, p) \/ SendListed(t, p)
        PROVE  UNCHANGED check \/ check'[t].pc \in {"look", "find"}
    BY <1>1, <1>5 DEF SendIdentifier, SendListed, AuthTypeOK, Idle
  <1>6. ASSUME LookUp(t) PROVE FALSE
    <2>1. ~IsCredentialLocked(c.voter, c.at)
      BY <1>3, <1>6 DEF LookUp
    <2>2. c.voter = v
      BY <1>1, <1>3, <1>6 DEF LookUp, AuthTypeOK, CheckType
    <2>3. credential[v].lockedUntil \in Nat
      BY <1>1 DEF AuthTypeOK, CredentialRow
    <2>4. QED
      BY <1>1, <2>1, <2>2, <2>3 DEF IsCredentialLocked, InForce
  <1>7. ASSUME FindListed(t) PROVE FALSE
    <2>1. /\ ~Barred(c.person)
          /\ check' = [check EXCEPT ![t].pc = "listed", ![t].voter = c.person,
                                    ![t].at = now, ![t].state = state[c.election]]
      BY <1>2, <1>3, <1>7 DEF FindListed
    <2>2. c.person = v
      BY <1>1, <2>1 DEF AuthTypeOK, CheckType
    <2>3. QED
      BY <2>1, <2>2 DEF Barred, InForce
  <1>8. ASSUME ClearWrong(t) PROVE c.voter = v /\ c.pc \in Judged
    BY <1>1, <1>8 DEF ClearWrong, Goto, AuthTypeOK, CheckType
  <1>9. ASSUME AdmitListed(t) PROVE c.voter = v /\ c.pc \in Judged
    <2>1. PICK s \in Fresh : check' = [check EXCEPT ![t].pc = "clear", ![t].session = s]
      BY <1>9 DEF AdmitListed
    <2>2. QED
      BY <1>1, <1>9, <2>1 DEF AdmitListed, AuthTypeOK, CheckType
  <1>10. ~CountWrong(t) /\ ~Admit(t) /\ ~ClearListed(t) /\ ~FailCheck(t)
    BY <1>2, <1>3 DEF CountWrong, Admit, ClearListed, FailCheck
  <1>11. QED
    BY <1>4, <1>5, <1>6, <1>7, <1>8, <1>9, <1>10 DEF TabStep, OpenLink, Choose, GoHome

(***************************************************************************)
(* While the lock of a credential is in force no further check gets past   *)
(* the look-up, by neither door, however many tabs and browsers check it.  *)
(***************************************************************************)
THEOREM LocksCorrect == AuthSpec => LocksHold
  <1> DEFINE Holds == \A v \in Voters : InForce(v) => Judging(v)' \subseteq Judging(v)
  <1>1. AuthInv /\ [AuthNext]_authVars => [Holds]_authVars
    <2>1. SUFFICES ASSUME AuthInv, [AuthNext]_authVars,
                          NEW v \in Voters, InForce(v), NEW u \in Judging(v)'
                   PROVE  u \in Judging(v)
      OBVIOUS
    <2>2. /\ u \in Tabs /\ check'[u].voter = v
          /\ check'[u].pc \in {"right", "wrong", "admit", "listed", "clear"}
      BY DEF Judging
    <2>3. CASE check'[u] = check[u]
      BY <2>2, <2>3 DEF Judging
    <2>4. CASE check'[u] # check[u]
      <3>1. PICK t \in Tabs : TabStep(t)
        BY <2>1, <2>4, StepCases DEF Tick, Administer, authVars
      <3>2. t = u
        BY <2>1, <2>2, <2>4, <3>1, MovedByTab DEF Moved, AuthInv
      <3>3. QED
        BY <2>1, <2>2, <3>1, <3>2, LockRefuses DEF Judging
    <2>5. QED
      BY <2>3, <2>4
  <1>2. AuthInit => AuthInv
    BY AuthInvStarts
  <1>3. AuthInv /\ [AuthNext]_authVars => AuthInv'
    BY AuthInvKept
  <1> HIDE DEF Holds
  <1>4. AuthSpec => [][Holds]_authVars
    BY <1>1, <1>2, <1>3, PTL DEF AuthSpec
  <1>5. QED
    BY <1>4 DEF LocksHold, Holds

-----------------------------------------------------------------------------
(* The counter of wrong identifiers                                        *)

Counted(v) ==
  /\ credential[v].attempts = credential[v].wrong
  /\ credential[v].wrong >= MaxFailedAttempts <=> credential[v].status = "locked"

CountInv == ChecksAlone /\ WrongOnesAreCounted

\* What has to be seen of the step of one tab.
LEMMA AloneAfter ==
  ASSUME AuthInv, CountInv, ~overlapped, NEW t \in Tabs, Moved(t),
         check'[t].voter \in {None, check[t].voter}
           \/ \A u \in Tabs : check[u].voter # check'[t].voter,
         \A v \in Voters : credential'[v] # credential[v] => v = check[t].voter,
         check'[t].pc \in {"right", "wrong"} =>
           /\ check'[t].attempts = credential'[check'[t].voter].attempts
           /\ check'[t].status = credential'[check'[t].voter].status,
         check'[t].pc \in {"listed", "clear"} => credential'[check'[t].voter].status # "locked",
         \A v \in Voters : Counted(v) /\ credential'[v] # credential[v] => Counted(v)'
  PROVE  CountInv'
  <1>1. \A u \in Tabs : CheckAlone(u)
    BY DEF CountInv, ChecksAlone
  <1>2. \A u \in Tabs \ {t} : check'[u] = check[u]
    BY DEF Moved
  <1>3. ASSUME NEW u \in Tabs PROVE CheckAlone(u)'
    <2>1. ASSUME check'[u].voter # None, NEW x \in Tabs, check'[x].voter = check'[u].voter
          PROVE  x = u
      <3>1. CASE x # t /\ u # t
        BY <1>1, <1>2, <2>1, <3>1 DEF CheckAlone
      <3>2. CASE x = t /\ u # t
        BY <1>1, <1>2, <2>1, <3>2 DEF CheckAlone
      <3>3. CASE x # t /\ u = t
        BY <1>1, <1>2, <2>1, <3>3 DEF CheckAlone
      <3>4. QED
        BY <3>1, <3>2, <3>3
    <2>2. CASE u = t
      BY <2>1, <2>2 DEF CheckAlone
    <2>3. CASE u # t
      <3>1. check'[u] = check[u] /\ CheckAlone(u)
        BY <1>1, <1>2, <2>3
      <3>2. CASE check[u].pc \in {"right", "wrong", "listed", "clear"}
        <4>1. check[u].voter \in Voters
          BY <3>2, Known DEF AuthInv
        <4>2. check[u].voter # None
          BY <4>1, Names
        <4>3. check[u].voter # check[t].voter
          BY <1>1, <2>3, <4>2 DEF CheckAlone
        <4>4. credential'[check[u].voter] = credential[check[u].voter]
          BY <4>1, <4>3
        <4>5. QED
          BY <2>1, <3>1, <4>4 DEF CheckAlone
      <3>3. CASE check[u].pc \notin {"right", "wrong", "listed", "clear"}
        BY <2>1, <3>1, <3>3 DEF CheckAlone
      <3>4. QED
        BY <3>2, <3>3
    <2>4. QED
      BY <2>2, <2>3
  <1>4. \A v \in Voters : Counted(v)'
    <2>1. ASSUME NEW v \in Voters PROVE Counted(v)'
      <3>1. Counted(v)
        BY DEF CountInv, WrongOnesAreCounted, Counted
      <3>2. QED
        BY <3>1 DEF Counted
    <2>2. QED
      BY <2>1
  <1>5. QED
    BY <1>3, <1>4 DEF CountInv, ChecksAlone, WrongOnesAreCounted, Counted

LEMMA UncheckedCount ==
  ASSUME CountInv, UNCHANGED <<check, credential, overlapped>>
  PROVE  CountInv'
  BY DEF CountInv, ChecksAlone, CheckAlone, WrongOnesAreCounted

\* An answer gives the credential back.
LEMMA CountAnswered ==
  ASSUME AuthInv, CountInv, ~overlapped, NEW t \in Tabs, NEW to, Answer(t, to), UNCHANGED now,
         \A v \in Voters : credential'[v] # credential[v] => v = check[t].voter,
         \A v \in Voters : Counted(v) /\ credential'[v] # credential[v] => Counted(v)'
  PROVE  CountInv'
  <1>1. Moved(t) /\ check'[t].voter = None /\ check'[t].pc = "idle"
    BY AnswerMoves, IdleTyped DEF AuthInv
  <1>2. QED
    BY <1>1, AloneAfter

LEMMA CountByIdentifier ==
  ASSUME AuthInv, CountInv, ~overlapped, NEW t \in Tabs,
         LookUp(t) \/ CountWrong(t) \/ ClearWrong(t) \/ Admit(t)
  PROVE  CountInv'
  <1> DEFINE c == check[t]
  <1>1. /\ AuthTypeOK /\ ChecksKnow /\ c \in CheckType /\ CheckAlone(t)
        /\ c.pc \notin {"idle", "find"} => c.voter \in Voters
    BY Known DEF AuthInv, CountInv, ChecksAlone
  <1>2. PICK v \in Voters : v = c.voter
    BY <1>1 DEF LookUp, CountWrong, ClearWrong, Admit
  <1>3. UNCHANGED now /\ Moved(t) /\ credential \in [Voters -> CredentialRow]
    BY <1>1, MovedByIdentifier DEF LookUp, CountWrong, ClearWrong, Admit, Others, AuthTypeOK
  <1>4. CASE LookUp(t)
    <2>1. UNCHANGED credential
      BY <1>4 DEF LookUp
    <2>2. CASE Refuse(t)
      BY <1>3, <2>1, <2>2, CountAnswered DEF Refuse
    <2>3. CASE ~Refuse(t)
      <3>1. check' = [check EXCEPT
                 ![t].pc = IF c.person = c.voter THEN "right" ELSE "wrong",
                 ![t].attempts = credential[v].attempts,
                 ![t].status = credential[v].status]
        BY <1>2, <1>4, <2>3 DEF LookUp
      <3>2. /\ check'[t].voter = v /\ check'[t].attempts = credential[v].attempts
            /\ check'[t].status = credential[v].status /\ check'[t].pc \in {"right", "wrong"}
        BY <1>1, <1>2, <3>1 DEF AuthTypeOK, CheckType
      <3>3. QED
        BY <1>2, <1>3, <2>1, <3>2, AloneAfter
    <2>4. QED
      BY <2>2, <2>3
  <1>5. CASE CountWrong(t)
    <2> DEFINE attempts == c.attempts + 1
               locked == attempts >= MaxFailedAttempts
               row == [status |-> IF locked THEN "locked" ELSE c.status,
                       attempts |-> attempts,
                       lockedUntil |-> IF locked THEN c.at + LockMinutes ELSE 0,
                       auth |-> "failed", wrong |-> credential[v].wrong + 1]
    <2>1. credential' = [credential EXCEPT ![v] = row]
      BY <1>2, <1>5 DEF CountWrong
    <2>2. \A w \in Voters : credential'[w] # credential[w] => w = v
      BY <1>3, <2>1
    <2>3. credential'[v] = row
      BY <1>2, <1>3, <2>1
    <2>4. c.attempts = credential[v].attempts /\ c.status = credential[v].status
      BY <1>1, <1>2, <1>5 DEF CountWrong, CheckAlone
    <2>5. Counted(v) => row.attempts = row.wrong
                        /\ (row.wrong >= MaxFailedAttempts <=> row.status = "locked")
      <3>1. credential[v].wrong \in Nat /\ credential[v].attempts \in Nat
        BY <1>2, <1>3 DEF CredentialRow
      <3>2. QED
        BY <2>4, <3>1, Numbers DEF Counted
    <2> HIDE DEF row
    <2>6. Counted(v) => Counted(v)'
      BY <2>3, <2>5 DEF Counted
    <2>7. QED
      BY <1>2, <1>3, <1>5, <2>2, <2>6, CountAnswered DEF CountWrong, Refuse
  <1>6. CASE ClearWrong(t)
    <2> DEFINE row == [NewCredential EXCEPT !.auth = "authenticated"]
    <2>1. credential' = [credential EXCEPT ![v] = row]
      BY <1>2, <1>6 DEF ClearWrong
    <2>2. \A w \in Voters : credential'[w] # credential[w] => w = v
      BY <1>3, <2>1
    <2>3. credential'[v] = row
      BY <1>2, <1>3, <2>1
    <2>4. Counted(v)'
      BY <2>3, Numbers DEF Counted, NewCredential
    <2>5. check'[t].voter = v /\ check'[t].pc = "admit"
      BY <1>1, <1>2, <1>6 DEF ClearWrong, Goto, AuthTypeOK, CheckType
    <2>6. QED
      BY <1>2, <1>3, <2>2, <2>4, <2>5, AloneAfter
  <1>7. CASE Admit(t)
    BY <1>3, <1>7, CountAnswered DEF Admit
  <1>8. QED
    BY <1>4, <1>5, <1>6, <1>7

LEMMA CountByList ==
  ASSUME AuthInv, CountInv, ~overlapped', NEW t \in Tabs,
         FindListed(t) \/ AdmitListed(t) \/ ClearListed(t)
  PROVE  CountInv'
  <1> DEFINE c == check[t]
  <1>1. ~overlapped
    BY DEF FindListed, AdmitListed, ClearListed
  <1>2. AuthTypeOK /\ ChecksKnow /\ c \in CheckType /\ CheckAlone(t)
    BY <1>1, Known DEF AuthInv, CountInv, ChecksAlone
  <1>3. UNCHANGED now /\ Moved(t) /\ credential \in [Voters -> CredentialRow]
    BY <1>2, MovedByList DEF FindListed, AdmitListed, ClearListed, Others, AuthTypeOK
  <1>4. CASE FindListed(t)
    <2>1. UNCHANGED credential
      BY <1>4 DEF FindListed
    <2>2. ASSUME NEW to, Answer(t, to) PROVE CountInv'
      BY <1>1, <1>3, <2>1, <2>2, CountAnswered
    <2>3. CASE Refuse(t) \/ Answer(t, At("portal"))
      BY <2>2, <2>3 DEF Refuse
    <2>4. CASE ~Refuse(t) /\ ~Answer(t, At("portal"))
      <3>1. /\ check' = [check EXCEPT ![t].pc = "listed", ![t].voter = c.person,
                                      ![t].at = now, ![t].state = state[c.election]]
            /\ Finds(t) /\ ~Barred(c.person) /\ Looking(c.person) = {}
        BY <1>4, <2>4 DEF FindListed
      <3>2. check'[t].voter = c.person /\ check'[t].pc = "listed"
        BY <1>2, <3>1 DEF AuthTypeOK, CheckType
      <3>3. credential[c.person].status # "locked"
        BY <3>1 DEF Barred
      <3>4. \A u \in Tabs : check[u].voter # c.person
        BY <3>1 DEF Looking
      <3>5. QED
        BY <1>1, <1>3, <2>1, <3>2, <3>3, <3>4, AloneAfter
    <2>5. QED
      BY <2>3, <2>4
  <1>5. CASE AdmitListed(t)
    <2>1. PICK s \in Fresh : check' = [check EXCEPT ![t].pc = "clear", ![t].session = s]
      BY <1>5 DEF AdmitListed
    <2>2. check'[t].voter = c.voter /\ check'[t].pc = "clear" /\ c.pc = "listed" /\ UNCHANGED credential
      BY <1>2, <1>5, <2>1 DEF AdmitListed, AuthTypeOK, CheckType
    <2>3. credential[c.voter].status # "locked"
      BY <1>2, <2>2 DEF CheckAlone
    <2>4. QED
      BY <1>1, <1>3, <2>2, <2>3, AloneAfter
  <1>6. CASE ClearListed(t)
    <2>0. c.voter \in Voters
      BY <1>2, <1>6, Known DEF ClearListed
    <2>1. PICK v \in Voters : v = c.voter /\ credential[v].status # "locked"
      BY <1>2, <1>6, <2>0 DEF ClearListed, CheckAlone
    <2>2. /\ credential' = [credential EXCEPT ![v].auth = "authenticated", ![v].attempts = 0,
                                              ![v].lockedUntil = 0, ![v].wrong = 0]
          /\ \E to : Answer(t, to)
      BY <1>6, <2>1 DEF ClearListed
    <2>3. \A w \in Voters : credential'[w] # credential[w] => w = v
      BY <1>3, <2>2
    <2>4. /\ credential'[v].attempts = 0 /\ credential'[v].wrong = 0
          /\ credential'[v].status = credential[v].status
      BY <1>3, <2>1, <2>2 DEF CredentialRow
    <2>5. Counted(v)'
      BY <2>1, <2>4, Numbers DEF Counted
    <2>6. QED
      BY <1>1, <1>3, <2>1, <2>2, <2>3, <2>5, CountAnswered
  <1>7. QED
    BY <1>4, <1>5, <1>6

LEMMA CountInvStarts ==
  ASSUME AuthInit
  PROVE  CountInv
  <1>1. \A t \in Tabs : check[t].voter = None /\ check[t].pc = "idle"
    BY IdleTyped DEF AuthInit
  <1>2. ChecksAlone
    BY <1>1 DEF ChecksAlone, CheckAlone
  <1>3. WrongOnesAreCounted
    BY Numbers DEF AuthInit, WrongOnesAreCounted, NewCredential
  <1>4. QED
    BY <1>2, <1>3 DEF CountInv

LEMMA CountInvKept ==
  ASSUME AuthInv, CountInv, [AuthNext]_authVars
  PROVE  CountInv'
  <1>1. CASE overlapped'
    BY <1>1 DEF CountInv, ChecksAlone, WrongOnesAreCounted
  <1>2. CASE ~overlapped'
    <2>1. ASSUME Tick PROVE CountInv'
      BY <2>1, UncheckedCount DEF Tick
    <2>2. ASSUME NEW e \in Elections, NEW to \in Stages, Administer(e, to) PROVE CountInv'
      BY <2>2, UncheckedCount DEF Administer
    <2>3. ASSUME UNCHANGED authVars PROVE CountInv'
      BY <2>3, UncheckedCount DEF authVars
    <2>4. ASSUME NEW t \in Tabs, TabStep(t) PROVE CountInv'
      <3>1. ASSUME NEW v \in Voters, OpenLink(t, v) PROVE CountInv'
        BY <3>1, UncheckedCount DEF OpenLink
      <3>2. ASSUME NEW e \in Elections, Choose(t, e) PROVE CountInv'
        BY <3>2, UncheckedCount DEF Choose
      <3>3. ASSUME GoHome(t) PROVE CountInv'
        BY <3>3, UncheckedCount DEF GoHome
      <3>4. ASSUME NEW p \in Persons, SendIdentifier(t, p) PROVE CountInv'
        <4>1. CASE Valid(HeldBy(t), now)
          <5> DEFINE w == session[HeldBy(t)].voter
                     new == [Idle EXCEPT !.pc = "look", !.session = HeldBy(t),
                                         !.person = p, !.voter = w, !.at = now]
          <5>1. /\ check' = [check EXCEPT ![t] = new]
                /\ ~overlapped /\ Looking(w) = {} /\ UNCHANGED credential
            BY <1>2, <3>4, <4>1 DEF SendIdentifier
          <5>2. new.voter = w /\ new.pc = "look"
            BY DEF Idle
          <5>3. check'[t] = new
            BY <5>1 DEF AuthInv, AuthTypeOK
          <5>4. \A u \in Tabs : check[u].voter # w
            BY <5>1 DEF Looking
          <5>5. Moved(t) \/ UNCHANGED check
            BY <3>4, MovedByForm DEF AuthInv
          <5>6. CASE UNCHANGED check
            BY <5>2, <5>3, <5>4, <5>6
          <5> HIDE DEF w, new
          <5>7. check'[t].voter = w /\ check'[t].pc = "look"
            BY <5>2, <5>3
          <5>8. CASE Moved(t)
            BY <5>1, <5>4, <5>7, <5>8, AloneAfter
          <5>9. QED
            BY <5>5, <5>6, <5>8
        <4>2. CASE ~Valid(HeldBy(t), now)
          BY <3>4, <4>2, UncheckedCount DEF SendIdentifier
        <4>3. QED
          BY <4>1, <4>2
      <3>5. ASSUME NEW p \in Persons, SendListed(t, p) PROVE CountInv'
        <4>1. Moved(t) \/ UNCHANGED check
          BY <3>5, MovedByForm DEF AuthInv
        <4>2. /\ check'[t].voter = None /\ check'[t].pc = "find"
              /\ ~overlapped /\ UNCHANGED <<credential, overlapped>>
          BY <1>2, <3>5 DEF SendListed, Idle, AuthInv, AuthTypeOK
        <4>3. QED
          BY <4>1, <4>2, AloneAfter, UncheckedCount
      <3>6. LookUp(t) \/ CountWrong(t) \/ ClearWrong(t) \/ Admit(t) => CountInv'
        <4>1. LookUp(t) \/ CountWrong(t) \/ ClearWrong(t) \/ Admit(t) => ~overlapped
          BY <1>2 DEF LookUp, CountWrong, ClearWrong, Admit
        <4>2. QED
          BY <4>1, CountByIdentifier
      <3>7. FindListed(t) \/ AdmitListed(t) \/ ClearListed(t) => CountInv'
        BY <1>2, CountByList
      <3>8. ASSUME FailCheck(t) PROVE CountInv'
        BY <1>2, <3>8, CountAnswered DEF FailCheck, Refuse
      <3>9. QED
        BY <2>4, <3>1, <3>2, <3>3, <3>4, <3>5, <3>6, <3>7, <3>8 DEF TabStep
    <2>5. QED
      BY <2>1, <2>2, <2>3, <2>4, StepCases
  <1>3. QED
    BY <1>1, <1>2

(***************************************************************************)
(* As long as no two checks of a credential overlap, the counter is the    *)
(* number of wrong identifiers since the last right one and exactly the    *)
(* credentials that have reached the limit are locked, whatever handlers   *)
(* die and whatever doors and browsers are used.                           *)
(***************************************************************************)
THEOREM CountCorrect == AuthSpec => []WrongOnesAreCounted
  <1>1. AuthInit => AuthInv /\ CountInv
    BY AuthInvStarts, CountInvStarts
  <1>2. AuthInv /\ CountInv /\ [AuthNext]_authVars => (AuthInv /\ CountInv)'
    BY AuthInvKept, CountInvKept
  <1>3. CountInv => WrongOnesAreCounted
    BY DEF CountInv
  <1>4. QED
    BY <1>1, <1>2, <1>3, PTL DEF AuthSpec

-----------------------------------------------------------------------------
(* The voter's pages: the parts of their inductive invariant.              *)

(* Which page a handler answers to.                                        *)
Waits(t) ==
  /\ check[t].pc = "idle" => check[t] = Idle
  /\ check[t].pc \in {"look", "right", "wrong", "admit"} => page[t] = At("identify")
  /\ check[t].pc \in {"find", "listed", "clear"} => page[t][1] = "verify"
  /\ page[t][1] \notin Addressed => page[t][2] = None

TabsWait == \A t \in Tabs : Waits(t)

ViewRow == [offers: Offers, election: Elections \cup {None}, voter: Voters \cup {None},
            links: SUBSET Elections]

DraftRow == [election: Elections, by: Voters]

BrowserTypeOK ==
  /\ view \in [Tabs -> ViewRow]
  /\ draft \in [Tabs -> {NoDraft} \cup DraftRow]
  /\ hasVoted \subseteq Voters /\ ballots \subseteq Ballot /\ strayed \in BOOLEAN

(* A ballot form has an election and a voter.                              *)
BallotForm(t) == page[t][1] = "ballot" /\ view[t].offers = "form"

FormsHaveVoters ==
  \A t \in Tabs : BallotForm(t) => view[t].election \in Elections /\ view[t].voter \in Voters

(* The voter of the session a tab's browser holds                          *)
Own(v, t) == v \in Voters /\ HeldBy(t) # None /\ session[HeldBy(t)].voter = v

(* A draft on its way to be cast, and a form to be filled in, are of the   *)
(* session's voter.                                                        *)
Mine(t) ==
  /\ page[t] = At("review") => Own(draft[t].by, t)
  /\ BallotForm(t) => Own(view[t].voter, t)

ScreensAreMine == ~strayed => \A t \in Tabs : Mine(t)

BrowserInv ==
  /\ AuthInv /\ BrowserTypeOK /\ TabsWait /\ FormsHaveVoters /\ ScreensAreMine
  /\ NothingMixedUp

-----------------------------------------------------------------------------
(* What a sign-in step does to the pages.                                  *)

Signed(t) ==
  /\ \A u \in Tabs \ {t} : page'[u] = page[u] /\ check'[u] = check[u]
  /\ Waits(t)'
  /\ page'[t] # At("review")
  /\ check'[t] # Idle => UNCHANGED page /\ page[t][1] \in {"identify", "verify"}

LEMMA SignedByAnswer ==
  ASSUME AuthTypeOK, NEW t \in Tabs, NEW name \in Pages, NEW e,
         name # "review", name \notin Addressed => e = None,
         page' = [page EXCEPT ![t] = <<name, e>>],
         \/ check' = [check EXCEPT ![t] = Idle]
         \/ UNCHANGED check /\ check[t] = Idle
  PROVE  Signed(t)
  <1>1. /\ page'[t] = <<name, e>> /\ check'[t] = Idle
        /\ \A u \in Tabs \ {t} : page'[u] = page[u] /\ check'[u] = check[u]
    BY DEF AuthTypeOK
  <1>2. page'[t][1] = name /\ page'[t][2] = e /\ page'[t] # At("review")
    BY <1>1 DEF At
  <1>3. QED
    BY <1>1, <1>2, IdleTyped DEF Signed, Waits

LEMMA SignedByRefusal ==
  ASSUME AuthTypeOK, TabsWait, NEW t \in Tabs, Refuse(t), check[t].pc # "idle"
  PROVE  Signed(t)
  <1>1. /\ page'[t] = page[t] /\ check'[t] = Idle
        /\ \A u \in Tabs \ {t} : page'[u] = page[u] /\ check'[u] = check[u]
    BY DEF AuthTypeOK, Refuse, Answer
  <1>2. Waits(t) /\ check[t].pc \in Pcs
    BY DEF TabsWait, AuthTypeOK, CheckType
  <1>3. page[t] # At("review")
    BY <1>2 DEF Waits, Pcs, At
  <1>4. QED
    BY <1>1, <1>2, <1>3, IdleTyped DEF Signed, Waits

\* The handler of a tab goes on, and the tab waits.
LEMMA SignedByWork ==
  ASSUME AuthTypeOK, NEW t \in Tabs, Waits(t), Moved(t) \/ UNCHANGED check, UNCHANGED page,
         \/ /\ check'[t].pc \in {"look", "right", "wrong", "admit"}
            /\ page[t] = At("identify")
         \/ /\ check'[t].pc \in {"find", "listed", "clear"}
            /\ page[t][1] = "verify"
         \/ UNCHANGED check /\ page[t] = At("identify")
  PROVE  Signed(t)
  <1>1. \A u \in Tabs \ {t} : check'[u] = check[u]
    BY DEF Moved
  <1>2. page[t] # At("review")
    BY DEF At
  <1>3. page[t] = At("identify") => page[t][1] = "identify" /\ page[t][2] = None
    BY DEF At
  <1>4. page[t][1] = "verify" \/ page[t][1] = "identify"
    BY <1>3
  <1>5. Waits(t)'
    BY <1>3 DEF Waits, Addressed
  <1>6. QED
    BY <1>1, <1>2, <1>4, <1>5 DEF Signed

LEMMA SignedByLink ==
  ASSUME AuthTypeOK, TabsWait, NEW t \in Tabs, NEW v \in Voters, OpenLink(t, v)
  PROVE  Signed(t)
  <1>1. PICK name \in {"identify", "election", "invite"} :
          page' = [page EXCEPT ![t] = <<name, None>>]
    BY DEF OpenLink, At
  <1>2. name \in Pages /\ name # "review" /\ name \notin Addressed
    BY DEF Pages, Addressed
  <1>3. UNCHANGED check /\ check[t] = Idle
    BY DEF OpenLink, TabsWait, Waits
  <1>4. QED
    BY <1>1, <1>2, <1>3, SignedByAnswer

LEMMA SignedByForm ==
  ASSUME AuthInv, TabsWait, NEW t \in Tabs, NEW p \in Persons,
         SendIdentifier(t, p) \/ SendListed(t, p)
  PROVE  Signed(t)
  <1>1. AuthTypeOK /\ Waits(t) /\ (Moved(t) \/ UNCHANGED check)
    BY MovedByForm DEF AuthInv, TabsWait
  <1>2. CASE SendIdentifier(t, p)
    <2>1. UNCHANGED page /\ page[t] = At("identify")
      BY <1>2 DEF SendIdentifier
    <2>2. UNCHANGED check \/ check'[t].pc = "look"
      BY <1>1, <1>2 DEF SendIdentifier, AuthTypeOK, Idle
    <2>3. QED
      BY <1>1, <2>1, <2>2, SignedByWork
  <1>3. CASE SendListed(t, p)
    <2>1. UNCHANGED page /\ page[t][1] = "verify"
      BY <1>3 DEF SendListed
    <2>2. check'[t].pc = "find"
      BY <1>1, <1>3 DEF SendListed, AuthTypeOK, Idle
    <2>3. QED
      BY <1>1, <2>1, <2>2, SignedByWork
  <1>4. QED
    BY <1>2, <1>3

LEMMA SignedByIdentifier ==
  ASSUME AuthInv, TabsWait, NEW t \in Tabs,
         LookUp(t) \/ CountWrong(t) \/ ClearWrong(t) \/ Admit(t)
  PROVE  Signed(t)
  <1>1. AuthTypeOK /\ Waits(t) /\ Moved(t) /\ check[t] \in CheckType
    BY MovedByIdentifier DEF AuthInv, TabsWait, AuthTypeOK
  <1>2. page[t] = At("identify") /\ check[t].pc # "idle"
    BY <1>1 DEF LookUp, CountWrong, ClearWrong, Admit, Waits
  <1>3. CASE Refuse(t)
    BY <1>1, <1>2, <1>3, SignedByRefusal
  <1>4. CASE LookUp(t) /\ ~Refuse(t)
    <2>1. UNCHANGED page /\ check'[t].pc \in {"right", "wrong"}
      BY <1>1, <1>4 DEF LookUp, AuthTypeOK, CheckType
    <2>2. QED
      BY <1>1, <1>2, <2>1, SignedByWork
  <1>5. CASE ClearWrong(t)
    <2>1. UNCHANGED page /\ check'[t].pc = "admit"
      BY <1>1, <1>5 DEF ClearWrong, Goto, AuthTypeOK, CheckType
    <2>2. QED
      BY <1>1, <1>2, <2>1, SignedByWork
  <1>6. CASE Admit(t)
    <2>1. /\ page' = [page EXCEPT ![t] = <<"election", None>>]
          /\ check' = [check EXCEPT ![t] = Idle]
      BY <1>6 DEF Admit, Answer, At
    <2>2. "election" \in Pages
      BY DEF Pages
    <2>3. QED
      BY <1>1, <2>1, <2>2, SignedByAnswer
  <1>7. QED
    BY <1>3, <1>4, <1>5, <1>6 DEF CountWrong

LEMMA SignedByList ==
  ASSUME AuthInv, TabsWait, NEW t \in Tabs,
         FindListed(t) \/ AdmitListed(t) \/ ClearListed(t)
  PROVE  Signed(t)
  <1>1. AuthTypeOK /\ Waits(t) /\ Moved(t) /\ check[t] \in CheckType
    BY MovedByList DEF AuthInv, TabsWait, AuthTypeOK
  <1>2. page[t][1] = "verify" /\ check[t].pc # "idle"
    BY <1>1 DEF FindListed, AdmitListed, ClearListed, Waits
  <1>3. CASE Refuse(t)
    BY <1>1, <1>2, <1>3, SignedByRefusal
  <1>4. ASSUME Answer(t, At("portal")) PROVE Signed(t)
    <2>1. /\ page' = [page EXCEPT ![t] = <<"portal", None>>]
          /\ check' = [check EXCEPT ![t] = Idle]
      BY <1>4 DEF Answer, At
    <2>2. "portal" \in Pages
      BY DEF Pages
    <2>3. QED
      BY <1>1, <2>1, <2>2, SignedByAnswer
  <1>5. CASE FindListed(t) /\ ~Refuse(t) /\ ~Answer(t, At("portal"))
    <2>1. UNCHANGED page /\ check'[t].pc = "listed"
      BY <1>1, <1>5 DEF FindListed, AuthTypeOK, CheckType
    <2>2. QED
      BY <1>1, <1>2, <2>1, SignedByWork
  <1>6. CASE AdmitListed(t)
    <2>1. UNCHANGED page /\ check'[t].pc = "clear"
      BY <1>1, <1>6, ZenonT(60) DEF AdmitListed, AuthTypeOK, CheckType
    <2>2. QED
      BY <1>1, <1>2, <2>1, SignedByWork
  <1>7. CASE ClearListed(t) /\ ~Answer(t, At("portal"))
    <2>1. PICK name \in {"ballot", "results"} : Answer(t, <<name, check[t].election>>)
      BY <1>7 DEF ClearListed
    <2>2. name \in Pages /\ name # "review" /\ name \in Addressed
      BY DEF Pages, Addressed
    <2>3. QED
      BY <1>1, <2>1, <2>2, SignedByAnswer DEF Answer
  <1>8. QED
    BY <1>3, <1>4, <1>5, <1>6, <1>7

LEMMA SignedByChoice ==
  ASSUME AuthTypeOK, TabsWait, NEW t \in Tabs, NEW e \in Elections, Choose(t, e)
  PROVE  Signed(t)
  <1>1. "verify" \in Pages /\ "verify" \in Addressed
    BY DEF Pages, Addressed
  <1>2. /\ page' = [page EXCEPT ![t] = <<"verify", e>>]
        /\ UNCHANGED check /\ check[t] = Idle
    BY DEF Choose, TabsWait, Waits
  <1>3. QED
    BY <1>1, <1>2, SignedByAnswer

\* The cookie of the tab's own browser is the only one a tab replaces.
LEMMA OtherCookiesStay ==
  ASSUME AuthTypeOK, NEW t \in Tabs, TabStep(t), NEW u \in Tabs, JarOf[u] # JarOf[t]
  PROVE  HeldBy(u)' = HeldBy(u)
  <1>1. \/ UNCHANGED cookie
        \/ \E s : cookie' = [cookie EXCEPT ![JarOf[t]] = s]
    BY DEF TabStep, OpenLink, Choose, SendIdentifier, SendListed, GoHome, LookUp, CountWrong,
           ClearWrong, Admit, FindListed, AdmitListed, ClearListed, FailCheck
  <1>2. JarOf[u] \in Jars /\ cookie \in [Jars -> Sessions \cup {None}]
    BY DEF Jars, AuthTypeOK
  <1>3. QED
    BY <1>1, <1>2 DEF HeldBy

\* A sign-in is a step of VoterAuth, or nothing happens there.
LEMMA SignInSteps ==
  ASSUME AuthInv, TabsWait, NEW t \in Tabs, SignIn(t)
  PROVE  /\ TabStep(t) \/ UNCHANGED authVars
         /\ Signed(t)
  <1> DEFINE Claim == (TabStep(t) \/ UNCHANGED authVars) /\ Signed(t)
  <1>0. AuthTypeOK
    BY DEF AuthInv
  <1>1. ASSUME NEW v \in Voters, OpenLink(t, v) PROVE Claim
    BY <1>0, <1>1, SignedByLink DEF TabStep
  <1>2. ASSUME NEW e \in Elections, Choose(t, e) PROVE Claim
    BY <1>0, <1>2, SignedByChoice DEF TabStep
  <1>3. ASSUME NEW v \in Voters, SendListed(t, v) PROVE Claim
    BY <1>3, Names, SignedByForm DEF TabStep
  <1>4. ASSUME HeldBy(t) # None, SendIdentifier(t, VoterOf(t)) PROVE Claim
    <2>1. CASE Valid(HeldBy(t), now)
      <3>1. HeldBy(t) \in Sessions /\ session[HeldBy(t)].expiresAt > now /\ now \in Nat
        BY <1>0, <2>1, Numbers DEF Valid, HeldBy, AuthTypeOK, Jars
      <3>2. session[HeldBy(t)] \in SessionRow /\ session[HeldBy(t)].expiresAt # 0
        BY <1>0, <3>1 DEF AuthTypeOK
      <3>3. VoterOf(t) \in Persons
        BY <3>1, <3>2, Names DEF VoterOf, AuthInv, FreshHasExpired, Fresh, SessionRow
      <3>4. QED
        BY <1>4, <3>3, SignedByForm DEF TabStep
    <2>2. CASE ~Valid(HeldBy(t), now)
      <3>1. /\ UNCHANGED <<check, overlapped, credential, session, cookie, page>>
            /\ UNCHANGED <<now, state, failures>> /\ page[t] = At("identify")
        BY <1>4, <2>2 DEF SendIdentifier, Others
      <3>2. Signed(t)
        BY <1>0, <3>1, SignedByWork DEF TabsWait
      <3>3. QED
        BY <3>1, <3>2 DEF authVars
    <2>3. QED
      BY <2>1, <2>2
  <1>5. ASSUME Judge(t) PROVE Claim
    BY <1>5, SignedByIdentifier, SignedByList DEF Judge, TabStep
  <1> HIDE DEF Claim
  <1>6. Claim
    BY <1>1, <1>2, <1>3, <1>4, <1>5 DEF SignIn
  <1>7. QED
    BY <1>6 DEF Claim

\* The rows of the sessions and the invariant of VoterAuth after a sign-in.
LEMMA SignInKeepsAuth ==
  ASSUME AuthInv, TabsWait, NEW t \in Tabs, SignIn(t)
  PROVE  AuthInv' /\ SessionsStay
  <1>1. SessionsGood /\ AuthTypeOK /\ ChecksKnow
    BY DEF AuthInv, SessionsGood, AuthTypeOK
  <1>2. CASE TabStep(t)
    BY <1>1, <1>2, AuthInvByTab, RowByTab
  <1>3. CASE UNCHANGED authVars
    BY <1>1, <1>3, AuthInvKept, RowsUntouched DEF authVars
  <1>4. QED
    BY <1>2, <1>3, SignInSteps

\* The pages without a form of VoterAuth change nothing of it but themselves.
LEMMA AuthInvByPage ==
  ASSUME AuthInv, UNCHANGED <<now, state, credential, session, cookie, check, overlapped>>,
         failures' \in 0..MaxFailures, page' \in [Tabs -> Pages \X (Elections \cup {None})]
  PROVE  AuthInv'
  <1>1. AuthTypeOK /\ ChecksKnow /\ SessionsGood
    BY DEF AuthInv, SessionsGood, AuthTypeOK
  <1>2. AuthTypeOK'
    BY <1>1 DEF AuthTypeOK, Jars
  <1>3. SessionsGood'
    BY <1>1, RowsUntouched
  <1>4. ChecksKnow'
    BY <1>1 DEF ChecksKnow, CheckKnows
  <1>5. QED
    BY <1>2, <1>3, <1>4 DEF AuthInv, SessionsGood

-----------------------------------------------------------------------------
(* What the server renders.                                                *)

LEMMA AdmittedVoter ==
  ASSUME AuthInv, NEW t \in Tabs, Admitted(t)
  PROVE  /\ VoterOf(t) \in Voters /\ Own(VoterOf(t), t)
         /\ ElectionOf[VoterOf(t)] \in Elections
  <1>1. HeldBy(t) \in Sessions /\ HeldBy(t) # None /\ session[HeldBy(t)].expiresAt > now
    BY DEF AuthInv, Admitted, Valid, HeldBy, AuthTypeOK, Jars
  <1>2. now \in Nat /\ session[HeldBy(t)] \in SessionRow
    BY <1>1, Numbers DEF AuthInv, AuthTypeOK
  <1>3. session[HeldBy(t)].expiresAt # 0
    BY <1>1, <1>2 DEF SessionRow
  <1>4. VoterOf(t) \in Voters
    BY <1>1, <1>2, <1>3 DEF AuthInv, VoterOf, FreshHasExpired, Fresh, SessionRow
  <1>5. QED
    BY <1>1, <1>4, VoterAuthAssumption DEF Own, VoterOf

LEMMA Shown ==
  ASSUME AuthInv, NEW t \in Tabs, Admitted(t), NEW offers \in Offers
  PROVE  /\ Show(t, offers) \in ViewRow
         /\ Show(t, offers).offers = offers
         /\ Show(t, offers).voter = VoterOf(t)
         /\ Show(t, offers).election = ElectionOf[VoterOf(t)]
  BY AdmittedVoter DEF Show, Unloaded, ViewRow

LEMMA PlainViews ==
  /\ Unloaded \in ViewRow /\ Unloaded.offers = "nothing" /\ Unloaded.election = None
  /\ Error \in ViewRow /\ Error.offers = "error" /\ Error.election = None
  /\ \A e \in Elections \cup {None} :
       Form(e) \in ViewRow /\ Form(e).election = e /\ Form(e).offers = "form"
  /\ RenderPortal \in ViewRow /\ RenderPortal.offers = "list" /\ RenderPortal.election = None
  <1>1. Listed \subseteq Elections
    BY DEF Listed
  <1>2. QED
    BY <1>1 DEF Unloaded, Error, Form, RenderPortal, ViewRow, Offers

(* What a page may show, whatever the session has become.                  *)
RenderedWell(t, p, r) ==
  /\ r \in ViewRow
  /\ p[2] # None => r.election \in {None, p[2]}
  /\ p[1] = "ballot" /\ r.offers = "form" =>
       r.election \in Elections /\ Own(r.voter, t)

LEMMA RenderIsSound ==
  ASSUME AuthInv, TabsWait, NEW t \in Tabs
  PROVE  RenderedWell(t, page[t], Render(t, page[t]))
  <1>2. SUFFICES ASSUME NEW p, p = page[t] PROVE RenderedWell(t, p, Render(t, p))
    OBVIOUS
  <1>1. /\ p[1] \in Pages /\ p[2] \in Elections \cup {None}
        /\ p[1] \notin Addressed => p[2] = None
    BY <1>2 DEF AuthInv, AuthTypeOK, TabsWait, Waits
  <1>3. RenderedWell(t, p, Error)
    BY PlainViews DEF RenderedWell
  <1>4. CASE p[1] = "portal"
    BY <1>4, PlainViews DEF RenderedWell, Render
  <1>5. CASE p[1] = "verify"
    <2>1. Render(t, p) = RenderVerify(p[2])
      BY <1>5 DEF Render
    <2>2. QED
      BY <1>1, <1>3, <1>5, <2>1, PlainViews DEF RenderedWell, RenderVerify
  <1>6. CASE p[1] \in {"invite", "identify"}
    <2>1. Render(t, p) = Form(None)
      BY <1>6 DEF Render
    <2>2. QED
      BY <1>6, <2>1, PlainViews DEF RenderedWell
  <1>7. CASE p[1] \in {"election", "review", "complete"}
    <2>1. Render(t, p) \in {RenderElection(t), RenderReview(t), RenderComplete(t)}
      BY <1>7 DEF Render
    <2>2. p[2] = None
      BY <1>1, <1>7 DEF Addressed
    <2>3. \A offers \in Offers : Admitted(t) => RenderedWell(t, p, Show(t, offers))
      BY <1>7, <2>2, Shown DEF RenderedWell
    <2>4. RenderElection(t) = Error \/ (Admitted(t) /\ \E offers \in Offers : RenderElection(t) = Show(t, offers))
      BY DEF RenderElection, Offers
    <2>5. RenderReview(t) = Error \/ (Admitted(t) /\ \E offers \in Offers : RenderReview(t) = Show(t, offers))
      BY DEF RenderReview, Offers
    <2>6. RenderComplete(t) = Error \/ (Admitted(t) /\ \E offers \in Offers : RenderComplete(t) = Show(t, offers))
      BY DEF RenderComplete, Offers
    <2>7. QED
      BY <1>3, <2>1, <2>3, <2>4, <2>5, <2>6
  <1>8. CASE p[1] \in {"ballot", "results"}
    <2>1. \A offers \in Offers : Admitted(t) /\ p[2] \in {None, ElectionOf[VoterOf(t)]} =>
            RenderedWell(t, p, Show(t, offers))
      BY Shown, AdmittedVoter DEF RenderedWell
    <2>2. RenderBallot(t) = Error \/ (Admitted(t) /\ \E offers \in Offers : RenderBallot(t) = Show(t, offers))
      BY DEF RenderBallot, Offers
    <2>3. RenderResults(t) = Error \/ (Admitted(t) /\ \E offers \in Offers : RenderResults(t) = Show(t, offers))
      BY DEF RenderResults, Offers
    <2>4. \/ Render(t, p) = Error
          \/ /\ Render(t, p) \in {RenderBallot(t), RenderResults(t)}
             /\ Admitted(t) => p[2] \in {None, ElectionOf[VoterOf(t)]}
      BY <1>8 DEF Render, RenderListedBallot, RenderListedResults, SameElection
    <2>5. QED
      BY <1>3, <2>1, <2>2, <2>3, <2>4
  <1>9. QED
    BY <1>1, <1>4, <1>5, <1>6, <1>7, <1>8 DEF Pages

-----------------------------------------------------------------------------
(* The steps keep the invariant.                                           *)

LEMMA BrowserInvStarts ==
  ASSUME Init
  PROVE  BrowserInv
  <1>1. AuthInv
    BY AuthInvStarts DEF Init
  <1>2. \A t \in Tabs : /\ check[t] = Idle /\ page[t] = At("portal")
                        /\ view[t] = Unloaded /\ draft[t] = NoDraft
    BY DEF Init, AuthInit
  <1>3. BrowserTypeOK
    BY PlainViews DEF Init, BrowserTypeOK
  <1>4. At("portal")[1] = "portal" /\ At("portal")[2] = None
    BY DEF At
  <1>5. TabsWait
    BY <1>2, <1>4, IdleTyped DEF TabsWait, Waits
  <1>6. \A t \in Tabs : ~BallotForm(t) /\ page[t] # At("review")
    BY <1>2, <1>4 DEF BallotForm, At
  <1>7. FormsHaveVoters /\ ScreensAreMine
    BY <1>6 DEF FormsHaveVoters, ScreensAreMine, Mine
  <1>8. NothingMixedUp
    BY <1>2, <1>4 DEF Init, NothingMixedUp, BallotsAnswerTheirElection,
          AuthorsCastTheirBallots, PagesShowTheirElection
  <1>9. QED
    BY <1>1, <1>3, <1>5, <1>7, <1>8 DEF BrowserInv

\* A tab whose screen, draft and cookie stay as they are.
LEMMA MineStays ==
  ASSUME NEW u \in Tabs, Mine(u), SessionsStay, AuthTypeOK,
         page'[u] = page[u], view'[u] = view[u], draft'[u] = draft[u],
         HeldBy(u)' = HeldBy(u)
  PROVE  Mine(u)'
  <1>1. ASSUME NEW v, Own(v, u) PROVE Own(v, u)'
    <2>1. HeldBy(u) \in Sessions
      BY <1>1 DEF Own, HeldBy, AuthTypeOK, Jars
    <2>2. v # None
      BY <1>1, Names DEF Own
    <2>3. QED
      BY <1>1, <2>1, <2>2 DEF Own, SessionsStay
  <1>2. QED
    BY <1>1 DEF Mine, BallotForm

LEMMA BrowserInvBySignIn ==
  ASSUME BrowserInv, NEW t \in Tabs, SignIn(t)
  PROVE  BrowserInv'
  <1>1. /\ AuthInv /\ AuthTypeOK /\ BrowserTypeOK /\ TabsWait /\ FormsHaveVoters
        /\ ScreensAreMine /\ NothingMixedUp
    BY DEF BrowserInv, AuthInv
  <1>2. /\ AuthInv' /\ SessionsStay /\ Signed(t)
        /\ TabStep(t) \/ UNCHANGED authVars
    BY <1>1, SignInKeepsAuth, SignInSteps
  <1>3. /\ UNCHANGED <<draft, hasVoted, ballots>>
        /\ \A u \in Tabs \ {t} : view'[u] = view[u] /\ page'[u] = page[u] /\ check'[u] = check[u]
        /\ check'[t] = Idle => view'[t] = Unloaded
        /\ check'[t] # Idle => view'[t] = view[t]
    BY <1>1, <1>2 DEF SignIn, BrowserTypeOK, Signed
  <1>4. BrowserTypeOK'
    <2>1. view' \in [Tabs -> ViewRow] /\ strayed' \in BOOLEAN
      BY <1>1, PlainViews DEF SignIn, BrowserTypeOK
    <2>2. QED
      BY <1>1, <1>3, <2>1 DEF BrowserTypeOK
  <1>5. TabsWait'
    BY <1>1, <1>2, <1>3 DEF TabsWait, Waits, Signed
  <1>6. ~BallotForm(t)'
    BY <1>2, <1>3, PlainViews DEF BallotForm, Signed
  <1>7. FormsHaveVoters'
    BY <1>1, <1>3, <1>6 DEF FormsHaveVoters, BallotForm
  <1>8. ScreensAreMine'
    <2>1. SUFFICES ASSUME ~strayed', NEW u \in Tabs PROVE Mine(u)'
      BY DEF ScreensAreMine
    <2>2. ~strayed /\ (cookie' # cookie => ~SomeoneElsewhere(t))
      BY <1>1, <2>1 DEF SignIn, BrowserTypeOK
    <2>3. CASE u = t
      BY <1>2, <1>6, <2>3 DEF Mine, Signed
    <2>4. CASE u # t /\ HeldBy(u)' = HeldBy(u)
      BY <1>1, <1>2, <1>3, <2>2, <2>4, Names, MineStays DEF ScreensAreMine
    <2>5. CASE u # t /\ HeldBy(u)' # HeldBy(u)
      <3>1. JarOf[u] = JarOf[t] /\ cookie' # cookie
        BY <1>1, <1>2, <2>5, OtherCookiesStay DEF HeldBy, authVars
      <3>2. page[u] = At("portal")
        BY <2>2, <2>5, <3>1 DEF SomeoneElsewhere
      <3>3. QED
        BY <1>3, <2>5, <3>2 DEF Mine, BallotForm, At
    <2>6. QED
      BY <2>3, <2>4, <2>5
  <1>9. NothingMixedUp'
    <2>1. AuthorsCastTheirBallots' /\ BallotsAnswerTheirElection'
      BY <1>1, <1>3 DEF NothingMixedUp, AuthorsCastTheirBallots, BallotsAnswerTheirElection,
            SignIn
    <2>2. PagesShowTheirElection'
      BY <1>1, <1>2, <1>3, PlainViews DEF NothingMixedUp, PagesShowTheirElection, Signed
    <2>3. QED
      BY <2>1, <2>2 DEF NothingMixedUp
  <1>10. QED
    BY <1>2, <1>4, <1>5, <1>7, <1>8, <1>9 DEF BrowserInv

LEMMA BrowserInvByLoad ==
  ASSUME BrowserInv, NEW t \in Tabs, Load(t)
  PROVE  BrowserInv'
  <1>1. /\ AuthInv /\ AuthTypeOK /\ BrowserTypeOK /\ TabsWait /\ FormsHaveVoters
        /\ ScreensAreMine /\ NothingMixedUp
    BY DEF BrowserInv, AuthInv
  <1>2. UNCHANGED <<authVars, draft, hasVoted, ballots, strayed>>
    BY DEF Load
  <1>3. AuthInv' /\ TabsWait' /\ SessionsStay
    BY <1>1, <1>2, AuthInvKept DEF TabsWait, Waits, authVars, SessionsStay
  <1>4. RenderedWell(t, page[t], view'[t]) /\ \A u \in Tabs \ {t} : view'[u] = view[u]
    BY <1>1, RenderIsSound DEF Load, BrowserTypeOK
  <1>5. BrowserTypeOK'
    <2>1. Render(t, page[t]) \in ViewRow
      BY <1>1, RenderIsSound DEF RenderedWell
    <2>2. QED
      BY <1>1, <2>1 DEF Load, BrowserTypeOK
  <1>6. \A u \in Tabs : page'[u] = page[u] /\ draft'[u] = draft[u] /\ HeldBy(u)' = HeldBy(u)
    BY <1>2 DEF authVars, HeldBy
  <1>7. ASSUME NEW u \in Tabs
        PROVE  /\ BallotForm(u)' => view'[u].election \in Elections /\ view'[u].voter \in Voters
               /\ ~strayed' => Mine(u)'
               /\ page'[u][2] # None => view'[u].election \in {None, page'[u][2]}
    <2>1. CASE u = t
      <3>1. BallotForm(t)' => view'[t].election \in Elections /\ Own(view'[t].voter, t)
        BY <1>4, <1>6 DEF BallotForm, RenderedWell
      <3>2. \A v : Own(v, t)' <=> Own(v, t)
        BY <1>2 DEF Own, HeldBy, authVars
      <3>3. ~strayed' /\ page'[t] = At("review") => Own(draft'[t].by, t)
        BY <1>1, <1>2, <1>6 DEF ScreensAreMine, Mine
      <3>4. QED
        BY <1>4, <1>6, <2>1, <3>1, <3>2, <3>3 DEF Mine, RenderedWell, Own
    <2>2. CASE u # t
      <3>1. view'[u] = view[u]
        BY <1>4, <2>2
      <3>2. ~strayed' => Mine(u)'
        BY <1>1, <1>2, <1>3, <1>6, <3>1, Names, MineStays DEF ScreensAreMine
      <3>3. QED
        BY <1>1, <1>6, <3>1, <3>2 DEF FormsHaveVoters, BallotForm, NothingMixedUp, PagesShowTheirElection
    <2>3. QED
      BY <2>1, <2>2
  <1>8. BallotsAnswerTheirElection' /\ AuthorsCastTheirBallots'
    BY <1>1, <1>2 DEF NothingMixedUp, BallotsAnswerTheirElection, AuthorsCastTheirBallots
  <1>9. FormsHaveVoters' /\ ScreensAreMine' /\ NothingMixedUp'
    BY <1>7, <1>8 DEF FormsHaveVoters, ScreensAreMine, NothingMixedUp, PagesShowTheirElection
  <1>10. QED
    BY <1>3, <1>5, <1>9 DEF BrowserInv

\* What holds after any step that sends a tab to another page.
LEMMA Headed ==
  ASSUME BrowserInv, NEW t \in Tabs, NEW name \in Pages, NEW e \in Elections \cup {None},
         name \notin Addressed => e = None, check[t].pc = "idle",
         Head(t, <<name, e>>), failures' \in 0..MaxFailures,
         \A u \in Tabs \ {t} : draft'[u] = draft[u]
  PROVE  /\ AuthInv' /\ TabsWait' /\ FormsHaveVoters' /\ PagesShowTheirElection'
         /\ view' \in [Tabs -> ViewRow]
         /\ ~strayed => \A u \in Tabs \ {t} : Mine(u)'
         /\ name # "review" => Mine(t)'
         /\ Own(draft'[t].by, t) => Mine(t)'
  <1>1. /\ AuthInv /\ AuthTypeOK /\ BrowserTypeOK /\ TabsWait /\ FormsHaveVoters
        /\ ScreensAreMine /\ PagesShowTheirElection
    BY DEF BrowserInv, AuthInv, NothingMixedUp
  <1>2. /\ UNCHANGED <<now, state, credential, session, cookie, check, overlapped>>
        /\ page' = [page EXCEPT ![t] = <<name, e>>]
        /\ view' = [view EXCEPT ![t] = Unloaded]
    BY DEF Head
  <1>3. /\ page'[t][1] = name /\ page'[t][2] = e
        /\ page'[t] = At("review") => name = "review"
        /\ view'[t] = Unloaded
        /\ \A u \in Tabs \ {t} : page'[u] = page[u] /\ view'[u] = view[u]
    BY <1>1, <1>2 DEF AuthTypeOK, BrowserTypeOK, At
  <1>4. AuthInv'
    BY <1>1, <1>2, PagePut, AuthInvByPage
  <1>5. TabsWait'
    BY <1>1, <1>2, <1>3 DEF TabsWait, Waits
  <1>6. ~BallotForm(t)'
    BY <1>3, PlainViews DEF BallotForm
  <1>7. FormsHaveVoters'
    BY <1>1, <1>3, <1>6 DEF FormsHaveVoters, BallotForm
  <1>8. PagesShowTheirElection'
    BY <1>1, <1>3, PlainViews DEF PagesShowTheirElection
  <1>9. ~strayed => \A u \in Tabs \ {t} : Mine(u)'
    <2>1. SessionsStay /\ \A u \in Tabs : HeldBy(u)' = HeldBy(u)
      BY <1>2 DEF SessionsStay, HeldBy
    <2>2. QED
      BY <1>1, <1>3, <2>1, Names, MineStays DEF ScreensAreMine
  <1>10. /\ name # "review" => Mine(t)'
         /\ Own(draft'[t].by, t) => Mine(t)'
    <2>1. Own(draft'[t].by, t) => Own(draft[t].by, t)'
      BY <1>2 DEF Own, HeldBy
    <2>2. QED
      BY <1>3, <1>6, <2>1 DEF Mine
  <1>11. QED
    BY <1>1, <1>2, <1>4, <1>5, <1>7, <1>8, <1>9, <1>10, PlainViews DEF BrowserTypeOK

LEMMA BrowserInvByElsewhere ==
  ASSUME BrowserInv, Elsewhere \/ UNCHANGED vars
  PROVE  BrowserInv'
  <1>1. UNCHANGED <<browserVars, session, cookie, check, page>>
    BY DEF Elsewhere, vars, authVars, Tick, Administer
  <1>2. [AuthNext]_authVars
    BY DEF Elsewhere, vars, AuthNext
  <1>3. AuthInv'
    BY <1>2, AuthInvKept DEF BrowserInv
  <1>4. BrowserTypeOK' /\ TabsWait' /\ FormsHaveVoters'
    BY <1>1 DEF BrowserInv, browserVars, BrowserTypeOK, TabsWait, Waits, FormsHaveVoters, BallotForm
  <1>5. ScreensAreMine'
    BY <1>1 DEF BrowserInv, browserVars, ScreensAreMine, Mine, Own, BallotForm, HeldBy
  <1>6. NothingMixedUp'
    BY <1>1 DEF BrowserInv, browserVars, NothingMixedUp, BallotsAnswerTheirElection,
          AuthorsCastTheirBallots, PagesShowTheirElection
  <1>7. QED
    BY <1>3, <1>4, <1>5, <1>6 DEF BrowserInv

\* The ballots after a step that casts none.
LEMMA NoBallotCast ==
  ASSUME BrowserInv, UNCHANGED ballots, strayed' = strayed \/ strayed'
  PROVE  BallotsAnswerTheirElection' /\ AuthorsCastTheirBallots'
  BY DEF BrowserInv, NothingMixedUp, BallotsAnswerTheirElection, AuthorsCastTheirBallots

LEMMA BrowserInvByFollow ==
  ASSUME BrowserInv, NEW t \in Tabs, Follow(t)
  PROVE  BrowserInv'
  <1>1. AuthTypeOK /\ BrowserTypeOK /\ ScreensAreMine /\ failures' \in 0..MaxFailures
    BY DEF BrowserInv, AuthInv, AuthTypeOK, Follow, Head
  <1>2. page[t][2] \in Elections \cup {None}
    BY <1>1 DEF AuthTypeOK
  <1>3. PICK name \in Pages \ {"review"}, e \in Elections \cup {None} :
          /\ name \notin Addressed => e = None
          /\ Head(t, <<name, e>>)
    <2>1. Links(t) \subseteq {At("ballot"), At("portal"), At("results"), At("election"),
                              At("complete"), At("invite"), <<"verify", page[t][2]>>}
      BY DEF Links
    <2>2. {"ballot", "portal", "results", "election", "complete", "invite", "verify"}
            \subseteq Pages \ {"review"}
      BY DEF Pages
    <2>3. QED
      BY <1>2, <2>1, <2>2 DEF Follow, At, Addressed
  <1>4. UNCHANGED <<draft, hasVoted, ballots, strayed>> /\ check[t].pc = "idle"
    BY DEF Follow
  <1>5. /\ AuthInv' /\ TabsWait' /\ FormsHaveVoters' /\ PagesShowTheirElection'
        /\ view' \in [Tabs -> ViewRow]
        /\ ~strayed => \A u \in Tabs \ {t} : Mine(u)'
        /\ Mine(t)'
    BY <1>1, <1>3, <1>4, Headed
  <1>6. QED
    BY <1>1, <1>4, <1>5, NoBallotCast DEF BrowserInv, BrowserTypeOK, ScreensAreMine, NothingMixedUp

LEMMA BrowserInvByStray ==
  ASSUME BrowserInv, NEW t \in Tabs, Stray(t)
  PROVE  BrowserInv'
  <1>1. BrowserTypeOK /\ failures' \in 0..MaxFailures
    BY DEF BrowserInv, AuthInv, AuthTypeOK, Stray, Head
  <1>2. PICK name \in Typed, e \in Elections \cup {None} :
          (name \notin Addressed => e = None) /\ Head(t, <<name, e>>)
    BY DEF Stray
  <1>3. name \in Pages
    BY VoterBrowserAssumption
  <1>4. UNCHANGED <<draft, hasVoted, ballots>> /\ check[t].pc = "idle" /\ strayed' = TRUE
    BY DEF Stray
  <1>5. /\ AuthInv' /\ TabsWait' /\ FormsHaveVoters' /\ PagesShowTheirElection'
        /\ view' \in [Tabs -> ViewRow]
    BY <1>1, <1>2, <1>3, <1>4, Headed
  <1>6. QED
    BY <1>1, <1>4, <1>5, NoBallotCast DEF BrowserInv, BrowserTypeOK, ScreensAreMine, NothingMixedUp

LEMMA BrowserInvByFilling ==
  ASSUME BrowserInv, NEW t \in Tabs, FillBallot(t)
  PROVE  BrowserInv'
  <1>1. /\ BrowserTypeOK /\ ScreensAreMine /\ FormsHaveVoters
        /\ failures' \in 0..MaxFailures
    BY DEF BrowserInv, AuthInv, AuthTypeOK, FillBallot, Head
  <1>2. BallotForm(t) /\ check[t].pc = "idle" /\ UNCHANGED <<hasVoted, ballots, strayed>>
    BY DEF FillBallot, BallotForm
  <1>3. /\ draft' = [draft EXCEPT ![t] = [election |-> view[t].election, by |-> view[t].voter]]
        /\ [election |-> view[t].election, by |-> view[t].voter] \in DraftRow
    BY <1>1, <1>2 DEF FillBallot, FormsHaveVoters, DraftRow
  <1>4. /\ \A u \in Tabs \ {t} : draft'[u] = draft[u]
        /\ draft'[t].by = view[t].voter
        /\ draft' \in [Tabs -> {NoDraft} \cup DraftRow]
    BY <1>1, <1>3 DEF BrowserTypeOK
  <1>5. "review" \in Pages /\ "review" \notin Addressed /\ Head(t, <<"review", None>>)
    BY DEF FillBallot, Pages, Addressed, At
  <1>6. /\ AuthInv' /\ TabsWait' /\ FormsHaveVoters' /\ PagesShowTheirElection'
        /\ view' \in [Tabs -> ViewRow]
        /\ ~strayed => \A u \in Tabs \ {t} : Mine(u)'
        /\ Own(draft'[t].by, t) => Mine(t)'
    BY <1>1, <1>2, <1>4, <1>5, Headed
  <1>7. ~strayed => Mine(t)'
    BY <1>1, <1>2, <1>4, <1>6 DEF ScreensAreMine, Mine
  <1>8. ScreensAreMine'
    BY <1>2, <1>6, <1>7 DEF ScreensAreMine
  <1>9. QED
    BY <1>1, <1>2, <1>4, <1>6, <1>8, NoBallotCast DEF BrowserInv, BrowserTypeOK, NothingMixedUp

\* An accepted ballot answers its voter's election, and is his own.
LEMMA BallotsByAccepted ==
  ASSUME BrowserInv, NEW t \in Tabs, Accepted(t), UNCHANGED strayed
  PROVE  /\ hasVoted' \subseteq Voters /\ ballots' \subseteq Ballot
         /\ BallotsAnswerTheirElection' /\ AuthorsCastTheirBallots'
         /\ \E b \in ballots' : b.draft = draft[t]
         /\ draft[t] \in DraftRow
  <1> DEFINE v == VoterOf(t)
             new == [voter |-> v, draft |-> draft[t]]
  <1>1. /\ BrowserTypeOK /\ ScreensAreMine /\ NothingMixedUp
        /\ v \in Voters /\ ElectionOf[v] \in Elections
    BY AdmittedVoter DEF BrowserInv, Accepted, Accepts
  <1>2. draft[t].election = ElectionOf[v] /\ page[t] = At("review")
    BY DEF Accepted, Accepts, AnswersFit, Submitting
  <1>3. draft[t] \in DraftRow
    BY <1>1, <1>2, Names DEF BrowserTypeOK, NoDraft
  <1>4. ~strayed => draft[t].by = v
    BY <1>1, <1>2 DEF ScreensAreMine, Mine, Own, VoterOf
  <1>5. hasVoted' = hasVoted \cup {v} /\ ballots' = ballots \cup {new}
    BY DEF Accepted
  <1>6. new \in Ballot
    BY <1>1, <1>3 DEF Ballot, DraftRow
  <1> HIDE DEF v
  <1>7. QED
    BY <1>1, <1>2, <1>3, <1>4, <1>5, <1>6
       DEF BrowserTypeOK, NothingMixedUp, BallotsAnswerTheirElection, AuthorsCastTheirBallots

LEMMA BrowserInvBySubmitting ==
  ASSUME BrowserInv, NEW t \in Tabs, SubmitDraft(t)
  PROVE  BrowserInv'
  <1>1. /\ BrowserTypeOK /\ ScreensAreMine /\ failures' \in 0..MaxFailures
        /\ check[t].pc = "idle" /\ UNCHANGED strayed /\ Accepted(t)
        /\ draft' = [draft EXCEPT ![t] = NoDraft]
    BY DEF BrowserInv, AuthInv, AuthTypeOK, SubmitDraft, Head, Accepted, Submitting
  <1>2. "complete" \in Pages /\ "complete" \notin Addressed /\ Head(t, <<"complete", None>>)
    BY DEF SubmitDraft, Pages, Addressed, At
  <1>3. /\ \A u \in Tabs \ {t} : draft'[u] = draft[u]
        /\ draft' \in [Tabs -> {NoDraft} \cup DraftRow]
    BY <1>1 DEF BrowserTypeOK
  <1>4. /\ AuthInv' /\ TabsWait' /\ FormsHaveVoters' /\ PagesShowTheirElection'
        /\ view' \in [Tabs -> ViewRow]
        /\ ~strayed => \A u \in Tabs \ {t} : Mine(u)'
        /\ Mine(t)'
    BY <1>1, <1>2, <1>3, Headed
  <1>5. ScreensAreMine'
    BY <1>1, <1>4 DEF ScreensAreMine
  <1>6. QED
    BY <1>1, <1>3, <1>4, <1>5, BallotsByAccepted DEF BrowserInv, BrowserTypeOK, NothingMixedUp

LEMMA BrowserInvByLoss ==
  ASSUME BrowserInv, NEW t \in Tabs, LoseAnswer(t)
  PROVE  BrowserInv'
  <1>1. /\ AuthInv /\ BrowserTypeOK /\ Accepted(t)
        /\ UNCHANGED <<now, state, credential, session, cookie, check, page, overlapped>>
        /\ UNCHANGED <<view, draft, strayed>>
        /\ failures < MaxFailures /\ failures' = failures + 1
    BY DEF BrowserInv, LoseAnswer
  <1>2. failures' \in 0..MaxFailures /\ page' \in [Tabs -> Pages \X (Elections \cup {None})]
    BY <1>1, Numbers DEF AuthInv, AuthTypeOK
  <1>3. AuthInv'
    BY <1>1, <1>2, AuthInvByPage
  <1>4. TabsWait' /\ FormsHaveVoters' /\ PagesShowTheirElection'
    BY <1>1 DEF BrowserInv, TabsWait, Waits, FormsHaveVoters, BallotForm, NothingMixedUp,
          PagesShowTheirElection
  <1>5. ScreensAreMine'
    BY <1>1 DEF BrowserInv, ScreensAreMine, Mine, Own, BallotForm, HeldBy
  <1>6. QED
    BY <1>1, <1>3, <1>4, <1>5, BallotsByAccepted DEF BrowserInv, BrowserTypeOK, NothingMixedUp

LEMMA BrowserInvKept ==
  ASSUME BrowserInv, [Next]_vars
  PROVE  BrowserInv'
  <1>1. ASSUME NEW t \in Tabs, Refused(t) PROVE BrowserInv'
    BY <1>1, BrowserInvByElsewhere DEF Refused
  <1>2. QED
    BY <1>1, BrowserInvByElsewhere, BrowserInvBySignIn, BrowserInvByLoad, BrowserInvByFollow,
       BrowserInvByStray, BrowserInvByFilling, BrowserInvBySubmitting, BrowserInvByLoss DEF Next

(***************************************************************************)
(* For any number of voters, elections, tabs and browsers and whatever     *)
(* addresses are typed: every variable of the voter's pages keeps its type.*)
(***************************************************************************)
THEOREM BrowserTypeCorrect == Spec => []TypeOK
  <1>1. BrowserInv => TypeOK
    BY DEF BrowserInv, AuthInv, BrowserTypeOK, TypeOK, ViewRow, DraftRow
  <1>2. QED
    BY <1>1, BrowserInvStarts, BrowserInvKept, PTL DEF Spec

(***************************************************************************)
(* With one cookie and one draft key for all tabs, voters and elections of *)
(* a browser: a ballot is accepted with answers to its voter's election    *)
(* only, the ballot of who never typed an address and signed in one tab at *)
(* a time is his own, and the page of an election shows no other.          *)
(***************************************************************************)
THEOREM NothingMixedUpCorrect == Spec => []NothingMixedUp
  <1>1. BrowserInv => NothingMixedUp
    BY DEF BrowserInv
  <1>2. QED
    BY <1>1, BrowserInvStarts, BrowserInvKept, PTL DEF Spec

(***************************************************************************)
(* A draft that leaves its tab has become an accepted ballot: no refusal,  *)
(* expiry, lost answer or sign-in of another voter loses it.               *)
(***************************************************************************)
THEOREM DraftsCorrect == Spec => DraftsSurvive
  <1> DEFINE Survives ==
        \A t \in Tabs :
          draft[t] # NoDraft /\ draft'[t] = NoDraft => \E b \in ballots' : b.draft = draft[t]
  <1>1. ASSUME BrowserInv, [Next]_vars PROVE Survives
    <2>1. SUFFICES ASSUME NEW t \in Tabs, draft[t] # NoDraft, draft'[t] = NoDraft
                   PROVE  \E b \in ballots' : b.draft = draft[t]
      OBVIOUS
    <2>2. BrowserTypeOK /\ BrowserInv'
      BY <1>1, BrowserInvKept DEF BrowserInv
    <2>3. ASSUME NEW u \in Tabs, FillBallot(u) PROVE FALSE
      <3>1. view[u].election \in Elections
        BY <1>1, <2>3 DEF BrowserInv, FormsHaveVoters, BallotForm, FillBallot
      <3>2. draft'[t].election # None
        BY <2>1, <2>2, <2>3, <3>1, Names DEF FillBallot, BrowserTypeOK, NoDraft
      <3>3. QED
        BY <2>1, <3>2 DEF NoDraft
    <2>4. PICK u \in Tabs : SubmitDraft(u)
      BY <1>1, <2>1, <2>3 DEF Next, Elsewhere, browserVars, vars, SignIn, Load, Follow, Stray,
            Refused, LoseAnswer
    <2>5. u = t
      BY <2>1, <2>2, <2>4 DEF SubmitDraft, BrowserTypeOK
    <2>6. QED
      BY <1>1, <2>4, <2>5, BallotsByAccepted DEF SubmitDraft
  <1> HIDE DEF Survives
  <1>2. QED
    BY <1>1, BrowserInvStarts, BrowserInvKept, PTL DEF Spec, DraftsSurvive, Survives
=============================================================================
