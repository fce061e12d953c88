---------------------------- MODULE ElectionContent ----------------------------
(***************************************************************************)
(* How an election gets its content: the wizard that makes a draft with    *)
(* its question, options and voters, the forms that edit it, and the       *)
(* server actions behind them.  An action makes a chain of service calls   *)
(* with no transaction around them; each finds the election again, checks  *)
(* its state and writes one row, and is one step here.  (The gap between   *)
(* the check and the write of one call is the subject of Preparation.)     *)
(* The chain stops at the first call that fails and leaves what the calls  *)
(* before it have written.  Whatever the forms show may be out of date.    *)
(*                                                                         *)
(* One administrator fills in the wizard; any of the requests may be sent  *)
(* by others meanwhile.  The routes of the API call the same services with *)
(* an order and texts of the caller's choice and are left out.             *)
(***************************************************************************)
EXTENDS ElectionPolicy, VoterRows

CONSTANTS Elections,   \* the rows that can be created
          NoElection,
          Requests,    \* concurrent requests to the server
          Labels,      \* titles of options
          Blank,       \* a title that was left empty
          Forms,       \* the option rows an administrator types in the wizard
          Files,       \* the files of voters, each the lines that are not blank
          Operations,  \* the server actions in use
          Places,      \* bound of the options of a question
          Questions,   \* bound of the questions of an election
          MaxTime,     \* bound of the clock
          MaxSent,     \* bound of the forms sent after the wizard
          MaxFailures  \* bound of the database calls that fail

Kinds == {"wizard", "edit", "quick", "info", "policy", "import", "review", "open"}

(* A row of the wizard's form.                                             *)
Row == [title: Labels \cup {Blank}, described: BOOLEAN]

(* There is a place for every row and a question for the wizard.           *)
ASSUME ElectionContentAssumption ==
  /\ NoElection \notin Elections /\ Requests # {}
  /\ Blank \notin Labels
  /\ Forms \subseteq Seq(Row) /\ \A rows \in Forms : Len(rows) <= Places
  /\ Files \subseteq Seq(Seq(Characters))
  /\ Operations \subseteq Kinds
  /\ {Places, MaxTime, MaxSent, MaxFailures} \subseteq Nat
  /\ Questions \in Nat \ {0}

VARIABLES
  now,        \* the clock
  elections,  \* elections, with authentication policy and voter registry
  questions,  \* questions[e]: by displayOrder, with their options
  wizard,     \* what the browser holds of the wizard
  requests,   \* requests[r]: the server action of r and its local variables
  sent,       \* how many forms were sent
  failures,
  overlapped  \* history: whether one request ran while another was going on

vars == <<now, elections, questions, wizard, requests, sent, failures, overlapped>>

-----------------------------------------------------------------------------
NoRow == [state |-> "none", startsAt |-> 0, endsAt |-> 0, policy |-> FALSE,
          total |-> 0, valid |-> 0, people |-> {}, listedBy |-> "none"]

(* A description is told by the title it was typed for.                    *)
NoText == "none"

Option == [label: Labels, about: Labels \cup {Blank, NoText}]

Orders == 0..(Places - 1)

(* Rows that are unique in their displayOrder, by that order.              *)
Ordered(rows, S) == DOMAIN rows \subseteq Orders /\ \A o \in DOMAIN rows : rows[o] \in S

(* Options fill the places from the first on: what an edit adds comes      *)
(* right behind what is there, although edits that overlap compute the     *)
(* same place and a chain may stop at any call.                            *)
(* by: history, the operation that made the question.                      *)
IsQuestion(q) ==
  /\ q.by \in {"wizard", "quick"}
  /\ Ordered(q.options, Option)
  /\ DOMAIN q.options = 0..(Cardinality(DOMAIN q.options) - 1)

(* The text the form holds of a file, once it has a row, and what the      *)
(* server makes of it: whom it names, and whether it is taken.             *)
FormTexts == {Formatted(Parsed(file)) : file \in {f \in Files : Parsed(f) # <<>>}}

NamedBy == [text \in FormTexts \cup {<<>>} |-> PeopleOf(text)]

ImportableTexts == {text \in FormTexts : Importable(text)}

EmptyWizard == [step |-> 0, info |-> FALSE, rows |-> <<>>, file |-> <<>>]

Rest == [kind |-> "none", pc |-> "rest", election |-> NoElection, rows |-> <<>>,
         file |-> <<>>, times |-> <<0, 0>>, shown |-> <<>>, stale |-> {},
         place |-> 0, next |-> 0, added |-> 0]

Steps == {"rest", "form", "draft", "policy", "question", "option", "append",
          "voters", "write"}

TypeOK ==
  /\ now \in 0..MaxTime
  /\ \A e \in Elections :
       /\ elections[e].state \in {"none"} \cup ElectionState
       /\ elections[e].policy \in BOOLEAN
       /\ elections[e].listedBy \in {"none", "wizard", "page"}
       /\ DOMAIN questions[e] \subseteq 0..(Questions - 1)
       /\ \A o \in DOMAIN questions[e] : IsQuestion(questions[e][o])
  /\ wizard.step \in 0..2 /\ wizard.rows \in {<<>>} \cup Forms
  /\ \A r \in Requests : /\ requests[r].kind \in {"none"} \cup Kinds
                         /\ requests[r].pc \in Steps
                         /\ requests[r].election \in Elections \cup {NoElection}
  /\ sent \in 0..MaxSent /\ failures \in 0..MaxFailures
  /\ overlapped \in BOOLEAN

Init ==
  /\ now = 0
  /\ elections = [e \in Elections |-> NoRow]
  /\ questions = [e \in Elections |-> <<>>]
  /\ wizard = EmptyWizard
  /\ requests = [r \in Requests |-> Rest]
  /\ sent = 0
  /\ failures = 0
  /\ overlapped = FALSE

Existing == {e \in Elections : elections[e].state # "none"}

Finish(r) == requests' = [requests EXCEPT ![r] = Rest]

Proceed(r, pc) == requests' = [requests EXCEPT ![r].pc = pc]

Send == sent < MaxSent /\ sent' = sent + 1

(* assertElectionActionAllowed: a call that gives no reason is refused     *)
(* where the table asks for one.                                           *)
MayEdit(e, action, reason) ==
  CanPerform(elections[e].state, action)
    /\ (elections[e].state = "ready_for_review" => reason)

-----------------------------------------------------------------------------
(* The wizard in the browser                                               *)

(* rows whose title is not empty, with their places in the form            *)
Filled(rows) == {i \in DOMAIN rows : rows[i].title # Blank}

StepComplete(step) ==
  CASE step = 0 -> wizard.info
    [] step = 1 -> Cardinality(Filled(wizard.rows)) >= 2
    [] step = 2 -> NamedBy[wizard.file] # {}

Keep == UNCHANGED <<now, elections, questions, requests, sent, failures, overlapped>>

(* Title, type and times in order; a further wizard has no row to fill.    *)
FillInfo ==
  /\ wizard.step = 0 /\ Existing # Elections
  /\ wizard' = [wizard EXCEPT !.info = TRUE]
  /\ Keep

(* The rows of the options: titles and descriptions, rows added or removed.*)
FillOptions ==
  /\ wizard.step = 1 /\ Existing # Elections
  /\ \E rows \in Forms : wizard' = [wizard EXCEPT !.rows = rows]
  /\ Keep

(* The rows of a file replace what the text of the form held; those the    *)
(* form finds wrong are counted in a message and written all the same.     *)
LoadFile ==
  /\ wizard.step = 2 /\ Existing # Elections
  /\ \E text \in FormTexts : wizard' = [wizard EXCEPT !.file = text]
  /\ Keep

GoNext ==
  /\ wizard.step < 2 /\ StepComplete(wizard.step)
  /\ wizard' = [wizard EXCEPT !.step = @ + 1]
  /\ Keep

GoBack ==
  /\ wizard.step > 0
  /\ \A r \in Requests : requests[r].kind # "wizard"
  /\ wizard' = [wizard EXCEPT !.step = @ - 1]
  /\ Keep

CanSubmit ==
  /\ wizard.step = 2
  /\ \A step \in 0..2 : StepComplete(step)
  /\ \A r \in Requests : requests[r].kind # "wizard"

-----------------------------------------------------------------------------
(* createElectionWizardAction                                              *)

LabelsOf(rows) == [i \in Filled(rows) |-> rows[i].title]

Distinct(f) == \A i, j \in DOMAIN f : f[i] = f[j] => i = j

(* validateWizardInput; the browser has checked the times in the same way. *)
WizardInputValid(rows, file) ==
  /\ Cardinality(Filled(rows)) >= 2
  /\ Distinct(LabelsOf(rows))
  /\ file \in ImportableTexts

(* A refused form stays as it is, and so does one whose request failed.    *)
SubmitWizard(r) ==
  /\ requests[r].pc = "rest" /\ CanSubmit
  /\ IF WizardInputValid(wizard.rows, wizard.file) /\ Existing # Elections
       THEN requests' = [requests EXCEPT ![r] =
              [Rest EXCEPT !.kind = "wizard", !.pc = "draft", !.rows = wizard.rows,
                           !.file = wizard.file, !.times = <<1, 2>>]]
       ELSE UNCHANGED requests
  /\ UNCHANGED <<now, elections, questions, wizard, sent, failures>>

CreateDraft(r) ==
  /\ requests[r].pc = "draft"
  /\ \E e \in Elections \ Existing :
       /\ elections' = [elections EXCEPT ![e] =
            [NoRow EXCEPT !.state = "draft", !.startsAt = requests[r].times[1],
                          !.endsAt = requests[r].times[2]]]
       /\ requests' = [requests EXCEPT ![r].election = e, ![r].pc = "policy"]
  /\ UNCHANGED <<now, questions, wizard, sent, failures>>

(* Mutant: the voters come before the question.                            *)
CreatePolicyHasty(r) ==
  /\ requests[r].pc = "policy"
  /\ elections' = [elections EXCEPT ![requests[r].election].policy = TRUE]
  /\ Proceed(r, "voters")
  /\ UNCHANGED <<now, questions, wizard, sent, failures>>

(* The default method, in a call of its own.                               *)
CreatePolicy(r) ==
  /\ requests[r].pc = "policy"
  /\ elections' = [elections EXCEPT ![requests[r].election].policy = TRUE]
  /\ Proceed(r, "question")
  /\ UNCHANGED <<now, questions, wizard, sent, failures>>

(* The row whose title is the k-th of those that are not empty.            *)
FilledRow(rows, k) == Nth(Filled(rows), k)

(* The titles that become options, in order, with the description each     *)
(* gets: the titles left empty are dropped, the descriptions are not.      *)
OptionsOf(rows) ==
  [k \in 1..Cardinality(Filled(rows)) |->
     [label |-> rows[FilledRow(rows, k)].title,
      about |-> IF rows[k].described THEN rows[k].title ELSE NoText]]

(***************************************************************************)
(* createQuestion of the wizard, and of the form that adds a question with *)
(* its options: that one puts it behind the questions it has seen.  A      *)
(* place that is taken makes the call fail.                                *)
(***************************************************************************)
CreateQuestion(r) ==
  LET q == requests[r] e == requests[r].election IN
  /\ q.pc = "question" /\ q.kind \in {"wizard", "quick"}
  /\ IF MayEdit(e, "editQuestions", FALSE) /\ q.place \notin DOMAIN questions[e]
       THEN /\ questions' = [questions EXCEPT ![e] =
                 [o \in {q.place} \cup DOMAIN @ |->
                    IF o = q.place THEN [by |-> q.kind, options |-> <<>>] ELSE @[o]]]
            /\ Proceed(r, "option")
       ELSE Finish(r) /\ UNCHANGED questions
  /\ UNCHANGED <<now, elections, wizard, sent, failures>>

(* Mutant: the options of a question are replaced.                         *)
PutOptionAlone(e, place, order, option) ==
  questions' = [questions EXCEPT ![e][place].options = [o \in {order} |-> option]]

PutOption(e, place, order, option) ==
  questions' = [questions EXCEPT ![e][place].options =
                  [o \in {order} \cup DOMAIN @ |-> IF o = order THEN option ELSE @[o]]]

(* createOption for the next row; then the wizard goes on to the voters.   *)
CreateOption(r) ==
  LET q == requests[r] e == requests[r].election IN
  /\ q.pc = "option" /\ q.kind \in {"wizard", "quick"}
  /\ IF q.next = Len(OptionsOf(q.rows))
       THEN /\ IF q.kind = "wizard" THEN Proceed(r, "voters") ELSE Finish(r)
            /\ UNCHANGED questions
     ELSE IF /\ MayEdit(e, "editOptions", FALSE)
             /\ q.next \notin DOMAIN questions[e][q.place].options
       THEN /\ PutOption(e, q.place, q.next, OptionsOf(q.rows)[q.next + 1])
            /\ requests' = [requests EXCEPT ![r].next = @ + 1]
       ELSE Finish(r) /\ UNCHANGED questions
  /\ UNCHANGED <<now, elections, wizard, sent, failures>>

(***************************************************************************)
(* importEligibleVoters, one step here: people the election has already    *)
(* are errors, and the counts are those of this file.  The wizard then     *)
(* leaves for the page of the new election.                                *)
(***************************************************************************)
ImportVoters(r) ==
  LET q == requests[r] e == requests[r].election new == NamedBy[q.file] \ elections[e].people
  IN
  /\ q.pc = "voters"
  /\ elections' =
       IF ~MayEdit(e, "editVoterRegistry", TRUE) THEN elections
       ELSE [elections EXCEPT
               ![e].people = @ \cup new,
               ![e].total = Cardinality(NamedBy[q.file]), ![e].valid = Cardinality(new),
               ![e].listedBy = IF q.kind = "wizard" THEN "wizard" ELSE "page"]
  /\ wizard' = IF q.kind = "wizard" THEN EmptyWizard ELSE wizard
  /\ Finish(r)
  /\ UNCHANGED <<now, questions, sent, failures>>

(* importVoterRegistryAction                                               *)
SubmitImport(r) ==
  /\ requests[r].pc = "rest" /\ Send /\ "import" \in Operations
  /\ \E e \in Existing, text \in FormTexts :
       IF text \in ImportableTexts
         THEN requests' = [requests EXCEPT ![r] =
                [Rest EXCEPT !.kind = "import", !.pc = "voters", !.election = e,
                             !.file = text]]
         ELSE UNCHANGED requests
  /\ UNCHANGED <<now, elections, questions, wizard, failures>>

-----------------------------------------------------------------------------
(* The edit forms, which need a draft that has not reached its start       *)

Editable(e) == elections[e].state = "draft" /\ elections[e].startsAt > now

(* The page of the edit forms shows the options as they are now.           *)
OpenEditForm(r) ==
  /\ requests[r].pc = "rest" /\ Send /\ "edit" \in Operations
  /\ \E e \in Existing :
       /\ Editable(e)
       /\ requests' = [requests EXCEPT ![r] =
            [Rest EXCEPT !.kind = "edit", !.pc = "form", !.election = e,
                         !.shown = questions[e]]]
  /\ UNCHANGED <<now, elections, questions, wizard, failures>>

(***************************************************************************)
(* What the form sends: the text of every option it shows, of which one    *)
(* was changed, or else an option that is added to a question.             *)
(***************************************************************************)
EditsOf(shown) ==
  {edit \in [place: DOMAIN shown, option: Orders \cup {Places}, label: Labels,
             more: Labels \cup {Blank}] :
     /\ edit.option \in DOMAIN shown[edit.place].options \cup {Places}
     /\ edit.more = Blank \/ (edit.option = Places /\ edit.label = edit.more)}

Edited(shown, edit) ==
  IF edit.option = Places THEN shown
  ELSE [shown EXCEPT ![edit.place].options[edit.option] =
          [label |-> edit.label,
           about |-> IF @.about = NoText THEN NoText ELSE edit.label]]

(* The questions whose options are no longer those the form shows.         *)
StaleOptions(shown, current) ==
  {o \in DOMAIN current : DOMAIN shown[o].options # DOMAIN current[o].options}

(***************************************************************************)
(* updateElectionQuestionsAndOptionsAction up to its first write: refused  *)
(* when the questions the form shows are not those of the election.  (The  *)
(* options and texts of a question are tested just before that question is *)
(* written, against what is read here: the step that writes it does it.)   *)
(***************************************************************************)
SubmitEdit(r) ==
  LET q == requests[r] e == requests[r].election IN
  /\ q.pc = "form"
  /\ \E edit \in EditsOf(q.shown) :
       IF Editable(e) /\ DOMAIN q.shown = DOMAIN questions[e]
         THEN requests' = [requests EXCEPT
                ![r].pc = "question", ![r].shown = Edited(q.shown, edit),
                ![r].stale = StaleOptions(q.shown, questions[e]),
                ![r].rows = <<[title |-> edit.more, described |-> FALSE]>>,
                ![r].added = edit.place]
         ELSE Finish(r)
  /\ UNCHANGED <<now, elections, questions, wizard, sent, failures>>

(* The options of the question at hand that the form adds.                 *)
Appended(q) == IF q.place = q.added THEN OptionsOf(q.rows) ELSE <<>>

(* Mutant: the titles of the options are not compared.                     *)
QuestionValidLax(q) == Cardinality(DOMAIN q.shown[q.place].options) + Len(Appended(q)) >= 2

QuestionValid(q) ==
  LET old == q.shown[q.place].options IN
  /\ Cardinality(DOMAIN old) + Len(Appended(q)) >= 2
  /\ \A i, j \in DOMAIN old : old[i].label = old[j].label => i = j
  /\ \A i \in DOMAIN old, j \in DOMAIN Appended(q) : old[i].label # Appended(q)[j].label

(* updateQuestion, whose texts no property is about.                       *)
UpdateQuestion(r) ==
  LET q == requests[r] e == requests[r].election IN
  /\ q.pc = "question" /\ q.kind = "edit"
  /\ IF \/ q.place \notin DOMAIN q.shown \/ q.place \in q.stale
        \/ ~QuestionValid(q) \/ ~MayEdit(e, "editQuestions", TRUE)
       THEN Finish(r)
       ELSE requests' = [requests EXCEPT ![r].pc = "option", ![r].next = 0]
  /\ UNCHANGED <<now, elections, questions, wizard, sent, failures>>

(* updateOption, one call for each option the form showed.                 *)
UpdateOption(r) ==
  LET q == requests[r] e == requests[r].election IN
  /\ q.pc = "option" /\ q.kind = "edit"
  /\ IF q.next \notin DOMAIN q.shown[q.place].options
       THEN Proceed(r, "append") /\ UNCHANGED questions
     ELSE IF MayEdit(e, "editOptions", TRUE)
       THEN /\ PutOption(e, q.place, q.next, q.shown[q.place].options[q.next])
            /\ requests' = [requests EXCEPT ![r].next = @ + 1]
       ELSE Finish(r) /\ UNCHANGED questions
  /\ UNCHANGED <<now, elections, wizard, sent, failures>>

(* Mutant: one place is left out.                                          *)
NextDisplayOrderSkipping(options) ==
  IF DOMAIN options = {} THEN 1
  ELSE 2 + CHOOSE o \in DOMAIN options : \A p \in DOMAIN options : p <= o

NextDisplayOrder(options) ==
  IF DOMAIN options = {} THEN 0
  ELSE 1 + CHOOSE o \in DOMAIN options : \A p \in DOMAIN options : p <= o

(* createOption for what is added, then the next question.                 *)
AppendOptions(r) ==
  LET q == requests[r] e == requests[r].election
      order == NextDisplayOrder(q.shown[q.place].options)
  IN
  /\ q.pc = "append"
  /\ IF Appended(q) = <<>>
       THEN /\ requests' = [requests EXCEPT ![r].pc = "question", ![r].place = @ + 1]
            /\ UNCHANGED questions
     ELSE IF /\ MayEdit(e, "editOptions", FALSE) /\ order \in Orders
             /\ order \notin DOMAIN questions[e][q.place].options
       THEN /\ PutOption(e, q.place, order, Appended(q)[1])
            /\ requests' = [requests EXCEPT ![r].pc = "question", ![r].place = @ + 1]
       ELSE Finish(r) /\ UNCHANGED questions
  /\ UNCHANGED <<now, elections, wizard, sent, failures>>

(* What the form of the page of questions sends: titles, one to a line.    *)
QuickForms == {<<>>} \cup {rows \in Forms : \A i \in DOMAIN rows : ~rows[i].described}

(***************************************************************************)
(* createQuestionWithOptionsAction: the question goes behind those there   *)
(* are when the page of the election is read; the titles, one to a line,   *)
(* are not compared, and there may be none.  The page it is sent from may  *)
(* be older than the state of the election.                                *)
(***************************************************************************)
SubmitQuestion(r) ==
  /\ requests[r].pc = "rest" /\ Send /\ "quick" \in Operations
  /\ \E e \in Existing, rows \in QuickForms :
       /\ Cardinality(DOMAIN questions[e]) < Questions
       /\ requests' = [requests EXCEPT ![r] =
            [Rest EXCEPT !.kind = "quick", !.pc = "question", !.election = e,
                         !.rows = rows, !.place = Cardinality(DOMAIN questions[e])]]
  /\ UNCHANGED <<now, elections, questions, wizard, failures>>

(* What the form of the basic information lets through, and the server.    *)
TimesInOrder == {times \in (1..2) \X (1..2) : times[1] < times[2]}

(* updateElectionBasicInfoAction                                           *)
UpdateInfo(r) ==
  /\ requests[r].pc = "rest" /\ "info" \in Operations
  /\ \E e \in Existing, times \in TimesInOrder :
       /\ Editable(e)
       /\ elections' = [elections EXCEPT ![e].startsAt = times[1], ![e].endsAt = times[2]]
  /\ UNCHANGED <<now, questions, wizard, requests, sent, failures>>

WritePolicy(e) == elections' = [elections EXCEPT ![e].policy = TRUE]

(* updateElectionAuthPolicyFromWizardAction: an upsert of the policy, with *)
(* one of the two methods the forms offer.                                 *)
UpdatePolicy(r) ==
  /\ requests[r].pc = "rest" /\ "policy" \in Operations
  /\ \E e \in Existing : Editable(e) /\ WritePolicy(e)
  /\ UNCHANGED <<now, questions, wizard, requests, sent, failures>>

(* configureAuthenticationPolicyAction, which leaves the checks to the     *)
(* service it calls.                                                       *)
ConfigurePolicy(r) ==
  /\ requests[r].pc = "rest" /\ "policy" \in Operations
  /\ \E e \in Existing : MayEdit(e, "editElectionInfo", TRUE) /\ WritePolicy(e)
  /\ UNCHANGED <<now, questions, wizard, requests, sent, failures>>

-----------------------------------------------------------------------------
(* Mutant: questions without options are let through.                      *)
ReviewCompleteLax(e) == questions[e] # <<>> /\ elections[e].valid > 0

(* reviewMissingItems is empty: title and schedule are always there.       *)
ReviewComplete(e) ==
  /\ DOMAIN questions[e] # {}
  /\ \A o \in DOMAIN questions[e] : DOMAIN questions[e][o].options # {}
  /\ elections[e].valid > 0

(* requestReviewAction: the content is looked at, then the state written.  *)
SubmitReview(r) ==
  /\ requests[r].pc = "rest" /\ "review" \in Operations
  /\ \E e \in Existing :
       /\ ReviewComplete(e) /\ elections[e].state = "draft"
       /\ requests' = [requests EXCEPT ![r] =
            [Rest EXCEPT !.kind = "review", !.pc = "write", !.election = e]]
  /\ UNCHANGED <<now, elections, questions, wizard, sent, failures>>

RequestReview(r) ==
  LET e == requests[r].election IN
  /\ requests[r].pc = "write"
  /\ elections' = IF CanTransition(elections[e].state, "ready_for_review")
                    THEN [elections EXCEPT ![e].state = "ready_for_review"]
                    ELSE elections
  /\ Finish(r)
  /\ UNCHANGED <<now, questions, wizard, sent, failures>>

(* openElection, which asks for a validated registry only; the panel       *)
(* offers it in every state before the start.                              *)
OpenElection(r) ==
  /\ requests[r].pc = "rest" /\ "open" \in Operations
  /\ \E e \in Existing :
       /\ CanTransition(elections[e].state, "open")
       /\ elections[e].valid > 0 /\ elections[e].valid = elections[e].total
       /\ elections' = [elections EXCEPT ![e].state = "open", ![e].startsAt = now]
  /\ UNCHANGED <<now, questions, wizard, requests, sent, failures>>

(* A call fails or the server dies: nothing written is taken back, and a   *)
(* wizard that was waiting keeps what was typed.                           *)
Fail(r) ==
  /\ requests[r].pc \notin {"rest", "form"}
  /\ failures < MaxFailures
  /\ failures' = failures + 1
  /\ Finish(r)
  /\ UNCHANGED <<now, elections, questions, wizard, sent>>

Tick ==
  /\ now < MaxTime
  /\ now' = now + 1
  /\ UNCHANGED <<elections, questions, wizard, requests, sent, failures, overlapped>>

RequestStep(r) ==
  \/ SubmitWizard(r) \/ CreateDraft(r) \/ CreatePolicy(r)
  \/ CreateQuestion(r) \/ CreateOption(r) \/ ImportVoters(r)
  \/ OpenEditForm(r) \/ SubmitEdit(r)
  \/ UpdateQuestion(r) \/ UpdateOption(r) \/ AppendOptions(r)
  \/ SubmitImport(r) \/ SubmitQuestion(r) \/ UpdateInfo(r)
  \/ UpdatePolicy(r) \/ ConfigurePolicy(r)
  \/ SubmitReview(r) \/ RequestReview(r) \/ OpenElection(r) \/ Fail(r)

NoteOverlap(r) ==
  overlapped' = (overlapped \/ \E s \in Requests \ {r} : requests[s].pc \notin {"rest", "form"})

Next == \/ FillInfo \/ FillOptions \/ LoadFile \/ GoNext \/ GoBack \/ Tick
        \/ \E r \in Requests : RequestStep(r) /\ NoteOverlap(r)

Spec == Init /\ [][Next]_vars
-----------------------------------------------------------------------------
Quiet == \A r \in Requests : requests[r].pc \in {"rest", "form"}

(***************************************************************************)
(* No option is lost and no question moves: a step that is not a creation  *)
(* leaves the places in use as they are, whoever else is writing; what a   *)
(* voter has been shown is never taken away by an edit.                    *)
(***************************************************************************)
NothingIsTakenAway ==
  [][\A e \in Elections :
       /\ \A o \in DOMAIN questions[e] :
            /\ o \in DOMAIN questions'[e]
            /\ DOMAIN questions[e][o].options \subseteq DOMAIN questions'[e][o].options
       /\ \A o \in DOMAIN questions'[e] \ DOMAIN questions[e] :
            questions'[e][o].options = <<>>]_vars

(***************************************************************************)
(* A question the wizard made offers at least two options, and no two with *)
(* the same title, through every edit, as long as no request was cut off   *)
(* and no two ran at the same time.  (Edits that overlap check their own   *)
(* titles only; and the form that adds a question checks none.)            *)
(***************************************************************************)
WizardQuestionsSound ==
  (Quiet /\ ~overlapped /\ failures = 0) =>
    \A e \in Elections : \A o \in DOMAIN questions[e] :
      LET options == questions[e][o].options
      IN  questions[e][o].by = "wizard" =>
            /\ Cardinality(DOMAIN options) >= 2
            /\ \A i, j \in DOMAIN options : options[i].label = options[j].label => i = j

(***************************************************************************)
(* The voters come last: an election that has its voters from the wizard   *)
(* has the wizard's question with at least two options, wherever wizards   *)
(* were cut off and whatever others did to the draft meanwhile.  A draft   *)
(* the wizard left half made has no voters and cannot be opened.           *)
(***************************************************************************)
VotersComeLast ==
  \A e \in Existing :
    elections[e].listedBy = "wizard" =>
      \E o \in DOMAIN questions[e] : Cardinality(DOMAIN questions[e][o].options) >= 2

(***************************************************************************)
(* An election under review has questions, each with something to choose,  *)
(* if no two requests overlapped: the review looks at the content first,   *)
(* and nothing without a reason is added afterwards.                       *)
(***************************************************************************)
ReviewedIsAnswerable ==
  \A e \in Existing :
    (~overlapped /\ elections[e].state = "ready_for_review") =>
      /\ DOMAIN questions[e] # {}
      /\ \A o \in DOMAIN questions[e] : DOMAIN questions[e][o].options # {}

(***************************************************************************)
(* What is answered has answers: both of the above.                        *)
(***************************************************************************)
QuestionsSound == WizardQuestionsSound /\ ReviewedIsAnswerable

RowsOf(file) == {Parsed(file)[r] : r \in DOMAIN Parsed(file)}

(* A field that the text of the form does not keep together.               *)
IsMarked(row) ==
  \E c \in Columns : \E i \in DOMAIN Normalized(row)[c] :
    Normalized(row)[c][i] \in Separators \cup {"quote"}

(* A row once it was written into the form and read again.                 *)
Reread(row) == Parsed(Formatted(<<row>>))[1]

(* Files whose rows are all in order, as far as they come through the form *)
(* as they are, and the people of their rows.                              *)
SoundFiles == {file \in Files : \A row \in RowsOf(file) : ValidRow(row) \/ IsMarked(row)}

VotersOf ==
  [file \in Files |->
     {Identity(IF IsMarked(row) THEN Reread(row) ELSE row) : row \in RowsOf(file)}]

(***************************************************************************)
(* The voters are those of files, file by file, nobody lost and nobody     *)
(* made up, although the server never sees a file: a row without commas,   *)
(* tabs and quotation marks in its fields is in order and registers the    *)
(* person the administrator wrote, whatever the columns' order and the     *)
(* zeros, blanks and capitals.  Of another row the person is registered    *)
(* that its text names when it is read again.                              *)
(***************************************************************************)
VotersAreThoseOfFiles ==
  \A e \in Elections : \E S \in SUBSET SoundFiles :
    elections[e].people = UNION {VotersOf[file] : file \in S}

NamedInFiles == UNION {PeopleOf(file) : file \in Files}

(***************************************************************************)
(* What the form says of the rows it finds wrong, that they have to be     *)
(* looked at: nobody is registered who is not in a valid row of a file.    *)
(* Does not hold: a comma in a field makes two of it and quotation marks   *)
(* go when the text is read again, which can make such a row a valid one   *)
(* and another person of a voter.                                          *)
(***************************************************************************)
EveryoneIsInAFile ==
  \A e \in Elections : elections[e].people \subseteq NamedInFiles

(***************************************************************************)
(* What the wizard's form says: each description is shown with the option  *)
(* it was typed for.  Does not hold: a title left empty shifts the         *)
(* descriptions of the options after it.                                   *)
(***************************************************************************)
DescriptionsBelong ==
  \A e \in Elections : \A o \in DOMAIN questions[e] : \A i \in DOMAIN questions[e][o].options :
    questions[e][o].options[i].about \in {NoText, questions[e][o].options[i].label}

(***************************************************************************)
(* What the page of the election lists as needed before the start: times   *)
(* in order, a question, two options for each, a voter.  Does not hold:    *)
(* opening looks at the voters only.                                       *)
(***************************************************************************)
OpenedReady ==
  \A e \in Existing :
    elections[e].state = "open" =>
      /\ elections[e].startsAt < elections[e].endsAt
      /\ DOMAIN questions[e] # {}
      /\ \A o \in DOMAIN questions[e] : Cardinality(DOMAIN questions[e][o].options) >= 2
      /\ elections[e].people # {}
===============================================================================
