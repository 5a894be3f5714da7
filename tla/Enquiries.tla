------------------------------- MODULE Enquiries -------------------------------
(* Messages of visitors and the office that handles them: the contact page     *)
(* (app/contact/page.tsx), the dialog "Enquire now"                             *)
(* (components/ui/EnquireModal.tsx), the two tables of the server and the two   *)
(* pages of the administrator that show them (components/admin/EnquiriesTable   *)
(* and ContactsTable). A text is a version; 0 stands for an empty form.         *)
EXTENDS Integers, FiniteSets, Sequences

CONSTANTS
  InboxLimit,        \* rows of a list asked for without a limit (50)
  BoardRequests,     \* bound: requests of the office page under way at a time
  MaxTexts,          \* bound: changes typed by visitors
  MaxInbox,          \* bound: messages stored in a table
  MaxBoardClicks     \* bound: clicks of the administrator

ASSUME EnquiriesAssumption ==
  /\ InboxLimit \in Nat \ {0}
  /\ MaxTexts \in Nat /\ MaxInbox \in Nat /\ MaxBoardClicks \in Nat

VARIABLES
  inbox,       \* server: the rows of each table, oldest first
  contact,     \* the form of the contact page
  dialog,      \* the dialog: isOpen, formData, isSubmitting, isSuccess and its timers
  texts,
  board,       \* the page of the administrator: its table, enquiries, viewModal
  boardReq,    \* requests of that page under way
  boardClicks,
  wiped,       \* history: a form was emptied of a text that had not been sent
  rushed,      \* history: the dialog was used before the timer of its last message
  lostAnswer,  \* history: a message was stored and its answer lost
  boardRaced   \* history: an answer came in late: two requests overlapped, or one failed

visitorVars == << contact, dialog, texts, wiped, rushed, lostAnswer >>
officeVars == << board, boardReq, boardClicks, boardRaced >>
enquiryVars == << inbox, visitorVars, officeVars >>

Tables == {"enquiries", "contacts"}
Message == [text: Nat, status: {"new", "resolved", "deleted"}]
NoView == 0
Resting == [kind |-> "none"]

EnquiriesInit ==
  /\ inbox = [t \in Tables |-> << >>]
  /\ contact = [at |-> "form", text |-> 0]
  /\ dialog = [open |-> FALSE, text |-> 0, at |-> "form", success |-> FALSE, sent |-> 0,
               timers |-> 0, clearing |-> FALSE]
  /\ texts = 0
  /\ board = [table |-> "enquiries", rows |-> << >>, loaded |-> FALSE, view |-> NoView, viewed |-> "new"]
  /\ boardReq = [i \in BoardRequests |-> Resting]
  /\ boardClicks = 0
  /\ wiped = FALSE /\ rushed = FALSE /\ lostAnswer = FALSE /\ boardRaced = FALSE

\* CreateEnquiry and CreateContact
Insert(t, x) ==
  /\ Len(inbox[t]) < MaxInbox
  /\ inbox' = [inbox EXCEPT ![t] = Append(@, [text |-> x, status |-> "new"])]

Type == texts < MaxTexts /\ texts' = texts + 1

-----------------------------------------------------------------------------
(* The contact page. *)

\* handleChange: the fields are disabled while the form is submitted.
TypeContact ==
  /\ contact.at = "form"
  /\ Type
  /\ contact' = [contact EXCEPT !.text = texts + 1]
  /\ UNCHANGED << inbox, dialog, wiped, rushed, lostAnswer >>

\* handleSubmit, of a form that is valid.
SubmitContact ==
  /\ contact.at = "form" /\ contact.text # 0
  /\ contact' = [contact EXCEPT !.at = "sending"]
  /\ UNCHANGED << inbox, dialog, texts, wiped, rushed, lostAnswer >>

StoreContact ==
  /\ contact.at = "sending"
  /\ Insert("contacts", contact.text)
  /\ contact' = [contact EXCEPT !.at = "stored"]
  /\ UNCHANGED << dialog, texts, wiped, rushed, lostAnswer >>

\* Mutant: the form stays, with its text.
ContactAnsweredQuietly ==
  /\ contact.at = "stored"
  /\ contact' = [contact EXCEPT !.at = "form"]
  /\ UNCHANGED << inbox, dialog, texts, wiped, rushed, lostAnswer >>

ContactAnswered ==
  /\ contact.at = "stored"
  /\ contact' = [contact EXCEPT !.at = "success"]
  /\ UNCHANGED << inbox, dialog, texts, wiped, rushed, lostAnswer >>

ContactFails ==
  /\ contact.at \in {"sending", "stored"}
  /\ contact' = [contact EXCEPT !.at = "form"]
  /\ lostAnswer' = (lostAnswer \/ contact.at = "stored")
  /\ UNCHANGED << inbox, dialog, texts, wiped, rushed >>

\* The button "Send another message", or the timer of the effect of isSuccess,
\* which is cleared when the page is left or the form is shown again.
ResetContact ==
  /\ contact.at = "success"
  /\ contact' = [at |-> "form", text |-> 0]
  /\ wiped' = (wiped \/ \A i \in 1..Len(inbox["contacts"]) : inbox["contacts"][i].text # contact.text)
  /\ UNCHANGED << inbox, dialog, texts, rushed, lostAnswer >>

-----------------------------------------------------------------------------
(* The dialog. It keeps its state while it is closed.                          *)

OpenDialog ==
  /\ ~dialog.open
  /\ dialog' = [dialog EXCEPT !.open = TRUE]
  /\ UNCHANGED << inbox, contact, texts, wiped, rushed, lostAnswer >>

\* The effect of isOpen forgets the success a moment later.
CloseDialog ==
  /\ dialog.open
  /\ dialog' = [dialog EXCEPT !.open = FALSE, !.clearing = TRUE]
  /\ UNCHANGED << inbox, contact, texts, wiped, rushed, lostAnswer >>

ForgetSuccess ==
  /\ dialog.clearing
  /\ dialog' = [dialog EXCEPT !.clearing = FALSE, !.success = FALSE]
  /\ UNCHANGED << inbox, contact, texts, wiped, rushed, lostAnswer >>

Usable == dialog.open /\ ~dialog.success
Hurried == rushed \/ dialog.timers > 0 \/ dialog.at # "form"

\* The fields of the dialog are not disabled.
TypeDialog ==
  /\ Usable
  /\ Type
  /\ dialog' = [dialog EXCEPT !.text = texts + 1]
  /\ rushed' = Hurried
  /\ UNCHANGED << inbox, contact, wiped, lostAnswer >>

SubmitDialog ==
  /\ Usable /\ dialog.at = "form" /\ dialog.text # 0
  /\ dialog' = [dialog EXCEPT !.at = "sending", !.sent = dialog.text]
  /\ rushed' = Hurried
  /\ UNCHANGED << inbox, contact, texts, wiped, lostAnswer >>

StoreDialog ==
  /\ dialog.at = "sending"
  /\ Insert("enquiries", dialog.sent)
  /\ dialog' = [dialog EXCEPT !.at = "stored"]
  /\ UNCHANGED << contact, texts, wiped, rushed, lostAnswer >>

\* The success is shown, and a timer set that nothing clears.
DialogAnswered ==
  /\ dialog.at = "stored"
  /\ dialog' = [dialog EXCEPT !.at = "form", !.success = TRUE, !.timers = @ + 1]
  /\ UNCHANGED << inbox, contact, texts, wiped, rushed, lostAnswer >>

DialogFails ==
  /\ dialog.at \in {"sending", "stored"}
  /\ dialog' = [dialog EXCEPT !.at = "form"]
  /\ lostAnswer' = (lostAnswer \/ dialog.at = "stored")
  /\ UNCHANGED << inbox, contact, texts, wiped, rushed >>

\* The timer empties the form and closes the dialog, whatever it shows by now.
ResetDialog ==
  /\ dialog.timers > 0
  /\ dialog' = [dialog EXCEPT !.timers = @ - 1, !.success = FALSE, !.text = 0, !.open = FALSE,
                              !.clearing = (@ \/ dialog.open)]
  /\ wiped' = (wiped \/ dialog.text \notin {0, dialog.sent})
  /\ UNCHANGED << inbox, contact, texts, rushed, lostAnswer >>

VisitorStep ==
  /\ \/ TypeContact \/ SubmitContact \/ StoreContact \/ ContactAnswered \/ ContactFails \/ ResetContact
     \/ OpenDialog \/ CloseDialog \/ ForgetSuccess \/ TypeDialog \/ SubmitDialog \/ StoreDialog
     \/ DialogAnswered \/ DialogFails \/ ResetDialog
  /\ UNCHANGED officeVars

-----------------------------------------------------------------------------
(* The pages of the office. A row is known by its place in its table. A handler *)
(* keeps the rows of the render it was made in.                                 *)

BoardClick == boardClicks < MaxBoardClicks /\ boardClicks' = boardClicks + 1
BoardBusy == \E i \in BoardRequests : boardReq[i] # Resting
Send(r) ==
  /\ \E i \in BoardRequests : boardReq[i] = Resting /\ boardReq' = [boardReq EXCEPT ![i] = r]
  /\ boardRaced' = (boardRaced \/ BoardBusy)

\* The rows that a list answers: the newest ones that are not deleted.
Answer(t) ==
  [n \in 1..Len(inbox[t]) |->
     IF Cardinality({ m \in n..Len(inbox[t]) : inbox[t][m].status # "deleted" }) <= InboxLimit
     THEN inbox[t][n].status ELSE "deleted"]

\* One page or the other is opened; fetchEnquiries and fetchContacts.
Visit(t) ==
  /\ ~BoardBusy
  /\ BoardClick
  /\ board' = [board EXCEPT !.table = t, !.rows = << >>, !.loaded = FALSE, !.view = NoView]
  /\ \E i \in BoardRequests : boardReq' = [boardReq EXCEPT ![i] = [kind |-> "list"]]
  /\ boardRaced' = FALSE

FetchEnquiries == Visit("enquiries")
FetchContacts == Visit("contacts")

OnScreen(n) == board.loaded /\ n \in DOMAIN board.rows /\ board.rows[n] # "deleted"

Ask(kind, n) ==
  /\ BoardClick
  /\ Send([kind |-> kind, row |-> n, rows |-> board.rows, done |-> FALSE])

\* updateStatus(id, "resolved"), of a row that is not resolved.
ResolveEnquiry(n) ==
  /\ board.table = "enquiries" /\ OnScreen(n) /\ board.view = NoView
  /\ board.rows[n] # "resolved"
  /\ Ask("resolve", n)
  /\ UNCHANGED board
ResolveContact(n) ==
  /\ board.table = "contacts" /\ OnScreen(n) /\ board.view = NoView
  /\ board.rows[n] # "resolved"
  /\ Ask("resolve", n)
  /\ UNCHANGED board

DeleteEnquiry(n) ==
  /\ board.table = "enquiries" /\ OnScreen(n) /\ board.view = NoView
  /\ Ask("delete", n)
  /\ UNCHANGED board
DeleteContact(n) ==
  /\ board.table = "contacts" /\ OnScreen(n) /\ board.view = NoView
  /\ Ask("delete", n)
  /\ UNCHANGED board

\* The dialog of one message keeps the copy of the row it was opened with.
ViewEnquiry(n) ==
  /\ board.table = "enquiries" /\ OnScreen(n) /\ board.view = NoView
  /\ BoardClick
  /\ board' = [board EXCEPT !.view = n, !.viewed = board.rows[n]]
  /\ UNCHANGED << boardReq, boardRaced >>
ViewContact(n) ==
  /\ board.table = "contacts" /\ OnScreen(n) /\ board.view = NoView
  /\ BoardClick
  /\ board' = [board EXCEPT !.view = n, !.viewed = board.rows[n]]
  /\ UNCHANGED << boardReq, boardRaced >>

\* Close, and "Mark as resolved", which closes as well.
EnquiryModal ==
  /\ board.table = "enquiries" /\ board.view # NoView
  /\ \/ BoardClick /\ UNCHANGED << boardReq, boardRaced >>
     \/ board.viewed # "resolved" /\ Ask("resolve", board.view)
  /\ board' = [board EXCEPT !.view = NoView]
ContactModal ==
  /\ board.table = "contacts" /\ board.view # NoView
  /\ \/ BoardClick /\ UNCHANGED << boardReq, boardRaced >>
     \/ board.viewed # "resolved" /\ Ask("resolve", board.view)
  /\ board' = [board EXCEPT !.view = NoView]

OfficeStep ==
  /\ \/ FetchEnquiries \/ FetchContacts \/ EnquiryModal \/ ContactModal
     \/ \E n \in 1..MaxInbox :
          \/ ResolveEnquiry(n) \/ ResolveContact(n) \/ DeleteEnquiry(n) \/ DeleteContact(n)
          \/ ViewEnquiry(n) \/ ViewContact(n)
  /\ UNCHANGED << inbox, visitorVars >>

\* A deleted row is not updated.
ServeBoard(i) ==
  /\ boardReq[i].kind \in {"resolve", "delete"} /\ ~boardReq[i].done
  /\ inbox' = [inbox EXCEPT ![board.table][boardReq[i].row].status =
                 IF boardReq[i].kind = "delete" \/ @ = "deleted" THEN "deleted" ELSE "resolved"]
  /\ boardReq' = [boardReq EXCEPT ![i].done = TRUE]
  /\ UNCHANGED << visitorVars, board, boardClicks, boardRaced >>

ListAnswers(i) ==
  /\ boardReq[i].kind = "list"
  /\ board' = [board EXCEPT !.rows = Answer(board.table), !.loaded = TRUE]
  /\ boardReq' = [boardReq EXCEPT ![i] = Resting]
  /\ UNCHANGED << inbox, visitorVars, boardClicks, boardRaced >>

\* Mutant: the rows on the screen stay.
ChangeReturnsUnseen(i) ==
  /\ boardReq[i].kind \in {"resolve", "delete"} /\ boardReq[i].done
  /\ boardReq' = [boardReq EXCEPT ![i] = Resting]
  /\ UNCHANGED << inbox, visitorVars, board, boardClicks, boardRaced >>

\* The rows of the render that sent the request, with the one change.
ChangeReturns(i) ==
  /\ boardReq[i].kind \in {"resolve", "delete"} /\ boardReq[i].done
  /\ board' = [board EXCEPT !.rows = [boardReq[i].rows EXCEPT ![boardReq[i].row] =
                 IF boardReq[i].kind = "delete" \/ @ = "deleted" THEN "deleted" ELSE "resolved"]]
  /\ boardReq' = [boardReq EXCEPT ![i] = Resting]
  /\ UNCHANGED << inbox, visitorVars, boardClicks, boardRaced >>

\* An error instead of the table, or an alert.
BoardFails(i) ==
  /\ boardReq[i] # Resting
  /\ boardReq' = [boardReq EXCEPT ![i] = Resting]
  /\ boardRaced' = TRUE
  /\ UNCHANGED << inbox, visitorVars, board, boardClicks >>

EnquiriesNext ==
  \/ VisitorStep \/ OfficeStep
  \/ \E i \in BoardRequests : ServeBoard(i) \/ ListAnswers(i) \/ ChangeReturns(i) \/ BoardFails(i)

EnquiriesSpec == EnquiriesInit /\ [][EnquiriesNext]_enquiryVars

-----------------------------------------------------------------------------
BoardRequest ==
  {Resting, [kind |-> "list"]}
  \cup [kind: {"resolve", "delete"}, row: Nat, rows: Seq({"new", "resolved", "deleted"}), done: BOOLEAN]

EnquiriesTypeOK ==
  /\ inbox \in [Tables -> Seq(Message)]
  /\ contact \in [at: {"form", "sending", "stored", "success"}, text: Nat]
  /\ dialog \in [open: BOOLEAN, text: Nat, at: {"form", "sending", "stored"}, success: BOOLEAN,
                 sent: Nat, timers: Nat, clearing: BOOLEAN]
  /\ texts \in Nat /\ boardClicks \in Nat
  /\ board \in [table: Tables, rows: Seq({"new", "resolved", "deleted"}), loaded: BOOLEAN,
                view: Nat, viewed: {"new", "resolved"}]
  /\ boardReq \in [BoardRequests -> BoardRequest]
  /\ {wiped, rushed, lostAnswer, boardRaced} \subseteq BOOLEAN

SentOnce ==
  \A t \in Tables : \A m, n \in 1..Len(inbox[t]) : m # n => inbox[t][m].text # inbox[t][n].text

\* What a visitor typed is not taken out of a form before it was sent, and is
\* stored once however the visitor goes on clicking, unless the dialog was used
\* again before the timer of its last message had run, or an answer was lost
\* (handleSubmit and handleReset of the contact page and of the dialog).
MessagesKeptAndSentOnce ==
  ~rushed =>
    /\ ~wiped
    /\ ~lostAnswer => SentOnce

\* When no request of the office is under way, a row on the screen has the status
\* that the database has, unless two requests overlapped or one failed
\* (updateStatus, deleteEnquiry, deleteContact).
BoardAsStored ==
  board.loaded /\ ~BoardBusy /\ ~boardRaced =>
    \A n \in DOMAIN board.rows :
       board.rows[n] # "deleted" => board.rows[n] = inbox[board.table][n].status

-----------------------------------------------------------------------------
(* What makes MessagesKeptAndSentOnce inductive. *)

StoredTexts(t) == { inbox[t][m].text : m \in 1..Len(inbox[t]) }

\* A text is typed once.
TextsKnown ==
  /\ \A t \in Tables : StoredTexts(t) \subseteq 1..texts
  /\ {contact.text, dialog.text, dialog.sent} \subseteq 0..texts
  /\ contact.at # "form" => contact.text # 0
  /\ dialog.at # "form" => dialog.sent # 0

\* The contact page holds a text that is not stored yet, or one that is and whose form
\* is about to be emptied.
ContactFollows ==
  /\ contact.at \in {"stored", "success"} => contact.text \in StoredTexts("contacts")
  /\ ~lostAnswer /\ contact.at \in {"form", "sending"} => contact.text \notin StoredTexts("contacts")

\* So does the dialog, as long as nobody hurries: the timer finds the text it was set for.
DialogFollowsText ==
  ~rushed =>
    /\ dialog.timers > 0 => dialog.at = "form" /\ dialog.timers = 1
    /\ dialog.timers > 0 \/ dialog.at # "form" => dialog.text = dialog.sent
    /\ ~lostAnswer /\ dialog.timers = 0 /\ dialog.at \in {"form", "sending"} =>
         dialog.text \notin StoredTexts("enquiries")

MessagesInv ==
  /\ EnquiriesTypeOK /\ TextsKnown /\ ContactFollows /\ DialogFollowsText /\ MessagesKeptAndSentOnce

-----------------------------------------------------------------------------
(* What makes BoardAsStored inductive. *)

Changing(i) == boardReq[i].kind \in {"resolve", "delete"}

\* The rows of the screen and of every request are those of one list, and the list comes alone.
BoardShape ==
  /\ Len(board.rows) <= Len(inbox[board.table])
  /\ board.view \in 0..Len(board.rows)
  /\ \A i \in BoardRequests :
       /\ Changing(i) => Len(boardReq[i].rows) = Len(board.rows) /\ boardReq[i].row \in 1..Len(board.rows)
       /\ boardReq[i].kind = "list" => ~board.loaded /\ \A j \in BoardRequests \ {i} : boardReq[j] = Resting
  /\ ~board.loaded => board.rows = << >>

\* One request at a time keeps the rows of its render on the screen, and but for the row that
\* it has changed they are those of the table.
RowsFollowInbox ==
  ~boardRaced =>
    /\ \A i, j \in BoardRequests : boardReq[i] # Resting /\ boardReq[j] # Resting => i = j
    /\ \A i \in BoardRequests :
         Changing(i) =>
           /\ boardReq[i].rows = board.rows
           /\ boardReq[i].done => inbox[board.table][boardReq[i].row].status # "new"
    /\ \A n \in 1..Len(board.rows) :
         \/ board.rows[n] = "deleted"
         \/ board.rows[n] = inbox[board.table][n].status
         \/ \E i \in BoardRequests :
              /\ Changing(i) /\ boardReq[i].done /\ boardReq[i].row = n
              /\ boardReq[i].kind = "delete" \/ inbox[board.table][n].status = "resolved"

BoardInv == EnquiriesTypeOK /\ BoardShape /\ RowsFollowInbox
=============================================================================
