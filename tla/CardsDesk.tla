------------------------------- MODULE CardsDesk -------------------------------
(* The administrator's cards page (app/(admin)/admin/cards/page.tsx): a list,  *)
(* a switch on every row that writes the whole row back, a drawer whose form   *)
(* creates or edits a card and uploads its picture, and a dialog that deletes. *)
(* Of a card the model keeps the switch and one number, a version, for all the *)
(* other fields. Searching and filtering only hide rows of the list.           *)
EXTENDS Integers, FiniteSets

CONSTANTS
  Cards,             \* the ids of cards that can exist
  FirstCards,        \* those that exist when the page is opened
  CardRequests,      \* bound: requests of the page under way at a time
  MaxCardClicks      \* bound: clicks of the administrator

ASSUME CardsDeskAssumption ==
  /\ FirstCards \subseteq Cards
  /\ 0 \notin Cards
  /\ MaxCardClicks \in Nat

VARIABLES
  card,        \* server: the row of each card, or NoCard
  cards,       \* the rows of the screen
  cardLoading,
  cardReq,     \* requests under way
  drawer,      \* isDrawerOpen, editingCard (0 for a new one), formData, and its opening
  openings,    \* how often the drawer was opened
  submitting,  \* isSubmitting
  confirming,  \* deleteConfirmId
  cardClicks,
  overlapped,  \* history: a request was sent while another one was under way
  cardTrouble, \* history: a request failed
  crossed      \* history: the drawer was opened while an upload was under way

cardVars == << card, cards, cardLoading, cardReq, drawer, openings, submitting, confirming,
               cardClicks, overlapped, cardTrouble, crossed >>
cardHistory == << overlapped, cardTrouble, crossed >>

NoCard == [active |-> FALSE, version |-> 0]
Row == [active: BOOLEAN, version: Nat]
NoDrawer == [open |-> FALSE, id |-> 0, active |-> FALSE, version |-> 0, image |-> 0, opening |-> 0]
NoCardReq == [kind |-> "none"]
CardReq ==
       [kind: {"list"}, rows: [Cards -> Row], answered: BOOLEAN]
  \cup [kind: {"toggle"}, id: Cards, row: Row, answered: BOOLEAN]
  \cup [kind: {"save"}, id: Cards \cup {0}, row: Row, answered: BOOLEAN]
  \cup [kind: {"delete"}, id: Cards, answered: BOOLEAN]
  \cup [kind: {"upload"}, opening: Nat, answered: BOOLEAN]

CardsInit ==
  /\ card = [c \in Cards |-> IF c \in FirstCards THEN [active |-> TRUE, version |-> 1] ELSE NoCard]
  /\ cards = [c \in Cards |-> NoCard]
  /\ cardLoading = TRUE
  /\ cardReq = [i \in CardRequests |-> NoCardReq]
  /\ drawer = NoDrawer
  /\ openings = 0
  /\ submitting = FALSE
  /\ confirming = 0
  /\ cardClicks = 0
  /\ overlapped = FALSE
  /\ cardTrouble = FALSE
  /\ crossed = FALSE

CardsBusy == \E i \in CardRequests : cardReq[i] # NoCardReq
FreeSlots == { i \in CardRequests : cardReq[i] = NoCardReq }

SendCard(r) ==
  /\ \E i \in FreeSlots : cardReq' = [cardReq EXCEPT ![i] = r]
  /\ overlapped' = (overlapped \/ CardsBusy)

ListRequest == [kind |-> "list", rows |-> [c \in Cards |-> NoCard], answered |-> FALSE]

\* fetchCards, sent when the request of slot i has come back.
RefetchFrom(i) ==
  /\ cardReq' = [cardReq EXCEPT ![i] = ListRequest]
  /\ cardLoading' = TRUE

OpenCards ==
  /\ cardLoading /\ ~CardsBusy
  /\ SendCard(ListRequest)
  /\ UNCHANGED << card, cards, cardLoading, drawer, openings, submitting, confirming, cardClicks,
                  cardTrouble, crossed >>

-----------------------------------------------------------------------------
(* What the administrator does. *)

ClickCards == cardClicks < MaxCardClicks /\ cardClicks' = cardClicks + 1
CardOnScreen(c) == ~cardLoading /\ ~drawer.open /\ confirming = 0 /\ cards[c].version > 0

\* Both what is written, and what the screen shows when it has been written.
Switched(r) == [r EXCEPT !.active = ~@]

\* handleToggleStatus: the row of the render, switched. Nothing disables the switch.
Toggle(c) ==
  /\ CardOnScreen(c)
  /\ SendCard([kind |-> "toggle", id |-> c, answered |-> FALSE,
               row |-> Switched(cards[c])])
  /\ UNCHANGED << drawer, openings, submitting, confirming, crossed >>

\* Mutant: the form of a card keeps the picture of the last one.
OpenDrawerWithImage(id, row) ==
  /\ ~drawer.open /\ confirming = 0
  /\ drawer' = [drawer EXCEPT !.open = TRUE, !.id = id, !.active = row.active, !.version = row.version,
                              !.opening = openings + 1]
  /\ openings' = openings + 1
  /\ crossed' = (crossed \/ \E i \in CardRequests : cardReq[i].kind = "upload")
  /\ UNCHANGED << cardReq, submitting, confirming, overlapped >>

OpenDrawer(id, row) ==
  /\ ~drawer.open /\ confirming = 0
  /\ drawer' = [open |-> TRUE, id |-> id, active |-> row.active, version |-> row.version, image |-> 0,
                opening |-> openings + 1]
  /\ openings' = openings + 1
  /\ crossed' = (crossed \/ \E i \in CardRequests : cardReq[i].kind = "upload")
  /\ UNCHANGED << cardReq, submitting, confirming, overlapped >>

OpenCreate == OpenDrawer(0, [active |-> TRUE, version |-> 0])
OpenEdit(c) == CardOnScreen(c) /\ OpenDrawer(c, cards[c])

CloseDrawer ==
  /\ drawer.open
  /\ drawer' = [drawer EXCEPT !.open = FALSE]
  /\ UNCHANGED << cardReq, openings, submitting, confirming, overlapped, crossed >>

\* Any field of the form but the switch and the picture.
EditForm ==
  /\ drawer.open
  /\ drawer' = [drawer EXCEPT !.version = @ + 1]
  /\ UNCHANGED << cardReq, openings, submitting, confirming, overlapped, crossed >>

\* handleImageUpload
UploadImage ==
  /\ drawer.open
  /\ SendCard([kind |-> "upload", opening |-> drawer.opening, answered |-> FALSE])
  /\ UNCHANGED << drawer, openings, submitting, confirming, crossed >>

\* handleSubmit
SubmitCard ==
  /\ drawer.open /\ ~submitting /\ drawer.version > 0
  /\ SendCard([kind |-> "save", id |-> drawer.id, answered |-> FALSE,
               row |-> [active |-> drawer.active, version |-> drawer.version]])
  /\ submitting' = TRUE
  /\ UNCHANGED << drawer, openings, confirming, crossed >>

AskDelete(c) ==
  /\ CardOnScreen(c)
  /\ confirming' = c
  /\ UNCHANGED << cardReq, drawer, openings, submitting, overlapped, crossed >>

CancelDelete ==
  /\ confirming # 0
  /\ confirming' = 0
  /\ UNCHANGED << cardReq, drawer, openings, submitting, overlapped, crossed >>

\* handleDelete: the dialog stays, and can be confirmed again.
ConfirmDelete ==
  /\ confirming # 0
  /\ SendCard([kind |-> "delete", id |-> confirming, answered |-> FALSE])
  /\ UNCHANGED << drawer, openings, submitting, confirming, crossed >>

CardClick ==
  /\ ClickCards
  /\ \/ \E c \in Cards : Toggle(c) \/ OpenEdit(c) \/ AskDelete(c)
     \/ OpenCreate \/ CloseDrawer \/ EditForm \/ UploadImage \/ SubmitCard
     \/ CancelDelete \/ ConfirmDelete
  /\ UNCHANGED << card, cards, cardLoading, cardTrouble >>

-----------------------------------------------------------------------------
(* The server's side, and what is done with its answers. *)

\* UpdateCard writes every field. Of a card that is not there it writes nothing: it
\* answers an error (CardFails), or, when the card goes after it was looked up, none.
Stored(r) ==
  CASE r.kind = "toggle" \/ (r.kind = "save" /\ r.id # 0) ->
         {[card EXCEPT ![r.id] = IF @ = NoCard THEN @ ELSE r.row]}
    [] r.kind = "save" /\ r.id = 0 ->
         {[card EXCEPT ![c] = r.row] : c \in { x \in Cards : card[x] = NoCard }}
    [] r.kind = "delete" -> {[card EXCEPT ![r.id] = NoCard]}
    [] OTHER -> {card}

ServeCard(i) ==
  /\ cardReq[i] # NoCardReq
  /\ ~cardReq[i].answered
  /\ card' \in Stored(cardReq[i])
  /\ cardReq' = [cardReq EXCEPT ![i] = IF @.kind = "list" THEN [@ EXCEPT !.rows = card, !.answered = TRUE]
                                                          ELSE [@ EXCEPT !.answered = TRUE]]
  /\ UNCHANGED << cards, cardLoading, drawer, openings, submitting, confirming, cardClicks,
                  cardHistory >>

Answered(i, kind) == cardReq[i].kind = kind /\ cardReq[i].answered
Return(i) == cardReq' = [cardReq EXCEPT ![i] = NoCardReq]

NoRows(t) == \A c \in Cards : t[c] = NoCard

\* The list of an empty table is null, and the page then keeps the rows it has.
ListReturns(i) ==
  /\ Answered(i, "list")
  /\ cards' = IF NoRows(cardReq[i].rows) THEN cards ELSE cardReq[i].rows
  /\ cardLoading' = FALSE
  /\ Return(i)
  /\ UNCHANGED << drawer, submitting, confirming >>

\* Mutant: the row of the screen is left as it is.
ToggleReturnsUnseen(i) ==
  /\ Answered(i, "toggle")
  /\ Return(i)
  /\ UNCHANGED << cards, cardLoading, drawer, submitting, confirming >>

\* The switch of the row is turned as the row is by now, without a fetch.
ToggleReturns(i) ==
  /\ Answered(i, "toggle")
  /\ cards' = [cards EXCEPT ![cardReq[i].id] = IF @ = NoCard THEN @ ELSE Switched(@)]
  /\ Return(i)
  /\ UNCHANGED << cardLoading, drawer, submitting, confirming >>

\* Whatever form is open by now is closed.
SaveReturns(i) ==
  /\ Answered(i, "save")
  /\ drawer' = [drawer EXCEPT !.open = FALSE]
  /\ submitting' = FALSE
  /\ RefetchFrom(i)
  /\ UNCHANGED << cards, confirming >>

DeleteReturns(i) ==
  /\ Answered(i, "delete")
  /\ confirming' = 0
  /\ RefetchFrom(i)
  /\ UNCHANGED << cards, drawer, submitting >>

\* The picture goes into whatever form there is by now.
UploadReturns(i) ==
  /\ Answered(i, "upload")
  /\ drawer' = [drawer EXCEPT !.image = cardReq[i].opening]
  /\ Return(i)
  /\ UNCHANGED << cards, cardLoading, submitting, confirming >>

CardReturns(i) ==
  /\ ListReturns(i) \/ ToggleReturns(i) \/ SaveReturns(i) \/ DeleteReturns(i) \/ UploadReturns(i)
  /\ UNCHANGED << card, openings, cardClicks, cardHistory >>

CardFails(i) ==
  /\ cardReq[i] # NoCardReq
  /\ Return(i)
  /\ cardLoading' = (cardLoading /\ cardReq[i].kind # "list")
  /\ submitting' = (submitting /\ cardReq[i].kind # "save")
  /\ cardTrouble' = TRUE
  /\ UNCHANGED << card, cards, drawer, openings, confirming, cardClicks, overlapped, crossed >>

CardsNext ==
  \/ OpenCards \/ CardClick
  \/ \E i \in CardRequests : ServeCard(i) \/ CardReturns(i) \/ CardFails(i)

CardsSpec == CardsInit /\ [][CardsNext]_cardVars

-----------------------------------------------------------------------------
CardsTypeOK ==
  /\ card \in [Cards -> Row]
  /\ cards \in [Cards -> Row]
  /\ cardLoading \in BOOLEAN
  /\ cardReq \in [CardRequests -> CardReq \cup {NoCardReq}]
  /\ drawer \in [open: BOOLEAN, id: Cards \cup {0}, active: BOOLEAN, version: Nat, image: Nat,
                 opening: Nat]
  /\ openings \in Nat /\ cardClicks \in Nat
  /\ submitting \in BOOLEAN /\ overlapped \in BOOLEAN
  /\ cardTrouble \in BOOLEAN /\ crossed \in BOOLEAN
  /\ confirming \in Cards \cup {0}

\* The rows of the screen are those of the database. The card that was deleted last is
\* the exception: while the table is empty, the screen keeps what it showed.
RowsOfTable == cards = card \/ NoRows(card)

\* When nothing is under way, and no request has failed or overlapped with another, the
\* rows of the screen are those of the database, unless that has none: a switch that is
\* turned on the screen alone, or a list that is not fetched again, would show otherwise
\* (handleToggleStatus, handleSubmit, handleDelete, fetchCards).
CardsAsStored ==
  ~CardsBusy /\ ~cardLoading /\ ~overlapped /\ ~cardTrouble => RowsOfTable

\* The picture in the form was chosen in that form, unless the drawer was opened
\* while an upload was under way (handleImageUpload, handleOpenCreate, handleOpenEdit):
\* the form of another card gets it then, and its save.
ImageInItsForm ==
  drawer.image \notin {0, drawer.opening} => crossed

-----------------------------------------------------------------------------
(* What makes the two properties inductive. *)

\* The pictures under way are for the form that is loaded.
ImageFollows ==
  ~crossed => /\ drawer.image \in {0, drawer.opening}
              /\ \A i \in CardRequests : cardReq[i].kind = "upload" => cardReq[i].opening = drawer.opening

OneAtATime ==
  ~overlapped => \A i, j \in CardRequests : cardReq[i] # NoCardReq /\ cardReq[j] # NoCardReq => i = j

\* A card is written as the screen shows it, with the switch turned; the screen
\* differs from the database by that switch, until the answer has come. A row that is
\* left of an empty table can be switched, and the table stays empty.
ToggleFollows(q) ==
  /\ ~cardLoading
  /\ cards[q.id] # NoCard
  /\ \/ NoRows(card)
     \/ /\ q.row = Switched(cards[q.id])
        /\ IF q.answered THEN card = [cards EXCEPT ![q.id] = q.row] ELSE cards = card

RowsFollow ==
  ~overlapped /\ ~cardTrouble =>
    /\ ~CardsBusy /\ ~cardLoading => RowsOfTable
    /\ \A i \in CardRequests :
          /\ Answered(i, "list") => cardReq[i].rows = card
          /\ cardReq[i].kind = "upload" /\ ~cardLoading => RowsOfTable
          /\ cardReq[i].kind = "toggle" => ToggleFollows(cardReq[i])

CardsInv == CardsTypeOK /\ ImageFollows /\ OneAtATime /\ RowsFollow
=============================================================================
