----------------------------- MODULE BookingsDesk -----------------------------
(* The administrator's bookings page (app/(admin)/admin/bookings/page.tsx): a  *)
(* list fetched for the filters on the screen, a drawer with the details of    *)
(* one booking, a form in it that saves the status, and a button that deletes. *)
(* Every request is answered later, while the administrator goes on clicking,  *)
(* and goes on with the variables of the render that sent it. The text of the  *)
(* search box is left out: typing sends nothing and changes no other control.  *)
EXTENDS Integers, FiniteSets

CONSTANTS
  Bookings,          \* the number of bookings; a booking with a greater number is newer
  StripeBookings,    \* the bookings paid with Stripe; the others are paid with PayPal
  DeskStatus,        \* statuses of a booking
  DeskPageSize,      \* bookings on a page (50)
  RefreshLimit,      \* bookings in a list asked for without a limit (20)
  DeskFetches,       \* bound: fetches of the list under way at a time
  MaxDeskClicks      \* bound: clicks of the administrator

ASSUME BookingsDeskAssumption ==
  /\ Bookings \in Nat
  /\ StripeBookings \subseteq 1..Bookings
  /\ DeskPageSize \in Nat \ {0}
  /\ RefreshLimit \in Nat
  /\ MaxDeskClicks \in Nat
  /\ "all" \notin DeskStatus /\ "deleted" \notin DeskStatus

VARIABLES
  row,         \* server: bookings.status, or "deleted"
  filters,     \* statusFilter, providerFilter and page on the screen
  list,        \* bookings and totalPages, and the query they answer
  deskLoading, \* loading: the table is hidden
  deskFailed,  \* error: the fetch that began last has failed
  deskFetch,   \* fetchBookings under way
  panel,       \* selectedBooking, or NoBooking
  form,        \* updateStatusVal, and the booking it was loaded from
  save,        \* handleUpdateStatus under way
  removal,     \* handleDeleteBooking under way
  deskClicks,
  raced,       \* history: the filters were last used while a request was under way
  openedMeanwhile \* history: the drawer was opened while a save was under way

deskVars == << row, filters, list, deskLoading, deskFailed, deskFetch, panel, form, save,
               removal, deskClicks, raced, openedMeanwhile >>
tableVars == << list, deskLoading, deskFailed, deskFetch >>
drawerVars == << panel, form, save, removal, openedMeanwhile >>

BookingId == 1..Bookings
NoBooking == [id |-> 0, status |-> "none"]
Shown == [id: BookingId, status: DeskStatus]
Filters == [status: DeskStatus \cup {"all"}, provider: {"all", "stripe", "paypal"}, page: Nat \ {0}]
Idle == [at |-> "idle"]
Fetch == [at: {"sent", "counting"}, query: Filters]
    \cup [at: {"served"}, query: Filters, rows: SUBSET Shown, pages: Nat \ {0}]
Save == [at: {"put", "get"}, id: BookingId, status: DeskStatus, query: Filters]
Removal == [at: {"sent", "done"}, id: BookingId, query: Filters]

-----------------------------------------------------------------------------
(* What the server answers, and what the browser shows of it. *)

Matching(q) ==
  { b \in BookingId : row[b] # "deleted" /\ q.status \in {"all", row[b]} }

\* The place of b among the rows, newest first.
Rank(b, rows) == Cardinality({ c \in rows : c >= b })

Snapshot(rows) == { [id |-> b, status |-> row[b]] : b \in rows }

\* ORDER BY created_at DESC LIMIT page size OFFSET (page - 1) * page size
PageOf(q) ==
  Snapshot({ b \in Matching(q) : /\ Rank(b, Matching(q)) > (q.page - 1) * DeskPageSize
                                 /\ Rank(b, Matching(q)) <= q.page * DeskPageSize })

\* total_pages, and 1 for none.
PagesOf(q) ==
  LET n == Cardinality(Matching(q))
  IN IF n = 0 THEN 1 ELSE (n + DeskPageSize - 1) \div DeskPageSize

\* GET /admin/bookings without parameters.
Newest == LET all == { b \in BookingId : row[b] # "deleted" }
          IN Snapshot({ b \in all : Rank(b, all) <= RefreshLimit })

\* processedBookings: the page that was fetched, filtered again in the browser.
\* The filters of date and item drop rows in the same way as the provider's.
Processed ==
  { b \in list.rows : CASE filters.provider = "all" -> TRUE
                        [] filters.provider = "stripe" -> b.id \in StripeBookings
                        [] filters.provider = "paypal" -> b.id \notin StripeBookings }

\* The rows of the table, each with a button that opens the drawer.
DeskTable == IF deskLoading THEN {} ELSE Processed

-----------------------------------------------------------------------------
DeskInit ==
  /\ row \in [BookingId -> DeskStatus]
  /\ filters = [status |-> "all", provider |-> "all", page |-> 1]
  /\ list = [rows |-> {}, pages |-> 1, asked |-> filters]
  /\ deskLoading = TRUE
  /\ deskFailed = FALSE
  /\ deskFetch = [i \in DeskFetches |-> Idle]
  /\ panel = NoBooking
  /\ form = [of |-> 0, status |-> ""]
  /\ save = Idle
  /\ removal = Idle
  /\ deskClicks = 0
  /\ raced = FALSE
  /\ openedMeanwhile = FALSE

Free(i) == deskFetch[i] = Idle
DeskBusy == (\E i \in DeskFetches : ~Free(i)) \/ save # Idle \/ removal # Idle

\* fetchBookings, called by a render whose filters are q.
SendFetch(i, q) ==
  /\ Free(i)
  /\ deskFetch' = [deskFetch EXCEPT ![i] = [at |-> "sent", query |-> q]]
  /\ deskLoading' = TRUE
  /\ deskFailed' = FALSE

ServeFetch(i) ==
  /\ deskFetch[i].at = "sent"
  /\ deskFetch' = [deskFetch EXCEPT ![i] =
       [at |-> "served", query |-> @.query, rows |-> PageOf(@.query), pages |-> PagesOf(@.query)]]
  /\ UNCHANGED << list, deskLoading, deskFailed >>

\* The list is shown, and the list of all bookings is asked for to count them.
ShowList(i) ==
  /\ deskFetch[i].at = "served"
  /\ list' = [rows |-> deskFetch[i].rows, pages |-> deskFetch[i].pages, asked |-> deskFetch[i].query]
  /\ deskFetch' = [deskFetch EXCEPT ![i] = [at |-> "counting", query |-> @.query]]
  /\ UNCHANGED << deskLoading, deskFailed >>

\* finally: whichever fetch ends, the table is no longer hidden.
EndFetch(i, fails) ==
  /\ deskFetch[i].at \in (IF fails THEN {"sent", "counting"} ELSE {"counting"})
  /\ deskFetch' = [deskFetch EXCEPT ![i] = Idle]
  /\ deskLoading' = FALSE
  /\ deskFailed' = (deskFailed \/ fails)
  /\ UNCHANGED list

AnswerStep ==
  /\ \E i \in DeskFetches : ServeFetch(i) \/ ShowList(i) \/ \E f \in BOOLEAN : EndFetch(i, f)
  /\ UNCHANGED << row, filters, drawerVars, deskClicks, raced >>

-----------------------------------------------------------------------------
(* The controls above and below the table. The drawer covers the whole page    *)
(* while it is open.                                                            *)

ClickDesk == deskClicks < MaxDeskClicks /\ deskClicks' = deskClicks + 1

\* The effect of [page, statusFilter, typeFilter], or of the reload button.
Refetch(f) ==
  /\ filters' = f
  /\ raced' = DeskBusy
  /\ \E i \in DeskFetches : SendFetch(i, f)
  /\ UNCHANGED list

\* The page is mounted.
OpenPage ==
  /\ deskLoading /\ ~DeskBusy
  /\ Refetch(filters)
  /\ UNCHANGED << row, drawerVars, deskClicks >>

SelectStatus(s) == s # filters.status /\ Refetch([filters EXCEPT !.status = s, !.page = 1])

\* Mutant: Previous is offered on the first page too.
TurnPageBack ==
  \/ Refetch([filters EXCEPT !.page = @ - 1])
  \/ filters.page < list.pages /\ Refetch([filters EXCEPT !.page = @ + 1])

\* Previous and Next; a page past the last one may be shown after a deletion.
TurnPage ==
  \/ filters.page > 1 /\ Refetch([filters EXCEPT !.page = @ - 1])
  \/ /\ filters.page # list.pages
     /\ Refetch([filters EXCEPT !.page = IF @ + 1 < list.pages THEN @ + 1 ELSE list.pages])

\* Mutant: the effect does not depend on the page.
SelectProviderAlone(p) ==
  /\ p # filters.provider
  /\ filters' = [filters EXCEPT !.provider = p, !.page = 1]
  /\ UNCHANGED << tableVars, raced >>

\* A filter of the browser goes back to page 1, and fetches when that is another page.
SelectProvider(p) ==
  /\ p # filters.provider
  /\ IF filters.page > 1
     THEN Refetch([filters EXCEPT !.provider = p, !.page = 1])
     ELSE filters' = [filters EXCEPT !.provider = p] /\ UNCHANGED << tableVars, raced >>

\* The reload button, and handleSearchSubmit on page 1, where setPage(1) changes nothing.
Reload == Refetch(filters)

\* handleSearchSubmit on another page fetches the page it was rendered with, and
\* the effect of its setPage(1) fetches page 1.
SubmitSearchElsewhere ==
  /\ filters.page > 1
  /\ filters' = [filters EXCEPT !.page = 1]
  /\ \E i, j \in DeskFetches :
        /\ i # j /\ Free(i) /\ Free(j)
        /\ deskFetch' = [deskFetch EXCEPT ![i] = [at |-> "sent", query |-> filters],
                                          ![j] = [at |-> "sent", query |-> filters']]
  /\ deskLoading' = TRUE
  /\ deskFailed' = FALSE
  /\ raced' = TRUE
  /\ UNCHANGED list

FilterStep ==
  /\ panel = NoBooking
  /\ ClickDesk
  /\ \/ TurnPage \/ Reload \/ SubmitSearchElsewhere
     \/ \E s \in DeskStatus \cup {"all"} : SelectStatus(s)
     \/ \E p \in {"all", "stripe", "paypal"} : SelectProvider(p)
  /\ UNCHANGED << row, drawerVars >>

-----------------------------------------------------------------------------
(* The drawer. *)

\* Mutant: the form keeps the status it had.
OpenDetailsAlone(b) ==
  /\ panel = NoBooking
  /\ b \in DeskTable
  /\ panel' = b
  /\ openedMeanwhile' = (save # Idle)
  /\ UNCHANGED << form, save, removal >>

OpenDetails(b) ==
  /\ panel = NoBooking
  /\ b \in DeskTable
  /\ panel' = b
  /\ form' = [of |-> b.id, status |-> b.status]
  /\ openedMeanwhile' = (save # Idle)
  /\ UNCHANGED << save, removal >>

CloseDetails ==
  /\ panel # NoBooking
  /\ panel' = NoBooking
  /\ UNCHANGED << form, save, removal, openedMeanwhile >>

ChooseStatus(s) ==
  /\ panel # NoBooking
  /\ s # form.status
  /\ form' = [form EXCEPT !.status = s]
  /\ UNCHANGED << panel, save, removal, openedMeanwhile >>

\* handleUpdateStatus: the button is disabled while a save is under way.
SubmitStatus ==
  /\ panel # NoBooking
  /\ save = Idle
  /\ save' = [at |-> "put", id |-> panel.id, status |-> form.status, query |-> filters]
  /\ UNCHANGED << panel, form, removal, openedMeanwhile >>

\* handleDeleteBooking
SubmitRemoval ==
  /\ panel # NoBooking
  /\ removal = Idle
  /\ removal' = [at |-> "sent", id |-> panel.id, query |-> filters]
  /\ UNCHANGED << panel, form, save, openedMeanwhile >>

DrawerStep ==
  /\ ClickDesk
  /\ \/ \E b \in list.rows : OpenDetails(b)
     \/ \E s \in DeskStatus : ChooseStatus(s)
     \/ CloseDetails \/ SubmitStatus \/ SubmitRemoval
  /\ UNCHANGED << row, filters, tableVars, raced >>

PutStatus ==
  /\ save.at = "put"
  /\ row' = [row EXCEPT ![save.id] = IF @ = "deleted" THEN @ ELSE save.status]
  /\ save' = [save EXCEPT !.at = "get"]
  /\ UNCHANGED << filters, tableVars, panel, form, removal, deskClicks, raced, openedMeanwhile >>

\* The booking is looked for among the newest ones; whatever the drawer shows by
\* now is replaced by it. The list is fetched with the filters of the submission.
RefreshPanel ==
  /\ save.at = "get"
  /\ LET found == { b \in Newest : b.id = save.id }
     IN panel' \in IF found = {} THEN {panel} ELSE found
  /\ \E i \in DeskFetches : SendFetch(i, save.query)
  /\ save' = Idle
  /\ UNCHANGED << row, filters, list, form, removal, deskClicks, raced, openedMeanwhile >>

DeleteRow ==
  /\ removal.at = "sent"
  /\ row' = [row EXCEPT ![removal.id] = "deleted"]
  /\ removal' = [removal EXCEPT !.at = "done"]
  /\ UNCHANGED << filters, tableVars, panel, form, save, deskClicks, raced, openedMeanwhile >>

\* Whatever the drawer shows by now is closed.
RemovalReturns ==
  /\ removal.at = "done"
  /\ panel' = NoBooking
  /\ \E i \in DeskFetches : SendFetch(i, removal.query)
  /\ removal' = Idle
  /\ UNCHANGED << row, filters, list, form, save, deskClicks, raced, openedMeanwhile >>

\* A request fails, or its answer is lost: an alert, and nothing else.
MutationFails ==
  /\ \/ save # Idle /\ save' = Idle /\ UNCHANGED removal
     \/ removal # Idle /\ removal' = Idle /\ UNCHANGED save
  /\ UNCHANGED << row, filters, tableVars, panel, form, deskClicks, raced, openedMeanwhile >>

DeskNext == \/ OpenPage \/ AnswerStep \/ FilterStep \/ DrawerStep
            \/ PutStatus \/ RefreshPanel \/ DeleteRow \/ RemovalReturns \/ MutationFails

DeskSpec == DeskInit /\ [][DeskNext]_deskVars

-----------------------------------------------------------------------------
DeskTypeOK ==
  /\ row \in [BookingId -> DeskStatus \cup {"deleted"}]
  /\ filters \in Filters
  /\ list \in [rows: SUBSET Shown, pages: Nat \ {0}, asked: Filters]
  /\ deskLoading \in BOOLEAN /\ deskFailed \in BOOLEAN
  /\ deskFetch \in [DeskFetches -> Fetch \cup {Idle}]
  /\ panel \in Shown \cup {NoBooking}
  /\ form \in [of: BookingId \cup {0}, status: DeskStatus \cup {""}]
  /\ save \in Save \cup {Idle}
  /\ removal \in Removal \cup {Idle}
  /\ deskClicks \in Nat
  /\ raced \in BOOLEAN /\ openedMeanwhile \in BOOLEAN

SameScreen(q) == q.status = filters.status /\ q.page = filters.page

\* Once every request is answered and no error is shown, the rows on the screen are
\* those of the status and the page that the controls show, unless the
\* administrator used the controls while a request was still under way (fetchBookings,
\* its effect, and the fetches that end a save or a deletion).
ListMatchesFilters ==
  ~DeskBusy /\ ~deskLoading /\ ~deskFailed /\ ~raced => SameScreen(list.asked)

\* The form in the drawer is that of the booking in the drawer, so that saving
\* cannot give one booking the status of another, unless the drawer was opened
\* while an earlier save was still under way (handleOpenDetails, handleUpdateStatus).
FormIsOfPanel ==
  panel # NoBooking /\ panel.id # form.of => openedMeanwhile

-----------------------------------------------------------------------------
(* What makes the two properties inductive. *)

\* An open drawer, or a save under way, has loaded the form.
FormLoaded ==
  panel # NoBooking \/ save # Idle => form.of \in BookingId /\ form.status \in DeskStatus

\* A save that may still open its booking in the drawer is a save of the form.
FormFollows ==
  ~openedMeanwhile => /\ panel # NoBooking => panel.id = form.of
                      /\ save # Idle => save.id = form.of

\* Every list under way, or still to be asked for, is that of the screen.
QueriesFollow ==
  ~raced => /\ \A i \in DeskFetches : ~Free(i) => SameScreen(deskFetch[i].query)
            /\ save # Idle => SameScreen(save.query)
            /\ removal # Idle => SameScreen(removal.query)

\* The list shown is that of the screen while its bookings are counted, and at rest.
ListFollows ==
  ~raced => /\ \A i \in DeskFetches : deskFetch[i].at = "counting" => SameScreen(list.asked)
            /\ (\A i \in DeskFetches : Free(i)) /\ ~deskLoading /\ ~deskFailed => SameScreen(list.asked)

DeskInv == DeskTypeOK /\ FormLoaded /\ FormFollows /\ QueriesFollow /\ ListFollows
=============================================================================
