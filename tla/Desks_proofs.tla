----------------------------- MODULE Desks_proofs -----------------------------
(* Proofs about the pages of the administrator, for any number of rows,        *)
(* requests under way and clicks: what the bookings page shows, and whom its   *)
(* form writes to (BookingsDesk); what the cards page shows, and which form    *)
(* gets a picture (CardsDesk); what a refund takes back (PaymentsDesk); and     *)
(* what a save of a course writes (CourseEditor). Then the eight pages side by  *)
(* side, with the types of all of them (MCScreens).                             *)
EXTENDS VisitorPages_proofs, MCScreens

-----------------------------------------------------------------------------
(* The bookings page: types.                                                   *)

\* Dividing up, a number that is not zero leaves one page at least.
LEMMA PagesPositive ==
  ASSUME NEW n \in Nat \ {0}, NEW d \in Nat \ {0}
  PROVE  (n + d - 1) \div d \in Nat \ {0}
  <1> DEFINE q == (n + d - 1) \div d
  <1> DEFINE r == (n + d - 1) % d
  <1>1. q \in Int /\ r \in 0..(d - 1)
    OBVIOUS
  <1>2. n + d - 1 = d * q + r
    OBVIOUS
  <1>3. q <= 0 => d * q <= 0
    <2> HIDE DEF q
    <2> QED
      BY <1>1
  <1> HIDE DEF q, r
  <1>4. q > 0
    BY <1>1, <1>2, <1>3
  <1> QED
    BY <1>1, <1>4 DEF q

\* What the server answers to a query.
LEMMA AnswerTypes ==
  ASSUME DeskTypeOK, NEW q
  PROVE  PageOf(q) \in SUBSET Shown /\ PagesOf(q) \in Nat \ {0} /\ Newest \subseteq Shown
  <1> USE BookingsDeskAssumption DEF BookingsDeskAssumption
  <1>1. ASSUME NEW b \in BookingId, row[b] # "deleted"
        PROVE  [id |-> b, status |-> row[b]] \in Shown
    BY <1>1 DEF DeskTypeOK, Shown
  <1>2. ASSUME NEW rows, \A b \in rows : b \in BookingId /\ row[b] # "deleted"
        PROVE  Snapshot(rows) \subseteq Shown
    BY <1>1, <1>2 DEF Snapshot
  <1>3. PageOf(q) \in SUBSET Shown
    <2> DEFINE rows == { b \in Matching(q) : /\ Rank(b, Matching(q)) > (q.page - 1) * DeskPageSize
                                             /\ Rank(b, Matching(q)) <= q.page * DeskPageSize }
    <2>1. \A b \in rows : b \in BookingId /\ row[b] # "deleted"
      BY DEF Matching
    <2> HIDE DEF rows
    <2>2. Snapshot(rows) \subseteq Shown
      BY <1>2, <2>1
    <2> QED
      BY <2>2 DEF PageOf, rows
  <1>4. Newest \subseteq Shown
    <2> DEFINE all == { b \in BookingId : row[b] # "deleted" }
    <2> DEFINE rows == { b \in all : Rank(b, all) <= RefreshLimit }
    <2>1. \A b \in rows : b \in BookingId /\ row[b] # "deleted"
      OBVIOUS
    <2> HIDE DEF rows
    <2>2. Snapshot(rows) \subseteq Shown
      BY <1>2, <2>1
    <2> QED
      BY <2>2 DEF Newest, rows
  <1>5. Cardinality(Matching(q)) \in Nat
    <2>1. IsFiniteSet(1..Bookings)
      BY FS_Interval
    <2> QED
      BY <2>1, FS_Subset, FS_CardinalityType DEF Matching, BookingId
  <1>6. PagesOf(q) \in Nat \ {0}
    BY <1>5, PagesPositive DEF PagesOf
  <1> QED
    BY <1>3, <1>4, <1>6

\* A list under way, by how far it got.
LEMMA FetchKinds ==
  ASSUME DeskTypeOK, NEW i \in DeskFetches, ~Free(i)
  PROVE  /\ deskFetch[i].at \in {"sent", "served", "counting"}
         /\ deskFetch[i].query \in Filters
         /\ deskFetch[i].at = "served" => /\ deskFetch[i].rows \in SUBSET Shown
                                          /\ deskFetch[i].pages \in Nat \ {0}
  BY DEF DeskTypeOK, Fetch, Free

LEMMA AtIsBusy ==
  ASSUME DeskTypeOK, NEW i \in DeskFetches, deskFetch[i].at \in {"sent", "served", "counting"}
  PROVE  ~Free(i)
  BY DEF Free, Idle

\* The parts of the type that the steps compute with.
LEMMA DeskParts ==
  ASSUME DeskTypeOK
  PROVE  /\ filters.page \in Int /\ filters.page >= 1
         /\ list.pages \in Int /\ list.pages >= 1
         /\ deskClicks \in Nat
  <1>1. filters.page \in Nat \ {0} /\ list.pages \in Nat \ {0}
    BY DEF DeskTypeOK, Filters
  <1>2. deskClicks \in Nat
    BY DEF DeskTypeOK
  <1> QED
    BY <1>1, <1>2

LEMMA ClickType ==
  ASSUME DeskTypeOK, ClickDesk
  PROVE  deskClicks' \in Nat
  BY DeskParts DEF ClickDesk

\* The filters with a control changed.
LEMMA FilterTypes ==
  ASSUME NEW f \in Filters
  PROVE  /\ \A s \in DeskStatus \cup {"all"} : [f EXCEPT !.status = s, !.page = 1] \in Filters
         /\ \A p \in {"all", "stripe", "paypal"} : [f EXCEPT !.provider = p] \in Filters
         /\ \A p \in {"all", "stripe", "paypal"} : [f EXCEPT !.provider = p, !.page = 1] \in Filters
         /\ \A n \in Nat \ {0} : [f EXCEPT !.page = n] \in Filters
  <1>1. 1 \in Nat \ {0}
    OBVIOUS
  <1>2. ASSUME NEW s \in DeskStatus \cup {"all"} PROVE [f EXCEPT !.status = s, !.page = 1] \in Filters
    BY <1>1, Zenon DEF Filters
  <1>3. ASSUME NEW p \in {"all", "stripe", "paypal"} PROVE [f EXCEPT !.provider = p, !.page = 1] \in Filters
    BY <1>1, Zenon DEF Filters
  <1>4. ASSUME NEW p \in {"all", "stripe", "paypal"} PROVE [f EXCEPT !.provider = p] \in Filters
    BY Zenon DEF Filters
  <1>5. ASSUME NEW n \in Nat \ {0} PROVE [f EXCEPT !.page = n] \in Filters
    BY Zenon DEF Filters
  <1> QED
    BY <1>2, <1>3, <1>4, <1>5

LEMMA SendFetchType ==
  ASSUME DeskTypeOK, NEW i \in DeskFetches, NEW q \in Filters, SendFetch(i, q)
  PROVE  /\ deskFetch' \in [DeskFetches -> Fetch \cup {Idle}]
         /\ deskLoading' \in BOOLEAN /\ deskFailed' \in BOOLEAN
  BY DEF DeskTypeOK, SendFetch, Fetch

LEMMA RefetchType ==
  ASSUME DeskTypeOK, NEW q \in Filters, Refetch(q),
         UNCHANGED << row, drawerVars >>, deskClicks' \in Nat
  PROVE  DeskTypeOK'
  <1>1. raced' \in BOOLEAN
    BY DEF Refetch, DeskBusy
  <1>2. /\ deskFetch' \in [DeskFetches -> Fetch \cup {Idle}]
        /\ deskLoading' \in BOOLEAN /\ deskFailed' \in BOOLEAN
    BY SendFetchType DEF Refetch
  <1> QED
    BY <1>1, <1>2 DEF Refetch, DeskTypeOK, drawerVars

LEMMA AnswerStepType ==
  ASSUME DeskTypeOK, AnswerStep
  PROVE  DeskTypeOK'
  <1>1. ASSUME NEW i \in DeskFetches, ServeFetch(i)
        PROVE  deskFetch' \in [DeskFetches -> Fetch \cup {Idle}]
    <2>1. deskFetch[i].query \in Filters
      BY <1>1, FetchKinds, AtIsBusy DEF ServeFetch
    <2>2. PageOf(deskFetch[i].query) \in SUBSET Shown /\ PagesOf(deskFetch[i].query) \in Nat \ {0}
      BY AnswerTypes
    <2> QED
      BY <1>1, <2>1, <2>2 DEF ServeFetch, DeskTypeOK, Fetch
  <1>2. ASSUME NEW i \in DeskFetches, ShowList(i)
        PROVE  /\ deskFetch' \in [DeskFetches -> Fetch \cup {Idle}]
               /\ list' \in [rows: SUBSET Shown, pages: Nat \ {0}, asked: Filters]
    <2>1. /\ deskFetch[i].query \in Filters /\ deskFetch[i].rows \in SUBSET Shown
          /\ deskFetch[i].pages \in Nat \ {0}
      BY <1>2, FetchKinds, AtIsBusy DEF ShowList
    <2> QED
      BY <1>2, <2>1 DEF ShowList, DeskTypeOK, Fetch
  <1>3. ASSUME NEW i \in DeskFetches, NEW f \in BOOLEAN, EndFetch(i, f)
        PROVE  /\ deskFetch' \in [DeskFetches -> Fetch \cup {Idle}]
               /\ deskLoading' \in BOOLEAN /\ deskFailed' \in BOOLEAN
    BY <1>3 DEF EndFetch, DeskTypeOK
  <1>4. CASE \E i \in DeskFetches : ServeFetch(i)
    BY <1>1, <1>4 DEF AnswerStep, ServeFetch, DeskTypeOK, drawerVars
  <1>5. CASE \E i \in DeskFetches : ShowList(i)
    BY <1>2, <1>5 DEF AnswerStep, ShowList, DeskTypeOK, drawerVars
  <1>6. CASE \E i \in DeskFetches : \E f \in BOOLEAN : EndFetch(i, f)
    BY <1>3, <1>6 DEF AnswerStep, EndFetch, DeskTypeOK, drawerVars
  <1> QED
    BY <1>4, <1>5, <1>6 DEF AnswerStep

LEMMA FilterStepType ==
  ASSUME DeskTypeOK, FilterStep
  PROVE  DeskTypeOK'
  <1>1. deskClicks' \in Nat /\ UNCHANGED << row, drawerVars >>
    BY ClickType DEF FilterStep
  <1>2. ASSUME NEW q \in Filters, Refetch(q) PROVE DeskTypeOK'
    BY <1>1, <1>2, RefetchType
  <1> filters \in Filters
    BY DEF DeskTypeOK
  <1>3. CASE TurnPage
    <2>1. ASSUME filters.page > 1, Refetch([filters EXCEPT !.page = @ - 1])
          PROVE  DeskTypeOK'
      <3>1. filters.page - 1 \in Nat \ {0}
        BY <2>1, DeskParts
      <3>2. [filters EXCEPT !.page = @ - 1] \in Filters
        BY <3>1, FilterTypes
      <3> QED
        BY <1>2, <2>1, <3>2
    <2>2. ASSUME Refetch([filters EXCEPT !.page = IF @ + 1 < list.pages THEN @ + 1 ELSE list.pages])
          PROVE  DeskTypeOK'
      <3>1. (IF filters.page + 1 < list.pages THEN filters.page + 1 ELSE list.pages) \in Nat \ {0}
        BY DeskParts
      <3>2. [filters EXCEPT !.page = IF @ + 1 < list.pages THEN @ + 1 ELSE list.pages] \in Filters
        BY <3>1, FilterTypes
      <3> QED
        BY <1>2, <2>2, <3>2
    <2> QED
      BY <1>3, <2>1, <2>2 DEF TurnPage
  <1>4. CASE Reload
    BY <1>2, <1>4 DEF Reload, DeskTypeOK
  <1>5. ASSUME NEW s \in DeskStatus \cup {"all"}, SelectStatus(s) PROVE DeskTypeOK'
    BY <1>2, <1>5, FilterTypes DEF SelectStatus
  <1>6. ASSUME NEW p \in {"all", "stripe", "paypal"}, SelectProvider(p) PROVE DeskTypeOK'
    <2>1. CASE filters.page > 1
      BY <1>2, <1>6, <2>1, FilterTypes DEF SelectProvider
    <2>2. CASE ~(filters.page > 1)
      <3>1. filters' \in Filters
        BY <1>6, <2>2, FilterTypes, Zenon DEF SelectProvider
      <3>2. UNCHANGED << tableVars, raced >>
        BY <1>6, <2>2 DEF SelectProvider
      <3> QED
        BY <1>1, <3>1, <3>2 DEF DeskTypeOK, tableVars, drawerVars
    <2> QED
      BY <2>1, <2>2
  <1>7. CASE SubmitSearchElsewhere
    <2>1. filters' \in Filters
      <3>1. 1 \in Nat \ {0}
        OBVIOUS
      <3> QED
        BY <1>7, <3>1, FilterTypes DEF SubmitSearchElsewhere
    <2>2. deskFetch' \in [DeskFetches -> Fetch \cup {Idle}]
      <3>1. /\ [at |-> "sent", query |-> filters] \in Fetch \cup {Idle}
            /\ [at |-> "sent", query |-> filters'] \in Fetch \cup {Idle}
        BY <2>1 DEF Fetch
      <3>2. PICK i \in DeskFetches, j \in DeskFetches :
              deskFetch' = [deskFetch EXCEPT ![i] = [at |-> "sent", query |-> filters],
                                             ![j] = [at |-> "sent", query |-> filters']]
        BY <1>7 DEF SubmitSearchElsewhere
      <3> QED
        BY <3>1, <3>2 DEF DeskTypeOK
    <2> QED
      BY <1>1, <1>7, <2>1, <2>2 DEF SubmitSearchElsewhere, DeskTypeOK, drawerVars
  <1> QED
    BY <1>3, <1>4, <1>5, <1>6, <1>7 DEF FilterStep

LEMMA DrawerStepType ==
  ASSUME DeskTypeOK, FormLoaded, DrawerStep
  PROVE  DeskTypeOK'
  <1> USE DEF DeskTypeOK, tableVars
  <1>1. deskClicks' \in Nat
    BY ClickType DEF DrawerStep
  <1>2. ASSUME NEW b \in list.rows, OpenDetails(b) PROVE DeskTypeOK'
    <2>1. b \in Shown /\ b.id \in BookingId /\ b.status \in DeskStatus
      BY DEF Shown
    <2>2. panel' \in Shown \cup {NoBooking} /\ form' \in [of: BookingId \cup {0}, status: DeskStatus \cup {""}]
      BY <1>2, <2>1 DEF OpenDetails
    <2>3. openedMeanwhile' \in BOOLEAN
      BY <1>2 DEF OpenDetails
    <2> QED
      BY <1>1, <1>2, <2>2, <2>3 DEF DrawerStep, OpenDetails
  <1>3. ASSUME NEW s \in DeskStatus, ChooseStatus(s) PROVE DeskTypeOK'
    BY <1>1, <1>3 DEF DrawerStep, ChooseStatus
  <1>4. CASE CloseDetails
    BY <1>1, <1>4 DEF DrawerStep, CloseDetails
  <1>5. CASE SubmitStatus \/ SubmitRemoval
    <2>1. panel \in Shown /\ panel.id \in BookingId
      BY <1>5 DEF SubmitStatus, SubmitRemoval, Shown
    <2>2. CASE SubmitStatus
      <3>1. form.status \in DeskStatus
        BY <2>2 DEF FormLoaded, SubmitStatus
      <3>2. save' \in Save
        BY <2>1, <2>2, <3>1 DEF SubmitStatus, Save
      <3> QED
        BY <1>1, <2>2, <3>2 DEF DrawerStep, SubmitStatus
    <2>3. CASE SubmitRemoval
      <3>1. removal' \in Removal
        BY <2>1, <2>3 DEF SubmitRemoval, Removal
      <3> QED
        BY <1>1, <2>3, <3>1 DEF DrawerStep, SubmitRemoval
    <2> QED
      BY <1>5, <2>2, <2>3
  <1> QED
    BY <1>2, <1>3, <1>4, <1>5 DEF DrawerStep

LEMMA MutationStepType ==
  ASSUME DeskTypeOK, PutStatus \/ RefreshPanel \/ DeleteRow \/ RemovalReturns \/ MutationFails
  PROVE  DeskTypeOK'
  <1>1. save # Idle => save \in Save
    BY DEF DeskTypeOK
  <1>2. removal # Idle => removal \in Removal
    BY DEF DeskTypeOK
  <1>3. CASE PutStatus
    <2>1. save \in Save
      BY <1>1, <1>3 DEF PutStatus, Idle
    <2>2. PICK i \in BookingId, s \in DeskStatus, q \in Filters :
            save = [at |-> "put", id |-> i, status |-> s, query |-> q]
      BY <1>3, <2>1 DEF PutStatus, Save
    <2>3. save' = [at |-> "get", id |-> i, status |-> s, query |-> q]
      BY <1>3, <2>2 DEF PutStatus
    <2>4. save' \in Save
      BY <2>3 DEF Save
    <2>5. row' \in [BookingId -> DeskStatus \cup {"deleted"}]
      BY <1>3, <2>2 DEF PutStatus, DeskTypeOK
    <2> QED
      BY <1>3, <2>4, <2>5 DEF PutStatus, DeskTypeOK, tableVars
  <1>4. CASE RefreshPanel
    <2>1. save \in Save
      BY <1>1, <1>4 DEF RefreshPanel, Idle
    <2>2. save.query \in Filters
      BY <2>1 DEF Save
    <2>3. panel' \in Shown \cup {NoBooking}
      BY <1>4, AnswerTypes DEF RefreshPanel, DeskTypeOK
    <2>4. /\ deskFetch' \in [DeskFetches -> Fetch \cup {Idle}]
          /\ deskLoading' \in BOOLEAN /\ deskFailed' \in BOOLEAN
      BY <1>4, <2>2, SendFetchType DEF RefreshPanel
    <2> QED
      BY <1>4, <2>3, <2>4 DEF RefreshPanel, DeskTypeOK
  <1>5. CASE DeleteRow
    <2>1. removal \in Removal
      BY <1>2, <1>5 DEF DeleteRow, Idle
    <2>2. PICK i \in BookingId, q \in Filters : removal = [at |-> "sent", id |-> i, query |-> q]
      BY <1>5, <2>1 DEF DeleteRow, Removal
    <2>3. removal' = [at |-> "done", id |-> i, query |-> q]
      BY <1>5, <2>2 DEF DeleteRow
    <2>4. removal' \in Removal
      BY <2>3 DEF Removal
    <2>5. row' \in [BookingId -> DeskStatus \cup {"deleted"}]
      BY <1>5, <2>2 DEF DeleteRow, DeskTypeOK
    <2> QED
      BY <1>5, <2>4, <2>5 DEF DeleteRow, DeskTypeOK, tableVars
  <1>6. CASE RemovalReturns
    <2>1. removal \in Removal
      BY <1>2, <1>6 DEF RemovalReturns, Idle
    <2>2. removal.query \in Filters
      BY <2>1 DEF Removal
    <2>3. /\ deskFetch' \in [DeskFetches -> Fetch \cup {Idle}]
          /\ deskLoading' \in BOOLEAN /\ deskFailed' \in BOOLEAN
      BY <1>6, <2>2, SendFetchType DEF RemovalReturns
    <2> QED
      BY <1>6, <2>3 DEF RemovalReturns, DeskTypeOK
  <1>7. CASE MutationFails
    BY <1>7 DEF MutationFails, DeskTypeOK, tableVars
  <1> QED
    BY <1>3, <1>4, <1>5, <1>6, <1>7

-----------------------------------------------------------------------------
(* The bookings page: whose form it is.                                        *)

LEMMA SaveKinds ==
  ASSUME DeskTypeOK, save # Idle
  PROVE  save.id \in BookingId /\ [save EXCEPT !.at = "get"].id = save.id
         /\ [save EXCEPT !.at = "get"].query = save.query
  BY DEF DeskTypeOK, Save

LEMMA FormStays ==
  ASSUME DeskTypeOK, FormLoaded, FormFollows, DeskNext
  PROVE  FormLoaded' /\ FormFollows'
  <1> USE DEF FormLoaded, FormFollows
  <1>1. CASE UNCHANGED << panel, form, save, openedMeanwhile >>
    BY <1>1
  <1>2. CASE DrawerStep
    <2>1. ASSUME NEW b \in list.rows, OpenDetails(b) PROVE FormLoaded' /\ FormFollows'
      <3>1. b \in Shown
        BY DEF DeskTypeOK
      <3>2. b.id \in BookingId /\ b.status \in DeskStatus
        BY <3>1 DEF Shown
      <3>3. form'.of = b.id /\ form'.status = b.status /\ panel' = b /\ save' = save
        BY <2>1 DEF OpenDetails
      <3>4. openedMeanwhile' = (save # Idle)
        BY <2>1 DEF OpenDetails
      <3> QED
        BY <3>2, <3>3, <3>4
    <2>2. ASSUME NEW s \in DeskStatus, ChooseStatus(s) PROVE FormLoaded' /\ FormFollows'
      <3>1. form'.of = form.of /\ form'.status = s
        BY <2>2 DEF ChooseStatus, DeskTypeOK
      <3> QED
        BY <2>2, <3>1 DEF ChooseStatus
    <2>3. CASE CloseDetails
      BY <2>3 DEF CloseDetails
    <2>4. CASE SubmitStatus
      <3>1. save'.id = panel.id
        BY <2>4 DEF SubmitStatus
      <3> QED
        BY <2>4, <3>1 DEF SubmitStatus
    <2>5. CASE SubmitRemoval
      BY <2>5 DEF SubmitRemoval
    <2> QED
      BY <1>2, <2>1, <2>2, <2>3, <2>4, <2>5 DEF DrawerStep
  <1>3. CASE PutStatus
    <2>1. save # Idle
      BY <1>3 DEF PutStatus, Idle
    <2>2. save'.id = save.id
      BY <1>3, <2>1, SaveKinds DEF PutStatus
    <2> QED
      BY <1>3, <2>1, <2>2 DEF PutStatus
  <1>4. CASE RefreshPanel
    <2>1. save # Idle
      BY <1>4 DEF RefreshPanel, Idle
    <2>2. panel' = panel \/ panel'.id = save.id
      BY <1>4 DEF RefreshPanel
    <2>3. save' = Idle /\ form' = form /\ openedMeanwhile' = openedMeanwhile
      BY <1>4 DEF RefreshPanel
    <2> QED
      BY <2>1, <2>2, <2>3
  <1>5. CASE RemovalReturns
    BY <1>5 DEF RemovalReturns
  <1>6. CASE MutationFails
    BY <1>6 DEF MutationFails
  <1> QED
    BY <1>1, <1>2, <1>3, <1>4, <1>5, <1>6
    DEF DeskNext, OpenPage, AnswerStep, FilterStep, DeleteRow, drawerVars

-----------------------------------------------------------------------------
(* The bookings page: what the list shows.                                     *)

LEMMA SendFetchShape ==
  ASSUME DeskTypeOK, NEW i \in DeskFetches, NEW q, SendFetch(i, q)
  PROVE  /\ deskFetch[i] = Idle
         /\ deskFetch'[i].at = "sent" /\ deskFetch'[i].query = q
         /\ \A j \in DeskFetches : j # i => deskFetch'[j] = deskFetch[j]
         /\ deskLoading' = TRUE
  BY DEF SendFetch, Free, DeskTypeOK

\* A fetch for the screen, sent when a save or a deletion is over.
LEMMA FetchAgain ==
  ASSUME DeskTypeOK, QueriesFollow, ListFollows, NEW i \in DeskFetches, NEW q, SendFetch(i, q),
         UNCHANGED << filters, list, raced >>, ~raced => SameScreen(q),
         save' \in {save, Idle}, removal' \in {removal, Idle}
  PROVE  QueriesFollow' /\ ListFollows'
  <1>1. /\ deskFetch'[i].at = "sent" /\ deskFetch'[i].query = q
        /\ \A j \in DeskFetches : j # i => deskFetch'[j] = deskFetch[j]
        /\ deskLoading' = TRUE
    BY SendFetchShape
  <1>2. QueriesFollow'
    BY <1>1 DEF QueriesFollow, SameScreen, Free
  <1>3. ListFollows'
    BY <1>1 DEF ListFollows, SameScreen
  <1> QED
    BY <1>2, <1>3

\* A fetch for new filters, sent by a control.
LEMMA FetchAnew ==
  ASSUME DeskTypeOK, NEW q, Refetch(q), UNCHANGED drawerVars
  PROVE  QueriesFollow' /\ ListFollows'
  <1>1. CASE DeskBusy
    BY <1>1 DEF Refetch, QueriesFollow, ListFollows
  <1>2. CASE ~DeskBusy
    <2>1. PICK i \in DeskFetches : SendFetch(i, q)
      BY DEF Refetch
    <2>2. /\ deskFetch'[i].at = "sent" /\ deskFetch'[i].query = q
          /\ \A j \in DeskFetches : j # i => deskFetch'[j] = deskFetch[j]
          /\ deskLoading' = TRUE
      BY <2>1, SendFetchShape
    <2>3. \A j \in DeskFetches : j # i => deskFetch'[j] = Idle
      BY <1>2, <2>2 DEF DeskBusy, Free
    <2>4. filters' = q /\ save' = Idle /\ removal' = Idle
      BY <1>2 DEF DeskBusy, Refetch, drawerVars
    <2>5. QueriesFollow'
      BY <2>2, <2>3, <2>4 DEF QueriesFollow, SameScreen, Free
    <2>6. ListFollows'
      BY <2>2, <2>3 DEF ListFollows, Idle
    <2> QED
      BY <2>5, <2>6
  <1> QED
    BY <1>1, <1>2

LEMMA AnswerStays ==
  ASSUME DeskTypeOK, QueriesFollow, ListFollows, AnswerStep
  PROVE  QueriesFollow' /\ ListFollows'
  <1> UNCHANGED << filters, save, removal, raced >>
    BY DEF AnswerStep, drawerVars
  <1>1. ASSUME NEW i \in DeskFetches, ServeFetch(i) PROVE QueriesFollow' /\ ListFollows'
    <2>1. ~Free(i)
      BY <1>1, AtIsBusy DEF ServeFetch
    <2>2. /\ deskFetch'[i].at = "served" /\ deskFetch'[i].query = deskFetch[i].query
          /\ \A j \in DeskFetches : j # i => deskFetch'[j] = deskFetch[j]
      BY <1>1 DEF ServeFetch, DeskTypeOK
    <2>3. deskFetch'[i] # Idle
      BY <2>2 DEF Idle
    <2>4. UNCHANGED << list, deskLoading, deskFailed >>
      BY <1>1 DEF ServeFetch
    <2>5. QueriesFollow'
      BY <2>1, <2>2 DEF QueriesFollow, SameScreen, Free
    <2>6. ListFollows'
      BY <2>2, <2>3, <2>4 DEF ListFollows, SameScreen, Free
    <2> QED
      BY <2>5, <2>6
  <1>2. ASSUME NEW i \in DeskFetches, ShowList(i) PROVE QueriesFollow' /\ ListFollows'
    <2>1. ~Free(i)
      BY <1>2, AtIsBusy DEF ShowList
    <2>2. /\ deskFetch'[i].at = "counting" /\ deskFetch'[i].query = deskFetch[i].query
          /\ \A j \in DeskFetches : j # i => deskFetch'[j] = deskFetch[j]
      BY <1>2 DEF ShowList, DeskTypeOK
    <2>3. list'.asked = deskFetch[i].query
      BY <1>2 DEF ShowList
    <2>4. QueriesFollow'
      BY <2>1, <2>2 DEF QueriesFollow, SameScreen, Free
    <2>5. ListFollows'
      BY <2>1, <2>3 DEF QueriesFollow, ListFollows, SameScreen
    <2> QED
      BY <2>4, <2>5
  <1>3. ASSUME NEW i \in DeskFetches, NEW f \in BOOLEAN, EndFetch(i, f)
        PROVE  QueriesFollow' /\ ListFollows'
    <2>1. /\ deskFetch'[i] = Idle
          /\ \A j \in DeskFetches : j # i => deskFetch'[j] = deskFetch[j]
          /\ list' = list
      BY <1>3 DEF EndFetch, DeskTypeOK
    <2>2. deskFetch'[i].at # "counting"
      BY <2>1 DEF Idle
    <2>3. f \/ deskFetch[i].at = "counting"
      BY <1>3 DEF EndFetch
    <2>4. f => deskFailed'
      BY <1>3 DEF EndFetch
    <2>5. QueriesFollow'
      BY <2>1 DEF QueriesFollow, SameScreen, Free
    <2>6. ListFollows'
      BY <2>1, <2>2, <2>3, <2>4 DEF ListFollows, SameScreen
    <2> QED
      BY <2>5, <2>6
  <1> QED
    BY <1>1, <1>2, <1>3 DEF AnswerStep

LEMMA FilterStays ==
  ASSUME DeskTypeOK, QueriesFollow, ListFollows, FilterStep
  PROVE  QueriesFollow' /\ ListFollows'
  <1> UNCHANGED drawerVars
    BY DEF FilterStep
  <1>1. ASSUME NEW q, Refetch(q) PROVE QueriesFollow' /\ ListFollows'
    BY <1>1, FetchAnew
  <1>2. CASE TurnPage \/ Reload
    BY <1>1, <1>2 DEF TurnPage, Reload
  <1>3. CASE SubmitSearchElsewhere
    BY <1>3 DEF SubmitSearchElsewhere, QueriesFollow, ListFollows
  <1>4. ASSUME NEW s \in DeskStatus \cup {"all"}, SelectStatus(s) PROVE QueriesFollow' /\ ListFollows'
    BY <1>1, <1>4 DEF SelectStatus
  <1>5. ASSUME NEW p \in {"all", "stripe", "paypal"}, SelectProvider(p)
        PROVE  QueriesFollow' /\ ListFollows'
    <2>1. CASE filters.page > 1
      BY <1>1, <1>5, <2>1 DEF SelectProvider
    <2>2. CASE ~(filters.page > 1)
      <3>1. filters' = [filters EXCEPT !.provider = p] /\ UNCHANGED << tableVars, raced >>
        BY <1>5, <2>2 DEF SelectProvider
      <3>2. filters'.status = filters.status /\ filters'.page = filters.page
        BY <3>1 DEF DeskTypeOK, Filters
      <3>3. QueriesFollow'
        BY <3>1, <3>2 DEF QueriesFollow, SameScreen, Free, tableVars, drawerVars
      <3>4. ListFollows'
        BY <3>1, <3>2 DEF ListFollows, SameScreen, Free, tableVars
      <3> QED
        BY <3>3, <3>4
    <2> QED
      BY <2>1, <2>2
  <1> QED
    BY <1>2, <1>3, <1>4, <1>5 DEF FilterStep

LEMMA ListStays ==
  ASSUME DeskTypeOK, QueriesFollow, ListFollows, DeskNext
  PROVE  QueriesFollow' /\ ListFollows'
  <1>1. ASSUME UNCHANGED << filters, tableVars, raced >>,
               save' # Idle => \/ save # Idle /\ save'.query = save.query
                               \/ save'.query = filters,
               removal' # Idle => \/ removal # Idle /\ removal'.query = removal.query
                                  \/ removal'.query = filters
        PROVE  QueriesFollow' /\ ListFollows'
    <2>1. QueriesFollow'
      BY <1>1 DEF QueriesFollow, SameScreen, Free, tableVars
    <2>2. ListFollows'
      BY <1>1 DEF ListFollows, SameScreen, Free, tableVars
    <2> QED
      BY <2>1, <2>2
  <1>2. CASE OpenPage
    BY <1>2, FetchAnew DEF OpenPage
  <1>3. CASE AnswerStep
    BY <1>3, AnswerStays
  <1>4. CASE FilterStep
    BY <1>4, FilterStays
  <1>5. CASE DrawerStep
    <2>1. /\ save' = save \/ save'.query = filters
          /\ removal' = removal \/ removal'.query = filters
      BY <1>5 DEF DrawerStep, OpenDetails, ChooseStatus, CloseDetails, SubmitStatus, SubmitRemoval
    <2> QED
      BY <1>1, <1>5, <2>1 DEF DrawerStep
  <1>6. CASE PutStatus
    <2>1. save # Idle
      BY <1>6 DEF PutStatus, Idle
    <2>2. save'.query = save.query
      BY <1>6, <2>1, SaveKinds DEF PutStatus
    <2> QED
      BY <1>1, <1>6, <2>1, <2>2 DEF PutStatus
  <1>7. CASE DeleteRow
    <2>1. removal # Idle
      BY <1>7 DEF DeleteRow, Idle
    <2>2. removal'.query = removal.query
      BY <1>7, <2>1 DEF DeleteRow, DeskTypeOK, Removal
    <2> QED
      BY <1>1, <1>7, <2>1, <2>2 DEF DeleteRow
  <1>8. CASE RefreshPanel
    <2>1. save # Idle
      BY <1>8 DEF RefreshPanel, Idle
    <2>2. PICK i \in DeskFetches : SendFetch(i, save.query)
      BY <1>8 DEF RefreshPanel
    <2>3. ~raced => SameScreen(save.query)
      BY <2>1 DEF QueriesFollow
    <2> QED
      BY <1>8, <2>2, <2>3, FetchAgain DEF RefreshPanel
  <1>9. CASE RemovalReturns
    <2>1. removal # Idle
      BY <1>9 DEF RemovalReturns, Idle
    <2>2. PICK i \in DeskFetches : SendFetch(i, removal.query)
      BY <1>9 DEF RemovalReturns
    <2>3. ~raced => SameScreen(removal.query)
      BY <2>1 DEF QueriesFollow
    <2> QED
      BY <1>9, <2>2, <2>3, FetchAgain DEF RemovalReturns
  <1>10. CASE MutationFails
    <2>1. save' \in {save, Idle} /\ removal' \in {removal, Idle}
      BY <1>10 DEF MutationFails
    <2> QED
      BY <1>1, <1>10, <2>1 DEF MutationFails
  <1> QED
    BY <1>2, <1>3, <1>4, <1>5, <1>6, <1>7, <1>8, <1>9, <1>10 DEF DeskNext

-----------------------------------------------------------------------------
(* The bookings page: the theorems.                                            *)

LEMMA DeskTypeStays ==
  ASSUME DeskTypeOK, FormLoaded, DeskNext
  PROVE  DeskTypeOK'
  <1>1. CASE OpenPage
    <2>1. filters \in Filters /\ deskClicks' \in Nat
      BY <1>1 DEF OpenPage, DeskTypeOK
    <2> QED
      BY <1>1, <2>1, RefetchType DEF OpenPage
  <1> QED
    BY <1>1, AnswerStepType, FilterStepType, DrawerStepType, MutationStepType DEF DeskNext

LEMMA DeskInitInv ==
  ASSUME DeskInit
  PROVE  DeskInv
  <1>1. filters \in Filters /\ list \in [rows: SUBSET Shown, pages: Nat \ {0}, asked: Filters]
    <2>1. 1 \in Nat \ {0} /\ {} \in SUBSET Shown
      OBVIOUS
    <2> QED
      BY <2>1 DEF DeskInit, Filters
  <1>2. DeskTypeOK
    BY <1>1 DEF DeskInit, DeskTypeOK
  <1>3. FormLoaded /\ FormFollows
    BY DEF DeskInit, FormLoaded, FormFollows
  <1>4. QueriesFollow
    BY DEF DeskInit, QueriesFollow, Free
  <1>5. ListFollows
    BY DEF DeskInit, ListFollows, SameScreen
  <1> QED
    BY <1>2, <1>3, <1>4, <1>5 DEF DeskInv

\* The bookings page keeps the types of its state, the form it has loaded, and the
\* query of every list under way (fetchBookings, handleOpenDetails,
\* handleUpdateStatus, handleDeleteBooking).
THEOREM DeskInvariance == DeskSpec => []DeskInv
  <1>1. DeskInit => DeskInv
    BY DeskInitInv
  <1>2. DeskInv /\ [DeskNext]_deskVars => DeskInv'
    <2> SUFFICES ASSUME DeskInv, [DeskNext]_deskVars PROVE DeskInv'
      OBVIOUS
    <2>1. CASE DeskNext
      BY <2>1, DeskTypeStays, FormStays, ListStays DEF DeskInv
    <2>2. CASE UNCHANGED deskVars
      <3>1. DeskTypeOK'
        BY <2>2 DEF deskVars, DeskInv, DeskTypeOK
      <3>2. FormLoaded' /\ FormFollows'
        BY <2>2 DEF deskVars, DeskInv, FormLoaded, FormFollows
      <3>3. QueriesFollow' /\ ListFollows'
        BY <2>2 DEF deskVars, DeskInv, QueriesFollow, ListFollows, SameScreen, Free
      <3> QED
        BY <3>1, <3>2, <3>3 DEF DeskInv
    <2> QED
      BY <2>1, <2>2
  <1> QED
    BY <1>1, <1>2, PTL DEF DeskSpec

\* Saving never gives one booking the status that was chosen for another, unless the
\* drawer was opened during a save (handleOpenDetails, handleUpdateStatus).
THEOREM FormIsOfPanelAlways == DeskSpec => []FormIsOfPanel
  <1>1. DeskInv => FormIsOfPanel
    BY DEF DeskInv, FormFollows, FormIsOfPanel
  <1> QED
    BY <1>1, DeskInvariance, PTL

\* The list on the screen is that of the controls once everything is answered, unless
\* they were used before (fetchBookings and its effect).
THEOREM ListMatchesFiltersAlways == DeskSpec => []ListMatchesFilters
  <1>1. DeskInv => ListMatchesFilters
    BY DEF DeskInv, ListFollows, ListMatchesFilters, DeskBusy
  <1> QED
    BY <1>1, DeskInvariance, PTL

-----------------------------------------------------------------------------
(* The cards page: types.                                                      *)

LEMMA SwitchType ==
  ASSUME NEW r \in Row
  PROVE  Switched(r) \in Row
  BY Zenon DEF Switched, Row

LEMMA NoCardType == NoCard \in Row
  <1>1. 0 \in Nat
    OBVIOUS
  <1> QED
    BY <1>1 DEF NoCard, Row

\* The requests by their kind.
LEMMA CardKinds ==
  ASSUME CardsTypeOK, NEW i \in CardRequests, cardReq[i] # NoCardReq
  PROVE  /\ cardReq[i].kind \in {"list", "toggle", "save", "delete", "upload"}
         /\ cardReq[i].answered \in BOOLEAN
         /\ cardReq[i].kind = "list" => cardReq[i].rows \in [Cards -> Row]
         /\ cardReq[i].kind = "toggle" => cardReq[i].id \in Cards /\ cardReq[i].row \in Row
         /\ cardReq[i].kind = "save" => cardReq[i].id \in Cards \cup {0} /\ cardReq[i].row \in Row
         /\ cardReq[i].kind = "delete" => cardReq[i].id \in Cards
         /\ cardReq[i].kind = "upload" => cardReq[i].opening \in Nat
  <1>1. cardReq[i] \in CardReq
    BY DEF CardsTypeOK
  <1> QED
    BY <1>1 DEF CardReq

LEMMA KindIsBusy ==
  ASSUME NEW i \in CardRequests,
         cardReq[i].kind \in {"list", "toggle", "save", "delete", "upload"}
  PROVE  cardReq[i] # NoCardReq
  BY DEF NoCardReq

LEMMA SendCardType ==
  ASSUME CardsTypeOK, NEW r \in CardReq, SendCard(r)
  PROVE  cardReq' \in [CardRequests -> CardReq \cup {NoCardReq}] /\ overlapped' \in BOOLEAN
  <1>1. cardReq' \in [CardRequests -> CardReq \cup {NoCardReq}]
    BY DEF SendCard, FreeSlots, CardsTypeOK
  <1>2. overlapped' \in BOOLEAN
    BY DEF SendCard, CardsBusy, CardsTypeOK
  <1> QED
    BY <1>1, <1>2

LEMMA ListRequestType == ListRequest \in CardReq
  <1>1. [c \in Cards |-> NoCard] \in [Cards -> Row]
    BY NoCardType
  <1> QED
    BY <1>1 DEF ListRequest, CardReq

LEMMA RefetchCardType ==
  ASSUME CardsTypeOK, NEW i \in CardRequests, RefetchFrom(i)
  PROVE  cardReq' \in [CardRequests -> CardReq \cup {NoCardReq}] /\ cardLoading' \in BOOLEAN
  BY ListRequestType DEF RefetchFrom, CardsTypeOK

LEMMA ReturnType ==
  ASSUME CardsTypeOK, NEW i \in CardRequests, Return(i)
  PROVE  cardReq' \in [CardRequests -> CardReq \cup {NoCardReq}]
  BY DEF Return, CardsTypeOK

LEMMA OpenDrawerType ==
  ASSUME CardsTypeOK, NEW id \in Cards \cup {0}, NEW r \in Row, OpenDrawer(id, r)
  PROVE  /\ drawer' \in [open: BOOLEAN, id: Cards \cup {0}, active: BOOLEAN, version: Nat, image: Nat,
                         opening: Nat]
         /\ openings' \in Nat /\ crossed' \in BOOLEAN
  <1>1. openings + 1 \in Nat /\ 0 \in Nat
    BY DEF CardsTypeOK
  <1>2. r.active \in BOOLEAN /\ r.version \in Nat
    BY DEF Row
  <1>3. crossed' \in BOOLEAN
    BY DEF OpenDrawer, CardsTypeOK
  <1> QED
    BY <1>1, <1>2, <1>3 DEF OpenDrawer

LEMMA CardClickType ==
  ASSUME CardsTypeOK, CardClick
  PROVE  CardsTypeOK'
  <1> USE DEF CardsTypeOK
  <1>1. cardClicks' \in Nat
    <2>1. cardClicks \in Nat /\ cardClicks' = cardClicks + 1
      BY DEF CardClick, ClickCards
    <2> QED
      BY <2>1
  <1>2. UNCHANGED << card, cards, cardLoading, cardTrouble >>
    BY DEF CardClick
  <1>3. ASSUME NEW c \in Cards, Toggle(c) PROVE CardsTypeOK'
    <2> DEFINE r == [kind |-> "toggle", id |-> c, answered |-> FALSE, row |-> Switched(cards[c])]
    <2>1. Switched(cards[c]) \in Row
      BY SwitchType
    <2>2. r \in CardReq
      BY <2>1 DEF CardReq
    <2>3. SendCard(r)
      BY <1>3 DEF Toggle
    <2>4. cardReq' \in [CardRequests -> CardReq \cup {NoCardReq}] /\ overlapped' \in BOOLEAN
      BY <2>2, <2>3, SendCardType
    <2> QED
      BY <1>1, <1>2, <1>3, <2>4 DEF Toggle
  <1>4. ASSUME NEW c \in Cards, OpenEdit(c) PROVE CardsTypeOK'
    <2>1. cards[c] \in Row /\ OpenDrawer(c, cards[c])
      BY <1>4 DEF OpenEdit
    <2> QED
      BY <1>1, <1>2, <2>1, OpenDrawerType DEF OpenDrawer
  <1>5. CASE OpenCreate
    <2>1. [active |-> TRUE, version |-> 0] \in Row
      BY DEF Row
    <2> QED
      BY <1>1, <1>2, <1>5, <2>1, OpenDrawerType DEF OpenDrawer, OpenCreate
  <1>6. CASE CloseDrawer
    <2>1. drawer' \in [open: BOOLEAN, id: Cards \cup {0}, active: BOOLEAN, version: Nat, image: Nat,
                       opening: Nat]
      BY <1>6 DEF CloseDrawer
    <2> QED
      BY <1>1, <1>2, <1>6, <2>1 DEF CloseDrawer
  <1>7. CASE EditForm
    <2>1. drawer.version + 1 \in Nat
      OBVIOUS
    <2>2. drawer' = [drawer EXCEPT !.version = drawer.version + 1]
      BY <1>7 DEF EditForm
    <2>3. drawer' \in [open: BOOLEAN, id: Cards \cup {0}, active: BOOLEAN, version: Nat, image: Nat,
                       opening: Nat]
      BY <2>1, <2>2
    <2> QED
      BY <1>1, <1>2, <1>7, <2>3 DEF EditForm
  <1>8. CASE UploadImage
    <2> DEFINE r == [kind |-> "upload", opening |-> drawer.opening, answered |-> FALSE]
    <2>1. r \in CardReq
      BY DEF CardReq
    <2>2. SendCard(r)
      BY <1>8 DEF UploadImage
    <2>3. cardReq' \in [CardRequests -> CardReq \cup {NoCardReq}] /\ overlapped' \in BOOLEAN
      BY <2>1, <2>2, SendCardType
    <2> QED
      BY <1>1, <1>2, <1>8, <2>3 DEF UploadImage
  <1>9. CASE SubmitCard
    <2> DEFINE r == [kind |-> "save", id |-> drawer.id, answered |-> FALSE,
                     row |-> [active |-> drawer.active, version |-> drawer.version]]
    <2>1. [active |-> drawer.active, version |-> drawer.version] \in Row
      BY DEF Row
    <2>2. r \in CardReq
      BY <2>1 DEF CardReq
    <2>3. SendCard(r)
      BY <1>9 DEF SubmitCard
    <2>4. cardReq' \in [CardRequests -> CardReq \cup {NoCardReq}] /\ overlapped' \in BOOLEAN
      BY <2>2, <2>3, SendCardType
    <2> QED
      BY <1>1, <1>2, <1>9, <2>4 DEF SubmitCard
  <1>10. ASSUME NEW c \in Cards, AskDelete(c) PROVE CardsTypeOK'
    BY <1>1, <1>2, <1>10 DEF AskDelete
  <1>11. CASE CancelDelete
    BY <1>1, <1>2, <1>11 DEF CancelDelete
  <1>12. CASE ConfirmDelete
    <2> DEFINE r == [kind |-> "delete", id |-> confirming, answered |-> FALSE]
    <2>1. confirming \in Cards
      BY <1>12 DEF ConfirmDelete
    <2>2. r \in CardReq
      BY <2>1 DEF CardReq
    <2>3. SendCard(r)
      BY <1>12 DEF ConfirmDelete
    <2>4. cardReq' \in [CardRequests -> CardReq \cup {NoCardReq}] /\ overlapped' \in BOOLEAN
      BY <2>2, <2>3, SendCardType
    <2> QED
      BY <1>1, <1>2, <1>12, <2>4 DEF ConfirmDelete
  <1> QED
    BY <1>3, <1>4, <1>5, <1>6, <1>7, <1>8, <1>9, <1>10, <1>11, <1>12 DEF CardClick

\* The server's side: the rows, and the request marked as answered.
LEMMA ServeCardType ==
  ASSUME CardsTypeOK, NEW i \in CardRequests, ServeCard(i)
  PROVE  CardsTypeOK'
  <1>1. cardReq[i] # NoCardReq /\ cardReq[i] \in CardReq
    BY DEF ServeCard, CardsTypeOK
  <1>2. card' \in [Cards -> Row]
    <2>1. card' \in Stored(cardReq[i])
      BY DEF ServeCard
    <2>2. CASE cardReq[i].kind = "toggle" \/ (cardReq[i].kind = "save" /\ cardReq[i].id # 0)
      <3>1. card' = [card EXCEPT ![cardReq[i].id] = IF @ = NoCard THEN @ ELSE cardReq[i].row]
        BY <2>1, <2>2 DEF Stored
      <3> QED
        BY <1>1, <2>2, <3>1, CardKinds DEF CardsTypeOK
    <2>3. CASE cardReq[i].kind = "save" /\ cardReq[i].id = 0
      <3>1. PICK c \in Cards : card' = [card EXCEPT ![c] = cardReq[i].row]
        BY <2>1, <2>3 DEF Stored
      <3> QED
        BY <1>1, <2>3, <3>1, CardKinds DEF CardsTypeOK
    <2>4. CASE cardReq[i].kind = "delete"
      <3>1. card' = [card EXCEPT ![cardReq[i].id] = NoCard]
        BY <2>1, <2>4 DEF Stored
      <3> QED
        BY <1>1, <2>4, <3>1, CardKinds, NoCardType DEF CardsTypeOK
    <2>5. CASE cardReq[i].kind \in {"list", "upload"}
      <3>1. card' = card
        BY <2>1, <2>5 DEF Stored
      <3> QED
        BY <3>1 DEF CardsTypeOK
    <2> QED
      BY <1>1, <2>2, <2>3, <2>4, <2>5, CardKinds
  <1>3. cardReq' \in [CardRequests -> CardReq \cup {NoCardReq}]
    <2>1. CASE cardReq[i].kind = "list"
      <3>1. cardReq[i] \in [kind: {"list"}, rows: [Cards -> Row], answered: BOOLEAN]
        BY <1>1, <2>1 DEF CardReq
      <3>2. [cardReq[i] EXCEPT !.rows = card, !.answered = TRUE]
              \in [kind: {"list"}, rows: [Cards -> Row], answered: BOOLEAN]
        BY <3>1, Zenon DEF CardsTypeOK
      <3>3. [cardReq[i] EXCEPT !.rows = card, !.answered = TRUE] \in CardReq
        BY <3>2, Zenon DEF CardReq
      <3>4. cardReq' = [cardReq EXCEPT ![i] = [cardReq[i] EXCEPT !.rows = card, !.answered = TRUE]]
        BY <2>1 DEF ServeCard
      <3> QED
        BY <3>3, <3>4 DEF CardsTypeOK
    <2>2. CASE cardReq[i].kind # "list"
      <3>1. [cardReq[i] EXCEPT !.answered = TRUE] \in CardReq
        BY <1>1, <2>2 DEF CardReq
      <3>2. cardReq' = [cardReq EXCEPT ![i] = [cardReq[i] EXCEPT !.answered = TRUE]]
        BY <2>2 DEF ServeCard
      <3> QED
        BY <3>1, <3>2 DEF CardsTypeOK
    <2> QED
      BY <2>1, <2>2
  <1> QED
    BY <1>2, <1>3 DEF ServeCard, CardsTypeOK, cardHistory

LEMMA CardReturnsType ==
  ASSUME CardsTypeOK, NEW i \in CardRequests, CardReturns(i)
  PROVE  CardsTypeOK'
  <1> USE DEF CardsTypeOK, cardHistory
  <1>1. ASSUME NEW kind \in {"list", "toggle", "save", "delete", "upload"}, Answered(i, kind)
        PROVE  cardReq[i] # NoCardReq
    BY <1>1, KindIsBusy DEF Answered
  <1>2. UNCHANGED << card, openings, cardClicks, cardHistory >>
    BY DEF CardReturns
  <1>3. CASE ListReturns(i)
    <2>1. cardReq[i].rows \in [Cards -> Row]
      BY <1>1, <1>3, CardKinds DEF ListReturns, Answered
    <2>2. cardReq' \in [CardRequests -> CardReq \cup {NoCardReq}]
      BY <1>3, ReturnType DEF ListReturns
    <2>3. cards' \in {cards, cardReq[i].rows}
      BY <1>3 DEF ListReturns
    <2> QED
      BY <1>2, <1>3, <2>1, <2>2, <2>3 DEF ListReturns
  <1>4. CASE ToggleReturns(i)
    <2>1. cardReq[i].id \in Cards
      BY <1>1, <1>4, CardKinds DEF ToggleReturns, Answered
    <2>2. Switched(cards[cardReq[i].id]) \in Row
      BY <2>1, SwitchType
    <2>3. cards' \in [Cards -> Row]
      BY <1>4, <2>1, <2>2 DEF ToggleReturns
    <2>4. cardReq' \in [CardRequests -> CardReq \cup {NoCardReq}]
      BY <1>4, ReturnType DEF ToggleReturns
    <2> QED
      BY <1>2, <1>4, <2>3, <2>4 DEF ToggleReturns
  <1>5. CASE SaveReturns(i)
    <2>1. drawer' \in [open: BOOLEAN, id: Cards \cup {0}, active: BOOLEAN, version: Nat, image: Nat,
                       opening: Nat]
      BY <1>5 DEF SaveReturns
    <2>2. cardReq' \in [CardRequests -> CardReq \cup {NoCardReq}] /\ cardLoading' \in BOOLEAN
      BY <1>5, RefetchCardType DEF SaveReturns
    <2> QED
      BY <1>2, <1>5, <2>1, <2>2 DEF SaveReturns
  <1>6. CASE DeleteReturns(i)
    <2>1. cardReq' \in [CardRequests -> CardReq \cup {NoCardReq}] /\ cardLoading' \in BOOLEAN
      BY <1>6, RefetchCardType DEF DeleteReturns
    <2> QED
      BY <1>2, <1>6, <2>1 DEF DeleteReturns
  <1>7. CASE UploadReturns(i)
    <2>1. cardReq[i].opening \in Nat
      BY <1>1, <1>7, CardKinds DEF UploadReturns, Answered
    <2>2. drawer' \in [open: BOOLEAN, id: Cards \cup {0}, active: BOOLEAN, version: Nat, image: Nat,
                       opening: Nat]
      BY <1>7, <2>1 DEF UploadReturns
    <2>3. cardReq' \in [CardRequests -> CardReq \cup {NoCardReq}]
      BY <1>7, ReturnType DEF UploadReturns
    <2> QED
      BY <1>2, <1>7, <2>2, <2>3 DEF UploadReturns
  <1> QED
    BY <1>3, <1>4, <1>5, <1>6, <1>7 DEF CardReturns

LEMMA CardFailsType ==
  ASSUME CardsTypeOK, NEW i \in CardRequests, CardFails(i)
  PROVE  CardsTypeOK'
  <1>1. cardReq' \in [CardRequests -> CardReq \cup {NoCardReq}]
    BY ReturnType DEF CardFails
  <1>2. cardLoading' \in BOOLEAN /\ submitting' \in BOOLEAN /\ cardTrouble' \in BOOLEAN
    BY Zenon DEF CardFails, CardsTypeOK
  <1> QED
    BY <1>1, <1>2 DEF CardFails, CardsTypeOK

LEMMA CardsTypeStays ==
  ASSUME CardsTypeOK, CardsNext
  PROVE  CardsTypeOK'
  <1>1. CASE OpenCards
    <2>1. SendCard(ListRequest)
      BY <1>1 DEF OpenCards
    <2>2. cardReq' \in [CardRequests -> CardReq \cup {NoCardReq}] /\ overlapped' \in BOOLEAN
      BY <2>1, SendCardType, ListRequestType
    <2> QED
      BY <1>1, <2>2 DEF OpenCards, CardsTypeOK
  <1> QED
    BY <1>1, CardClickType, ServeCardType, CardReturnsType, CardFailsType DEF CardsNext

-----------------------------------------------------------------------------
(* The cards page: where a picture goes.                                       *)

\* What a new request changes of the others.
LEMMA SendCardShape ==
  ASSUME CardsTypeOK, NEW r, SendCard(r)
  PROVE  \E i \in CardRequests : /\ cardReq[i] = NoCardReq
                                 /\ cardReq'[i] = r
                                 /\ \A j \in CardRequests : j # i => cardReq'[j] = cardReq[j]
  BY DEF SendCard, FreeSlots, CardsTypeOK

\* What an answer changes of the others.
LEMMA ReturnShape ==
  ASSUME CardsTypeOK, NEW i \in CardRequests, Return(i) \/ RefetchFrom(i)
  PROVE  /\ cardReq'[i] = (IF Return(i) THEN NoCardReq ELSE ListRequest)
         /\ \A j \in CardRequests : j # i => cardReq'[j] = cardReq[j]
  BY DEF Return, RefetchFrom, CardsTypeOK

LEMMA ServeShape ==
  ASSUME CardsTypeOK, NEW i \in CardRequests, ServeCard(i)
  PROVE  /\ cardReq[i] # NoCardReq
         /\ cardReq'[i].kind = cardReq[i].kind
         /\ cardReq'[i].answered
         /\ cardReq[i].kind = "list" => cardReq'[i].rows = card
         /\ cardReq[i].kind = "toggle" => cardReq'[i].id = cardReq[i].id /\ cardReq'[i].row = cardReq[i].row
         /\ cardReq[i].kind = "upload" => cardReq'[i].opening = cardReq[i].opening
         /\ \A j \in CardRequests : j # i => cardReq'[j] = cardReq[j]
  <1>1. cardReq[i] # NoCardReq /\ cardReq[i] \in CardReq
    BY DEF ServeCard, CardsTypeOK
  <1>2. \A j \in CardRequests : j # i => cardReq'[j] = cardReq[j]
    BY DEF ServeCard, CardsTypeOK
  <1>3. CASE cardReq[i].kind = "list"
    <2>1. PICK rows, a : cardReq[i] = [kind |-> "list", rows |-> rows, answered |-> a]
      BY <1>1, <1>3 DEF CardReq
    <2>2. cardReq'[i] = [cardReq[i] EXCEPT !.rows = card, !.answered = TRUE]
      BY <1>3 DEF ServeCard, CardsTypeOK
    <2>3. \A q, found, b : q = [kind |-> "list", rows |-> found, answered |-> b] =>
            /\ [q EXCEPT !.rows = card, !.answered = TRUE].kind = "list"
            /\ [q EXCEPT !.rows = card, !.answered = TRUE].rows = card
            /\ [q EXCEPT !.rows = card, !.answered = TRUE].answered
      OBVIOUS
    <2>4. cardReq'[i].kind = "list" /\ cardReq'[i].rows = card /\ cardReq'[i].answered
      BY <2>1, <2>2, <2>3
    <2> QED
      BY <1>1, <1>2, <1>3, <2>4
  <1>4. CASE cardReq[i].kind # "list"
    <2>1. cardReq'[i] = [cardReq[i] EXCEPT !.answered = TRUE]
      BY <1>4 DEF ServeCard, CardsTypeOK
    <2>2. cardReq'[i].kind = cardReq[i].kind /\ cardReq'[i].answered
      BY <1>1, <2>1 DEF CardReq
    <2>3. cardReq[i].kind = "toggle" => cardReq'[i].id = cardReq[i].id /\ cardReq'[i].row = cardReq[i].row
      BY <1>1, <2>1 DEF CardReq
    <2>4. cardReq[i].kind = "upload" => cardReq'[i].opening = cardReq[i].opening
      BY <1>1, <2>1 DEF CardReq
    <2> QED
      BY <1>1, <1>2, <1>4, <2>2, <2>3, <2>4
  <1> QED
    BY <1>3, <1>4

\* A request that is no upload keeps the pictures where they are.
LEMMA ImageKeptBySend ==
  ASSUME CardsTypeOK, ImageFollows, NEW r, SendCard(r),
         r.kind = "upload" => r.opening = drawer.opening, UNCHANGED << drawer, crossed >>
  PROVE  ImageFollows'
  <1>1. PICK i \in CardRequests : /\ cardReq'[i] = r
                                  /\ \A j \in CardRequests : j # i => cardReq'[j] = cardReq[j]
    BY SendCardShape
  <1> QED
    BY <1>1 DEF ImageFollows

LEMMA OpenDrawerImage ==
  ASSUME NEW id, NEW r, OpenDrawer(id, r)
  PROVE  ImageFollows'
  <1>1. drawer'.image = 0 /\ cardReq' = cardReq
    BY DEF OpenDrawer
  <1>2. ~crossed' => \A i \in CardRequests : cardReq[i].kind # "upload"
    BY DEF OpenDrawer
  <1> QED
    BY <1>1, <1>2 DEF ImageFollows

LEMMA ImageStays ==
  ASSUME CardsTypeOK, ImageFollows, CardsNext
  PROVE  ImageFollows'
  <1>1. ASSUME drawer'.image = drawer.image, drawer'.opening = drawer.opening, crossed' = crossed,
               \A i \in CardRequests : \/ cardReq'[i] = cardReq[i]
                                       \/ cardReq'[i].kind # "upload"
                                       \/ /\ cardReq[i].kind = "upload"
                                          /\ cardReq'[i].opening = cardReq[i].opening
        PROVE  ImageFollows'
    BY <1>1 DEF ImageFollows
  <1>2. CASE OpenCards
    <2>1. SendCard(ListRequest) /\ UNCHANGED << drawer, crossed >>
      BY <1>2 DEF OpenCards
    <2>2. ListRequest.kind # "upload"
      BY DEF ListRequest
    <2> QED
      BY <2>1, <2>2, ImageKeptBySend
  <1>3. CASE CardClick
    <2>1. ASSUME NEW c \in Cards, Toggle(c) PROVE ImageFollows'
      <3> DEFINE r == [kind |-> "toggle", id |-> c, answered |-> FALSE, row |-> Switched(cards[c])]
      <3>1. SendCard(r) /\ r.kind # "upload" /\ UNCHANGED << drawer, crossed >>
        BY <2>1 DEF Toggle
      <3> QED
        BY <3>1, ImageKeptBySend
    <2>2. ASSUME NEW c \in Cards, OpenEdit(c) PROVE ImageFollows'
      BY <2>2, OpenDrawerImage DEF OpenEdit
    <2>3. CASE OpenCreate
      BY <2>3, OpenDrawerImage DEF OpenCreate
    <2>4. CASE CloseDrawer
      <3>1. drawer'.image = drawer.image /\ drawer'.opening = drawer.opening
        BY <2>4 DEF CloseDrawer, CardsTypeOK
      <3> QED
        BY <1>1, <2>4, <3>1 DEF CloseDrawer
    <2>5. CASE EditForm
      <3>1. drawer'.image = drawer.image /\ drawer'.opening = drawer.opening
        BY <2>5 DEF EditForm, CardsTypeOK
      <3> QED
        BY <1>1, <2>5, <3>1 DEF EditForm
    <2>6. CASE UploadImage
      <3> DEFINE r == [kind |-> "upload", opening |-> drawer.opening, answered |-> FALSE]
      <3>1. SendCard(r) /\ r.opening = drawer.opening /\ UNCHANGED << drawer, crossed >>
        BY <2>6 DEF UploadImage
      <3> QED
        BY <3>1, ImageKeptBySend
    <2>7. CASE SubmitCard
      <3> DEFINE r == [kind |-> "save", id |-> drawer.id, answered |-> FALSE,
                       row |-> [active |-> drawer.active, version |-> drawer.version]]
      <3>1. SendCard(r) /\ r.kind # "upload" /\ UNCHANGED << drawer, crossed >>
        BY <2>7 DEF SubmitCard
      <3> QED
        BY <3>1, ImageKeptBySend
    <2>8. ASSUME NEW c \in Cards, AskDelete(c) PROVE ImageFollows'
      BY <1>1, <2>8 DEF AskDelete
    <2>9. CASE CancelDelete
      BY <1>1, <2>9 DEF CancelDelete
    <2>10. CASE ConfirmDelete
      <3> DEFINE r == [kind |-> "delete", id |-> confirming, answered |-> FALSE]
      <3>1. SendCard(r) /\ r.kind # "upload" /\ UNCHANGED << drawer, crossed >>
        BY <2>10 DEF ConfirmDelete
      <3> QED
        BY <3>1, ImageKeptBySend
    <2> QED
      BY <1>3, <2>1, <2>2, <2>3, <2>4, <2>5, <2>6, <2>7, <2>8, <2>9, <2>10 DEF CardClick
  <1>4. ASSUME NEW i \in CardRequests, ServeCard(i) PROVE ImageFollows'
    <2>1. UNCHANGED << drawer, crossed >>
      BY <1>4 DEF ServeCard, cardHistory
    <2> QED
      BY <1>1, <1>4, <2>1, ServeShape
  <1>5. ASSUME NEW i \in CardRequests, CardReturns(i) PROVE ImageFollows'
    <2>1. crossed' = crossed
      BY <1>5 DEF CardReturns, cardHistory
    <2>2. Return(i) \/ RefetchFrom(i)
      BY <1>5 DEF CardReturns, ListReturns, ToggleReturns, SaveReturns, DeleteReturns, UploadReturns
    <2>3. \A j \in CardRequests : cardReq'[j] = cardReq[j] \/ cardReq'[j].kind # "upload"
      <3>1. NoCardReq.kind # "upload" /\ ListRequest.kind # "upload"
        BY DEF NoCardReq, ListRequest
      <3> QED
        BY <2>2, <3>1, ReturnShape
    <2>4. CASE UploadReturns(i)
      <3>1. cardReq[i].kind = "upload"
        BY <2>4 DEF UploadReturns, Answered
      <3>2. drawer'.image = cardReq[i].opening /\ drawer'.opening = drawer.opening
        BY <2>4 DEF UploadReturns, CardsTypeOK
      <3> QED
        BY <2>1, <2>3, <3>1, <3>2 DEF ImageFollows
    <2>5. CASE ~UploadReturns(i)
      <3>1. drawer'.image = drawer.image /\ drawer'.opening = drawer.opening
        BY <1>5, <2>5
        DEF CardReturns, ListReturns, ToggleReturns, SaveReturns, DeleteReturns, CardsTypeOK
      <3> QED
        BY <1>1, <2>1, <2>3, <3>1
    <2> QED
      BY <2>4, <2>5
  <1>6. ASSUME NEW i \in CardRequests, CardFails(i) PROVE ImageFollows'
    <2>1. Return(i) /\ UNCHANGED << drawer, crossed >>
      BY <1>6 DEF CardFails
    <2>2. NoCardReq.kind # "upload"
      BY DEF NoCardReq
    <2>3. \A j \in CardRequests : cardReq'[j] = cardReq[j] \/ cardReq'[j].kind # "upload"
      BY <2>1, <2>2, ReturnShape
    <2> QED
      BY <1>1, <2>1, <2>3
  <1> QED
    BY <1>2, <1>3, <1>4, <1>5, <1>6 DEF CardsNext

-----------------------------------------------------------------------------
(* The cards page: what the rows show.                                         *)

LEMMA OneStays ==
  ASSUME CardsTypeOK, OneAtATime, CardsNext
  PROVE  OneAtATime'
  <1>1. ASSUME NEW r, SendCard(r) PROVE OneAtATime'
    <2>1. PICK i \in CardRequests : \A j \in CardRequests : j # i => cardReq'[j] = cardReq[j]
      BY <1>1, SendCardShape
    <2>2. ~overlapped' => \A j \in CardRequests : cardReq[j] = NoCardReq
      BY <1>1 DEF SendCard, CardsBusy
    <2> QED
      BY <2>1, <2>2 DEF OneAtATime
  <1>2. ASSUME overlapped' = overlapped,
               \A j \in CardRequests : cardReq[j] = NoCardReq => cardReq'[j] = NoCardReq
        PROVE  OneAtATime'
    BY <1>2 DEF OneAtATime
  <1>3. CASE OpenCards
    BY <1>1, <1>3 DEF OpenCards
  <1>4. CASE CardClick
    <2>1. (\E r : SendCard(r)) \/ UNCHANGED << cardReq, overlapped >>
      BY <1>4 DEF CardClick, Toggle, OpenEdit, OpenCreate, OpenDrawer, AskDelete, CloseDrawer,
                  EditForm, UploadImage, SubmitCard, CancelDelete, ConfirmDelete
    <2> QED
      BY <1>1, <1>2, <2>1
  <1>5. ASSUME NEW i \in CardRequests, ServeCard(i) PROVE OneAtATime'
    <2>1. overlapped' = overlapped
      BY <1>5 DEF ServeCard, cardHistory
    <2> QED
      BY <1>2, <1>5, <2>1, ServeShape
  <1>6. ASSUME NEW i \in CardRequests, CardReturns(i) \/ CardFails(i) PROVE OneAtATime'
    <2>1. overlapped' = overlapped
      BY <1>6 DEF CardReturns, CardFails, cardHistory
    <2>2. Return(i) \/ RefetchFrom(i)
      BY <1>6 DEF CardReturns, CardFails, ListReturns, ToggleReturns, SaveReturns, DeleteReturns,
                  UploadReturns
    <2>3. cardReq[i] # NoCardReq
      BY <1>6, KindIsBusy DEF CardReturns, CardFails, ListReturns, ToggleReturns, SaveReturns,
                              DeleteReturns, UploadReturns, Answered
    <2> QED
      BY <1>2, <2>1, <2>2, <2>3, ReturnShape
  <1> QED
    BY <1>3, <1>4, <1>5, <1>6 DEF CardsNext

\* A request sent alone, from rows that are the stored ones.
LEMMA RowsSent ==
  ASSUME CardsTypeOK, RowsFollow, NEW r, SendCard(r), UNCHANGED << card, cards, cardLoading, cardTrouble >>,
         r.kind \in {"list", "toggle", "save", "delete", "upload"}, ~r.answered,
         r.kind = "toggle" => /\ ~cardLoading
                              /\ cards[r.id] # NoCard
                              /\ r.row = Switched(cards[r.id])
  PROVE  RowsFollow'
  <1> SUFFICES ASSUME ~overlapped', ~cardTrouble' PROVE RowsFollow'
    BY DEF RowsFollow
  <1>1. PICK i \in CardRequests : /\ cardReq'[i] = r
                                  /\ \A j \in CardRequests : j # i => cardReq'[j] = cardReq[j]
    BY SendCardShape
  <1>2. ~overlapped /\ ~cardTrouble /\ ~CardsBusy
    BY DEF SendCard
  <1>3. ~cardLoading => RowsOfTable /\ RowsOfTable'
    BY <1>2 DEF RowsFollow, RowsOfTable, NoRows
  <1>4. \A j \in CardRequests : j # i => cardReq'[j].kind = "none"
    BY <1>1, <1>2 DEF CardsBusy, NoCardReq
  <1>5. CardsBusy'
    <2>1. cardReq'[i] # NoCardReq
      BY <1>1 DEF NoCardReq
    <2> QED
      BY <2>1 DEF CardsBusy
  <1>6. ASSUME NEW j \in CardRequests
        PROVE  /\ ~Answered(j, "list")'
               /\ cardReq'[j].kind = "upload" /\ ~cardLoading' => RowsOfTable'
               /\ cardReq'[j].kind = "toggle" => ToggleFollows(cardReq[j])'
    <2>1. CASE j # i
      BY <1>4, <2>1 DEF Answered
    <2>2. CASE j = i
      <3>1. ~Answered(j, "list")'
        BY <1>1, <2>2 DEF Answered
      <3>2. cardReq'[j].kind = "toggle" => ToggleFollows(cardReq[j])'
        BY <1>1, <1>3, <2>2 DEF ToggleFollows, RowsOfTable
      <3> QED
        BY <1>3, <3>1, <3>2
    <2> QED
      BY <2>1, <2>2
  <1> QED
    BY <1>5, <1>6 DEF RowsFollow

LEMMA RowsServed ==
  ASSUME CardsTypeOK, OneAtATime, RowsFollow, NEW i \in CardRequests, ServeCard(i)
  PROVE  RowsFollow'
  <1> SUFFICES ASSUME ~overlapped', ~cardTrouble' PROVE RowsFollow'
    BY DEF RowsFollow
  <1>1. UNCHANGED << cards, cardLoading, overlapped, cardTrouble >>
    BY DEF ServeCard, cardHistory
  <1>2. ~overlapped /\ ~cardTrouble
    BY <1>1
  <1>3. cardReq[i] # NoCardReq /\ cardReq'[i].kind = cardReq[i].kind
    BY ServeShape
  <1>4. cardReq[i].kind \in {"list", "toggle", "save", "delete", "upload"}
    BY <1>3, CardKinds
  <1>5. CardsBusy'
    <2>1. cardReq'[i] # NoCardReq
      BY <1>3, <1>4 DEF NoCardReq
    <2> QED
      BY <2>1 DEF CardsBusy
  <1>6. \A j \in CardRequests : j # i => cardReq'[j].kind = "none"
    <2>1. \A j \in CardRequests : j # i => cardReq[j] = NoCardReq
      BY <1>2, <1>3 DEF OneAtATime
    <2> QED
      BY <2>1, ServeShape DEF NoCardReq
  <1>7. cardReq[i].kind \in {"list", "upload"} => card' = card
    BY DEF ServeCard, Stored
  <1>8. cardReq[i].kind = "toggle" => ToggleFollows(cardReq[i])'
    <2> SUFFICES ASSUME cardReq[i].kind = "toggle" PROVE ToggleFollows(cardReq[i])'
      OBVIOUS
    <2>1. ToggleFollows(cardReq[i])
      BY <1>2 DEF RowsFollow
    <2>2. cardReq'[i].id = cardReq[i].id /\ cardReq'[i].row = cardReq[i].row /\ cardReq'[i].answered
      BY ServeShape
    <2>3. ~cardReq[i].answered
      BY DEF ServeCard
    <2>4. card' = [card EXCEPT ![cardReq[i].id] = IF @ = NoCard THEN @ ELSE cardReq[i].row]
      BY DEF ServeCard, Stored
    <2>5. CASE NoRows(card)
      <3>1. NoRows(card')
        BY <2>4, <2>5 DEF NoRows, CardsTypeOK
      <3> QED
        BY <1>1, <2>1, <2>2, <3>1 DEF ToggleFollows, NoRows
    <2>6. CASE ~NoRows(card)
      <3>1. card = cards /\ cards[cardReq[i].id] # NoCard
        BY <2>1, <2>3, <2>6 DEF ToggleFollows
      <3>2. card' = [cards EXCEPT ![cardReq[i].id] = cardReq[i].row]
        BY <2>4, <3>1
      <3> QED
        BY <1>1, <2>1, <2>2, <2>6, <3>2 DEF ToggleFollows
    <2> QED
      BY <2>5, <2>6
  <1>9. Answered(i, "list")' => cardReq'[i].rows = card'
    BY <1>3, <1>7, ServeShape DEF Answered
  <1>10. cardReq'[i].kind = "upload" /\ ~cardLoading' => RowsOfTable'
    BY <1>1, <1>2, <1>3, <1>7 DEF RowsFollow, RowsOfTable, NoRows
  <1>11. ASSUME NEW j \in CardRequests
         PROVE  /\ Answered(j, "list")' => cardReq'[j].rows = card'
                /\ cardReq'[j].kind = "upload" /\ ~cardLoading' => RowsOfTable'
                /\ cardReq'[j].kind = "toggle" => ToggleFollows(cardReq[j])'
    <2>1. CASE j = i
      BY <1>3, <1>8, <1>9, <1>10, <2>1
    <2>2. CASE j # i
      BY <1>6, <2>2 DEF Answered
    <2> QED
      BY <2>1, <2>2
  <1> QED
    BY <1>5, <1>11 DEF RowsFollow

LEMMA RowsReturned ==
  ASSUME CardsTypeOK, OneAtATime, RowsFollow, NEW i \in CardRequests, CardReturns(i)
  PROVE  RowsFollow'
  <1> SUFFICES ASSUME ~overlapped', ~cardTrouble' PROVE RowsFollow'
    BY DEF RowsFollow
  <1>1. UNCHANGED << card, overlapped, cardTrouble >>
    BY DEF CardReturns, cardHistory
  <1>2. ~overlapped /\ ~cardTrouble
    BY <1>1
  <1>3. cardReq[i] # NoCardReq
    BY KindIsBusy DEF CardReturns, ListReturns, ToggleReturns, SaveReturns, DeleteReturns,
                      UploadReturns, Answered
  <1>4. \A j \in CardRequests : j # i => cardReq[j] = NoCardReq
    BY <1>2, <1>3 DEF OneAtATime
  <1>5. CASE SaveReturns(i) \/ DeleteReturns(i)
    <2>1. RefetchFrom(i) /\ cardLoading'
      BY <1>5 DEF SaveReturns, DeleteReturns, RefetchFrom
    <2>2. cardReq'[i] = ListRequest
      BY <2>1 DEF RefetchFrom, CardsTypeOK
    <2>3. \A j \in CardRequests : cardReq'[j] \in {ListRequest, NoCardReq}
      BY <1>4, <2>1, <2>2, ReturnShape
    <2>4. \A j \in CardRequests : /\ ~Answered(j, "list")'
                                  /\ cardReq'[j].kind # "toggle"
      BY <2>3 DEF Answered, ListRequest, NoCardReq
    <2> QED
      BY <2>1, <2>4 DEF RowsFollow
  <1>6. ASSUME Return(i), ~cardLoading' => RowsOfTable' PROVE RowsFollow'
    <2>1. cardReq'[i] = NoCardReq
      BY <1>6 DEF Return, CardsTypeOK
    <2>2. \A j \in CardRequests : cardReq'[j] = NoCardReq
      BY <1>4, <1>6, <2>1, ReturnShape
    <2>3. \A j \in CardRequests : cardReq'[j].kind = "none"
      BY <2>2 DEF NoCardReq
    <2> QED
      BY <1>6, <2>3 DEF RowsFollow, Answered
  <1>7. CASE ListReturns(i)
    <2>1. cardReq[i].rows = card
      BY <1>2, <1>7 DEF ListReturns, RowsFollow
    <2>2. cards' = card \/ NoRows(card)
      BY <1>7, <2>1 DEF ListReturns
    <2>3. RowsOfTable'
      BY <1>1, <2>2 DEF RowsOfTable, NoRows
    <2> QED
      BY <1>6, <1>7, <2>3 DEF ListReturns
  <1>8. CASE UploadReturns(i)
    <2>1. ~cardLoading => RowsOfTable
      BY <1>2, <1>8 DEF UploadReturns, RowsFollow, Answered
    <2>2. ~cardLoading' => RowsOfTable'
      BY <1>1, <1>8, <2>1 DEF UploadReturns, RowsOfTable, NoRows
    <2> QED
      BY <1>6, <1>8, <2>2 DEF UploadReturns
  <1>9. CASE ToggleReturns(i)
    <2>1. ToggleFollows(cardReq[i])
      BY <1>2, <1>9 DEF ToggleReturns, RowsFollow, Answered
    <2>2. CASE NoRows(card)
      <3>1. RowsOfTable'
        BY <1>1, <2>2 DEF RowsOfTable, NoRows
      <3> QED
        BY <1>6, <1>9, <3>1 DEF ToggleReturns
    <2>3. CASE ~NoRows(card)
      <3>1. /\ cards[cardReq[i].id] # NoCard
            /\ cardReq[i].row = Switched(cards[cardReq[i].id])
            /\ card = [cards EXCEPT ![cardReq[i].id] = cardReq[i].row]
        BY <1>9, <2>1, <2>3 DEF ToggleReturns, ToggleFollows, Answered
      <3>2. cards' = [cards EXCEPT ![cardReq[i].id] = IF @ = NoCard THEN @ ELSE Switched(@)]
        BY <1>9 DEF ToggleReturns
      <3>3. cards' = card
        BY <3>1, <3>2
      <3>4. RowsOfTable'
        BY <1>1, <3>3 DEF RowsOfTable
      <3> QED
        BY <1>6, <1>9, <3>4 DEF ToggleReturns
    <2> QED
      BY <2>2, <2>3
  <1> QED
    BY <1>5, <1>7, <1>8, <1>9 DEF CardReturns

LEMMA RowsStay ==
  ASSUME CardsTypeOK, OneAtATime, RowsFollow, CardsNext
  PROVE  RowsFollow'
  <1>1. CASE OpenCards
    <2>1. ListRequest.kind = "list" /\ ~ListRequest.answered
      BY DEF ListRequest
    <2>2. SendCard(ListRequest) /\ UNCHANGED << card, cards, cardLoading, cardTrouble >>
      BY <1>1 DEF OpenCards
    <2> QED
      BY <2>1, <2>2, RowsSent
  <1>2. CASE CardClick
    <2>1. UNCHANGED << card, cards, cardLoading, cardTrouble >>
      BY <1>2 DEF CardClick
    <2>2. ASSUME UNCHANGED << cardReq, overlapped >> PROVE RowsFollow'
      BY <2>1, <2>2 DEF RowsFollow, CardsBusy, Answered, ToggleFollows, RowsOfTable,
                         NoRows
    <2>3. ASSUME NEW c \in Cards, Toggle(c) PROVE RowsFollow'
      <3> DEFINE r == [kind |-> "toggle", id |-> c, answered |-> FALSE, row |-> Switched(cards[c])]
      <3>1. SendCard(r)
        BY <2>3 DEF Toggle
      <3>2. r.kind = "toggle" /\ ~r.answered /\ r.id = c /\ r.row = Switched(cards[c])
        OBVIOUS
      <3>3. ~cardLoading /\ cards[c] # NoCard
        BY <2>3 DEF Toggle, CardOnScreen, NoCard
      <3> HIDE DEF r
      <3> QED
        BY <2>1, <3>1, <3>2, <3>3, RowsSent
    <2>4. CASE UploadImage
      <3> DEFINE r == [kind |-> "upload", opening |-> drawer.opening, answered |-> FALSE]
      <3>1. SendCard(r) /\ r.kind = "upload" /\ ~r.answered
        BY <2>4 DEF UploadImage
      <3> QED
        BY <2>1, <3>1, RowsSent
    <2>5. CASE SubmitCard
      <3> DEFINE r == [kind |-> "save", id |-> drawer.id, answered |-> FALSE,
                       row |-> [active |-> drawer.active, version |-> drawer.version]]
      <3>1. SendCard(r) /\ r.kind = "save" /\ ~r.answered
        BY <2>5 DEF SubmitCard
      <3> QED
        BY <2>1, <3>1, RowsSent
    <2>6. CASE ConfirmDelete
      <3> DEFINE r == [kind |-> "delete", id |-> confirming, answered |-> FALSE]
      <3>1. SendCard(r) /\ r.kind = "delete" /\ ~r.answered
        BY <2>6 DEF ConfirmDelete
      <3> QED
        BY <2>1, <3>1, RowsSent
    <2>7. CASE \/ \E c \in Cards : OpenEdit(c) \/ AskDelete(c)
               \/ OpenCreate \/ CloseDrawer \/ EditForm \/ CancelDelete
      <3>1. UNCHANGED << cardReq, overlapped >>
        BY <2>7 DEF OpenEdit, AskDelete, OpenCreate, OpenDrawer, CloseDrawer, EditForm, CancelDelete
      <3> QED
        BY <2>2, <3>1
    <2> QED
      BY <1>2, <2>3, <2>4, <2>5, <2>6, <2>7 DEF CardClick
  <1>3. ASSUME NEW i \in CardRequests, CardFails(i) PROVE RowsFollow'
    BY <1>3 DEF CardFails, RowsFollow
  <1> QED
    BY <1>1, <1>2, <1>3, RowsServed, RowsReturned DEF CardsNext

-----------------------------------------------------------------------------
(* The cards page: the theorems.                                               *)

LEMMA CardsInitInv ==
  ASSUME CardsInit
  PROVE  CardsInv
  <1>1. \A c \in Cards : (IF c \in FirstCards THEN [active |-> TRUE, version |-> 1] ELSE NoCard) \in Row
    <2>1. [active |-> TRUE, version |-> 1] \in Row
      BY DEF Row
    <2> QED
      BY <2>1, NoCardType
  <1>2. card \in [Cards -> Row] /\ cards \in [Cards -> Row]
    BY <1>1, NoCardType DEF CardsInit
  <1>3. CardsTypeOK
    BY <1>2 DEF CardsInit, CardsTypeOK, NoDrawer
  <1>4. ImageFollows
    BY DEF CardsInit, ImageFollows, NoDrawer, NoCardReq
  <1>5. OneAtATime
    BY DEF CardsInit, OneAtATime
  <1>6. RowsFollow
    BY DEF CardsInit, RowsFollow, Answered, NoCardReq
  <1> QED
    BY <1>3, <1>4, <1>5, <1>6 DEF CardsInv

\* The cards page keeps the types of its state, and what every request under way
\* will change of the form and of the rows (fetchCards, handleToggleStatus,
\* handleSubmit, handleDelete, handleImageUpload).
THEOREM CardsInvariance == CardsSpec => []CardsInv
  <1>1. CardsInit => CardsInv
    BY CardsInitInv
  <1>2. CardsInv /\ [CardsNext]_cardVars => CardsInv'
    <2> SUFFICES ASSUME CardsInv, [CardsNext]_cardVars PROVE CardsInv'
      OBVIOUS
    <2>1. CASE CardsNext
      BY <2>1, CardsTypeStays, ImageStays, OneStays, RowsStay DEF CardsInv
    <2>2. CASE UNCHANGED cardVars
      <3>1. CardsTypeOK'
        BY <2>2 DEF cardVars, CardsInv, CardsTypeOK
      <3>2. ImageFollows' /\ OneAtATime'
        BY <2>2 DEF cardVars, CardsInv, ImageFollows, OneAtATime
      <3>3. RowsFollow'
        BY <2>2 DEF cardVars, CardsInv, RowsFollow, CardsBusy, Answered, ToggleFollows, RowsOfTable,
                    NoRows
      <3> QED
        BY <3>1, <3>2, <3>3 DEF CardsInv
    <2> QED
      BY <2>1, <2>2
  <1> QED
    BY <1>1, <1>2, PTL DEF CardsSpec

\* A picture goes into the form that it was chosen in, unless the drawer was opened
\* during the upload (handleImageUpload).
THEOREM ImageInItsFormAlways == CardsSpec => []ImageInItsForm
  <1>1. CardsInv => ImageInItsForm
    BY DEF CardsInv, ImageFollows, ImageInItsForm
  <1> QED
    BY <1>1, CardsInvariance, PTL

\* The rows on the screen are those of the database when nothing is under way, or the
\* database has none, although the switch of a row is turned without asking for the list again
\* (handleToggleStatus), unless requests overlapped or failed.
THEOREM CardsAsStoredAlways == CardsSpec => []CardsAsStored
  <1>1. CardsInv => CardsAsStored
    BY DEF CardsInv, RowsFollow, CardsAsStored
  <1> QED
    BY <1>1, CardsInvariance, PTL

-----------------------------------------------------------------------------
(* PaymentsDesk: types.                                                   *)

\* What refund and modal are when they are not at rest.
LEMMA RefundKinds ==
  ASSUME LedgerTypeOK, refund # NoRequest
  PROVE  /\ refund.at \in {"post", "done", "refused", "refresh"}
         /\ refund.id \in PaymentId /\ refund.amount \in 0..PayAmount /\ refund.audited \in BOOLEAN
         /\ \A s : [refund EXCEPT !.at = s]
                     = [at |-> s, id |-> refund.id, amount |-> refund.amount, audited |-> refund.audited]
  BY DEF LedgerTypeOK

LEMMA RefundAtRest == NoRequest.at = "idle"
  BY DEF NoRequest

LEMMA ModalKinds ==
  ASSUME LedgerTypeOK
  PROVE  /\ modal # NoModal => modal.id \in PaymentId
         /\ modal # NoModal => modal.amount \in 0..PayAmount
         /\ \A a : [modal EXCEPT !.amount = a] = [id |-> modal.id, amount |-> a]
  BY DEF LedgerTypeOK, NoModal

LEMMA CopiesAreCopies ==
  ASSUME LedgerTypeOK, NEW ids \in SUBSET PaymentId
  PROVE  /\ Copies(ids) \in SUBSET Copy
         /\ \A c \in Copies(ids) : c.status = pay[c.id].status
  BY DEF LedgerTypeOK, Copies, Copy

\* Asking for a list.
LEMMA SendLedgerType ==
  ASSUME LedgerTypeOK, NEW s \in {"all", "succeeded", "refunded"}, SendLedgerFetch(s)
  PROVE  /\ ledgerFetch' \in [LedgerFetches -> {NoRequest} \cup
              [at: {"list", "sums"}, status: {"all", "succeeded", "refunded"}]]
         /\ ledgerLoading' \in BOOLEAN
         /\ \E i \in LedgerFetches : ledgerFetch'[i].at = "list"
  BY DEF LedgerTypeOK, SendLedgerFetch

LEMMA LedgerAnswerType ==
  ASSUME LedgerTypeOK, LedgerAnswer
  PROVE  LedgerTypeOK'
  <1>1. PICK i \in LedgerFetches : ListAnswered(i) \/ SumsAnswered(i) \/ LedgerFetchFails(i)
    BY DEF LedgerAnswer
  <1> DEFINE Asked == [at: {"list", "sums"}, status: {"all", "succeeded", "refunded"}]
  <1>2. ledgerFetch \in [LedgerFetches -> {NoRequest} \cup Asked]
    BY DEF LedgerTypeOK
  <1>3. UNCHANGED << pay, returned, statusFilter, audit, modal, refund, ledgerClicks, hurried >>
    BY DEF LedgerAnswer, bookVars
  <1>4. CASE ListAnswered(i)
    <2>1. ledgerFetch[i] \in Asked
      BY <1>2, <1>4 DEF ListAnswered, NoRequest
    <2>2. [ledgerFetch[i] EXCEPT !.at = "sums"] \in Asked
      BY <2>1
    <2>3. ledgerFetch' \in [LedgerFetches -> {NoRequest} \cup Asked]
      BY <1>2, <1>4, <2>2 DEF ListAnswered
    <2>4. ledger' \in SUBSET Copy
      BY <1>4, CopiesAreCopies DEF ListAnswered
    <2>5. QED
      BY <1>3, <1>4, <2>3, <2>4 DEF ListAnswered, LedgerTypeOK
  <1>5. CASE SumsAnswered(i)
    <2>1. ledgerFetch' \in [LedgerFetches -> {NoRequest} \cup Asked]
      BY <1>2, <1>5 DEF SumsAnswered
    <2>2. metrics'.loaded \in BOOLEAN /\ ledgerLoading' \in BOOLEAN
      BY <1>5 DEF SumsAnswered
    <2>3. QED
      BY <1>3, <1>5, <2>1, <2>2 DEF SumsAnswered, LedgerTypeOK
  <1>6. CASE LedgerFetchFails(i)
    <2>1. ledgerFetch' \in [LedgerFetches -> {NoRequest} \cup Asked]
      BY <1>2, <1>6 DEF LedgerFetchFails
    <2>2. QED
      BY <1>3, <1>6, <2>1 DEF LedgerFetchFails, LedgerTypeOK
  <1>7. QED
    BY <1>1, <1>4, <1>5, <1>6

LEMMA LedgerClickType ==
  ASSUME LedgerTypeOK, LedgerClick
  PROVE  LedgerTypeOK'
  <1>1. /\ ledgerClicks' \in Nat
        /\ UNCHANGED << pay, returned, statusFilter, ledger, metrics, ledgerLoading, ledgerFetch, refund,
                        troubled >>
    BY DEF LedgerClick, ClickLedger, LedgerTypeOK, bookVars, tableSide
  <1>2. PayAmount \in 0..PayAmount
    BY PaymentsDeskAssumption DEF PaymentsDeskAssumption
  <1> DEFINE Typed ==
        /\ audit' \in Copy \cup {NoPayment}
        /\ modal' \in [id: PaymentId, amount: 0..PayAmount] \cup {NoModal}
        /\ hurried' \in BOOLEAN
  <1>3. Typed
    <2>1. ASSUME NEW c \in ledger, OpenAudit(c) PROVE Typed
      BY <2>1 DEF OpenAudit, LedgerTypeOK
    <2>2. ASSUME NEW c \in ledger \cup {audit}, OpenRefund(c) PROVE Typed
      <3>1. c \in Copy
        BY <2>2 DEF OpenRefund, RefundOffered, LedgerTypeOK, NoPayment
      <3>2. [id |-> c.id, amount |-> PayAmount] \in [id: PaymentId, amount: 0..PayAmount]
        BY <1>2, <3>1 DEF Copy
      <3>3. QED
        BY <2>2, <3>2 DEF OpenRefund, LedgerTypeOK
    <2>3. ASSUME NEW a \in 0..PayAmount, TypeAmount(a) PROVE Typed
      BY <2>3, ModalKinds DEF TypeAmount, LedgerTypeOK
    <2>4. CASE CloseAudit \/ CancelRefund
      BY <2>4 DEF CloseAudit, CancelRefund, LedgerTypeOK
    <2>5. QED
      BY <2>1, <2>2, <2>3, <2>4 DEF LedgerClick
  <1>4. QED
    BY <1>1, <1>3 DEF LedgerTypeOK

LEMMA RefundType ==
  ASSUME LedgerTypeOK,
         ConfirmRefund \/ ProcessRefund \/ RefundReturns \/ RefreshAudit \/ RefundFails
  PROVE  LedgerTypeOK'
  <1> DEFINE Refund == [at: {"post", "done", "refused", "refresh"}, id: PaymentId,
                        amount: 0..PayAmount, audited: BOOLEAN]
  <1>1. CASE ConfirmRefund
    <2>1. modal.id \in PaymentId /\ modal.amount \in 0..PayAmount
      BY <1>1, ModalKinds DEF ConfirmRefund
    <2>2. refund' \in Refund
      BY <1>1, <2>1 DEF ConfirmRefund
    <2>3. ledgerClicks' \in Nat
      BY <1>1 DEF ConfirmRefund, ClickLedger, LedgerTypeOK
    <2>4. QED
      BY <1>1, <2>2, <2>3 DEF ConfirmRefund, LedgerTypeOK, bookVars, tableSide
  <1>2. CASE ProcessRefund
    <2>1. refund # NoRequest
      BY <1>2, RefundAtRest DEF ProcessRefund
    <2>2. refund' \in Refund
      BY <1>2, <2>1, RefundKinds DEF ProcessRefund
    <2>3. pay' \in [PaymentId -> [status: {"succeeded", "refunded"}, refunded: 0..PayAmount]]
          /\ returned' \in [PaymentId -> [times: Nat, sum: 0..PayAmount]]
      <3>1. CASE refund'.at = "refused"
        BY <1>2, <2>1, <3>1, RefundKinds DEF ProcessRefund, LedgerTypeOK, bookVars
      <3>2. CASE refund'.at # "refused"
        <4> DEFINE p == refund.id
        <4> DEFINE a == IF refund.amount = 0 THEN PayAmount ELSE refund.amount
        <4>1. p \in PaymentId /\ a \in 0..PayAmount
          BY <2>1, RefundKinds, PaymentsDeskAssumption DEF PaymentsDeskAssumption
        <4>2. /\ returned[p].sum + a <= PayAmount
              /\ returned' = [returned EXCEPT ![p] = [times |-> @.times + 1, sum |-> @.sum + a]]
              /\ pay' = [pay EXCEPT ![p] = [status |-> "refunded", refunded |-> a]]
          BY <1>2, <2>1, <3>2, RefundKinds DEF ProcessRefund
        <4> HIDE DEF p, a
        <4>3. returned[p].times \in Nat /\ returned[p].sum \in 0..PayAmount
          BY <4>1 DEF LedgerTypeOK
        <4>4. returned[p].times + 1 \in Nat /\ returned[p].sum + a \in 0..PayAmount
          BY <4>1, <4>2, <4>3, PaymentsDeskAssumption DEF PaymentsDeskAssumption
        <4>5. QED
          BY <4>1, <4>2, <4>4 DEF LedgerTypeOK
      <3>3. QED
        BY <3>1, <3>2
    <2>4. QED
      BY <1>2, <2>2, <2>3 DEF ProcessRefund, LedgerTypeOK, tableSide
  <1>3. CASE RefundReturns
    <2>1. refund # NoRequest
      BY <1>3, RefundAtRest DEF RefundReturns
    <2>2. refund' \in {NoRequest} \cup Refund
      BY <1>3, <2>1, RefundKinds DEF RefundReturns
    <2>3. statusFilter \in {"all", "succeeded", "refunded"}
      BY DEF LedgerTypeOK
    <2>4. QED
      BY <1>3, <2>2, <2>3, SendLedgerType DEF RefundReturns, LedgerTypeOK, bookVars
  <1>4. CASE RefreshAudit
    <2>1. refund # NoRequest
      BY <1>4, RefundAtRest DEF RefreshAudit
    <2>2. audit' \in Copy \cup {NoPayment}
      BY <1>4, <2>1, RefundKinds DEF RefreshAudit, LedgerTypeOK, Copy
    <2>3. QED
      BY <1>4, <2>2 DEF RefreshAudit, LedgerTypeOK, bookVars, tableSide
  <1>5. CASE RefundFails
    BY <1>5 DEF RefundFails, LedgerTypeOK, bookVars, tableSide
  <1>6. QED
    BY <1>1, <1>2, <1>3, <1>4, <1>5

LEMMA LedgerTypeStays ==
  ASSUME LedgerTypeOK, LedgerNext
  PROVE  LedgerTypeOK'
  <1>1. CASE OpenLedger
    <2>1. statusFilter \in {"all", "succeeded", "refunded"}
      BY DEF LedgerTypeOK
    <2>2. QED
      BY <1>1, <2>1, SendLedgerType DEF OpenLedger, LedgerTypeOK, bookVars
  <1>2. ASSUME NEW s \in {"all", "succeeded", "refunded"}, SelectLedger(s)
        PROVE  LedgerTypeOK'
    <2>1. ledgerClicks' \in Nat
      BY <1>2 DEF SelectLedger, ClickLedger, LedgerTypeOK
    <2>2. QED
      BY <1>2, <2>1, SendLedgerType DEF SelectLedger, LedgerTypeOK, bookVars
  <1>3. QED
    BY <1>1, <1>2, LedgerAnswerType, LedgerClickType, RefundType DEF LedgerNext

-----------------------------------------------------------------------------
(* The payments page: what may be refunded.                                    *)

\* Who is not calm does not become so.
LEMMA CalmBefore ==
  ASSUME LedgerTypeOK, [LedgerNext]_ledgerVars, Calm'
  PROVE  Calm
  <1>1. CASE LedgerAnswer
    <2>1. PICK i \in LedgerFetches : ListAnswered(i) \/ SumsAnswered(i) \/ LedgerFetchFails(i)
      BY <1>1 DEF LedgerAnswer
    <2>2. QED
      BY <1>1, <2>1 DEF LedgerAnswer, ListAnswered, SumsAnswered, LedgerFetchFails, Calm
  <1>2. CASE OpenLedger \/ \E s \in {"all", "succeeded", "refunded"} : SelectLedger(s)
    BY <1>2 DEF OpenLedger, SelectLedger, Calm
  <1>3. CASE LedgerClick
    <2>1. troubled' = troubled
      BY <1>3 DEF LedgerClick
    <2>2. (\E c \in ledger : OpenAudit(c)) \/ (\E c \in ledger \cup {audit} : OpenRefund(c))
            => (hurried => hurried')
      BY DEF OpenAudit, OpenRefund
    <2>3. (\E a \in 0..PayAmount : TypeAmount(a)) \/ CloseAudit \/ CancelRefund => hurried' = hurried
      BY DEF TypeAmount, CloseAudit, CancelRefund
    <2>4. QED
      BY <1>3, <2>1, <2>2, <2>3 DEF LedgerClick, Calm
  <1>4. CASE ConfirmRefund \/ ProcessRefund \/ RefundReturns \/ RefreshAudit \/ RefundFails
    <2>1. ConfirmRefund \/ RefundReturns \/ RefreshAudit => UNCHANGED << hurried, troubled >>
      BY DEF ConfirmRefund, RefundReturns, RefreshAudit
    <2>2. ProcessRefund => UNCHANGED << hurried, troubled >>
      BY DEF ProcessRefund
    <2>3. RefundFails => UNCHANGED hurried /\ (troubled => troubled')
      BY DEF RefundFails
    <2>4. QED
      BY <1>4, <2>1, <2>2, <2>3 DEF Calm
  <1>5. CASE UNCHANGED ledgerVars
    BY <1>5 DEF ledgerVars, Calm
  <1>6. QED
    BY <1>1, <1>2, <1>3, <1>4, <1>5 DEF LedgerNext

\* With no request under way, the rows and the drawer that offer a refund are right.
LEMMA OfferedAtRest ==
  ASSUME LedgerInv, Calm, ~LedgerBusy, NEW c \in Copy, c.status = "succeeded",
         c \in LedgerTable \/ (c = audit /\ c.id \in NewestPayments)
  PROVE  pay[c.id].status = "succeeded"
  <1>1. refund.at = "idle" /\ \A i \in LedgerFetches : ledgerFetch[i].at = "idle"
    BY RefundAtRest DEF LedgerBusy
  <1>2. LedgerFollows /\ AuditFollows
    BY DEF LedgerInv
  <1>3. CASE c \in LedgerTable
    BY <1>1, <1>2, <1>3 DEF LedgerTable, LedgerFollows
  <1>4. CASE c = audit /\ c.id \in NewestPayments
    BY <1>1, <1>2, <1>4 DEF AuditFollows
  <1>5. QED
    BY <1>3, <1>4

\* A refund that Stripe accepts is recorded, and none is recorded without it.
LEMMA ProcessEffect ==
  ASSUME LedgerTypeOK, ProcessRefund
  PROVE  /\ refund.at = "post" /\ refund.id \in PaymentId
         /\ refund'.id = refund.id /\ refund'.audited = refund.audited
         /\ refund'.at \in {"done", "refused"}
         /\ refund'.at = "refused" => UNCHANGED << pay, returned >>
         /\ refund'.at = "done" =>
              /\ pay'[refund.id].status = "refunded"
              /\ returned'[refund.id].times = returned[refund.id].times + 1
         /\ \A p \in PaymentId \ {refund.id} : pay'[p] = pay[p] /\ returned'[p] = returned[p]
         /\ UNCHANGED << ledger, ledgerFetch, audit, modal >>
  <1>1. refund # NoRequest
    BY RefundAtRest DEF ProcessRefund
  <1>2. refund.at = "post" /\ refund.id \in PaymentId
    BY <1>1, RefundKinds DEF ProcessRefund
  <1>3. CASE refund' = [refund EXCEPT !.at = "refused"] /\ UNCHANGED bookVars
    BY <1>1, <1>2, <1>3, RefundKinds DEF ProcessRefund, bookVars, tableSide
  <1>4. ASSUME NEW a,
               returned' = [returned EXCEPT ![refund.id] = [times |-> @.times + 1, sum |-> @.sum + a]],
               pay' = [pay EXCEPT ![refund.id] = [status |-> "refunded", refunded |-> a]],
               refund' = [refund EXCEPT !.at = "done"]
        PROVE  /\ refund'.id = refund.id /\ refund'.audited = refund.audited /\ refund'.at = "done"
               /\ pay'[refund.id].status = "refunded"
               /\ returned'[refund.id].times = returned[refund.id].times + 1
               /\ \A p \in PaymentId \ {refund.id} : pay'[p] = pay[p] /\ returned'[p] = returned[p]
    BY <1>1, <1>2, <1>4, RefundKinds DEF LedgerTypeOK
  <1>5. QED
    BY <1>2, <1>3, <1>4 DEF ProcessRefund, tableSide

\* Only a refund that Stripe accepts writes payments.
LEMMA BooksUnchanged ==
  ASSUME [LedgerNext]_ledgerVars, ~ProcessRefund
  PROVE  UNCHANGED << pay, returned >>
  <1>1. LedgerAnswer \/ OpenLedger => UNCHANGED bookVars
    BY DEF LedgerAnswer, OpenLedger
  <1>2. (\E s \in {"all", "succeeded", "refunded"} : SelectLedger(s)) => UNCHANGED bookVars
    BY DEF SelectLedger
  <1>3. LedgerClick => UNCHANGED bookVars
    BY DEF LedgerClick
  <1>4. ConfirmRefund \/ RefundReturns \/ RefreshAudit \/ RefundFails => UNCHANGED bookVars
    BY DEF ConfirmRefund, RefundReturns, RefreshAudit, RefundFails
  <1>5. QED
    BY <1>1, <1>2, <1>3, <1>4 DEF LedgerNext, ledgerVars, bookVars

LEMMA BooksStay ==
  ASSUME LedgerInv, [LedgerNext]_ledgerVars
  PROVE  SucceededIsUnreturned' /\ RefundedOnce'
  <1>1. LedgerTypeOK /\ SucceededIsUnreturned /\ RefundedOnce
    BY DEF LedgerInv
  <1>2. CASE ProcessRefund
    <2>1. \A p \in PaymentId : pay'[p].status = "succeeded" => returned'[p].times = 0
      BY <1>1, <1>2, ProcessEffect DEF SucceededIsUnreturned
    <2>2. ASSUME Calm', NEW p \in PaymentId \cap NewestPayments
          PROVE  returned'[p].times <= 1
      <3>1. Calm
        BY <1>1, <1>2, <2>2, CalmBefore DEF LedgerNext
      <3>2. returned[p].times \in Nat /\ returned[p].times <= 1
        BY <1>1, <3>1 DEF LedgerTypeOK, RefundedOnce, Calm
      <3>3. p = refund.id => returned[p].times = 0
        BY <1>1, <1>2, <3>1, ProcessEffect DEF LedgerInv, DialogFollows, SucceededIsUnreturned
      <3>4. QED
        BY <1>1, <1>2, <3>2, <3>3, ProcessEffect
    <2>3. QED
      BY <2>1, <2>2 DEF SucceededIsUnreturned, RefundedOnce, Calm
  <1>3. CASE ~ProcessRefund
    <2>1. UNCHANGED << pay, returned >>
      BY <1>3, BooksUnchanged
    <2>2. Calm' => Calm
      BY <1>1, CalmBefore
    <2>3. QED
      BY <1>1, <2>1, <2>2 DEF SucceededIsUnreturned, RefundedOnce, Calm
  <1>4. QED
    BY <1>2, <1>3

LEMMA RowsFollowPay ==
  ASSUME LedgerInv, LedgerNext, Calm, Calm'
  PROVE  LedgerFollows'
  <1>1. LedgerTypeOK /\ LedgerFollows
    BY DEF LedgerInv
  <1>2. CASE LedgerAnswer
    <2>1. PICK i \in LedgerFetches : ListAnswered(i) \/ SumsAnswered(i) \/ LedgerFetchFails(i)
      BY <1>2 DEF LedgerAnswer
    <2>2. UNCHANGED << pay, refund >>
      BY <1>2 DEF LedgerAnswer, bookVars
    <2>3. CASE ListAnswered(i)
      BY <1>1, <2>2, <2>3, CopiesAreCopies DEF ListAnswered, LedgerFollows
    <2>4. CASE SumsAnswered(i)
      <3>1. ledgerFetch[i].at = "sums" /\ ledger' = ledger
        BY <2>4 DEF SumsAnswered
      <3>2. \A j \in LedgerFetches : ledgerFetch[j].at = "list" => ledgerFetch'[j].at = "list"
        BY <1>1, <2>4, <3>1 DEF SumsAnswered, LedgerTypeOK
      <3>3. QED
        BY <1>1, <2>2, <3>1, <3>2 DEF LedgerFollows
    <2>5. CASE LedgerFetchFails(i)
      BY <2>5 DEF LedgerFetchFails, Calm
    <2>6. QED
      BY <2>1, <2>3, <2>4, <2>5
  <1>3. CASE OpenLedger \/ (\E s \in {"all", "succeeded", "refunded"} : SelectLedger(s)) \/ RefundReturns
    <2>1. PICK s \in {"all", "succeeded", "refunded"} : SendLedgerFetch(s)
      BY <1>1, <1>3 DEF OpenLedger, SelectLedger, RefundReturns, LedgerTypeOK
    <2>2. QED
      BY <1>1, <2>1, SendLedgerType DEF LedgerFollows
  <1>4. CASE LedgerClick
    BY <1>1, <1>4 DEF LedgerClick, LedgerFollows, bookVars, tableSide
  <1>5. CASE ConfirmRefund
    BY <1>1, <1>5, RefundAtRest DEF ConfirmRefund, LedgerFollows, bookVars, tableSide
  <1>6. CASE ProcessRefund
    <2>1. refund'.at = "refused" => pay' = pay
      BY <1>1, <1>6, ProcessEffect
    <2>2. refund.at = "post" /\ refund'.at \in {"done", "refused"} /\ UNCHANGED << ledger, ledgerFetch >>
      BY <1>1, <1>6, ProcessEffect
    <2>3. QED
      BY <1>1, <2>1, <2>2 DEF LedgerFollows
  <1>7. CASE RefreshAudit
    BY <1>1, <1>7 DEF RefreshAudit, LedgerFollows, bookVars, tableSide
  <1>8. CASE RefundFails
    <2>1. refund.at = "refused"
      BY <1>8 DEF RefundFails, Calm
    <2>2. QED
      BY <1>1, <1>8, <2>1 DEF RefundFails, LedgerFollows, bookVars, tableSide
  <1>9. QED
    BY <1>2, <1>3, <1>4, <1>5, <1>6, <1>7, <1>8 DEF LedgerNext

LEMMA AuditFollowsPay ==
  ASSUME LedgerInv, LedgerNext, Calm, Calm'
  PROVE  AuditFollows'
  <1>1. LedgerTypeOK /\ AuditFollows
    BY DEF LedgerInv
  <1>2. CASE UNCHANGED << pay, audit, refund >>
    BY <1>1, <1>2 DEF AuditFollows
  <1>3. CASE LedgerClick
    <2>1. ASSUME NEW c \in ledger, OpenAudit(c)
          PROVE  AuditFollows'
      <3>1. ~LedgerBusy
        BY <2>1 DEF OpenAudit, Calm
      <3>2. audit' = c /\ c \in LedgerTable /\ c \in Copy
        BY <1>1, <2>1 DEF OpenAudit, LedgerTypeOK
      <3>3. c.status = "succeeded" => pay[c.id].status = "succeeded"
        BY <3>1, <3>2, OfferedAtRest
      <3>4. refund.at = "idle" /\ UNCHANGED << pay, refund >>
        BY <1>3, <3>1, RefundAtRest DEF LedgerBusy, LedgerClick, bookVars
      <3>5. QED
        BY <3>2, <3>3, <3>4 DEF AuditFollows
    <2>2. CASE CloseAudit
      <3>1. audit' = NoPayment /\ UNCHANGED << pay, refund >>
        BY <1>3, <2>2 DEF CloseAudit, LedgerClick, bookVars
      <3>2. QED
        BY <3>1 DEF AuditFollows, NoPayment
    <2>3. ASSUME ~(\E c \in ledger : OpenAudit(c)), ~CloseAudit
          PROVE  UNCHANGED << pay, audit, refund >>
      BY <1>3, <2>3 DEF LedgerClick, OpenRefund, TypeAmount, CancelRefund, bookVars
    <2>4. QED
      BY <1>2, <2>1, <2>2, <2>3
  <1>4. CASE ConfirmRefund
    <2>1. refund'.at = "post" /\ refund'.id = modal.id /\ (refund'.audited <=> audit.id = modal.id)
          /\ refund.at = "idle" /\ UNCHANGED << pay, audit >>
      BY <1>4, RefundAtRest DEF ConfirmRefund, bookVars
    <2>2. QED
      BY <1>1, <2>1 DEF AuditFollows
  <1>5. CASE ProcessRefund
    <2>1. /\ refund.at = "post" /\ refund'.id = refund.id /\ refund'.audited = refund.audited
          /\ refund'.at = "refused" => pay' = pay
          /\ refund'.at \in {"done", "refused"} /\ audit' = audit
          /\ \A p \in PaymentId \ {refund.id} : pay'[p] = pay[p]
      BY <1>1, <1>5, ProcessEffect
    <2>2. audit.id \in NewestPayments => audit.id \in PaymentId
      BY DEF NewestPayments
    <2>3. QED
      BY <1>1, <2>1, <2>2 DEF AuditFollows
  <1>6. CASE RefundReturns
    <2>1. refund # NoRequest /\ refund.at = "done"
      BY <1>6, RefundAtRest DEF RefundReturns
    <2>2. UNCHANGED << pay, audit >>
      BY <1>6 DEF RefundReturns, bookVars
    <2>3. CASE refund.audited
      <3>1. refund'.at = "refresh" /\ refund'.id = refund.id
        BY <1>1, <1>6, <2>1, <2>3, RefundKinds DEF RefundReturns
      <3>2. QED
        BY <1>1, <2>1, <2>2, <3>1 DEF AuditFollows
    <2>4. CASE ~refund.audited
      <3>1. refund'.at = "idle"
        BY <1>6, <2>4, RefundAtRest DEF RefundReturns
      <3>2. audit.id \in NewestPayments => audit # NoPayment
        BY DEF NewestPayments, PaymentId, NoPayment
      <3>3. QED
        BY <1>1, <2>1, <2>2, <2>4, <3>1, <3>2 DEF AuditFollows
    <2>5. QED
      BY <2>3, <2>4
  <1>7. CASE RefreshAudit
    <2>1. refund'.at = "idle" /\ pay' = pay /\ refund.at = "refresh"
      BY <1>7, RefundAtRest DEF RefreshAudit, bookVars
    <2>2. CASE refund.id \in NewestPayments
      <3>1. audit'.id = refund.id /\ audit'.status = pay[refund.id].status
        BY <1>7, <2>2 DEF RefreshAudit
      <3>2. QED
        BY <2>1, <3>1 DEF AuditFollows
    <2>3. CASE refund.id \notin NewestPayments
      <3>1. audit' = audit
        BY <1>7, <2>3 DEF RefreshAudit
      <3>2. QED
        BY <1>1, <2>1, <2>3, <3>1 DEF AuditFollows
    <2>4. QED
      BY <2>2, <2>3
  <1>8. CASE RefundFails
    <2>1. refund.at = "refused" /\ refund'.at = "idle" /\ UNCHANGED << pay, audit >>
      BY <1>8, RefundAtRest DEF RefundFails, Calm, bookVars
    <2>2. QED
      BY <1>1, <2>1 DEF AuditFollows
  <1>9. CASE OpenLedger \/ LedgerAnswer \/ \E s \in {"all", "succeeded", "refunded"} : SelectLedger(s)
    <2>1. UNCHANGED << pay, audit, refund >>
      BY <1>9 DEF OpenLedger, LedgerAnswer, SelectLedger, bookVars
    <2>2. QED
      BY <1>2, <2>1
  <1>10. QED
    BY <1>3, <1>4, <1>5, <1>6, <1>7, <1>8, <1>9 DEF LedgerNext

LEMMA DialogFollowsPay ==
  ASSUME LedgerInv, LedgerNext, Calm, Calm'
  PROVE  DialogFollows'
  <1>1. LedgerTypeOK /\ DialogFollows
    BY DEF LedgerInv
  <1>2. 0 \notin NewestPayments /\ NoModal.id = 0
    BY DEF NewestPayments, PaymentId, NoModal
  <1>3. CASE LedgerClick
    <2>1. UNCHANGED << pay, refund >>
      BY <1>3 DEF LedgerClick, bookVars
    <2>2. ASSUME NEW c \in ledger \cup {audit}, OpenRefund(c)
          PROVE  DialogFollows'
      <3>1. ~LedgerBusy
        BY <2>2 DEF OpenRefund, Calm
      <3>2. modal'.id = c.id /\ c.status = "succeeded"
        BY <2>2 DEF OpenRefund, RefundOffered
      <3>3. c \in Copy
        BY <1>1, <3>2 DEF LedgerTypeOK, NoPayment
      <3>4. c = audit \/ c \in LedgerTable
        BY <2>2 DEF OpenRefund
      <3>5. c.id \in NewestPayments => pay[c.id].status = "succeeded"
        BY <3>1, <3>2, <3>3, <3>4, OfferedAtRest
      <3>6. QED
        BY <1>1, <2>1, <3>2, <3>5 DEF DialogFollows
    <2>3. ASSUME NEW a \in 0..PayAmount, TypeAmount(a)
          PROVE  DialogFollows'
      <3>1. modal'.id = modal.id
        BY <1>1, <2>3, ModalKinds DEF TypeAmount
      <3>2. QED
        BY <1>1, <2>1, <3>1 DEF DialogFollows
    <2>4. CASE CancelRefund
      BY <1>1, <1>2, <2>1, <2>4 DEF CancelRefund, DialogFollows
    <2>5. CASE CloseAudit \/ \E c \in ledger : OpenAudit(c)
      BY <1>1, <2>1, <2>5 DEF CloseAudit, OpenAudit, DialogFollows
    <2>6. QED
      BY <1>3, <2>2, <2>3, <2>4, <2>5 DEF LedgerClick
  <1>4. CASE ConfirmRefund
    <2>1. refund'.id = modal.id /\ refund.at = "idle" /\ UNCHANGED << pay, modal >>
      BY <1>4, RefundAtRest DEF ConfirmRefund, bookVars
    <2>2. QED
      BY <1>1, <2>1 DEF DialogFollows
  <1>5. CASE ProcessRefund
    <2>1. /\ refund.at = "post" /\ refund'.at \in {"done", "refused"} /\ modal' = modal
          /\ refund'.at = "refused" => pay' = pay
      BY <1>1, <1>5, ProcessEffect
    <2>2. QED
      BY <1>1, <2>1 DEF DialogFollows
  <1>6. CASE RefundReturns
    <2>1. modal' = NoModal /\ refund # NoRequest
      BY <1>6, RefundAtRest DEF RefundReturns
    <2>2. refund'.at \in {"refresh", "idle"}
      BY <1>1, <1>6, <2>1, RefundKinds, RefundAtRest DEF RefundReturns
    <2>3. QED
      BY <1>2, <2>1, <2>2 DEF DialogFollows
  <1>7. CASE RefreshAudit \/ RefundFails
    <2>1. refund'.at = "idle" /\ refund.at # "done" /\ UNCHANGED << pay, modal >>
      BY <1>7, RefundAtRest DEF RefreshAudit, RefundFails, Calm, bookVars
    <2>2. QED
      BY <1>1, <2>1 DEF DialogFollows
  <1>8. CASE OpenLedger \/ LedgerAnswer \/ \E s \in {"all", "succeeded", "refunded"} : SelectLedger(s)
    <2>1. UNCHANGED << pay, modal, refund >>
      BY <1>8 DEF OpenLedger, LedgerAnswer, SelectLedger, bookVars
    <2>2. QED
      BY <1>1, <2>1 DEF DialogFollows
  <1>9. QED
    BY <1>3, <1>4, <1>5, <1>6, <1>7, <1>8 DEF LedgerNext

\* While no request fails and the administrator waits for those under way, what offers
\* a refund on the page agrees with the payments, for any number of payments, of
\* fetches and of clicks (handleOpenRefund, handleProcessRefund).
THEOREM LedgerInvariance == LedgerSpec => []LedgerInv
<1>1. LedgerInit => LedgerInv
  <2> SUFFICES ASSUME LedgerInit
               PROVE  LedgerInv
    OBVIOUS
  <2>1. LedgerTypeOK
    <3>1. 0 \in 0..PayAmount /\ 0 \in Nat
      BY PaymentsDeskAssumption DEF PaymentsDeskAssumption
    <3>2. pay \in [PaymentId -> [status: {"succeeded", "refunded"}, refunded: 0..PayAmount]]
          /\ returned \in [PaymentId -> [times: Nat, sum: 0..PayAmount]]
      BY <3>1 DEF LedgerInit
    <3>3. metrics.loaded \in BOOLEAN
      BY DEF LedgerInit, NoMetrics
    <3>4. QED
      BY <3>1, <3>2, <3>3 DEF LedgerInit, LedgerTypeOK
  <2>2. SucceededIsUnreturned /\ RefundedOnce
    BY DEF LedgerInit, SucceededIsUnreturned, RefundedOnce
  <2>3. LedgerFollows /\ AuditFollows /\ DialogFollows
    BY RefundAtRest DEF LedgerInit, LedgerFollows, AuditFollows, DialogFollows, NoPayment, NoModal,
       NewestPayments, PaymentId
  <2>4. QED
    BY <2>1, <2>2, <2>3 DEF LedgerInv
<1>2. LedgerInv /\ [LedgerNext]_ledgerVars => LedgerInv'
  <2> SUFFICES ASSUME LedgerInv, [LedgerNext]_ledgerVars
               PROVE  LedgerInv'
    OBVIOUS
  <2>1. SucceededIsUnreturned' /\ RefundedOnce' /\ (Calm' => Calm)
    BY BooksStay, CalmBefore DEF LedgerInv
  <2>2. CASE LedgerNext
    BY <2>1, <2>2, LedgerTypeStays, RowsFollowPay, AuditFollowsPay, DialogFollowsPay DEF LedgerInv
  <2>3. CASE UNCHANGED ledgerVars
    <3>1. LedgerTypeOK'
      BY <2>3 DEF LedgerInv, LedgerTypeOK, ledgerVars
    <3>2. Calm' => LedgerFollows' /\ AuditFollows' /\ DialogFollows'
      BY <2>1, <2>3 DEF LedgerInv, LedgerFollows, AuditFollows, DialogFollows, ledgerVars
    <3>3. QED
      BY <2>1, <3>1, <3>2 DEF LedgerInv
  <2>4. QED
    BY <2>2, <2>3
<1>3. QED
  BY <1>1, <1>2, PTL DEF LedgerSpec

\* No payment is refunded twice, whatever the administrator clicks and in whichever order
\* lists, sums and refunds are answered, outside of the cases that the property names.
THEOREM RefundedOnceAlways == LedgerSpec => []RefundedOnce
<1>1. LedgerInv => RefundedOnce
  BY DEF LedgerInv
<1>2. QED
  BY <1>1, LedgerInvariance, PTL

-----------------------------------------------------------------------------
(* CourseEditor: forms.                                                        *)

LEMMA FieldFacts ==
  /\ "slug" \in Fields /\ "image" \in Fields /\ "title" \in Fields
  /\ Kept \subseteq Fields /\ "slug" \notin Kept /\ "level" \notin Kept /\ "hidden" \notin Kept
  /\ Units \subseteq Kept /\ Items \subseteq Fields /\ "slug" \notin Units /\ "image" \notin Units
  BY CourseEditorAssumption DEF CourseEditorAssumption, Fields, Kept, Items, Scalars

LEMMA CleanFacts ==
  ASSUME NEW f \in CourseRow
  PROVE  /\ Clean(f) \in CourseRow /\ Clean(Clean(f)) = Clean(f)
         /\ \A u \in Units : Clean(f)[u] # 1
         /\ \A x \in Fields : (x \in Units => f[x] # 1) => Clean(f)[x] = f[x]
  BY FieldFacts DEF CourseRow, Clean

LEMMA BlankRows == BlankCourse \in CourseRow /\ BlankNvq \in CourseRow /\ NoCourse \in CourseRow
  BY DEF CourseRow, BlankCourse, BlankNvq, NoCourse

LEMMA FormsOfRows ==
  ASSUME NEW r \in CourseRow
  PROVE  /\ CourseForm(r) \in CourseRow /\ NvqForm(r) \in CourseRow
         /\ \A f \in Kept : CourseForm(r)[f] = r[f] /\ NvqForm(r)[f] = r[f]
  <1>1. CourseForm(r) \in CourseRow /\ NvqForm(r) \in CourseRow
    BY DEF CourseRow, CourseForm, NvqForm
  <1>2. \A f \in Kept : CourseForm(r)[f] = r[f] /\ NvqForm(r)[f] = r[f]
    BY FieldFacts DEF CourseForm, NvqForm
  <1>3. QED
    BY <1>1, <1>2

LEMMA WrittenRow ==
  ASSUME NEW filled \in CourseRow, NEW f \in Fields, NEW v \in Nat
  PROVE  /\ Written(filled, f, v) \in CourseRow
         /\ \A x \in Kept \ {f} : Written(filled, f, v)[x] = filled[x]
  BY FieldFacts DEF CourseRow, Written

\* A form in which one field was changed is cleaned of the same units elsewhere.
LEMMA CleanElsewhere ==
  ASSUME NEW f, NEW g, NEW x \in Fields, f[x] = g[x]
  PROVE  Clean(f)[x] = Clean(g)[x]
  BY DEF Clean

-----------------------------------------------------------------------------
(* CourseEditor: pages.                                                        *)

LEMMA OpenPages ==
  ASSUME EditorTypeOK, NEW a \in Authors
  PROVE  /\ edit[a] # NoEdit => edit[a] \in EditPage
         /\ edit[a].at # "closed" => edit[a] # NoEdit
  BY DEF EditorTypeOK, NoEdit

\* A page in which only its state changes.
LEMMA PageAt ==
  ASSUME NEW e \in EditPage, NEW s \in {"loading", "open", "putting", "leaving"}
  PROVE  /\ [e EXCEPT !.at = s] \in EditPage /\ [e EXCEPT !.at = s].at = s
         /\ [e EXCEPT !.at = s].page = e.page /\ [e EXCEPT !.at = s].id = e.id
         /\ [e EXCEPT !.at = s].meant = e.meant /\ [e EXCEPT !.at = s].touched = e.touched
         /\ [e EXCEPT !.at = s].payload = e.payload /\ [e EXCEPT !.at = s].sent = e.sent
         /\ [e EXCEPT !.at = s].stale = e.stale
  BY DEF EditPage

LEMMA PageStale ==
  ASSUME NEW e \in EditPage
  PROVE  /\ [e EXCEPT !.stale = TRUE] \in EditPage /\ [e EXCEPT !.stale = TRUE].stale
         /\ [e EXCEPT !.stale = TRUE].page = e.page /\ [e EXCEPT !.stale = TRUE].id = e.id
         /\ [e EXCEPT !.stale = TRUE].at = e.at /\ [e EXCEPT !.stale = TRUE].payload = e.payload
  BY DEF EditPage

\* One page changes, and it follows the course.
LEMMA OnePage ==
  ASSUME EditorInv, NEW a \in Authors, NEW n, n = NoEdit \/ (n \in EditPage /\ PageFollows(n)),
         edit' = [edit EXCEPT ![a] = n], edits' \in Nat, UNCHANGED << course, due, tainted >>
  PROVE  EditorInv'
  <1>1. edit' \in [Authors -> EditPage \cup {NoEdit}]
    BY DEF EditorInv, EditorTypeOK
  <1>2. EditorTypeOK' /\ RowsAreClean' /\ EditsAreKept'
    BY <1>1 DEF EditorInv, EditorTypeOK, RowsAreClean, EditsAreKept
  <1>3. ASSUME NEW b \in Authors, edit'[b] # NoEdit
        PROVE  PageFollows(edit'[b])
    BY <1>3 DEF EditorInv, EditorTypeOK
  <1>4. \A b \in Authors : edit'[b] # NoEdit => PageFollows(edit[b])'
    BY <1>3 DEF PageFollows
  <1>5. QED
    BY <1>2, <1>4 DEF EditorInv

-----------------------------------------------------------------------------
(* CourseEditor: the steps of a page.                                          *)

-----------------------------------------------------------------------------
(* CourseEditor: the steps of a page.                                          *)

\* What the invariant says of an open page.
LEMMA PageIs ==
  ASSUME EditorInv, NEW a \in Authors, edit[a].at # "closed"
  PROVE  edit[a] # NoEdit /\ edit[a] \in EditPage /\ PageFollows(edit[a])
  BY OpenPages DEF EditorInv

LEMMA OpenKeeps ==
  ASSUME EditorInv, NEW a \in Authors, OpenEditor(a)
  PROVE  EditorInv'
  <1>1. edits' \in Nat /\ UNCHANGED << course, due, tainted >>
    <2>1. edits \in Nat
      BY DEF EditorInv, EditorTypeOK
    <2>2. edits' = edits + 1 /\ UNCHANGED << course, due, tainted >>
      BY DEF OpenEditor, Edit
    <2>3. QED
      BY <2>1, <2>2
  <1>2. /\ CourseTable \subseteq Courses /\ NvqTable \subseteq Courses
        /\ \A c \in CourseTable \cup NvqTable : course[c] # NoCourse
    BY CourseEditorAssumption DEF CourseTable, NvqTable, Listed, CourseEditorAssumption
  <1>3. ASSUME NEW page \in {"course", "nvq"}, NEW c \in CourseTable \cup NvqTable, NEW filled \in CourseRow
        PROVE  Page(page, c, "loading", filled) \in EditPage /\ PageFollows(Page(page, c, "loading", filled))
    <2> DEFINE n == Page(page, c, "loading", filled)
    <2>1. n \in EditPage /\ n.at = "loading" /\ n.page = page /\ n.id = c
      <3>1. page \in {"course", "nvq", "new course", "new nvq"} /\ c \in Courses
            /\ "loading" \in {"loading", "open"}
        BY <1>2
      <3>2. QED
        BY <3>1 DEF Page, EditPage
    <2> HIDE DEF n
    <2>2. PageFollows(n)
      BY <1>2, <2>1 DEF PageFollows
    <2>3. QED
      BY <2>1, <2>2 DEF n
  <1>4. ASSUME NEW page \in {"new course", "new nvq"}, NEW c \in Courses, NEW filled \in CourseRow
        PROVE  Page(page, c, "open", filled) \in EditPage /\ PageFollows(Page(page, c, "open", filled))
    <2> DEFINE n == Page(page, c, "open", filled)
    <2>1. n \in EditPage /\ n.at = "open" /\ n.page = page /\ n.id = c
      <3>1. page \in {"course", "nvq", "new course", "new nvq"} /\ "open" \in {"loading", "open"}
        OBVIOUS
      <3>2. QED
        BY <3>1 DEF Page, EditPage
    <2> HIDE DEF n
    <2>2. PageFollows(n)
      BY <2>1 DEF PageFollows, Edits
    <2>3. QED
      BY <2>1, <2>2 DEF n
  <1>5. NewCourse \in CourseRow /\ NewNvq \in CourseRow /\ BlankCourse \in CourseRow /\ BlankNvq \in CourseRow
    BY BlankRows DEF NewCourse, NewNvq
  <1>6. PICK n \in { Page("course", c, "loading", BlankCourse) : c \in CourseTable }
                   \cup { Page("nvq", c, "loading", BlankNvq) : c \in NvqTable }
                   \cup { Page("new course", c, "open", NewCourse) : c \in Courses \ Nvqs }
                   \cup { Page("new nvq", c, "open", NewNvq) : c \in Nvqs } :
             edit' = [edit EXCEPT ![a] = n]
    BY DEF OpenEditor
  <1>7. n \in EditPage /\ PageFollows(n)
    <2>1. CASE n \in { Page("course", c, "loading", BlankCourse) : c \in CourseTable }
                     \cup { Page("nvq", c, "loading", BlankNvq) : c \in NvqTable }
      <3>1. CASE n \in { Page("course", c, "loading", BlankCourse) : c \in CourseTable }
        <4>1. PICK c \in CourseTable : n = Page("course", c, "loading", BlankCourse)
          BY <3>1
        <4>2. QED
          BY <1>3, <1>5, <4>1
      <3>2. CASE n \in { Page("nvq", c, "loading", BlankNvq) : c \in NvqTable }
        <4>1. PICK c \in NvqTable : n = Page("nvq", c, "loading", BlankNvq)
          BY <3>2
        <4>2. QED
          BY <1>3, <1>5, <4>1
      <3>3. QED
        BY <2>1, <3>1, <3>2
    <2>2. CASE n \in { Page("new course", c, "open", NewCourse) : c \in Courses \ Nvqs }
                     \cup { Page("new nvq", c, "open", NewNvq) : c \in Nvqs }
      <3>1. Nvqs \subseteq Courses
        BY CourseEditorAssumption DEF CourseEditorAssumption
      <3>2. CASE n \in { Page("new course", c, "open", NewCourse) : c \in Courses \ Nvqs }
        <4>1. PICK c \in Courses \ Nvqs : n = Page("new course", c, "open", NewCourse)
          BY <3>2
        <4>2. QED
          BY <1>4, <1>5, <4>1
      <3>3. CASE n \in { Page("new nvq", c, "open", NewNvq) : c \in Nvqs }
        <4>1. PICK c \in Nvqs : n = Page("new nvq", c, "open", NewNvq)
          BY <3>3
        <4>2. QED
          BY <1>4, <1>5, <3>1, <4>1
      <3>4. QED
        BY <2>2, <3>2, <3>3
    <2>3. QED
      BY <2>1, <2>2
  <1>8. QED
    BY <1>1, <1>6, <1>7, OnePage

\* The form that is loaded is that of the course.
LEMMA LoadKeeps ==
  ASSUME EditorInv, NEW a \in Authors, LoadCourse(a)
  PROVE  EditorInv'
  <1> DEFINE e == edit[a]
  <1> DEFINE r == course[e.id]
  <1> DEFINE filled == IF e.page = "course" THEN CourseForm(r) ELSE NvqForm(r)
  <1> DEFINE n == Page(e.page, e.id, "open", filled)
  <1>1. e.at = "loading" /\ e \in EditPage /\ PageFollows(e)
    BY PageIs DEF LoadCourse
  <1>2. /\ edit' = [edit EXCEPT ![a] = n] /\ UNCHANGED << course, edits, due, tainted >>
        /\ edits \in Nat
    BY DEF LoadCourse, EditorInv, EditorTypeOK
  <1>3. e.page \in {"course", "nvq", "new course", "new nvq"} /\ e.id \in Courses
    BY <1>1 DEF EditPage
  <1>4. r \in CourseRow
    BY <1>3 DEF EditorInv, EditorTypeOK
  <1>5. filled \in CourseRow /\ \A f \in Kept : filled[f] = r[f]
    BY <1>4, FormsOfRows
  <1> HIDE DEF filled
  <1>6. n \in EditPage /\ n.at = "open" /\ n.page = e.page /\ n.id = e.id /\ n.meant = filled
    <2>1. "open" \in {"loading", "open"}
      OBVIOUS
    <2>2. QED
      BY <1>3, <1>5, <2>1 DEF Page, EditPage
  <1> HIDE DEF n
  <1>7. \A f \in Kept : Clean(filled)[f] = r[f]
    BY <1>3, <1>5, CleanFacts, FieldFacts DEF EditorInv, RowsAreClean
  <1>8. e.id \notin tainted => \A f \in Kept : Clean(filled)[f] = due[e.id][f]
    BY <1>3, <1>7 DEF EditorInv, EditsAreKept
  <1>9. PageFollows(n)
    BY <1>1, <1>6, <1>8 DEF PageFollows, Edits
  <1>10. QED
    BY <1>2, <1>6, <1>9, OnePage

LEMMA LoadFailsKeeps ==
  ASSUME EditorInv, NEW a \in Authors, LoadFails(a)
  PROVE  EditorInv'
  <1> DEFINE e == edit[a]
  <1> DEFINE m == [e EXCEPT !.at = "open"]
  <1> DEFINE n == [m EXCEPT !.stale = TRUE]
  <1>1. e \in EditPage /\ PageFollows(e)
    BY PageIs DEF LoadFails
  <1>2. /\ edit' = [edit EXCEPT ![a] = [e EXCEPT !.at = "open", !.stale = TRUE]]
        /\ UNCHANGED << course, edits, due, tainted >> /\ edits \in Nat
    BY DEF LoadFails, EditorInv, EditorTypeOK
  <1>3. [e EXCEPT !.at = "open", !.stale = TRUE] = n
    OBVIOUS
  <1>4. m \in EditPage /\ m.at = "open" /\ m.page = e.page /\ m.id = e.id
    BY <1>1, PageAt
  <1> HIDE DEF m
  <1>5. n \in EditPage /\ n.stale /\ n.page = e.page /\ n.id = e.id /\ n.at = "open"
    BY <1>4, PageStale
  <1> HIDE DEF n
  <1>6. PageFollows(n)
    BY <1>1, <1>5 DEF PageFollows, Edits
  <1>7. QED
    BY <1>2, <1>3, <1>5, <1>6, OnePage

\* A field that is changed is not one of those that must be as they were.
LEMMA ChangedKeeps ==
  ASSUME EditorInv, NEW a \in Authors, edit[a].at # "closed", NEW n \in EditPage,
         n.at = edit[a].at, n.page = edit[a].page, n.id = edit[a].id, n.stale = edit[a].stale,
         n.payload = edit[a].payload, n.sent = edit[a].sent, edit[a].touched \subseteq n.touched,
         \A x \in Kept \ n.touched : n.meant[x] = edit[a].meant[x],
         edit' = [edit EXCEPT ![a] = n], edits' \in Nat, UNCHANGED << course, due, tainted >>
  PROVE  EditorInv'
  <1> DEFINE e == edit[a]
  <1>1. e \in EditPage /\ PageFollows(e)
    BY PageIs
  <1>2. \A x \in Kept \ n.touched : Clean(n.meant)[x] = Clean(e.meant)[x]
    BY FieldFacts, CleanElsewhere
  <1>3. PageFollows(n)
    BY <1>1, <1>2 DEF PageFollows, Edits
  <1>4. QED
    BY <1>3, OnePage

\* What is typed, added and removed.
LEMMA EditKeeps ==
  ASSUME EditorInv, NEW a \in Authors, EditStep(a)
  PROVE  EditorInv'
  <1> DEFINE e == edit[a]
  <1>1. edits \in Nat /\ Fresh \in Nat /\ UNCHANGED << course, due, tainted >>
    BY DEF EditorInv, EditorTypeOK, Fresh, EditStep
  <1>2. Offers(a, "image") \/ \E f \in Fields : Offers(a, f)
    BY DEF EditStep, TypeField, AddItem, RemoveItem, UpdateItem, ChooseImage
  <1>3. e.at # "closed" /\ edits' \in Nat
    <2>1. edits' = edits + 1
      BY DEF EditStep, TypeField, AddItem, RemoveItem, UpdateItem, ChooseImage, Edit
    <2>2. e.at \in {"open", "putting", "leaving"}
      BY <1>2 DEF Offers, Open
    <2>3. QED
      BY <1>1, <2>1, <2>2
  <1>4. e \in EditPage /\ PageFollows(e)
    BY <1>3, PageIs
  <1>5. e.form \in CourseRow /\ e.meant \in CourseRow /\ e.copy \in CourseRow /\ e.uploading \in BOOLEAN
    BY <1>4 DEF EditPage
  <1>6. ASSUME NEW f \in Fields, NEW v \in Nat, Write(a, f, v)
        PROVE  EditorInv'
    <2> DEFINE filled == Written(e.form, f, v)
    <2> DEFINE meant == Written(e.meant, f, v)
    <2> DEFINE n == [e EXCEPT !.form = filled, !.meant = meant, !.touched = e.touched \cup {f}]
    <2>1. edit' = [edit EXCEPT ![a] = n]
      BY <1>6 DEF Write
    <2>2. filled \in CourseRow /\ meant \in CourseRow /\ \A x \in Kept \ {f} : meant[x] = e.meant[x]
      BY <1>5, WrittenRow
    <2> HIDE DEF filled, meant
    <2>3. /\ n \in EditPage /\ n.at = e.at /\ n.page = e.page /\ n.id = e.id /\ n.stale = e.stale
          /\ n.payload = e.payload /\ n.sent = e.sent
          /\ n.touched = e.touched \cup {f} /\ n.meant = meant
      BY <1>4, <2>2 DEF EditPage
    <2> HIDE DEF n
    <2>4. QED
      BY <1>1, <1>3, <2>1, <2>2, <2>3, ChangedKeeps
  <1>7. ASSUME NEW i \in Items, UpdateItem(a, i)
        PROVE  EditorInv'
    <2> DEFINE filled == [e.form EXCEPT ![i] = Fresh]
    <2> DEFINE meant == [e.meant EXCEPT ![i] = Fresh]
    <2> DEFINE copy == IF e.copy[i] = 0 \/ i \in Lines THEN e.copy ELSE [e.copy EXCEPT ![i] = Fresh]
    <2> DEFINE n == [e EXCEPT !.form = filled, !.meant = meant, !.touched = e.touched \cup {i}, !.copy = copy]
    <2>1. edit' = [edit EXCEPT ![a] = n]
      BY <1>7 DEF UpdateItem
    <2>2. /\ filled \in CourseRow /\ meant \in CourseRow /\ copy \in CourseRow /\ i \in Fields
          /\ \A x \in Kept \ {i} : meant[x] = e.meant[x]
      BY <1>1, <1>5, FieldFacts DEF CourseRow
    <2> HIDE DEF filled, meant, copy
    <2>3. /\ n \in EditPage /\ n.at = e.at /\ n.page = e.page /\ n.id = e.id /\ n.stale = e.stale
          /\ n.payload = e.payload /\ n.sent = e.sent
          /\ n.touched = e.touched \cup {i} /\ n.meant = meant
      BY <1>4, <2>2 DEF EditPage
    <2> HIDE DEF n
    <2>4. QED
      BY <1>1, <1>3, <2>1, <2>2, <2>3, ChangedKeeps
  <1>8. CASE ChooseImage(a)
    <2> DEFINE n == [e EXCEPT !.uploading = TRUE, !.copy = e.form]
    <2>1. edit' = [edit EXCEPT ![a] = n]
      BY <1>8 DEF ChooseImage
    <2>2. /\ n \in EditPage /\ n.at = e.at /\ n.page = e.page /\ n.id = e.id /\ n.stale = e.stale
          /\ n.payload = e.payload /\ n.sent = e.sent
          /\ n.touched = e.touched /\ n.meant = e.meant
      BY <1>4, <1>5 DEF EditPage
    <2> HIDE DEF n
    <2>3. QED
      BY <1>1, <1>3, <2>1, <2>2, ChangedKeeps
  <1>9. ASSUME NEW f \in Fields, TypeField(a, f) \/ AddItem(a, f) \/ RemoveItem(a, f)
        PROVE  \E v \in Nat : Write(a, f, v)
    BY <1>1, <1>9 DEF TypeField, AddItem, RemoveItem
  <1>10. \A i \in Fields : UpdateItem(a, i) => i \in Items
    BY DEF UpdateItem
  <1>11. QED
    BY <1>6, <1>7, <1>8, <1>9, <1>10 DEF EditStep

\* A picture comes back, or fails to.
LEMMA ImageKeeps ==
  ASSUME EditorInv, NEW a \in Authors, ImageReturns(a) \/ ImageFails(a)
  PROVE  EditorInv'
  <1> DEFINE e == edit[a]
  <1>1. edits \in Nat /\ Fresh \in Nat /\ UNCHANGED << course, edits, due, tainted >>
    BY DEF EditorInv, EditorTypeOK, Fresh, ImageReturns, ImageFails
  <1>2. e.at # "closed"
    BY DEF ImageReturns, ImageFails, Open
  <1>3. e \in EditPage /\ PageFollows(e)
    BY <1>2, PageIs
  <1>4. e.form \in CourseRow /\ e.meant \in CourseRow /\ e.copy \in CourseRow
    BY <1>3 DEF EditPage
  <1>5. CASE ImageReturns(a)
    <2> DEFINE filled == [e.copy EXCEPT !["image"] = Fresh]
    <2> DEFINE meant == [e.meant EXCEPT !["image"] = Fresh]
    <2> DEFINE n == [e EXCEPT !.uploading = FALSE, !.form = filled, !.meant = meant,
                              !.touched = e.touched \cup {"image"}]
    <2>1. edit' = [edit EXCEPT ![a] = n]
      BY <1>5 DEF ImageReturns
    <2>2. /\ filled \in CourseRow /\ meant \in CourseRow /\ "image" \in Fields
          /\ \A x \in Kept \ {"image"} : meant[x] = e.meant[x]
      BY <1>1, <1>4, FieldFacts DEF CourseRow
    <2> HIDE DEF filled, meant
    <2>3. /\ n \in EditPage /\ n.at = e.at /\ n.page = e.page /\ n.id = e.id /\ n.stale = e.stale
          /\ n.payload = e.payload /\ n.sent = e.sent
          /\ n.touched = e.touched \cup {"image"} /\ n.meant = meant
      BY <1>3, <2>2 DEF EditPage
    <2> HIDE DEF n
    <2>4. QED
      BY <1>1, <1>2, <2>1, <2>2, <2>3, ChangedKeeps
  <1>6. CASE ImageFails(a)
    <2> DEFINE n == [e EXCEPT !.uploading = FALSE]
    <2>1. edit' = [edit EXCEPT ![a] = n]
      BY <1>6 DEF ImageFails
    <2>2. /\ n \in EditPage /\ n.at = e.at /\ n.page = e.page /\ n.id = e.id /\ n.stale = e.stale
          /\ n.payload = e.payload /\ n.sent = e.sent
          /\ n.touched = e.touched /\ n.meant = e.meant
      BY <1>3 DEF EditPage
    <2> HIDE DEF n
    <2>3. QED
      BY <1>1, <1>2, <2>1, <2>2, ChangedKeeps
  <1>7. QED
    BY <1>5, <1>6

\* The payload of a save is the form of the click.
LEMMA EditSubmitKeeps ==
  ASSUME EditorInv, NEW a \in Authors, Submit(a)
  PROVE  EditorInv'
  <1> DEFINE e == edit[a]
  <1> DEFINE payload == Clean(e.form)
  <1> DEFINE meant == Clean(e.meant)
  <1> DEFINE n == [e EXCEPT !.at = "putting", !.payload = payload,
                            !.sent = [meant |-> meant, touched |-> e.touched]]
  <1>1. e.at = "open" /\ e \in EditPage /\ PageFollows(e)
    BY PageIs DEF Submit, SubmitCourse, SubmitNvq, SubmitNewCourse, SubmitNewNvq
  <1>2. edit' = [edit EXCEPT ![a] = n] /\ UNCHANGED << course, edits, due, tainted >> /\ edits \in Nat
    BY DEF Submit, EditorInv, EditorTypeOK
  <1>3. e.form \in CourseRow /\ e.meant \in CourseRow /\ e.touched \in SUBSET Fields
    BY <1>1 DEF EditPage
  <1>4. payload \in CourseRow /\ meant \in CourseRow /\ Clean(payload) = payload
    BY <1>3, CleanFacts
  <1> HIDE DEF payload
  <1>5. \A f \in Kept : meant[f] = Clean(e.meant)[f]
    OBVIOUS
  <1> HIDE DEF meant
  <1>6. /\ n \in EditPage /\ n.at = "putting" /\ n.page = e.page /\ n.id = e.id /\ n.stale = e.stale
        /\ n.payload = payload /\ n.sent = [meant |-> meant, touched |-> e.touched]
        /\ n.meant = e.meant /\ n.touched = e.touched
    <2>1. [meant |-> meant, touched |-> e.touched] \in [meant: CourseRow, touched: SUBSET Fields]
      BY <1>3, <1>4
    <2>2. QED
      BY <1>1, <1>4, <2>1 DEF EditPage
  <1>7. n.sent.meant = meant /\ n.sent.touched = e.touched
    BY <1>6
  <1> HIDE DEF n
  <1>8. PageFollows(n)
    BY <1>1, <1>4, <1>5, <1>6, <1>7 DEF PageFollows, Edits
  <1>9. QED
    BY <1>2, <1>6, <1>8, OnePage

LEMMA SaveFailsKeeps ==
  ASSUME EditorInv, NEW a \in Authors, SaveFails(a)
  PROVE  EditorInv'
  <1> DEFINE e == edit[a]
  <1> DEFINE n == [e EXCEPT !.at = "open"]
  <1>1. e.at = "putting" /\ e \in EditPage /\ PageFollows(e)
    BY PageIs DEF SaveFails
  <1>2. edit' = [edit EXCEPT ![a] = n] /\ UNCHANGED << course, edits, due, tainted >> /\ edits \in Nat
    BY DEF SaveFails, EditorInv, EditorTypeOK
  <1>3. /\ n \in EditPage /\ n.at = "open" /\ n.page = e.page /\ n.id = e.id /\ n.stale = e.stale
        /\ n.meant = e.meant /\ n.touched = e.touched
    BY <1>1 DEF EditPage
  <1> HIDE DEF n
  <1>4. PageFollows(n)
    BY <1>1, <1>3 DEF PageFollows, Edits
  <1>5. QED
    BY <1>2, <1>3, <1>4, OnePage

LEMMA EditLeaveKeeps ==
  ASSUME EditorInv, NEW a \in Authors, LeaveEditor(a)
  PROVE  EditorInv'
  BY OnePage DEF LeaveEditor, EditorInv, EditorTypeOK

\* What a save does to the other pages: those of the course are out of date.
LEMMA EditStoreKeeps ==
  ASSUME EditorInv, NEW a \in Authors, StoreCourse(a)
  PROVE  EditorInv'
  <1> DEFINE e == edit[a]
  <1> DEFINE c == e.id
  <1> DEFINE stored == Updated(course[c], e.payload)
  <1> DEFINE owed == Owed(c, e.sent)
  <1>1. e.at = "putting" /\ Edits(e) /\ e \in EditPage /\ PageFollows(e)
    BY PageIs DEF StoreCourse, Edits
  <1>2. /\ course' = [course EXCEPT ![c] = stored] /\ due' = [due EXCEPT ![c] = owed]
        /\ tainted' = IF Reliable(e) THEN tainted ELSE tainted \cup {c}
        /\ edit' = [b \in Authors |->
             CASE b = a -> [edit[b] EXCEPT !.at = "leaving"]
               [] b # a /\ edit[b] # NoEdit /\ edit[b].id = c -> [edit[b] EXCEPT !.stale = TRUE]
               [] OTHER -> edit[b]]
        /\ edits' = edits
    BY DEF StoreCourse
  <1>3. /\ c \in Courses /\ e.payload \in CourseRow /\ e.sent.meant \in CourseRow
        /\ e.sent.touched \in SUBSET Fields
    BY <1>1 DEF EditPage
  <1>4. /\ course \in [Courses -> CourseRow] /\ due \in [Courses -> CourseRow] /\ tainted \subseteq Courses
        /\ edits \in Nat /\ edit \in [Authors -> EditPage \cup {NoEdit}]
    BY DEF EditorInv, EditorTypeOK
  <1>5. course[c] \in CourseRow /\ due[c] \in CourseRow
    BY <1>3, <1>4
  <1>6. /\ stored \in CourseRow /\ stored["slug"] = course[c]["slug"]
        /\ \A f \in Kept : stored[f] = e.payload[f]
    BY <1>3, <1>5, FieldFacts DEF CourseRow, Updated
  <1>7. owed \in CourseRow
        /\ \A f \in Kept : owed[f] = IF f \in e.sent.touched THEN e.sent.meant[f] ELSE due[c][f]
    BY <1>3, <1>5, FieldFacts DEF CourseRow, Owed
  <1> HIDE DEF stored, owed
  <1>8. course'[c] = stored /\ due'[c] = owed
        /\ \A d \in Courses \ {c} : course'[d] = course[d] /\ due'[d] = due[d]
    BY <1>2, <1>3, <1>4
  <1>9. stored["slug"] # 0 /\ stored # NoCourse /\ \A u \in Units : stored[u] # 1
    <2>1. course[c]["slug"] # 0
      BY <1>1, <1>3 DEF PageFollows, EditorInv, RowsAreClean
    <2>2. \A u \in Units : Clean(e.payload)[u] # 1
      BY <1>3, CleanFacts
    <2>3. \A u \in Units : stored[u] # 1
      BY <1>1, <1>6, <2>2, FieldFacts DEF PageFollows
    <2>4. stored # NoCourse
      BY <1>6, <2>1, FieldFacts DEF NoCourse
    <2>5. QED
      BY <1>6, <2>1, <2>3, <2>4
  <1>10. RowsAreClean'
    BY <1>8, <1>9 DEF EditorInv, RowsAreClean
  <1>11. EditsAreKept'
    <2>1. ASSUME c \notin tainted', NEW f \in Kept
          PROVE  stored[f] = owed[f]
      <3>1. ~e.stale /\ Clean(e.payload) = e.sent.meant /\ c \notin tainted
        BY <1>2, <2>1 DEF Reliable
      <3>2. e.payload[f] = e.sent.meant[f]
        BY <1>1, <3>1 DEF PageFollows
      <3>3. f \notin e.sent.touched => e.sent.meant[f] = due[c][f]
        BY <1>1, <2>1, <3>1 DEF PageFollows
      <3>4. QED
        BY <1>6, <1>7, <2>1, <3>2, <3>3
    <2>2. tainted \subseteq tainted'
      BY <1>2
    <2>3. \A d \in Courses \ tainted' : \A f \in Kept : course'[d][f] = due'[d][f]
      BY <1>8, <2>1, <2>2 DEF EditorInv, EditsAreKept
    <2>4. QED
      BY <2>3 DEF EditsAreKept
  <1>12. ASSUME NEW b \in Authors
         PROVE  \/ edit'[b] = NoEdit
                \/ /\ edit'[b] \in EditPage /\ (Edits(edit'[b]) => course'[edit'[b].id] # NoCourse)
                   /\ edit'[b].at = "putting" => Clean(edit'[b].payload) = edit'[b].payload
                   /\ \/ edit'[b].stale \/ edit'[b].at = "leaving"
                      \/ edit'[b] = edit[b] /\ edit[b].id # c /\ PageFollows(edit[b])
    <2>1. CASE b = a
      <3> DEFINE n == [e EXCEPT !.at = "leaving"]
      <3>1. edit'[b] = n
        BY <1>2, <2>1
      <3>2. n \in EditPage /\ n.at = "leaving" /\ n.id = c
        BY <1>1 DEF EditPage
      <3> HIDE DEF n
      <3>3. QED
        BY <1>8, <1>9, <3>1, <3>2
    <2>2. CASE b # a /\ edit[b] # NoEdit /\ edit[b].id = c
      <3> DEFINE n == [edit[b] EXCEPT !.stale = TRUE]
      <3>1. edit'[b] = n
        BY <1>2, <2>2
      <3>2. edit[b] \in EditPage /\ PageFollows(edit[b])
        BY <2>2, OpenPages DEF EditorInv
      <3>3. n \in EditPage /\ n.stale /\ n.id = c /\ n.at = edit[b].at /\ n.payload = edit[b].payload
        BY <2>2, <3>2, PageStale
      <3> HIDE DEF n
      <3>4. QED
        BY <1>8, <1>9, <3>1, <3>2, <3>3 DEF PageFollows
    <2>3. CASE b # a /\ ~(edit[b] # NoEdit /\ edit[b].id = c)
      <3>1. edit'[b] = edit[b]
        BY <1>2, <2>3
      <3>2. CASE edit[b] # NoEdit
        <4>1. edit[b] \in EditPage /\ PageFollows(edit[b]) /\ edit[b].id # c
          BY <2>3, <3>2, OpenPages DEF EditorInv
        <4>2. edit[b].id \in Courses \ {c}
          BY <4>1 DEF EditPage
        <4>3. Edits(edit'[b]) => course'[edit'[b].id] # NoCourse
          BY <1>8, <3>1, <4>1, <4>2 DEF PageFollows
        <4>4. edit'[b].at = "putting" => Clean(edit'[b].payload) = edit'[b].payload
          BY <3>1, <4>1 DEF PageFollows
        <4>5. QED
          BY <3>1, <4>1, <4>3, <4>4
      <3>3. QED
        BY <3>1, <3>2
    <2>4. QED
      BY <2>1, <2>2, <2>3
  <1>13. EditorTypeOK'
    <2>1. edit' \in [Authors -> EditPage \cup {NoEdit}]
      BY <1>2, <1>12
    <2>2. course' \in [Courses -> CourseRow] /\ due' \in [Courses -> CourseRow]
      BY <1>2, <1>4, <1>6, <1>7
    <2>3. tainted' \subseteq Courses
      BY <1>2, <1>3, <1>4
    <2>4. QED
      BY <1>2, <1>4, <2>1, <2>2, <2>3 DEF EditorTypeOK
  <1>14. ASSUME NEW b \in Authors, (edit[b] # NoEdit)'
         PROVE  PageFollows(edit[b])'
    <2>1. CASE edit'[b].stale \/ edit'[b].at = "leaving"
      BY <1>12, <1>14, <2>1 DEF PageFollows, Edits
    <2>2. CASE edit'[b] = edit[b] /\ edit[b].id # c /\ PageFollows(edit[b])
      <3>1. edit[b].id \in Courses \ {c} /\ tainted \subseteq tainted'
        BY <1>2, <1>12, <1>14, <2>2 DEF EditPage
      <3>2. QED
        BY <1>8, <2>2, <3>1 DEF PageFollows, Edits
    <2>3. QED
      BY <1>12, <1>14, <2>1, <2>2
  <1>15. QED
    BY <1>10, <1>11, <1>13, <1>14 DEF EditorInv

\* A new course is what its form was; nobody edits a course that was not there.
LEMMA CreateKeeps ==
  ASSUME EditorInv, NEW a \in Authors, CreateCourse(a)
  PROVE  EditorInv'
  <1> DEFINE e == edit[a]
  <1> DEFINE c == e.id
  <1>1. e.at = "putting" /\ ~Edits(e) /\ e \in EditPage /\ PageFollows(e) /\ e # NoEdit
    BY PageIs DEF CreateCourse, Edits
  <1>2. /\ course[c] = NoCourse /\ (\A d \in Courses : course[d]["slug"] # e.payload["slug"])
        /\ course' = [course EXCEPT ![c] = e.payload] /\ due' = [due EXCEPT ![c] = e.sent.meant]
        /\ tainted' = IF Reliable(e) THEN tainted ELSE tainted \cup {c}
        /\ edit' = [edit EXCEPT ![a] = [e EXCEPT !.at = "leaving"]]
        /\ edits' = edits
    BY DEF CreateCourse
  <1>3. c \in Courses /\ e.payload \in CourseRow /\ e.sent.meant \in CourseRow
    BY <1>1 DEF EditPage
  <1>4. /\ course \in [Courses -> CourseRow] /\ due \in [Courses -> CourseRow] /\ tainted \subseteq Courses
        /\ edits \in Nat /\ edit \in [Authors -> EditPage \cup {NoEdit}]
    BY DEF EditorInv, EditorTypeOK
  <1>5. course'[c] = e.payload /\ due'[c] = e.sent.meant
        /\ \A d \in Courses \ {c} : course'[d] = course[d] /\ due'[d] = due[d]
    BY <1>2, <1>3, <1>4
  <1>6. e.payload["slug"] # 0 /\ e.payload # NoCourse /\ \A u \in Units : e.payload[u] # 1
    <2>1. NoCourse["slug"] = 0
      BY FieldFacts DEF NoCourse
    <2>2. e.payload["slug"] # 0
      BY <1>2, <1>3, <2>1
    <2>3. Clean(e.payload) = e.payload
      BY <1>1 DEF PageFollows
    <2>4. \A u \in Units : e.payload[u] # 1
      BY <1>3, <2>3, CleanFacts
    <2>5. QED
      BY <2>1, <2>2, <2>4
  <1>7. RowsAreClean'
    BY <1>5, <1>6 DEF EditorInv, RowsAreClean
  <1>8. EditsAreKept'
    <2>1. c \notin tainted' => e.payload = e.sent.meant
      BY <1>1, <1>2 DEF Reliable, PageFollows
    <2>2. tainted \subseteq tainted'
      BY <1>2
    <2>3. \A d \in Courses \ tainted' : \A f \in Kept : course'[d][f] = due'[d][f]
      BY <1>5, <2>1, <2>2 DEF EditorInv, EditsAreKept
    <2>4. QED
      BY <2>3 DEF EditsAreKept
  <1> DEFINE n == [e EXCEPT !.at = "leaving"]
  <1>9. n \in EditPage /\ n.at = "leaving" /\ n.page = e.page
    BY <1>1 DEF EditPage
  <1>10. edit' = [edit EXCEPT ![a] = n]
    BY <1>2
  <1> HIDE DEF n
  <1>11. EditorTypeOK'
    <2>1. edit' \in [Authors -> EditPage \cup {NoEdit}]
      BY <1>4, <1>9, <1>10
    <2>2. course' \in [Courses -> CourseRow] /\ due' \in [Courses -> CourseRow] /\ tainted' \subseteq Courses
      BY <1>2, <1>3, <1>4
    <2>3. QED
      BY <1>2, <1>4, <2>1, <2>2 DEF EditorTypeOK
  <1>12. ASSUME NEW b \in Authors, (edit[b] # NoEdit)'
         PROVE  PageFollows(edit[b])'
    <2>1. CASE b = a
      <3>1. edit'[b] = n
        BY <1>4, <1>10, <2>1
      <3>2. QED
        BY <1>1, <1>9, <3>1 DEF PageFollows, Edits
    <2>2. CASE b # a
      <3>1. edit'[b] = edit[b] /\ edit[b] # NoEdit
        BY <1>4, <1>10, <1>12, <2>2
      <3>2. edit[b] \in EditPage /\ PageFollows(edit[b])
        BY <3>1, OpenPages DEF EditorInv
      <3>3. Edits(edit[b]) => edit[b].id \in Courses \ {c} /\ tainted \subseteq tainted'
        BY <1>2, <3>2 DEF EditPage, PageFollows
      <3>4. QED
        BY <1>5, <3>1, <3>2, <3>3 DEF PageFollows, Edits
    <2>3. QED
      BY <2>1, <2>2
  <1>13. QED
    BY <1>7, <1>8, <1>11, <1>12 DEF EditorInv

LEMMA InitEditorInv ==
  ASSUME EditorInit
  PROVE  EditorInv
  <1> DEFINE First(c) == [f \in Fields |-> IF f \in Items \ FirstItems \/ (f = "level" /\ c \notin Nvqs)
                                           THEN 0 ELSE 2]
  <1>1. /\ course = [c \in Courses |-> IF c \in FirstCourses THEN First(c) ELSE NoCourse]
        /\ edit = [a \in Authors |-> NoEdit] /\ edits = 0 /\ due = course /\ tainted = {}
    BY DEF EditorInit
  <1>2. \A c : First(c) \in CourseRow
    BY DEF CourseRow
  <1>3. \A c : First(c)["slug"] = 2 /\ \A u \in Units : First(c)[u] # 1
    BY FieldFacts, CourseEditorAssumption DEF CourseEditorAssumption, Items
  <1>4. \A u \in Units : NoCourse[u] # 1
    BY FieldFacts DEF NoCourse
  <1> HIDE DEF First
  <1>5. course \in [Courses -> CourseRow]
    BY <1>1, <1>2, BlankRows
  <1>6. EditorTypeOK
    BY <1>1, <1>5 DEF EditorTypeOK
  <1>7. RowsAreClean
    BY <1>1, <1>3, <1>4 DEF RowsAreClean
  <1>8. QED
    BY <1>1, <1>6, <1>7 DEF EditorInv, EditsAreKept

\* A form that loaded well, and was not overtaken by another save, holds what is due of its course
\* but for what was changed in it, for any courses, items and administrators
\* (handleSave, handleImageUpload, the load effect, CourseService.Update).
THEOREM EditorInvariance == EditorSpec => []EditorInv
<1>1. EditorInit => EditorInv
  BY InitEditorInv
<1>2. EditorInv /\ [EditorNext]_editorVars => EditorInv'
  <2> SUFFICES ASSUME EditorInv, [EditorNext]_editorVars
               PROVE  EditorInv'
    OBVIOUS
  <2>1. ASSUME NEW a \in Authors,
               \/ OpenEditor(a) \/ LoadCourse(a) \/ LoadFails(a) \/ EditStep(a)
               \/ ImageReturns(a) \/ ImageFails(a) \/ Submit(a)
               \/ StoreCourse(a) \/ CreateCourse(a) \/ SaveFails(a) \/ LeaveEditor(a)
        PROVE  EditorInv'
    BY <2>1, OpenKeeps, LoadKeeps, LoadFailsKeeps, EditKeeps, ImageKeeps, EditSubmitKeeps, EditStoreKeeps, CreateKeeps,
       SaveFailsKeeps, EditLeaveKeeps
  <2>2. CASE UNCHANGED editorVars
    BY <2>2 DEF editorVars, EditorInv, EditorTypeOK, RowsAreClean, EditsAreKept, PageFollows
  <2>3. QED
    BY <2>1, <2>2 DEF EditorNext
<1>3. QED
  BY <1>1, <1>2, PTL DEF EditorSpec

\* What administrators changed and saved is in the database, whoever saved the course last and
\* whatever else the form held, but for the courses that the property excepts.
THEOREM EditsAreKeptAlways == EditorSpec => []EditsAreKept
<1>1. EditorInv => EditsAreKept
  BY DEF EditorInv
<1>2. QED
  BY <1>1, EditorInvariance, PTL

-----------------------------------------------------------------------------
(* The pages side by side.                                                     *)

LEMMA ScreensStepOfPages ==
  ASSUME [ScreensNext]_screenVars
  PROVE  /\ [DeskNext]_deskVars /\ [LedgerNext]_ledgerVars /\ [CardsNext]_cardVars /\ [EditorNext]_editorVars
         /\ [EnquiriesNext]_enquiryVars /\ [ShopNext]_shopVars /\ [RecordNext]_recordVars /\ [FormNext]_formVars
<1>1. CASE BackOfficeNext
  BY <1>1 DEF BackOfficeNext, shopFront
<1>2. CASE ShopFrontNext
  BY <1>2 DEF ShopFrontNext, backOffice
<1>3. CASE UNCHANGED screenVars
  BY <1>3 DEF screenVars, backOffice, shopFront
<1>4. QED
  BY <1>1, <1>2, <1>3 DEF ScreensNext

\* A behaviour of the pages is one of each of them: they share no state.
LEMMA ScreensIsItsPages ==
  ScreensSpec => /\ DeskSpec /\ LedgerSpec /\ CardsSpec /\ EditorSpec
                 /\ EnquiriesSpec /\ CheckoutSpec /\ RecordSpec /\ FormSpec
<1>1. ScreensInit => /\ DeskInit /\ LedgerInit /\ CardsInit /\ EditorInit
                     /\ EnquiriesInit /\ CheckoutInit /\ RecordInit /\ FormInit
  BY DEF ScreensInit
<1>2. [ScreensNext]_screenVars
        => /\ [DeskNext]_deskVars /\ [LedgerNext]_ledgerVars /\ [CardsNext]_cardVars /\ [EditorNext]_editorVars
           /\ [EnquiriesNext]_enquiryVars /\ [ShopNext]_shopVars /\ [RecordNext]_recordVars /\ [FormNext]_formVars
  BY ScreensStepOfPages
<1>3. QED
  BY <1>1, <1>2, PTL DEF ScreensSpec, DeskSpec, LedgerSpec, CardsSpec, EditorSpec, EnquiriesSpec,
                         CheckoutSpec, RecordSpec, FormSpec

\* The rows, the lists, the forms and the requests under way of the eight pages keep the
\* shapes the code gives them.
THEOREM ScreensTypesAlways == ScreensSpec => []ScreensTypeOK
<1>1. DeskInv /\ LedgerInv /\ CardsInv /\ EditorInv /\ BoardInv /\ PricedInv /\ RecordInv /\ MessageInv
        => ScreensTypeOK
  BY DEF DeskInv, LedgerInv, CardsInv, EditorInv, BoardInv, PricedInv, RecordInv, MessageInv, ScreensTypeOK
<1>2. QED
  BY <1>1, ScreensIsItsPages, DeskInvariance, LedgerInvariance, CardsInvariance, EditorInvariance,
     BoardInvariance, PricedInvariance, RecordInvariance, MessageInvariance, PTL
=============================================================================
