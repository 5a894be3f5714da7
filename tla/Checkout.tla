-------------------------------- MODULE Checkout --------------------------------
(* From the shop to a paid booking: the cart of one browser                    *)
(* (lib/store/cartStore.ts), the copy of it that the server keeps as a draft,   *)
(* the checkout page that fetches that copy back, and the booking that is made *)
(* of the cart and paid. What is typed into the form is the module             *)
(* BookingRecord's matter: here every change of it sends the cart once more.   *)
EXTENDS Integers, FiniteSets, Sequences, SequencesExt

CONSTANTS
  Tests, Lessons, CardItems, \* what can be put into a cart: tests, courses, and cards of the table cards
  OnSale,            \* courses with a sale price
  CartLimit,         \* items in a cart (4)
  DefaultFee,        \* the booking fee of the checkout page, and the fee at first (12.50)
  DraftRequests,     \* bound: requests under way that write the draft
  MaxOrders,         \* bound: bookings
  MaxShopClicks      \* bound: clicks of the customer, and changes of prices

ASSUME CheckoutAssumption ==
  /\ Tests \cap Lessons = {} /\ (Tests \cup Lessons) \cap CardItems = {}
  /\ OnSale \subseteq Lessons
  /\ CartLimit \in Nat /\ DefaultFee \in Nat \ {0}
  /\ DraftRequests \in Nat /\ MaxOrders \in Nat /\ MaxShopClicks \in Nat

VARIABLES
  cart,        \* items of the store
  draft,       \* server: checkout_draft, and the number of the request that wrote it
  posts,       \* requests of syncWithRedis and of the deletion, under way
  posted,      \* how many there were
  place,       \* the page: the shop, the checkout page or the confirmation
  restore,     \* the draft that a checkout page asked for; old when that page was left
  created,     \* createdBookingId, as a place in orders; 0 for none
  order,       \* handleCreateBooking under way
  orders,      \* server: bookings, with what the customer saw when confirming
  tariff,      \* server: citb_test_price and citb_booking_fee
  shopClicks,
  overtaken,   \* history: the draft was read, or written, while it was behind the cart
  swapped      \* history: a draft took the place of a cart that was not the same

shopVars == << cart, draft, posts, posted, place, restore, created, order, orders, tariff,
               shopClicks, overtaken, swapped >>
draftVars == << draft, posts, posted, restore, overtaken, swapped >>
orderVars == << created, order, orders >>

Products == Tests \cup Lessons \cup CardItems
CartItem == [id: Products, price: Nat]
Ids(items) == { items[i].id : i \in DOMAIN items }
NoRestore == [at |-> "none", old |-> FALSE]
NoOrder == [at |-> "idle"]

\* The type of an item is that of the page that offers it.
KindOf(p) == CASE p \in Tests -> "test" [] p \in Lessons -> "course" [] p \in CardItems -> "nvq"

ListPrice == 2
SalePrice == 1

\* What the shop asks for: the setting for a test, the price for the others.
ShopPrice(p) == IF p \in Tests THEN tariff.test ELSE ListPrice

Total(prices) == FoldLeft(LAMBDA s, x : s + x, 0, prices)
SumOf(items) == Total([i \in DOMAIN items |-> items[i].price])

\* 20 % VAT, in fifths of the unit of the prices.
WithVat(x) == 6 * x

\* The summary beside the form: every item bears the fee if the first one is a test.
SidebarTotal(items) ==
  WithVat(SumOf(items) + (IF items # << >> /\ KindOf(items[1].id) = "test"
                          THEN Len(items) * DefaultFee ELSE 0))

\* The page of the cart: each test bears the fee of the settings.
CartTotal(items) ==
  WithVat(SumOf(items) + tariff.fee * Cardinality({ i \in DOMAIN items : KindOf(items[i].id) = "test" }))

\* Mutant: the booking fee of a test is forgotten.
AuthoritativeWithoutFee(kind, p) ==
  CASE kind = "test" -> tariff.test
    [] kind # "test" /\ p \in OnSale -> SalePrice
    [] kind # "test" /\ p \in Lessons \ OnSale -> ListPrice
    [] OTHER -> 0

\* The server's price: the type is that of the first item; a card is no course.
Authoritative(kind, p) ==
  CASE kind = "test" -> tariff.test + tariff.fee
    [] kind # "test" /\ p \in OnSale -> SalePrice
    [] kind # "test" /\ p \in Lessons \ OnSale -> ListPrice
    [] OTHER -> 0

ServerTotal(items) ==
  LET kind == KindOf(items[1].id)
  IN WithVat(Total([i \in DOMAIN items |-> Authoritative(kind, items[i].id)]))

\* What a list of bookings brings of a booking's items, for the drawer of the
\* administrator and for the invoice: its rows in any order, for the query asks for
\* none, or nothing when that query fails.
ItemsRead(b) ==
  LET rows == DOMAIN b.items
  IN {<< >>} \cup { [i \in rows |-> b.items[p[i]]] : p \in Bijection(rows, rows) }

-----------------------------------------------------------------------------
CheckoutInit ==
  /\ cart = << >>
  /\ draft = [n |-> 0, items |-> << >>]
  /\ posts = {}
  /\ posted = 0
  /\ place = "shop"
  /\ restore = NoRestore
  /\ created = 0
  /\ order = NoOrder
  /\ orders = << >>
  /\ tariff = [test |-> ListPrice, fee |-> DefaultFee]
  /\ shopClicks = 0
  /\ overtaken = FALSE
  /\ swapped = FALSE

ClickShop == shopClicks < MaxShopClicks /\ shopClicks' = shopClicks + 1

\* set({ items }) and syncWithRedis(items); the answer is not waited for.
Store(items) ==
  /\ Cardinality(posts) < DraftRequests
  /\ cart' = items
  /\ posts' = posts \cup {[n |-> posted + 1, items |-> items]}
  /\ posted' = posted + 1
  /\ overtaken' = (overtaken \/ (restore.at = "answered" /\ items # cart))
  /\ UNCHANGED << draft, restore, swapped >>

\* addItem: an item that is in the cart, or one too many, opens the sidebar or an
\* alert instead.
AddItemToCart(p) ==
  /\ p \notin Ids(cart)
  /\ Len(cart) < CartLimit
  /\ Store(Append(cart, [id |-> p, price |-> ShopPrice(p)]))

\* The page of the tests goes on to the checkout page.
BookTest(p) ==
  /\ p \in Tests
  /\ AddItemToCart(p)
  /\ place' = "checkout"
BookCourse(p) == p \in Lessons /\ AddItemToCart(p) /\ UNCHANGED place
BookCscsCard(p) == p \in CardItems /\ AddItemToCart(p) /\ UNCHANGED place
BookCpcsCard(p) == BookCscsCard(p)

\* The filter of removeItem.
Without(items, p) == FoldLeft(LAMBDA s, i : IF i.id = p THEN s ELSE Append(s, i), << >>, items)

\* Mutant: a removal is not synchronised.
RemoveUnsynced(p) ==
  /\ p \in Ids(cart)
  /\ cart' = Without(cart, p)
  /\ UNCHANGED draftVars

\* The buttons of the cart's sidebar and of its page.
RemoveFromCart(p) ==
  /\ p \in Ids(cart)
  /\ Store(Without(cart, p))
ClearCart == cart # << >> /\ Store(<< >>)

ShopStep ==
  /\ place = "shop"
  /\ ClickShop
  /\ \/ \E p \in Products : BookTest(p) \/ BookCourse(p) \/ BookCscsCard(p) \/ BookCpcsCard(p)
     \/ (ClearCart \/ \E p \in Products : RemoveFromCart(p)) /\ UNCHANGED place
  /\ UNCHANGED << orderVars, tariff >>

\* A POST is lost, or it writes the draft over whatever an other one wrote.
SaveDraft(r) ==
  /\ r \in posts
  /\ posts' = posts \ {r}
  /\ \/ draft' = r /\ overtaken' = (overtaken \/ draft.n > r.n)
     \/ draft' = draft /\ overtaken' = TRUE
  /\ UNCHANGED << cart, posted, place, restore, orderVars, tariff, shopClicks, swapped >>

-----------------------------------------------------------------------------
(* The checkout page. *)

OpenCheckout ==
  /\ place = "shop"
  /\ ClickShop
  /\ place' = "checkout"
  /\ UNCHANGED << cart, draftVars, orderVars, tariff >>

\* The effect of the mount asks for the draft; the model has one such request at
\* a time.
AskDraft ==
  /\ place = "checkout" /\ restore = NoRestore
  /\ restore' = [at |-> "asked", old |-> FALSE]
  /\ UNCHANGED << cart, draft, posts, posted, place, orderVars, tariff, shopClicks, overtaken, swapped >>

\* A request that fails brings no items.
GetDraft ==
  /\ restore.at = "asked"
  /\ restore' \in { [at |-> "answered", old |-> restore.old, items |-> i] : i \in {draft.items, << >>} }
  /\ overtaken' = (overtaken \/ draft.items # cart)
  /\ UNCHANGED << cart, draft, posts, posted, place, orderVars, tariff, shopClicks, swapped >>

\* setItems(draft.cartItems), of a draft that holds something; there is no sync. The
\* store is that of the browser: the draft of a page that was left is put there too.
RestoreCart ==
  /\ restore.at = "answered"
  /\ cart' = IF restore.items = << >> THEN cart ELSE restore.items
  /\ swapped' = (swapped \/ cart' # cart)
  /\ restore' = IF restore.old THEN NoRestore ELSE [at |-> "done", old |-> FALSE]
  /\ UNCHANGED << draft, posts, posted, place, orderVars, tariff, shopClicks, overtaken >>

\* handleRemoveItem: removing the last item deletes the draft as well, which
\* leaves no items in it as the request of the store does. An empty cart takes
\* the form off the page, and with it the booking that was created.
RemoveAtCheckout(p) ==
  /\ place = "checkout"
  /\ ClickShop
  /\ RemoveFromCart(p)
  /\ created' = IF cart' = << >> THEN 0 ELSE created
  /\ order' = IF cart' = << >> /\ order # NoOrder THEN [order EXCEPT !.watched = FALSE] ELSE order
  /\ UNCHANGED << place, orders, tariff >>

\* updateForm: each change of a field sends the cart along with the form, as long as
\* the fields are enabled. Of a draft the page reads the cart alone.
TypeDetails ==
  /\ place = "checkout" /\ created = 0 /\ cart # << >>
  /\ ClickShop
  /\ Store(cart)
  /\ UNCHANGED << place, orderVars, tariff >>

\* A link, or a page loaded anew: the page forgets the booking and does not wait
\* for its answer any more. A link leaves the fetch of the draft under way.
LeaveCheckout ==
  /\ place # "shop"
  /\ ClickShop
  /\ place' = "shop"
  /\ restore' \in {NoRestore} \cup { [restore EXCEPT !.old = TRUE] : x \in {restore.at} \cap {"asked", "answered"} }
  /\ created' = 0
  /\ order' = IF order = NoOrder THEN order ELSE [order EXCEPT !.watched = FALSE]
  /\ UNCHANGED << cart, draft, posts, posted, orders, tariff, overtaken, swapped >>

-----------------------------------------------------------------------------
(* The booking. *)

\* handleCreateBooking: the button is disabled while a booking is being created,
\* and gone when there is one. The fields stay as they were.
CreateBooking ==
  /\ place = "checkout" /\ created = 0 /\ cart # << >>
  /\ order = NoOrder
  /\ ClickShop
  /\ order' = [at |-> "sent", want |-> cart, shown |-> SidebarTotal(cart), watched |-> TRUE]
  /\ UNCHANGED << cart, draftVars, place, created, orders, tariff >>

\* The server computes the total and inserts the booking.
InsertBooking ==
  /\ order.at = "sent"
  /\ Len(orders) < MaxOrders
  /\ orders' = Append(orders, [want |-> order.want, shown |-> order.shown, listed |-> CartTotal(order.want),
                               total |-> ServerTotal(order.want), items |-> << >>, status |-> "pending",
                               current |-> /\ tariff.fee = DefaultFee
                                           /\ \A i \in DOMAIN order.want :
                                                order.want[i].price = ShopPrice(order.want[i].id)])
  /\ order' = [at |-> "items", row |-> Len(orders) + 1, watched |-> order.watched]
  /\ UNCHANGED << cart, draftVars, place, created, tariff, shopClicks >>

\* The items are inserted one by one. course_id refers to courses: the id of a
\* card is refused. An item that is refused, or fails, ends the request.
InsertItem ==
  /\ order.at = "items"
  /\ LET b == orders[order.row]
         i == b.want[Len(b.items) + 1].id
     IN /\ Len(b.items) < Len(b.want)
        /\ \/ i \notin CardItems /\ orders' = [orders EXCEPT ![order.row].items = Append(@, i)]
                                 /\ order' = order
           \/ orders' = orders /\ order' = [order EXCEPT !.at = "failed"]
  /\ UNCHANGED << cart, draftVars, place, created, tariff, shopClicks >>

\* Mutant: the booking is answered before its items are inserted.
BookingCreatedEarly ==
  /\ order.at = "items"
  /\ created' = IF order.watched THEN order.row ELSE created
  /\ order' = NoOrder
  /\ UNCHANGED << cart, draftVars, place, orders, tariff, shopClicks >>

\* setCreatedBookingId, if the form still waits.
BookingCreated ==
  /\ order.at = "items"
  /\ Len(orders[order.row].items) = Len(orders[order.row].want)
  /\ created' = IF order.watched THEN order.row ELSE created
  /\ order' = NoOrder
  /\ UNCHANGED << cart, draftVars, place, orders, tariff, shopClicks >>

\* An error, or an answer that is lost: the form can be submitted again.
BookingFails ==
  /\ order # NoOrder
  /\ order' = NoOrder
  /\ UNCHANGED << cart, draftVars, place, created, orders, tariff, shopClicks >>

\* The PayPal button of the booking: an approval shows the confirmation. The cart
\* stays as it is.
ApprovePayment ==
  /\ created # 0 /\ place = "checkout"
  /\ ClickShop
  /\ orders' = [orders EXCEPT ![created].status = "paid"]
  /\ place' = "confirmation"
  /\ created' = 0
  /\ UNCHANGED << cart, draftVars, order, tariff >>

\* onCancel: the booking is cancelled, or the request fails and the error is
\* dropped; the page is loaded again.
CancelPayment ==
  /\ created # 0 /\ place = "checkout"
  /\ ClickShop
  /\ orders' \in { [orders EXCEPT ![created].status = s] : s \in {"pending", "cancelled"} }
  /\ created' = 0
  /\ restore' = NoRestore
  /\ UNCHANGED << cart, draft, posts, posted, place, order, tariff, overtaken, swapped >>

\* An administrator changes a setting.
Reprice ==
  /\ ClickShop
  /\ \E k \in {"test", "fee"} : tariff[k] \in {ListPrice, DefaultFee}
                                /\ tariff' = [tariff EXCEPT ![k] = ListPrice + DefaultFee]
  /\ UNCHANGED << cart, draftVars, place, orderVars >>

ShopNext ==
  \/ ShopStep \/ \E r \in posts : SaveDraft(r)
  \/ OpenCheckout \/ AskDraft \/ GetDraft \/ RestoreCart \/ LeaveCheckout
  \/ TypeDetails \/ \E p \in Products : RemoveAtCheckout(p)
  \/ CreateBooking \/ InsertBooking \/ InsertItem \/ BookingCreated \/ BookingFails
  \/ ApprovePayment \/ CancelPayment \/ Reprice

CheckoutSpec == CheckoutInit /\ [][ShopNext]_shopVars

-----------------------------------------------------------------------------
CheckoutTypeOK ==
  /\ cart \in Seq(CartItem)
  /\ draft.n \in Nat /\ draft.items \in Seq(CartItem)
  /\ \A r \in posts : r.n \in 1..posted /\ r.items \in Seq(CartItem)
  /\ posted \in Nat /\ shopClicks \in Nat
  /\ place \in {"shop", "checkout", "confirmation"}
  /\ restore.at \in {"none", "asked", "answered", "done"} /\ restore.old \in BOOLEAN
  /\ created \in 0..Len(orders)
  /\ order.at \in {"idle", "sent", "items", "failed"}
  /\ orders \in Seq([want: Seq(CartItem), shown: Nat, listed: Nat, total: Nat, items: Seq(Products),
                     status: {"pending", "paid", "cancelled"}, current: BOOLEAN])
  /\ tariff \in [test: Nat, fee: Nat]
  /\ {overtaken, swapped} \subseteq BOOLEAN

\* The draft that the checkout page fetches brings back no cart but the one that
\* is there, unless a request that writes it was lost or late, or the cart was
\* changed while the page waited for the draft (syncWithRedis, the effect of the
\* checkout page, SaveDraft). Otherwise an item that was just added vanishes, or one
\* that was removed is back.
DraftKeepsCart == swapped => overtaken

\* How often p is among the products s.
Times(p, s) == Cardinality({ i \in DOMAIN s : s[i] = p })

\* Of the booking that the customer is asked to pay, and of one that is paid, the office
\* and the customer see all items of the cart that was confirmed, each as often as it
\* is there, or none when the items cannot be read: never a part of them, although the
\* items are inserted one by one and without a transaction (BookingService.Create,
\* handleCreateBooking, BookingRepository.List and ListByUser).
PaidIsWhole ==
  \A n \in DOMAIN orders :
     LET b == orders[n]
     IN n = created \/ b.status = "paid" =>
          \A s \in ItemsRead(b) :
             s = << >> \/ \A p \in Products : Times(p, s) = Times(p, [i \in 1..Len(b.want) |-> b.want[i].id])

OneKind(items) == \A i \in DOMAIN items : KindOf(items[i].id) = KindOf(items[1].id)

\* The total of a booking is that of the summary beside the form and of the page of
\* the cart, for a cart of tests only, or of courses only of which none is on sale,
\* whose prices and fee have not changed since (BookingSummarySidebar, the page of the
\* cart, BookingService.Create). A cart of several kinds is priced as if all
\* were of the kind of the first, and a card costs nothing.
PricedAsShown ==
  \A n \in DOMAIN orders :
     LET b == orders[n]
     IN b.current /\ OneKind(b.want) /\ Ids(b.want) \cap (CardItems \cup OnSale) = {}
        => b.total = b.shown /\ b.total = b.listed

-----------------------------------------------------------------------------
(* What makes PaidIsWhole inductive. *)

\* The items of a booking are a beginning of the cart that was confirmed.
OrdersGrow ==
  /\ Len(orders) \in Nat
  /\ orders = [n \in 1..Len(orders) |-> orders[n]]
  /\ \A n \in 1..Len(orders) :
        LET b == orders[n]
        IN /\ b = [want |-> b.want, shown |-> b.shown, listed |-> b.listed, total |-> b.total,
                   items |-> b.items, status |-> b.status, current |-> b.current]
           /\ Len(b.items) \in Nat
           /\ b.items = [i \in 1..Len(b.items) |-> b.want[i].id]

\* The request that inserts the items of a booking has inserted the booking.
OrderOfRow ==
  /\ created \in 0..Len(orders)
  /\ \/ order = NoOrder
     \/ /\ order.at = "sent"
        /\ order = [at |-> "sent", want |-> order.want, shown |-> order.shown, watched |-> order.watched]
     \/ /\ order.at \in {"items", "failed"}
        /\ order = [at |-> order.at, row |-> order.row, watched |-> order.watched]
        /\ order.row \in 1..Len(orders)

WholeIfAsked ==
  \A n \in 1..Len(orders) :
     n = created \/ orders[n].status = "paid" => Len(orders[n].items) = Len(orders[n].want)

OrdersInv == OrdersGrow /\ OrderOfRow /\ WholeIfAsked

-----------------------------------------------------------------------------
(* What makes DraftKeepsCart inductive. *)

\* The requests that have written the draft, or still may.
Writes == posts \cup {draft}

WritesKnown ==
  /\ posted \in Nat
  /\ \A r \in Writes : r.n \in 0..posted
  /\ \/ restore.at # "answered" /\ restore = [at |-> restore.at, old |-> restore.old]
     \/ restore = [at |-> "answered", old |-> restore.old, items |-> restore.items]

\* The newest request holds the cart, and an answer that has come brings the cart or nothing.
DraftFollows ==
  ~overtaken =>
    /\ ~swapped
    /\ \E r \in Writes : r.n = posted
    /\ \A r \in Writes : r.n = posted => r.items = cart
    /\ restore.at = "answered" => restore.items \in {<< >>, cart}

DraftInv == WritesKnown /\ DraftFollows

-----------------------------------------------------------------------------
(* What makes PricedAsShown inductive. *)

\* The answer that brings a draft brings items of a cart, and a booking that is asked
\* for shows the total of the summary beside the form.
UnderWay ==
  /\ restore.at = "answered" => restore.items \in Seq(CartItem)
  /\ order.at = "sent" => /\ order.want \in Seq(CartItem) /\ order.want # << >>
                          /\ order.shown = SidebarTotal(order.want)

PricedInv == CheckoutTypeOK /\ UnderWay /\ PricedAsShown
=============================================================================
