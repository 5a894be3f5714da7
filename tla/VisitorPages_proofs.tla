-------------------------- MODULE VisitorPages_proofs --------------------------
(* Proofs about the pages of a visitor and the messages of the office: a booking *)
(* that the customer is asked to pay holds every item of the cart, for any       *)
(* products, prices and number of bookings, the draft follows the cart, and the  *)
(* total is the one that was shown (Checkout); the messages of the form that     *)
(* signs a visitor in are those of what is typed by now (VisitorForms); what the *)
(* pages show of a booking is what was entered (BookingRecord); what is written  *)
(* to the office is stored once, and its page shows what is stored (Enquiries).  *)
EXTENDS Checkout, VisitorForms, BookingRecord, Enquiries, SequenceTheorems, FiniteSetTheorems,
        WellFoundedInduction, TLAPS

-----------------------------------------------------------------------------
(* Checkout: whole bookings.                                                   *)

\* A function on 1..n is a sequence of length n.
LEMMA IsSequence ==
  ASSUME NEW n \in Nat, NEW S, NEW s \in [1..n -> S]
  PROVE  s \in Seq(S) /\ Len(s) = n
  OBVIOUS

\* What appending does to a sequence of which only the domain is known.
LEMMA AppendShape ==
  ASSUME NEW s, Len(s) \in Nat, NEW f, s = [i \in 1..Len(s) |-> f[i]], NEW e
  PROVE  /\ Len(Append(s, e)) = Len(s) + 1
         /\ Append(s, e) = [i \in 1..Len(s) + 1 |-> IF i = Len(s) + 1 THEN e ELSE f[i]]
  <1> DEFINE S == { f[i] : i \in 1..Len(s) } \cup {e}
  <1>1. s \in [1..Len(s) -> S]
    OBVIOUS
  <1>2. s \in Seq(S) /\ e \in S
    BY <1>1, IsSequence
  <1> HIDE DEF S
  <1>3. /\ Append(s, e) \in Seq(S)
        /\ Len(Append(s, e)) = Len(s) + 1
        /\ \A i \in 1..Len(s) : Append(s, e)[i] = s[i]
        /\ Append(s, e)[Len(s) + 1] = e
    BY <1>2, AppendProperties
  <1>4. \A i \in 1..Len(s) : s[i] = f[i]
    OBVIOUS
  <1>5. Append(s, e) = [i \in 1..Len(s) + 1 |-> Append(s, e)[i]]
    BY <1>3, LenProperties
  <1>6. \A i \in 1..Len(s) + 1 : Append(s, e)[i] = IF i = Len(s) + 1 THEN e ELSE f[i]
    BY <1>3, <1>4
  <1> QED
    BY <1>3, <1>5, <1>6

\* A booking in which only the items or the status change.
LEMMA BookingShape ==
  ASSUME NEW b, b = [want |-> b.want, shown |-> b.shown, listed |-> b.listed, total |-> b.total,
                     items |-> b.items, status |-> b.status, current |-> b.current],
         NEW x
  PROVE  /\ [b EXCEPT !.status = x] = [want |-> b.want, shown |-> b.shown, listed |-> b.listed, total |-> b.total,
                                       items |-> b.items, status |-> x, current |-> b.current]
         /\ [b EXCEPT !.items = x] = [want |-> b.want, shown |-> b.shown, listed |-> b.listed, total |-> b.total,
                                      items |-> x, status |-> b.status, current |-> b.current]
  OBVIOUS

\* The clauses of OrdersGrow for one booking.
LEMMA BookingParts ==
  ASSUME OrdersGrow, NEW n \in 1..Len(orders)
  PROVE  /\ orders[n] = [want |-> orders[n].want, shown |-> orders[n].shown, listed |-> orders[n].listed,
                         total |-> orders[n].total, items |-> orders[n].items,
                         status |-> orders[n].status, current |-> orders[n].current]
         /\ Len(orders[n].items) \in Nat
         /\ orders[n].items = [i \in 1..Len(orders[n].items) |-> orders[n].want[i].id]
  BY DEF OrdersGrow

\* Changing a booking leaves as many of them.
LEMMA OrdersExcept ==
  ASSUME OrdersGrow, NEW n \in 1..Len(orders), NEW b, orders' = [orders EXCEPT ![n] = b]
  PROVE  /\ Len(orders') = Len(orders)
         /\ orders' = [m \in 1..Len(orders) |-> orders'[m]]
         /\ orders'[n] = b
         /\ \A m \in 1..Len(orders) : m # n => orders'[m] = orders[m]
  <1> DEFINE k == Len(orders)
  <1>1. k \in Nat /\ orders = [m \in 1..k |-> orders[m]]
    BY DEF OrdersGrow
  <1> HIDE DEF k
  <1>2. orders' = [m \in 1..k |-> orders'[m]] /\ orders'[n] = b
        /\ \A m \in 1..k : m # n => orders'[m] = orders[m]
    BY <1>1 DEF k
  <1> DEFINE S == { orders'[m] : m \in 1..k }
  <1>3. orders' \in [1..k -> S]
    BY <1>2
  <1>4. Len(orders') = k
    BY <1>1, <1>3, IsSequence
  <1> QED
    BY <1>2, <1>4 DEF k

\* A booking whose status changes to one that its items allow.
LEMMA StatusChanges ==
  ASSUME OrdersInv, NEW n \in 1..Len(orders), n = created, NEW s,
         orders' = [orders EXCEPT ![n].status = s], created' = 0,
         order' = order
  PROVE  OrdersInv'
  <1> DEFINE b == [orders[n] EXCEPT !.status = s]
  <1>1. OrdersGrow /\ OrderOfRow /\ WholeIfAsked
    BY DEF OrdersInv
  <1>2. /\ b = [want |-> orders[n].want, shown |-> orders[n].shown, listed |-> orders[n].listed,
                total |-> orders[n].total, items |-> orders[n].items, status |-> s,
                current |-> orders[n].current]
    BY <1>1, BookingParts, BookingShape
  <1>3. orders' = [orders EXCEPT ![n] = b]
    OBVIOUS
  <1> HIDE DEF b
  <1>4. /\ Len(orders') = Len(orders)
        /\ orders' = [m \in 1..Len(orders) |-> orders'[m]]
        /\ orders'[n] = b
        /\ \A m \in 1..Len(orders) : m # n => orders'[m] = orders[m]
    BY <1>1, <1>3, OrdersExcept
  <1>5. OrdersGrow'
    <2>1. ASSUME NEW m \in 1..Len(orders)
          PROVE  /\ orders'[m] = [want |-> orders'[m].want, shown |-> orders'[m].shown,
                                  listed |-> orders'[m].listed, total |-> orders'[m].total,
                                  items |-> orders'[m].items, status |-> orders'[m].status,
                                  current |-> orders'[m].current]
                 /\ Len(orders'[m].items) \in Nat
                 /\ orders'[m].items = [i \in 1..Len(orders'[m].items) |-> orders'[m].want[i].id]
      <3>1. CASE m # n
        BY <1>1, <1>4, <3>1, BookingParts
      <3>2. CASE m = n
        <4>1. orders'[m].items = orders[n].items /\ orders'[m].want = orders[n].want
          BY <1>2, <1>4, <3>2
        <4>2. /\ Len(orders[n].items) \in Nat
              /\ orders[n].items = [i \in 1..Len(orders[n].items) |-> orders[n].want[i].id]
          BY <1>1, BookingParts
        <4>3. orders'[m] = [want |-> orders'[m].want, shown |-> orders'[m].shown,
                            listed |-> orders'[m].listed, total |-> orders'[m].total,
                            items |-> orders'[m].items, status |-> orders'[m].status,
                            current |-> orders'[m].current]
          BY <1>2, <1>4, <3>2
        <4> QED
          BY <4>1, <4>2, <4>3
      <3> QED
        BY <3>1, <3>2
    <2>2. Len(orders') \in Nat
      BY <1>1, <1>4 DEF OrdersGrow
    <2> QED
      BY <1>4, <2>1, <2>2 DEF OrdersGrow
  <1>6. OrderOfRow'
    <2>1. created' \in 0..Len(orders')
      BY <1>1, <1>4 DEF OrdersGrow
    <2> QED
      BY <1>1, <1>4, <2>1 DEF OrderOfRow
  <1>7. WholeIfAsked'
    <2>1. Len(orders[n].items) = Len(orders[n].want)
      BY <1>1 DEF WholeIfAsked
    <2>2. orders'[n].items = orders[n].items /\ orders'[n].want = orders[n].want
      BY <1>2, <1>4
    <2> QED
      BY <1>1, <1>4, <2>1, <2>2 DEF WholeIfAsked
  <1> QED
    BY <1>5, <1>6, <1>7 DEF OrdersInv

\* Steps that leave the bookings alone, and no more of them created or under way.
LEMMA OrdersUnchanged ==
  ASSUME OrdersInv, UNCHANGED orders, created' \in {created, 0},
         \/ order' = order \/ order' = NoOrder
         \/ order # NoOrder /\ order' = [order EXCEPT !.watched = FALSE]
         \/ order.at = "items" /\ order' = [order EXCEPT !.at = "failed"]
  PROVE  OrdersInv'
  <1>1. OrdersGrow' /\ WholeIfAsked'
    BY DEF OrdersInv, OrdersGrow, WholeIfAsked
  <1>2. Len(orders) \in Nat
    BY DEF OrdersInv, OrdersGrow
  <1>3. OrderOfRow
    BY DEF OrdersInv
  <1>4. created' \in 0..Len(orders)
    BY <1>2, <1>3 DEF OrderOfRow
  <1>5. CASE order' = order \/ order' = NoOrder
    BY <1>1, <1>3, <1>4, <1>5 DEF OrdersInv, OrderOfRow
  <1>6. CASE order # NoOrder /\ order' = [order EXCEPT !.watched = FALSE]
    <2>1. CASE order.at = "sent"
      <3>1. PICK w, s, x : order = [at |-> "sent", want |-> w, shown |-> s, watched |-> x]
        BY <1>3, <1>6, <2>1 DEF OrderOfRow
      <3>2. order' = [at |-> "sent", want |-> w, shown |-> s, watched |-> FALSE]
        BY <1>6, <3>1
      <3> QED
        BY <1>1, <1>4, <3>2 DEF OrdersInv, OrderOfRow
    <2>2. CASE order.at # "sent"
      <3>1. /\ order = [at |-> order.at, row |-> order.row, watched |-> order.watched]
            /\ order.at \in {"items", "failed"} /\ order.row \in 1..Len(orders)
        BY <1>3, <1>6, <2>2 DEF OrderOfRow
      <3>2. order' = [at |-> order.at, row |-> order.row, watched |-> FALSE]
        BY <1>6, <3>1
      <3> QED
        BY <1>1, <1>4, <3>1, <3>2 DEF OrdersInv, OrderOfRow
    <2> QED
      BY <2>1, <2>2
  <1>7. CASE order.at = "items" /\ order' = [order EXCEPT !.at = "failed"]
    <2>1. /\ order = [at |-> order.at, row |-> order.row, watched |-> order.watched]
          /\ order.row \in 1..Len(orders)
      BY <1>3, <1>7 DEF OrderOfRow, NoOrder
    <2>2. order' = [at |-> "failed", row |-> order.row, watched |-> order.watched]
      BY <1>7, <2>1
    <2> QED
      BY <1>1, <1>4, <2>1, <2>2 DEF OrdersInv, OrderOfRow
  <1> QED
    BY <1>5, <1>6, <1>7

LEMMA InsertBookingKeeps ==
  ASSUME OrdersInv, InsertBooking
  PROVE  OrdersInv'
  <1>1. OrdersGrow /\ OrderOfRow /\ WholeIfAsked
    BY DEF OrdersInv
  <1> DEFINE b == [want |-> order.want, shown |-> order.shown, listed |-> CartTotal(order.want),
                   total |-> ServerTotal(order.want), items |-> << >>, status |-> "pending",
                   current |-> /\ tariff.fee = DefaultFee
                               /\ \A i \in DOMAIN order.want :
                                    order.want[i].price = ShopPrice(order.want[i].id)]
  <1>2. orders' = Append(orders, b) /\ created' = created
        /\ order' = [at |-> "items", row |-> Len(orders) + 1, watched |-> order.watched]
    BY DEF InsertBooking
  <1>3. /\ b.items = << >> /\ b.status = "pending"
        /\ b = [want |-> b.want, shown |-> b.shown, listed |-> b.listed, total |-> b.total,
                items |-> b.items, status |-> b.status, current |-> b.current]
    OBVIOUS
  <1> HIDE DEF b
  <1> DEFINE k == Len(orders)
  <1>4. k \in Nat /\ orders = [m \in 1..k |-> orders[m]]
    BY <1>1 DEF OrdersGrow
  <1>5. /\ Len(orders') = k + 1
        /\ orders' = [m \in 1..k + 1 |-> IF m = k + 1 THEN b ELSE orders[m]]
    BY <1>2, <1>4, AppendShape
  <1> HIDE DEF k
  <1>6. /\ orders'[k + 1] = b
        /\ \A m \in 1..k : orders'[m] = orders[m]
        /\ orders' = [m \in 1..k + 1 |-> orders'[m]]
    BY <1>4, <1>5
  <1>7. \A m \in 1..k + 1 : m \in 1..k \/ m = k + 1
    BY <1>4
  <1>8. OrdersGrow'
    <2>1. Len(b.items) \in Nat /\ b.items = [i \in 1..Len(b.items) |-> b.want[i].id]
      <3>1. Len(b.items) = 0
        BY <1>3
      <3>2. << >> = [i \in 1..0 |-> b.want[i].id]
        OBVIOUS
      <3> QED
        BY <1>3, <3>1, <3>2
    <2>2. ASSUME NEW m \in 1..k + 1
          PROVE  /\ orders'[m] = [want |-> orders'[m].want, shown |-> orders'[m].shown,
                                  listed |-> orders'[m].listed, total |-> orders'[m].total,
                                  items |-> orders'[m].items, status |-> orders'[m].status,
                                  current |-> orders'[m].current]
                 /\ Len(orders'[m].items) \in Nat
                 /\ orders'[m].items = [i \in 1..Len(orders'[m].items) |-> orders'[m].want[i].id]
      <3>1. CASE m \in 1..k
        BY <1>1, <1>6, <3>1, BookingParts DEF k
      <3>2. CASE m = k + 1
        BY <1>3, <1>6, <2>1, <3>2
      <3> QED
        BY <1>7, <3>1, <3>2
    <2>3. Len(orders') \in Nat /\ orders' = [m \in 1..Len(orders') |-> orders'[m]]
      <3>1. Len(orders') = k + 1 /\ k + 1 \in Nat
        BY <1>4, <1>5
      <3> QED
        BY <1>6, <3>1, Zenon
    <2>4. 1..Len(orders') = 1..k + 1
      BY <1>5
    <2> QED
      BY <2>2, <2>3, <2>4 DEF OrdersGrow
  <1>9. OrderOfRow'
    <2>1. created' \in 0..Len(orders')
      BY <1>1, <1>2, <1>4, <1>5 DEF OrderOfRow, k
    <2>2. /\ order'.at \in {"items", "failed"}
          /\ order' = [at |-> order'.at, row |-> order'.row, watched |-> order'.watched]
          /\ order'.row = k + 1
      BY <1>2 DEF k
    <2>3. order'.row \in 1..Len(orders')
      BY <1>4, <1>5, <2>2
    <2> QED
      BY <2>1, <2>2, <2>3 DEF OrderOfRow
  <1>10. WholeIfAsked'
    <2>1. created # k + 1 /\ created' = created
      BY <1>1, <1>2, <1>4 DEF OrderOfRow, k
    <2>2. ASSUME NEW m \in 1..k + 1, m = created' \/ orders'[m].status = "paid"
          PROVE  Len(orders'[m].items) = Len(orders'[m].want)
      <3>1. m \in 1..k
        BY <1>3, <1>6, <1>7, <2>1, <2>2
      <3> QED
        BY <1>1, <1>6, <2>1, <2>2, <3>1 DEF WholeIfAsked, k
    <2> QED
      BY <1>5, <2>2 DEF WholeIfAsked
  <1> QED
    BY <1>8, <1>9, <1>10 DEF OrdersInv

\* One item more: a booking that grows was not whole, and nobody was asked to pay it.
LEMMA InsertItemKeeps ==
  ASSUME OrdersInv, NEW n \in 1..Len(orders), Len(orders[n].items) < Len(orders[n].want),
         orders' = [orders EXCEPT ![n].items = Append(@, orders[n].want[Len(orders[n].items) + 1].id)],
         UNCHANGED << created, order >>
  PROVE  OrdersInv'
  <1>1. OrdersGrow /\ OrderOfRow /\ WholeIfAsked
    BY DEF OrdersInv
  <1> DEFINE b == orders[n]
  <1> DEFINE k == Len(orders[n].items)
  <1> DEFINE items == Append(orders[n].items, orders[n].want[k + 1].id)
  <1>2. k \in Nat /\ orders[n].items = [i \in 1..k |-> orders[n].want[i].id]
    BY <1>1, BookingParts
  <1>3. /\ Len(items) = k + 1
        /\ items = [i \in 1..k + 1 |-> orders[n].want[i].id]
    <2> DEFINE f == [i \in 1..k |-> orders[n].want[i].id]
    <2>1. orders[n].items = [i \in 1..k |-> f[i]]
      BY <1>2
    <2>2. /\ Len(items) = k + 1
          /\ items = [i \in 1..k + 1 |-> IF i = k + 1 THEN orders[n].want[k + 1].id ELSE f[i]]
      BY <1>2, <2>1, AppendShape
    <2>3. \A i \in 1..k + 1 : (IF i = k + 1 THEN orders[n].want[k + 1].id ELSE f[i]) = orders[n].want[i].id
      BY <1>2
    <2> HIDE DEF items, k, f
    <2> QED
      BY <2>2, <2>3
  <1>4. orders' = [orders EXCEPT ![n] = [orders[n] EXCEPT !.items = items]]
    OBVIOUS
  <1> DEFINE new == [orders[n] EXCEPT !.items = items]
  <1>5. new = [want |-> b.want, shown |-> b.shown, listed |-> b.listed, total |-> b.total,
               items |-> items, status |-> b.status, current |-> b.current]
    BY <1>1, BookingParts, BookingShape
  <1>6. orders' = [orders EXCEPT ![n] = new]
    BY <1>4
  <1>7. k < Len(orders[n].want)
    OBVIOUS
  <1> HIDE DEF new, items, k
  <1>8. /\ Len(orders') = Len(orders)
        /\ orders' = [m \in 1..Len(orders) |-> orders'[m]]
        /\ orders'[n] = new
        /\ \A m \in 1..Len(orders) : m # n => orders'[m] = orders[m]
    BY <1>1, <1>6, OrdersExcept
  <1>9. new.want = b.want /\ new.items = items /\ new.status = b.status
    BY <1>5
  <1>10. OrdersGrow'
    <2>1. ASSUME NEW m \in 1..Len(orders)
          PROVE  /\ orders'[m] = [want |-> orders'[m].want, shown |-> orders'[m].shown,
                                  listed |-> orders'[m].listed, total |-> orders'[m].total,
                                  items |-> orders'[m].items, status |-> orders'[m].status,
                                  current |-> orders'[m].current]
                 /\ Len(orders'[m].items) \in Nat
                 /\ orders'[m].items = [i \in 1..Len(orders'[m].items) |-> orders'[m].want[i].id]
      <3>1. CASE m # n
        BY <1>1, <1>8, <3>1, BookingParts
      <3>2. CASE m = n
        <4>1. orders'[m] = [want |-> orders'[m].want, shown |-> orders'[m].shown,
                            listed |-> orders'[m].listed, total |-> orders'[m].total,
                            items |-> orders'[m].items, status |-> orders'[m].status,
                            current |-> orders'[m].current]
          BY <1>5, <1>8, <3>2
        <4>2. k + 1 \in Nat
          BY <1>2
        <4> QED
          BY <1>3, <1>8, <1>9, <3>2, <4>1, <4>2
      <3> QED
        BY <3>1, <3>2
    <2>2. Len(orders') \in Nat
      BY <1>1, <1>8 DEF OrdersGrow
    <2> QED
      BY <1>8, <2>1, <2>2 DEF OrdersGrow
  <1>11. OrderOfRow'
    BY <1>1, <1>8 DEF OrderOfRow
  <1>12. WholeIfAsked'
    <2>1. k # Len(orders[n].want)
      BY <1>2, <1>7
    <2>2. ~(n = created \/ orders[n].status = "paid")
      BY <1>1, <2>1 DEF WholeIfAsked, k
    <2> QED
      BY <1>1, <1>8, <1>9, <2>2 DEF WholeIfAsked
  <1> QED
    BY <1>10, <1>11, <1>12 DEF OrdersInv

\* The booking that is answered is whole.
LEMMA BookingCreatedKeeps ==
  ASSUME OrdersInv, BookingCreated
  PROVE  OrdersInv'
  <1>1. order.row \in 1..Len(orders) /\ Len(orders) \in Nat
    BY DEF OrdersInv, OrderOfRow, OrdersGrow, BookingCreated, NoOrder
  <1>2. UNCHANGED orders /\ order' = NoOrder /\ created' \in {created, order.row}
    BY DEF BookingCreated
  <1>3. OrdersGrow'
    BY <1>2 DEF OrdersInv, OrdersGrow
  <1>4. OrderOfRow'
    BY <1>1, <1>2 DEF OrdersInv, OrderOfRow
  <1>5. WholeIfAsked'
    BY <1>2 DEF OrdersInv, WholeIfAsked, BookingCreated
  <1> QED
    BY <1>3, <1>4, <1>5 DEF OrdersInv

LEMMA OrdersStay ==
  ASSUME OrdersInv, ShopNext
  PROVE  OrdersInv'
  <1>1. CASE \/ ShopStep \/ \E r \in posts : SaveDraft(r)
             \/ OpenCheckout \/ AskDraft \/ GetDraft \/ RestoreCart \/ TypeDetails \/ Reprice
    <2>1. UNCHANGED << orders, order, created >>
      BY <1>1 DEF ShopStep, SaveDraft, OpenCheckout, AskDraft, GetDraft, RestoreCart, TypeDetails, Reprice,
                  orderVars
    <2> QED
      BY <2>1, OrdersUnchanged
  <1>2. CASE LeaveCheckout
    BY <1>2, OrdersUnchanged DEF LeaveCheckout
  <1>3. ASSUME NEW p \in Products, RemoveAtCheckout(p) PROVE OrdersInv'
    BY <1>3, OrdersUnchanged DEF RemoveAtCheckout
  <1>4. CASE CreateBooking
    <2>1. /\ UNCHANGED << created, orders >>
          /\ order' = [at |-> "sent", want |-> cart, shown |-> SidebarTotal(cart), watched |-> TRUE]
      BY <1>4 DEF CreateBooking
    <2>2. OrdersGrow' /\ WholeIfAsked'
      BY <2>1 DEF OrdersInv, OrdersGrow, WholeIfAsked
    <2>3. OrderOfRow'
      BY <2>1 DEF OrdersInv, OrderOfRow
    <2> QED
      BY <2>2, <2>3 DEF OrdersInv
  <1>5. CASE InsertBooking
    BY <1>5, InsertBookingKeeps
  <1>6. CASE InsertItem
    <2>1. order.at = "items" /\ order.row \in 1..Len(orders)
      BY <1>6 DEF InsertItem, OrdersInv, OrderOfRow, NoOrder
    <2>2. /\ Len(orders[order.row].items) < Len(orders[order.row].want)
          /\ UNCHANGED created
      BY <1>6 DEF InsertItem
    <2>3. CASE orders' = orders /\ order' = [order EXCEPT !.at = "failed"]
      BY <2>1, <2>2, <2>3, OrdersUnchanged
    <2>4. CASE /\ orders' = [orders EXCEPT ![order.row].items =
                                Append(@, orders[order.row].want[Len(orders[order.row].items) + 1].id)]
               /\ order' = order
      BY <2>1, <2>2, <2>4, InsertItemKeeps
    <2> QED
      BY <1>6, <2>3, <2>4 DEF InsertItem
  <1>7. CASE BookingCreated
    BY <1>7, BookingCreatedKeeps
  <1>8. CASE BookingFails
    BY <1>8, OrdersUnchanged DEF BookingFails
  <1>9. CASE ApprovePayment \/ CancelPayment
    <2>1. created \in 1..Len(orders)
      BY <1>9 DEF ApprovePayment, CancelPayment, OrdersInv, OrderOfRow, OrdersGrow
    <2>2. PICK s \in {"paid", "pending", "cancelled"} : orders' = [orders EXCEPT ![created].status = s]
      BY <1>9 DEF ApprovePayment, CancelPayment
    <2>3. created' = 0 /\ order' = order
      BY <1>9 DEF ApprovePayment, CancelPayment
    <2> QED
      BY <2>1, <2>2, <2>3, StatusChanges
  <1> QED
    BY <1>1, <1>2, <1>3, <1>4, <1>5, <1>6, <1>7, <1>8, <1>9 DEF ShopNext

\* The items of every booking are a beginning of the cart that was confirmed, and
\* all of it for one that the customer is asked to pay (BookingService.Create,
\* handleCreateBooking).
THEOREM OrdersInvariance == CheckoutSpec => []OrdersInv
  <1>1. CheckoutInit => OrdersInv
    <2> SUFFICES ASSUME CheckoutInit PROVE OrdersInv
      OBVIOUS
    <2>1. orders = << >> /\ created = 0 /\ order = NoOrder
      BY DEF CheckoutInit
    <2>2. Len(orders) = 0 /\ 1..Len(orders) = {}
      BY <2>1
    <2>3. OrdersGrow
      <3>1. << >> = [n \in 1..0 |-> orders[n]]
        OBVIOUS
      <3> QED
        BY <2>1, <2>2, <3>1 DEF OrdersGrow
    <2>4. OrderOfRow /\ WholeIfAsked
      BY <2>1, <2>2 DEF OrderOfRow, WholeIfAsked
    <2> QED
      BY <2>3, <2>4 DEF OrdersInv
  <1>2. OrdersInv /\ [ShopNext]_shopVars => OrdersInv'
    <2> SUFFICES ASSUME OrdersInv, [ShopNext]_shopVars PROVE OrdersInv'
      OBVIOUS
    <2>1. CASE ShopNext
      BY <2>1, OrdersStay
    <2>2. CASE UNCHANGED shopVars
      BY <2>2, OrdersUnchanged DEF shopVars
    <2> QED
      BY <2>1, <2>2
  <1> QED
    BY <1>1, <1>2, PTL DEF CheckoutSpec

\* Reading the rows of a list in another order leaves how often each of them is there.
LEMMA TimesReordered ==
  ASSUME NEW m \in Nat, NEW items, DOMAIN items = 1..m, NEW q \in Bijection(1..m, 1..m),
         NEW s, s = [i \in 1..m |-> items[q[i]]], NEW x
  PROVE  Times(x, s) = Times(x, items)
  <1> DEFINE S == { i \in 1..m : items[q[i]] = x }
  <1> DEFINE T == { i \in 1..m : items[i] = x }
  <1> DEFINE f == [i \in S |-> q[i]]
  <1>1. /\ q \in [1..m -> 1..m]
        /\ \A i, j \in 1..m : q[i] = q[j] => i = j
        /\ \A k \in 1..m : \E i \in 1..m : q[i] = k
    BY DEF Bijection, Injection, Surjection, IsInjective
  <1>2. f \in [S -> T]
    BY <1>1
  <1>3. \A i, j \in S : f[i] = f[j] => i = j
    BY <1>1
  <1>4. \A k \in T : \E i \in S : f[i] = k
    BY <1>1
  <1>5. IsFiniteSet(S)
    <2>1. IsFiniteSet(1..m)
      BY FS_Interval
    <2> QED
      BY <2>1, FS_Subset
  <1> HIDE DEF S, T, f
  <1>6. f \in Bijection(S, T)
    BY <1>2, <1>3, <1>4 DEF Bijection, Injection, Surjection, IsInjective
  <1>7. Cardinality(S) = Cardinality(T)
    BY <1>5, <1>6, FS_Bijection DEF ExistsBijection
  <1>8. { i \in DOMAIN s : s[i] = x } = S
    BY DEF S
  <1>9. { i \in DOMAIN items : items[i] = x } = T
    BY DEF T
  <1> QED
    BY <1>7, <1>8, <1>9 DEF Times

\* Of a booking that the customer is asked to pay, or has paid, every item of the cart
\* is read as often as it is there, in whatever order, or none, though its items are
\* inserted one by one and without a transaction (BookingService.Create,
\* BookingRepository.List and ListByUser).
THEOREM PaidIsWholeAlways == CheckoutSpec => []PaidIsWhole
  <1>1. OrdersInv => PaidIsWhole
    <2> SUFFICES ASSUME OrdersInv, NEW n \in DOMAIN orders, n = created \/ orders[n].status = "paid",
                        NEW s \in ItemsRead(orders[n]), s # << >>, NEW p \in Products
                 PROVE  Times(p, s) = Times(p, [i \in 1..Len(orders[n].want) |-> orders[n].want[i].id])
      BY DEF PaidIsWhole
    <2>1. OrdersGrow /\ WholeIfAsked
      BY DEF OrdersInv
    <2>2. n \in 1..Len(orders)
      BY <2>1 DEF OrdersGrow
    <2> DEFINE m == Len(orders[n].want)
    <2>3. Len(orders[n].items) = m /\ m \in Nat
      BY <2>1, <2>2, BookingParts DEF WholeIfAsked
    <2>4. orders[n].items = [i \in 1..m |-> orders[n].want[i].id]
      BY <2>1, <2>2, <2>3, BookingParts
    <2> HIDE DEF m
    <2>5. DOMAIN orders[n].items = 1..m
      BY <2>4
    <2>6. PICK q \in Bijection(1..m, 1..m) : s = [i \in 1..m |-> orders[n].items[q[i]]]
      BY <2>5 DEF ItemsRead
    <2>7. Times(p, s) = Times(p, orders[n].items)
      BY <2>3, <2>5, <2>6, TimesReordered
    <2> QED
      BY <2>4, <2>7 DEF m
  <1> QED
    BY <1>1, OrdersInvariance, PTL

-----------------------------------------------------------------------------
(* The form that signs a visitor in or up.                                     *)

MessageInv == FormTypeOK /\ MessagesAreCurrent

LEMMA ChangeKeeps ==
  ASSUME MessageInv, NEW f \in FormFields, NEW v \in FieldValues(f), ChangeField(f, v)
  PROVE  MessageInv'
  <1> USE DEF WithError
  <1>1. FormTypeOK /\ MessagesAreCurrent
    BY DEF MessageInv
  <1>2. /\ f \in FieldsOnPage /\ UNCHANGED << isLogin, touched, succeeded >>
        /\ typed' = [typed EXCEPT ![f] = v]
    BY DEF ChangeField
  <1>3. typed'[f] = v /\ DOMAIN typed' = FormFields
        /\ \A g \in FormFields : g # f => typed'[g] = typed[g]
    BY <1>1, <1>2 DEF FormTypeOK
  <1>4. FieldsOnPage' = FieldsOnPage
    BY <1>2 DEF FieldsOnPage
  <1>5. touched \subseteq FormFields
    BY <1>1 DEF FormTypeOK, FieldsOnPage, FormFields
  <1>6. \A g \in FormFields : typed'[g] \in FieldValues(g)
    BY <1>1, <1>3 DEF FormTypeOK
  <1> DEFINE own == IF f \in touched THEN WithError(errors, f, ~Valid(f, v, typed["password"])) ELSE errors
  <1>7. errors' = IF f = "password" /\ "confirmPassword" \in touched /\ ~isLogin
                  THEN WithError(own, "confirmPassword", typed["confirmPassword"] # v)
                  ELSE own
    BY DEF ChangeField
  <1>8. own \subseteq touched /\ \A g \in touched : g # f => (g \in own <=> g \in errors)
    BY <1>1 DEF FormTypeOK
  <1>9. f \in touched => (f \in own <=> ~Valid(f, v, typed["password"]))
    OBVIOUS
  <1> HIDE DEF own
  <1>10. FormTypeOK'
    <2>1. errors' \subseteq touched
      BY <1>7, <1>8
    <2> QED
      BY <1>1, <1>2, <1>3, <1>4, <1>6, <2>1 DEF FormTypeOK
  <1>11. MessagesAreCurrent'
    <2> SUFFICES ASSUME NEW g \in touched
                 PROVE  \/ g \in errors' <=> ~Valid(g, typed[g], typed["password"])'
                        \/ g = "confirmPassword" /\ typed'[g] = "" /\ typed'["password"] = ""
      BY <1>2 DEF MessagesAreCurrent
    <2>1. g \in FieldsOnPage
      BY <1>1 DEF FormTypeOK
    <2>2. \/ g \in errors <=> ~Valid(g, typed[g], typed["password"])
          \/ g = "confirmPassword" /\ typed[g] = "" /\ typed["password"] = ""
      BY <1>1 DEF MessagesAreCurrent
    <2>3. CASE f # "password"
      <3>1. errors' = own /\ typed'["password"] = typed["password"]
        BY <1>3, <1>7, <2>3 DEF FormFields
      <3>2. CASE g = f
        BY <1>2, <1>3, <1>9, <3>1, <3>2 DEF Valid
      <3>3. CASE g # f
        BY <1>2, <1>3, <1>5, <1>8, <2>2, <3>1, <3>3 DEF Valid
      <3> QED
        BY <3>2, <3>3
    <2>4. CASE f = "password"
      <3>1. CASE g = "password"
        <4>1. g \in errors' <=> g \in own
          BY <1>7, <3>1
        <4> QED
          BY <1>2, <1>3, <1>9, <2>4, <3>1, <4>1 DEF Valid
      <3>2. CASE g = "confirmPassword"
        <4>1. ~isLogin
          BY <2>1, <3>2 DEF FieldsOnPage
        <4>2. g \in errors' <=> typed["confirmPassword"] # v
          BY <1>7, <2>4, <3>2, <4>1
        <4>3. typed'["confirmPassword"] = typed["confirmPassword"] /\ typed'["password"] = v
          BY <1>3, <2>4 DEF FormFields
        <4> QED
          BY <3>2, <4>2, <4>3 DEF Valid
      <3>3. CASE g \notin {"password", "confirmPassword"}
        <4>1. g \in errors' <=> g \in errors
          BY <1>7, <1>8, <2>4, <3>3
        <4>2. typed'[g] = typed[g]
          BY <1>3, <1>5, <2>4, <3>3
        <4> QED
          BY <2>2, <3>3, <4>1, <4>2 DEF Valid
      <3> QED
        BY <3>1, <3>2, <3>3
    <2> QED
      BY <2>3, <2>4
  <1> QED
    BY <1>10, <1>11 DEF MessageInv

LEMMA LeaveKeeps ==
  ASSUME MessageInv, NEW f \in FormFields, LeaveField(f)
  PROVE  MessageInv'
  <1>1. /\ f \in FieldsOnPage /\ UNCHANGED << isLogin, typed, succeeded >>
        /\ touched' = touched \cup {f}
        /\ f \in errors' <=> ~Valid(f, typed[f], typed["password"])
        /\ \A g \in touched' : g # f => (g \in errors' <=> g \in errors)
        /\ errors' \subseteq errors \cup {f}
    BY DEF LeaveField, WithError
  <1>2. FormTypeOK'
    BY <1>1 DEF MessageInv, FormTypeOK, FieldsOnPage
  <1>3. MessagesAreCurrent'
    BY <1>1 DEF MessageInv, MessagesAreCurrent, Valid
  <1> QED
    BY <1>2, <1>3 DEF MessageInv

LEMMA SubmitKeeps ==
  ASSUME MessageInv, SubmitForm
  PROVE  MessageInv'
  <1> DEFINE wrong == { f \in FieldsOnPage : ~Valid(f, typed[f], typed["password"]) }
  <1>1. /\ Ready /\ UNCHANGED << isLogin, typed >>
        /\ touched' = FieldsOnPage
        /\ errors' = (IF wrong = {} THEN errors ELSE wrong)
    BY DEF SubmitForm
  <1>2. succeeded' \in BOOLEAN
    BY DEF SubmitForm, MessageInv, FormTypeOK
  <1>3. FormTypeOK /\ MessagesAreCurrent
    BY DEF MessageInv
  <1>4. "password" \in FieldsOnPage /\ typed["password"] # ""
    BY <1>1 DEF Ready, FieldsOnPage, FormFields
  <1>5. wrong = {} => errors = {}
    <2> SUFFICES ASSUME wrong = {}, NEW f \in errors PROVE FALSE
      OBVIOUS
    <2>1. f \in touched /\ f \in FieldsOnPage
      BY <1>3 DEF FormTypeOK
    <2>2. Valid(f, typed[f], typed["password"])
      BY <2>1
    <2> QED
      BY <1>3, <1>4, <2>1, <2>2 DEF MessagesAreCurrent
  <1>6. errors' = wrong
    BY <1>1, <1>5
  <1>7. FieldsOnPage' = FieldsOnPage
    BY <1>1 DEF FieldsOnPage
  <1>8. FormTypeOK'
    BY <1>1, <1>2, <1>3, <1>6, <1>7 DEF FormTypeOK
  <1>9. MessagesAreCurrent'
    BY <1>1, <1>6 DEF MessagesAreCurrent, Valid
  <1> QED
    BY <1>8, <1>9 DEF MessageInv

\* The messages are those of what is typed, and what is typed is of its field.
THEOREM MessageInvariance == FormSpec => []MessageInv
  <1>1. FormInit => MessageInv
    <2> SUFFICES ASSUME FormInit PROVE MessageInv
      OBVIOUS
    <2>1. \A f \in FormFields : "" \in FieldValues(f)
      BY DEF FieldValues, FormFields
    <2>2. FormTypeOK
      BY <2>1 DEF FormInit, FormTypeOK, EmptyForm
    <2> QED
      BY <2>2 DEF FormInit, MessageInv, MessagesAreCurrent
  <1>2. MessageInv /\ [FormNext]_formVars => MessageInv'
    <2> SUFFICES ASSUME MessageInv, [FormNext]_formVars PROVE MessageInv'
      OBVIOUS
    <2>1. CASE ToggleMode
      <3>1. \A f \in FormFields : "" \in FieldValues(f)
        BY DEF FieldValues, FormFields
      <3>2. isLogin' \in BOOLEAN /\ UNCHANGED succeeded
        BY <2>1, Zenon DEF ToggleMode
      <3>3. FormTypeOK'
        BY <2>1, <3>1, <3>2 DEF ToggleMode, MessageInv, FormTypeOK, EmptyForm
      <3> QED
        BY <2>1, <3>3 DEF ToggleMode, MessageInv, MessagesAreCurrent
    <2>2. CASE UNCHANGED formVars
      BY <2>2 DEF formVars, MessageInv, FormTypeOK, MessagesAreCurrent, Valid, FieldsOnPage
    <2> QED
      BY <2>1, <2>2, ChangeKeeps, LeaveKeeps, SubmitKeeps DEF FormNext
  <1> QED
    BY <1>1, <1>2, PTL DEF FormSpec

\* The messages of the form are those of what is typed by now, although a change of the
\* password changes that of another field (handleChange, handleBlur, handleSubmit).
THEOREM MessagesAreCurrentAlways == FormSpec => []MessagesAreCurrent
  <1>1. MessageInv => MessagesAreCurrent
    BY DEF MessageInv
  <1> QED
    BY <1>1, MessageInvariance, PTL

-----------------------------------------------------------------------------
(* BookingRecord: what the pages show of a booking.                            *)

\* The payload of a complete form is what the form shows.
LEMMA PayloadIsShown ==
  ASSUME NEW d \in Details, Complete(d)
  PROVE  PayloadOf(d) = FormShows(d) /\ PayloadOf(d) \in Parties
  BY BookingRecordAssumption DEF PayloadOf, FormShows, Complete, Details, Parties, BookingRecordAssumption

\* A request under way is that of a form.
LEMMA SendingKinds ==
  ASSUME RecordTypeOK, sending # NoSending
  PROVE  /\ sending \in [at: {"sent", "stored"}, payload: Parties, form: Parties]
         /\ [sending EXCEPT !.at = "stored"]
              = [at |-> "stored", payload |-> sending.payload, form |-> sending.form]
  BY DEF RecordTypeOK

LEMMA FillKeeps ==
  ASSUME RecordInv, NEW d \in Details, Fill(d)
  PROVE  RecordInv'
  <1>1. RecordTypeOK'
    BY DEF RecordInv, RecordTypeOK, Fill
  <1>2. RecordsKept'
    BY DEF RecordInv, RecordsKept, Fill
  <1>3. FormKept'
    BY DEF RecordInv, FormKept, Fill
  <1>4. QED
    BY <1>1, <1>2, <1>3 DEF RecordInv

\* What is typed or switched is a form again.
LEMMA ChangesAreDetails ==
  ASSUME RecordTypeOK,
         SwitchCompany \/ TypeFirm \/ TypePayer \/ SwitchSame \/ TypeCandidate
  PROVE  \E d \in Details : Fill(d)
  <1>1. details \in Details
    BY DEF RecordTypeOK
  <1>2. /\ [details EXCEPT !.isCompany = ~@] \in Details
        /\ [details EXCEPT !.sameAsPayer = ~@] \in Details
        /\ \A f \in Firms \cup {Nobody} : [details EXCEPT !.firm = f] \in Details
        /\ \A p \in People \cup {Nobody} :
              [details EXCEPT !.payer = p] \in Details /\ [details EXCEPT !.candidate = p] \in Details
    BY <1>1 DEF Details
  <1>3. QED
    BY <1>2 DEF SwitchCompany, TypeFirm, TypePayer, SwitchSame, TypeCandidate

LEMMA ConfirmKeeps ==
  ASSUME RecordInv, ConfirmDetails
  PROVE  RecordInv'
  <1>1. details \in Details /\ Complete(details)
    BY DEF RecordInv, RecordTypeOK, ConfirmDetails
  <1>2. PayloadOf(details) = FormShows(details) /\ PayloadOf(details) \in Parties
    BY <1>1, PayloadIsShown
  <1>3. sending' = [at |-> "sent", payload |-> PayloadOf(details), form |-> PayloadOf(details)]
    BY <1>2 DEF ConfirmDetails
  <1>4. RecordTypeOK'
    <2>1. sending' \in [at: {"sent", "stored"}, payload: Parties, form: Parties]
      BY <1>2, <1>3
    <2>2. QED
      BY <2>1 DEF RecordInv, RecordTypeOK, ConfirmDetails
  <1>5. RecordsKept'
    BY <1>3 DEF RecordInv, RecordsKept, ConfirmDetails
  <1>6. FormKept'
    BY <1>2, <1>3 DEF RecordInv, FormKept, ConfirmDetails
  <1>7. QED
    BY <1>4, <1>5, <1>6 DEF RecordInv

LEMMA StoreKeeps ==
  ASSUME RecordInv, StoreRecord
  PROVE  RecordInv'
  <1>1. sending # NoSending /\ sending.at = "sent"
    BY DEF StoreRecord, NoSending
  <1>2. /\ sending.payload \in Parties /\ sending.form \in Parties
        /\ sending' = [at |-> "stored", payload |-> sending.payload, form |-> sending.form]
    BY <1>1, SendingKinds DEF RecordInv, StoreRecord
  <1>3. sending.payload = sending.form /\ booked = 0
    BY <1>1 DEF RecordInv, RecordsKept, FormKept
  <1>4. /\ records \in Seq(Parties) /\ confirmed \in Seq(Parties) /\ Len(confirmed) = Len(records)
        /\ \A n \in 1..Len(records) : records[n] = confirmed[n]
    BY DEF RecordInv, RecordTypeOK, RecordsKept
  <1>5. /\ records' = Append(records, sending.form) /\ confirmed' = Append(confirmed, sending.form)
    BY <1>3 DEF StoreRecord
  <1>6. /\ records' \in Seq(Parties) /\ confirmed' \in Seq(Parties)
        /\ Len(records') = Len(records) + 1 /\ Len(confirmed') = Len(records) + 1
    BY <1>2, <1>4, <1>5
  <1>7. records'[Len(records')] = sending.form /\ \A n \in 1..Len(records') : records'[n] = confirmed'[n]
    BY <1>2, <1>4, <1>5
  <1>8. RecordTypeOK'
    <2>1. sending' \in [at: {"sent", "stored"}, payload: Parties, form: Parties]
      BY <1>2
    <2>2. booked' \in 0..Len(records')
      BY <1>3, <1>6 DEF StoreRecord
    <2>3. QED
      BY <1>6, <2>1, <2>2 DEF RecordInv, RecordTypeOK, StoreRecord
  <1>9. RecordsKept'
    BY <1>2, <1>3, <1>4, <1>6, <1>7 DEF RecordsKept
  <1>10. FormKept'
    BY <1>1, <1>2, <1>3 DEF RecordInv, FormKept, StoreRecord
  <1>11. QED
    BY <1>8, <1>9, <1>10 DEF RecordInv

LEMMA AnsweredKeeps ==
  ASSUME RecordInv, RecordAnswered
  PROVE  RecordInv'
  <1>1. sending # NoSending /\ sending.at = "stored"
    BY DEF RecordAnswered, NoSending
  <1>2. RecordTypeOK'
    BY DEF RecordInv, RecordTypeOK, RecordAnswered
  <1>3. RecordsKept'
    BY DEF RecordInv, RecordsKept, RecordAnswered, NoSending
  <1>4. FormKept'
    BY <1>1 DEF RecordInv, RecordsKept, FormKept, RecordAnswered
  <1>5. QED
    BY <1>2, <1>3, <1>4 DEF RecordInv

\* A request that ends otherwise, and a page that is loaded again, leave the bookings.
LEMMA GivenUpKeeps ==
  ASSUME RecordInv, RecordFails \/ ReloadForm
  PROVE  RecordInv'
  <1>1. sending' = NoSending /\ booked' \in {booked, 0}
        /\ UNCHANGED << details, records, formSteps, confirmed, typedMeanwhile >>
    BY DEF RecordFails, ReloadForm
  <1>2. RecordTypeOK'
    BY <1>1 DEF RecordInv, RecordTypeOK
  <1>3. RecordsKept'
    BY <1>1 DEF RecordInv, RecordsKept, NoSending
  <1>4. FormKept'
    BY <1>1 DEF RecordInv, FormKept
  <1>5. QED
    BY <1>2, <1>3, <1>4 DEF RecordInv

\* The form, the request under way and the bookings hold the same persons and firms,
\* for as long as the form is not changed meanwhile (handleCreateBooking, updateForm).
THEOREM RecordInvariance == RecordSpec => []RecordInv
<1>1. RecordInit => RecordInv
  <2> SUFFICES ASSUME RecordInit
               PROVE  RecordInv
    OBVIOUS
  <2>1. details \in Details
    BY DEF RecordInit, Details
  <2>2. RecordTypeOK
    <3>1. << >> \in Seq(Parties) /\ Len(<< >>) = 0
      OBVIOUS
    <3>2. records \in Seq(Parties) /\ confirmed \in Seq(Parties) /\ booked \in 0..Len(records)
      BY <3>1 DEF RecordInit
    <3>3. QED
      BY <2>1, <3>2 DEF RecordInit, RecordTypeOK
  <2>3. RecordsKept
    BY DEF RecordInit, RecordsKept, NoSending
  <2>4. FormKept
    BY DEF RecordInit, FormKept
  <2>5. QED
    BY <2>2, <2>3, <2>4 DEF RecordInv
<1>2. RecordInv /\ [RecordNext]_recordVars => RecordInv'
  <2> SUFFICES ASSUME RecordInv, [RecordNext]_recordVars
               PROVE  RecordInv'
    OBVIOUS
  <2>1. CASE SwitchCompany \/ TypeFirm \/ TypePayer \/ SwitchSame \/ TypeCandidate
    <3>1. PICK d \in Details : Fill(d)
      BY <2>1, ChangesAreDetails DEF RecordInv
    <3>2. QED
      BY <3>1, FillKeeps
  <2>2. CASE UNCHANGED recordVars
    BY <2>2 DEF recordVars, RecordInv, RecordTypeOK, RecordsKept, FormKept
  <2>3. QED
    BY <2>1, <2>2, ConfirmKeeps, StoreKeeps, AnsweredKeeps, GivenUpKeeps DEF RecordNext
<1>3. QED
  BY <1>1, <1>2, PTL DEF RecordSpec

\* A booking whose record is what a form showed is shown as that form.
LEMMA ShownAsKept ==
  ASSUME NEW n, NEW form \in Parties, records[n] = form
  PROVE  Shows(n, form)
  BY BookingRecordAssumption DEF Shows, InvoiceTo, InvoiceFirm, DrawerPersons, LedgerPersons, DrawerFirm,
     SameName, Parties, BookingRecordAssumption

\* The invoice and the drawers of the office name whom the form named, for any people and
\* firms and any changes of the form (lib/utils/invoice.ts, parsePersonal).
THEOREM DetailsAsShownAlways == RecordSpec => []DetailsAsShown
<1>1. RecordInv => DetailsAsShown
  <2> SUFFICES ASSUME RecordInv
               PROVE  DetailsAsShown
    OBVIOUS
  <2>1. records \in Seq(Parties) /\ confirmed \in Seq(Parties) /\ booked \in 0..Len(records)
    BY DEF RecordInv, RecordTypeOK
  <2>2. \A n \in 1..Len(records) : records[n] = confirmed[n] /\ records[n] \in Parties
    BY <2>1 DEF RecordInv, RecordsKept
  <2>3. \A n \in DOMAIN records : Shows(n, confirmed[n])
    BY <2>1, <2>2, ShownAsKept
  <2>4. ASSUME booked # 0, ~typedMeanwhile
        PROVE  Shows(booked, FormShows(details))
    <3>1. booked \in 1..Len(records) /\ records[booked] = FormShows(details)
      BY <2>1, <2>4 DEF RecordInv, FormKept
    <3>2. QED
      BY <2>2, <3>1, ShownAsKept
  <2>5. QED
    BY <2>3, <2>4 DEF DetailsAsShown
<1>2. QED
  BY <1>1, RecordInvariance, PTL

-----------------------------------------------------------------------------
(* Enquiries: what the tables and the requests are.                            *)

\* A stored message is the last one of its table.
LEMMA InsertEffect ==
  ASSUME EnquiriesTypeOK, NEW t \in Tables, NEW x \in Nat, Insert(t, x)
  PROVE  /\ inbox' \in [Tables -> Seq(Message)]
         /\ \A u \in Tables \ {t} : inbox'[u] = inbox[u]
         /\ Len(inbox[t]) \in Nat /\ Len(inbox'[t]) = Len(inbox[t]) + 1
         /\ \A m \in 1..Len(inbox[t]) : inbox'[t][m] = inbox[t][m]
         /\ inbox'[t][Len(inbox[t]) + 1] = [text |-> x, status |-> "new"]
  <1> DEFINE s == inbox[t]
  <1> DEFINE m == [text |-> x, status |-> "new"]
  <1>1. inbox \in [Tables -> Seq(Message)] /\ s \in Seq(Message) /\ m \in Message
    BY DEF EnquiriesTypeOK, Message
  <1>2. inbox' = [inbox EXCEPT ![t] = Append(s, m)]
    BY DEF Insert
  <1> HIDE DEF m
  <1>3. Append(s, m) \in Seq(Message) /\ Len(Append(s, m)) = Len(s) + 1 /\ Len(s) \in Nat
        /\ (\A n \in 1..Len(s) : Append(s, m)[n] = s[n]) /\ Append(s, m)[Len(s) + 1] = m
    BY <1>1
  <1>4. inbox'[t] = Append(s, m) /\ \A u \in Tables \ {t} : inbox'[u] = inbox[u]
    BY <1>1, <1>2
  <1>5. inbox' \in [Tables -> Seq(Message)]
    BY <1>1, <1>2, <1>3
  <1>6. QED
    BY <1>3, <1>4, <1>5 DEF m

LEMMA InsertStores ==
  ASSUME EnquiriesTypeOK, NEW t \in Tables, NEW x \in Nat, Insert(t, x)
  PROVE  StoredTexts(t)' = StoredTexts(t) \cup {x} /\ \A u \in Tables \ {t} : StoredTexts(u)' = StoredTexts(u)
  <1>1. Len(inbox[t]) \in Nat /\ 1..(Len(inbox[t]) + 1) = 1..Len(inbox[t]) \cup {Len(inbox[t]) + 1}
    BY InsertEffect
  <1>2. StoredTexts(t)' = { inbox'[t][m].text : m \in 1..Len(inbox[t]) \cup {Len(inbox[t]) + 1} }
    BY <1>1, InsertEffect DEF StoredTexts
  <1>3. /\ \A m \in 1..Len(inbox[t]) : inbox'[t][m].text = inbox[t][m].text
        /\ inbox'[t][Len(inbox[t]) + 1].text = x
    <2>1. /\ \A m \in 1..Len(inbox[t]) : inbox'[t][m] = inbox[t][m]
          /\ inbox'[t][Len(inbox[t]) + 1] = [text |-> x, status |-> "new"]
      BY InsertEffect
    <2>2. QED
      BY <2>1
  <1>4. { inbox'[t][m].text : m \in 1..Len(inbox[t]) \cup {Len(inbox[t]) + 1} }
          = { inbox[t][m].text : m \in 1..Len(inbox[t]) } \cup {x}
    BY <1>3
  <1>5. ASSUME NEW u \in Tables \ {t}
        PROVE  StoredTexts(u)' = StoredTexts(u)
    <2>1. inbox'[u] = inbox[u]
      BY InsertEffect
    <2>2. QED
      BY <2>1 DEF StoredTexts
  <1>6. QED
    BY <1>2, <1>4, <1>5 DEF StoredTexts

LEMMA ServedRequest ==
  ASSUME NEW r, r = [kind |-> r.kind, row |-> r.row, rows |-> r.rows, done |-> r.done], NEW x
  PROVE  [r EXCEPT !.done = x] = [kind |-> r.kind, row |-> r.row, rows |-> r.rows, done |-> x]
  OBVIOUS

\* A request of the office is one of these.
LEMMA RequestKinds ==
  ASSUME EnquiriesTypeOK, NEW i \in BoardRequests
  PROVE  /\ boardReq[i].kind \in {"none", "list", "resolve", "delete"}
         /\ boardReq[i].kind = "none" <=> boardReq[i] = Resting
         /\ Changing(i) =>
              /\ boardReq[i].row \in Nat /\ boardReq[i].done \in BOOLEAN
              /\ boardReq[i].rows \in Seq({"new", "resolved", "deleted"})
              /\ [boardReq[i] EXCEPT !.done = TRUE]
                   = [kind |-> boardReq[i].kind, row |-> boardReq[i].row, rows |-> boardReq[i].rows,
                      done |-> TRUE]
  <1>1. boardReq[i] \in BoardRequest
    BY DEF EnquiriesTypeOK
  <1>2. CASE boardReq[i] \in {Resting, [kind |-> "list"]}
    BY <1>2 DEF Resting, Changing
  <1>3. CASE boardReq[i] \in [kind: {"resolve", "delete"}, row: Nat,
                              rows: Seq({"new", "resolved", "deleted"}), done: BOOLEAN]
    <2>1. boardReq[i].kind \in {"resolve", "delete"} /\ boardReq[i] # Resting
      BY <1>3 DEF Resting
    <2>2. /\ boardReq[i].row \in Nat /\ boardReq[i].done \in BOOLEAN
          /\ boardReq[i].rows \in Seq({"new", "resolved", "deleted"})
      BY <1>3
    <2>3. boardReq[i] = [kind |-> boardReq[i].kind, row |-> boardReq[i].row, rows |-> boardReq[i].rows,
                         done |-> boardReq[i].done]
      BY <1>3
    <2>4. [boardReq[i] EXCEPT !.done = TRUE]
            = [kind |-> boardReq[i].kind, row |-> boardReq[i].row, rows |-> boardReq[i].rows, done |-> TRUE]
      BY <2>3, ServedRequest
    <2>5. QED
      BY <2>1, <2>2, <2>4 DEF Changing
  <1>4. QED
    BY <1>1, <1>2, <1>3 DEF BoardRequest

LEMMA RestingKind == Resting \in BoardRequest /\ Resting.kind = "none" /\ ~(Resting.kind \in {"resolve", "delete"})
  BY DEF Resting, BoardRequest

\* Serving a change writes the status of one message.
LEMMA ServeEffect ==
  ASSUME EnquiriesTypeOK, BoardShape, NEW i \in BoardRequests, ServeBoard(i)
  PROVE  /\ Changing(i) /\ boardReq[i].row \in 1..Len(inbox[board.table])
         /\ inbox' \in [Tables -> Seq(Message)]
         /\ \A u \in Tables \ {board.table} : inbox'[u] = inbox[u]
         /\ Len(inbox'[board.table]) = Len(inbox[board.table])
         /\ \A m \in 1..Len(inbox[board.table]) :
              /\ inbox'[board.table][m].text = inbox[board.table][m].text
              /\ m # boardReq[i].row => inbox'[board.table][m] = inbox[board.table][m]
         /\ inbox'[board.table][boardReq[i].row].status =
              IF boardReq[i].kind = "delete" \/ inbox[board.table][boardReq[i].row].status = "deleted"
              THEN "deleted" ELSE "resolved"
  <1> DEFINE t == board.table
  <1> DEFINE s == inbox[t]
  <1> DEFINE n == boardReq[i].row
  <1> DEFINE v == IF boardReq[i].kind = "delete" \/ s[n].status = "deleted" THEN "deleted" ELSE "resolved"
  <1>1. Changing(i) /\ t \in Tables /\ inbox \in [Tables -> Seq(Message)] /\ s \in Seq(Message)
    BY DEF ServeBoard, Changing, EnquiriesTypeOK
  <1>2. n \in 1..Len(s)
    <2>1. n \in 1..Len(board.rows) /\ Len(board.rows) <= Len(s) /\ board.rows \in Seq({"new", "resolved", "deleted"})
      BY <1>1 DEF BoardShape, EnquiriesTypeOK
    <2>2. Len(board.rows) \in Nat /\ Len(s) \in Nat
      BY <1>1, <2>1
    <2>3. QED
      BY <2>1, <2>2
  <1>3. inbox' = [inbox EXCEPT ![t] = [s EXCEPT ![n] = [s[n] EXCEPT !.status = v]]]
    BY DEF ServeBoard
  <1>4. v \in {"deleted", "resolved"}
    OBVIOUS
  <1> HIDE DEF v
  <1>5. s[n] \in Message
    BY <1>1, <1>2
  <1>6. [s[n] EXCEPT !.status = v] \in Message /\ [s[n] EXCEPT !.status = v].text = s[n].text
        /\ [s[n] EXCEPT !.status = v].status = v
    BY <1>4, <1>5 DEF Message
  <1> DEFINE e == [s[n] EXCEPT !.status = v]
  <1> HIDE DEF e
  <1>7. [s EXCEPT ![n] = e] \in Seq(Message) /\ Len([s EXCEPT ![n] = e]) = Len(s)
        /\ [s EXCEPT ![n] = e][n] = e
        /\ \A m \in 1..Len(s) : m # n => [s EXCEPT ![n] = e][m] = s[m]
    BY <1>1, <1>2, <1>6, ExceptSeq DEF e
  <1>8. inbox'[t] = [s EXCEPT ![n] = e] /\ (\A u \in Tables \ {t} : inbox'[u] = inbox[u])
        /\ inbox' \in [Tables -> Seq(Message)]
    BY <1>1, <1>3, <1>7 DEF e
  <1>9. \A m \in 1..Len(s) : inbox'[t][m].text = s[m].text
    BY <1>6, <1>7, <1>8 DEF e
  <1>10. inbox'[t][n].status = v
    BY <1>6, <1>7, <1>8 DEF e
  <1>11. QED
    BY <1>1, <1>2, <1>7, <1>8, <1>9, <1>10 DEF v

LEMMA ServeStores ==
  ASSUME EnquiriesTypeOK, BoardShape, NEW i \in BoardRequests, ServeBoard(i)
  PROVE  \A t \in Tables : StoredTexts(t)' = StoredTexts(t)
  BY ServeEffect DEF StoredTexts

\* What a visitor does leaves the stored messages, and may add one; the office is not there.
LEMMA InboxGrows ==
  ASSUME EnquiriesTypeOK, VisitorStep
  PROVE  /\ UNCHANGED officeVars
         /\ inbox' \in [Tables -> Seq(Message)]
         /\ \A t \in Tables : /\ Len(inbox[t]) \in Nat /\ Len(inbox[t]) <= Len(inbox'[t])
                              /\ \A m \in 1..Len(inbox[t]) : inbox'[t][m] = inbox[t][m]
  <1>1. inbox \in [Tables -> Seq(Message)] /\ \A t \in Tables : Len(inbox[t]) \in Nat
    BY DEF EnquiriesTypeOK
  <1>2. UNCHANGED officeVars
    BY DEF VisitorStep
  <1>3. ASSUME NEW t \in Tables, NEW x \in Nat, Insert(t, x)
        PROVE  /\ inbox' \in [Tables -> Seq(Message)]
               /\ \A u \in Tables : /\ Len(inbox[u]) <= Len(inbox'[u])
                                    /\ \A m \in 1..Len(inbox[u]) : inbox'[u][m] = inbox[u][m]
    <2>1. /\ inbox' \in [Tables -> Seq(Message)]
          /\ \A u \in Tables \ {t} : inbox'[u] = inbox[u]
          /\ Len(inbox'[t]) = Len(inbox[t]) + 1
          /\ \A m \in 1..Len(inbox[t]) : inbox'[t][m] = inbox[t][m]
      BY <1>3, InsertEffect
    <2>2. ASSUME NEW u \in Tables
          PROVE  Len(inbox[u]) <= Len(inbox'[u]) /\ \A m \in 1..Len(inbox[u]) : inbox'[u][m] = inbox[u][m]
      <3>1. CASE u = t
        BY <1>1, <2>1, <3>1
      <3>2. CASE u # t
        BY <1>1, <2>1, <3>2
      <3>3. QED
        BY <3>1, <3>2
    <2>3. QED
      BY <2>1, <2>2
  <1>4. CASE StoreContact
    <2>1. contact.text \in Nat /\ Insert("contacts", contact.text)
      BY <1>4 DEF StoreContact, EnquiriesTypeOK
    <2>2. QED
      BY <1>1, <1>2, <1>3, <2>1 DEF Tables
  <1>5. CASE StoreDialog
    <2>1. dialog.sent \in Nat /\ Insert("enquiries", dialog.sent)
      BY <1>5 DEF StoreDialog, EnquiriesTypeOK
    <2>2. QED
      BY <1>1, <1>2, <1>3, <2>1 DEF Tables
  <1>6. CASE inbox' = inbox
    BY <1>1, <1>2, <1>6
  <1>7. StoreContact \/ StoreDialog \/ inbox' = inbox
    BY DEF VisitorStep, TypeContact, SubmitContact, ContactAnswered, ContactFails, ResetContact, OpenDialog,
           CloseDialog, ForgetSuccess, TypeDialog, SubmitDialog, DialogAnswered, DialogFails, ResetDialog
  <1>8. QED
    BY <1>4, <1>5, <1>6, <1>7

\* The pages of a visitor keep the types of what they hold.
LEMMA VisitorTypes ==
  ASSUME EnquiriesTypeOK, VisitorStep
  PROVE  EnquiriesTypeOK'
  <1> DEFINE C == [at: {"form", "sending", "stored", "success"}, text: Nat]
  <1> DEFINE D == [open: BOOLEAN, text: Nat, at: {"form", "sending", "stored"}, success: BOOLEAN,
                   sent: Nat, timers: Nat, clearing: BOOLEAN]
  <1>1. contact \in C /\ dialog \in D /\ texts \in Nat /\ {wiped, rushed, lostAnswer} \subseteq BOOLEAN
    BY DEF EnquiriesTypeOK
  <1>2. CASE TypeContact \/ SubmitContact \/ StoreContact \/ ContactAnswered \/ ContactFails \/ ResetContact
    <2>1. dialog' = dialog /\ texts' \in Nat
      BY <1>1, <1>2 DEF TypeContact, SubmitContact, StoreContact, ContactAnswered, ContactFails, ResetContact,
                        Type
    <2>2. contact' \in C
      BY <1>1, <1>2 DEF TypeContact, SubmitContact, StoreContact, ContactAnswered, ContactFails, ResetContact,
                        Type
    <2>3. {wiped', rushed', lostAnswer'} \subseteq BOOLEAN
      BY <1>1, <1>2 DEF TypeContact, SubmitContact, StoreContact, ContactAnswered, ContactFails, ResetContact
    <2>4. QED
      BY <2>1, <2>2, <2>3, InboxGrows DEF EnquiriesTypeOK, officeVars
  <1>3. CASE \/ OpenDialog \/ CloseDialog \/ ForgetSuccess \/ TypeDialog \/ SubmitDialog \/ StoreDialog
             \/ DialogAnswered \/ DialogFails \/ ResetDialog
    <2>1. contact' = contact /\ texts' \in Nat
      BY <1>1, <1>3 DEF OpenDialog, CloseDialog, ForgetSuccess, TypeDialog, SubmitDialog, StoreDialog,
                        DialogAnswered, DialogFails, ResetDialog, Type
    <2>2. dialog' \in D
      <3>1. CASE OpenDialog
        BY <1>1, <3>1 DEF OpenDialog
      <3>2. CASE CloseDialog
        BY <1>1, <3>2 DEF CloseDialog
      <3>3. CASE ForgetSuccess
        BY <1>1, <3>3 DEF ForgetSuccess
      <3>4. CASE TypeDialog
        BY <1>1, <3>4 DEF TypeDialog, Type
      <3>5. CASE SubmitDialog
        BY <1>1, <3>5 DEF SubmitDialog
      <3>6. CASE StoreDialog
        BY <1>1, <3>6 DEF StoreDialog
      <3>7. CASE DialogAnswered
        <4>1. /\ dialog.timers + 1 \in Nat
              /\ dialog' = [dialog EXCEPT !.at = "form", !.success = TRUE, !.timers = dialog.timers + 1]
          BY <1>1, <3>7 DEF DialogAnswered
        <4>2. QED
          BY <1>1, <4>1
      <3>8. CASE DialogFails
        BY <1>1, <3>8 DEF DialogFails
      <3>9. CASE ResetDialog
        <4>1. /\ dialog.timers - 1 \in Nat /\ (dialog.clearing \/ dialog.open) \in BOOLEAN
              /\ dialog' = [dialog EXCEPT !.timers = dialog.timers - 1, !.success = FALSE, !.text = 0,
                                          !.open = FALSE, !.clearing = (dialog.clearing \/ dialog.open)]
          BY <1>1, <3>9 DEF ResetDialog
        <4>2. QED
          BY <1>1, <4>1
      <3>10. QED
        BY <1>3, <3>1, <3>2, <3>3, <3>4, <3>5, <3>6, <3>7, <3>8, <3>9
    <2>3. {wiped', rushed', lostAnswer'} \subseteq BOOLEAN
      BY <1>1, <1>3 DEF OpenDialog, CloseDialog, ForgetSuccess, TypeDialog, SubmitDialog, StoreDialog,
                        DialogAnswered, DialogFails, ResetDialog, Hurried
    <2>4. QED
      BY <2>1, <2>2, <2>3, InboxGrows DEF EnquiriesTypeOK, officeVars
  <1>4. QED
    BY <1>2, <1>3 DEF VisitorStep

-----------------------------------------------------------------------------
(* Enquiries: the rows of the office's page are those of the database.         *)

Status == {"new", "resolved", "deleted"}

\* A request is sent in a place that was free.
LEMMA SendEffect ==
  ASSUME EnquiriesTypeOK, NEW r \in BoardRequest, Send(r)
  PROVE  /\ boardReq' \in [BoardRequests -> BoardRequest]
         /\ boardRaced' = (boardRaced \/ BoardBusy) /\ boardRaced' \in BOOLEAN
         /\ \E i \in BoardRequests : /\ boardReq[i] = Resting /\ boardReq'[i] = r
                                     /\ \A j \in BoardRequests \ {i} : boardReq'[j] = boardReq[j]
  BY DEF Send, EnquiriesTypeOK

LEMMA RowIsShown ==
  ASSUME EnquiriesTypeOK, BoardShape, NEW n \in 1..Len(board.rows)
  PROVE  /\ board.loaded /\ Len(board.rows) \in Nat /\ n \in Nat
         /\ n \in DOMAIN board.rows /\ board.rows[n] \in Status
         /\ board.table \in Tables /\ inbox[board.table] \in Seq(Message)
         /\ n \in 1..Len(inbox[board.table]) /\ inbox[board.table][n].status \in Status
  <1>1. /\ board.rows \in Seq(Status) /\ board.loaded \in BOOLEAN /\ board.table \in Tables
        /\ inbox[board.table] \in Seq(Message)
    BY DEF EnquiriesTypeOK, Status
  <1>2. Len(board.rows) \in Nat /\ Len(inbox[board.table]) \in Nat /\ board.rows[n] \in Status
        /\ n \in DOMAIN board.rows
    BY <1>1
  <1>3. board.loaded
    BY <1>2 DEF BoardShape
  <1>4. n \in 1..Len(inbox[board.table])
    BY <1>2 DEF BoardShape
  <1>5. inbox[board.table][n] \in Message
    BY <1>1, <1>4
  <1>6. QED
    BY <1>1, <1>2, <1>3, <1>4, <1>5 DEF Message, Status

\* A change is asked of a row on the screen.
LEMMA AskKeeps ==
  ASSUME BoardInv, NEW kind \in {"resolve", "delete"}, NEW n \in 1..Len(board.rows), Ask(kind, n),
         UNCHANGED inbox, board'.rows = board.rows, board'.loaded = board.loaded,
         board'.table = board.table, board'.view \in {NoView, board.view}
  PROVE  /\ boardReq' \in [BoardRequests -> BoardRequest]
         /\ boardClicks' \in Nat /\ boardRaced' \in BOOLEAN
         /\ BoardShape' /\ RowsFollowInbox'
  <1> USE DEF BoardInv
  <1> DEFINE r == [kind |-> kind, row |-> n, rows |-> board.rows, done |-> FALSE]
  <1>1. r \in BoardRequest /\ r # Resting
    BY RowIsShown DEF BoardRequest, Resting, EnquiriesTypeOK
  <1>2. Send(r) /\ boardClicks' \in Nat
    BY DEF Ask, BoardClick, EnquiriesTypeOK
  <1>3. r.kind = kind /\ r.row = n /\ r.rows = board.rows /\ r.done = FALSE
    OBVIOUS
  <1> HIDE DEF r
  <1>4. /\ boardReq' \in [BoardRequests -> BoardRequest]
        /\ boardRaced' = (boardRaced \/ BoardBusy) /\ boardRaced' \in BOOLEAN
    BY <1>1, <1>2, SendEffect
  <1>5. PICK i \in BoardRequests : /\ boardReq[i] = Resting /\ boardReq'[i] = r
                                   /\ \A j \in BoardRequests \ {i} : boardReq'[j] = boardReq[j]
    BY <1>1, <1>2, SendEffect
  <1>6. board.loaded /\ ~Changing(i) /\ \A j \in BoardRequests : boardReq[j].kind # "list"
    BY <1>5, RowIsShown, RestingKind DEF BoardShape, Changing
  <1>7. BoardShape'
    <2>1. Len(board.rows) <= Len(inbox[board.table]) /\ board.view \in 0..Len(board.rows) /\ 0 \in 0..Len(board.rows)
      BY RowIsShown DEF BoardShape
    <2>2. \A j \in BoardRequests :
            /\ boardReq'[j].kind \in {"resolve", "delete"} =>
                 Len(boardReq'[j].rows) = Len(board.rows) /\ boardReq'[j].row \in 1..Len(board.rows)
            /\ boardReq'[j].kind # "list"
      BY <1>3, <1>5, <1>6 DEF BoardShape, Changing
    <2>3. QED
      BY <1>6, <2>1, <2>2 DEF BoardShape, Changing, NoView
  <1>8. ASSUME ~boardRaced'
        PROVE  RowsFollowInbox'
    <2>1. ~boardRaced /\ \A j \in BoardRequests : boardReq[j] = Resting /\ ~Changing(j)
      BY <1>4, <1>8, RestingKind DEF BoardBusy, Changing
    <2>2. \A j \in BoardRequests \ {i} : boardReq'[j] = Resting /\ ~Changing(j)'
      BY <1>5, <2>1, RestingKind DEF Changing
    <2>3. \A m \in 1..Len(board.rows) : board.rows[m] = "deleted" \/ board.rows[m] = inbox[board.table][m].status
      BY <2>1 DEF RowsFollowInbox
    <2>4. \A j, k \in BoardRequests : boardReq'[j] # Resting /\ boardReq'[k] # Resting => j = k
      BY <2>2
    <2>5. \A j \in BoardRequests : Changing(j)' => boardReq'[j].rows = board.rows /\ ~boardReq'[j].done
      BY <1>3, <1>5, <2>2
    <2>6. QED
      BY <2>3, <2>4, <2>5 DEF RowsFollowInbox
  <1>9. RowsFollowInbox'
    BY <1>8 DEF RowsFollowInbox
  <1>10. QED
    BY <1>2, <1>4, <1>7, <1>9

\* One page or the other is opened: it shows no rows until its list has come.
LEMMA VisitKeeps ==
  ASSUME BoardInv, NEW t \in Tables, Visit(t), UNCHANGED << inbox, visitorVars >>
  PROVE  BoardInv'
  <1> USE DEF BoardInv
  <1> DEFINE r == [kind |-> "list"]
  <1>1. /\ board' = [table |-> t, rows |-> << >>, loaded |-> FALSE, view |-> NoView, viewed |-> board.viewed]
        /\ board.viewed \in {"new", "resolved"} /\ boardClicks' \in Nat /\ boardRaced' = FALSE
    <2>1. board' = [board EXCEPT !.table = t, !.rows = << >>, !.loaded = FALSE, !.view = NoView]
      BY DEF Visit
    <2>2. board \in [table: Tables, rows: Seq(Status), loaded: BOOLEAN, view: Nat, viewed: {"new", "resolved"}]
      BY DEF EnquiriesTypeOK, Status
    <2>3. boardClicks' \in Nat /\ boardRaced' = FALSE
      BY DEF Visit, BoardClick, EnquiriesTypeOK
    <2>4. QED
      BY <2>1, <2>2, <2>3
  <1>2. /\ board'.table = t /\ board'.rows = << >> /\ ~board'.loaded /\ board'.view = NoView
        /\ board'.viewed = board.viewed
    BY <1>1
  <1>3. r \in BoardRequest /\ r.kind = "list" /\ r # Resting
    BY DEF BoardRequest, Resting
  <1>4. \A j \in BoardRequests : boardReq[j] = Resting /\ ~Changing(j)
    BY RestingKind DEF Visit, BoardBusy, Changing
  <1>5. PICK i \in BoardRequests : boardReq' = [boardReq EXCEPT ![i] = r]
    BY DEF Visit
  <1> HIDE DEF r
  <1>6. boardReq \in [BoardRequests -> BoardRequest]
    BY DEF EnquiriesTypeOK
  <1>7. boardReq' \in [BoardRequests -> BoardRequest] /\ boardReq'[i] = r
        /\ \A j \in BoardRequests \ {i} : boardReq'[j] = Resting
    BY <1>3, <1>4, <1>5, <1>6
  <1>8. \A j \in BoardRequests : ~Changing(j)'
    BY <1>3, <1>7, RestingKind DEF Changing
  <1>9. << >> \in Seq(Status) /\ Len(<< >>) = 0 /\ Len(inbox[t]) \in Nat
    BY DEF EnquiriesTypeOK
  <1>10. EnquiriesTypeOK'
    <2>1. board' \in [table: Tables, rows: Seq(Status), loaded: BOOLEAN, view: Nat, viewed: {"new", "resolved"}]
      BY <1>1, <1>9 DEF NoView
    <2>2. QED
      BY <1>1, <1>7, <2>1 DEF EnquiriesTypeOK, visitorVars, Status
  <1>11. BoardShape'
    <2>1. Len(board'.rows) <= Len(inbox'[board'.table]) /\ board'.view \in 0..Len(board'.rows)
      BY <1>2, <1>9 DEF NoView
    <2>2. \A j \in BoardRequests : boardReq'[j].kind = "list" => \A k \in BoardRequests \ {j} : boardReq'[k] = Resting
      BY <1>3, <1>7, RestingKind
    <2>3. QED
      BY <1>2, <1>8, <2>1, <2>2 DEF BoardShape
  <1>12. RowsFollowInbox'
    BY <1>2, <1>7, <1>8, <1>9 DEF RowsFollowInbox
  <1>13. QED
    BY <1>10, <1>11, <1>12

LEMMA ViewedBoard ==
  ASSUME NEW T, NEW R, NEW b \in [table: T, rows: R, loaded: BOOLEAN, view: Nat, viewed: {"new", "resolved"}],
         NEW n \in Nat, NEW s \in {"new", "resolved"}
  PROVE  [b EXCEPT !.view = n, !.viewed = s]
           \in [table: T, rows: R, loaded: BOOLEAN, view: Nat, viewed: {"new", "resolved"}]
  OBVIOUS

\* The dialog of one message is opened or closed: no request is sent.
LEMMA ViewedKeeps ==
  ASSUME BoardInv, BoardClick, UNCHANGED << inbox, visitorVars, boardReq, boardRaced >>,
         NEW n \in 0..Len(board.rows), NEW s \in {"new", "resolved"},
         board' = [board EXCEPT !.view = n, !.viewed = s]
  PROVE  BoardInv'
  <1> USE DEF BoardInv
  <1>1. /\ board \in [table: Tables, rows: Seq(Status), loaded: BOOLEAN, view: Nat, viewed: {"new", "resolved"}]
        /\ boardClicks' \in Nat
    BY DEF EnquiriesTypeOK, BoardClick, Status
  <1>2. n \in Nat
    BY <1>1
  <1>3. board' \in [table: Tables, rows: Seq(Status), loaded: BOOLEAN, view: Nat, viewed: {"new", "resolved"}]
    BY <1>1, <1>2, ViewedBoard
  <1>4. board'.table = board.table /\ board'.rows = board.rows /\ board'.loaded = board.loaded /\ board'.view = n
    BY <1>1
  <1>5. EnquiriesTypeOK'
    BY <1>1, <1>3 DEF EnquiriesTypeOK, visitorVars, Status
  <1>6. BoardShape'
    BY <1>4 DEF BoardShape, Changing
  <1>7. RowsFollowInbox'
    BY <1>4 DEF RowsFollowInbox, Changing
  <1>8. QED
    BY <1>5, <1>6, <1>7

LEMMA ClosedView ==
  ASSUME EnquiriesTypeOK
  PROVE  [board EXCEPT !.view = NoView] = [board EXCEPT !.view = 0, !.viewed = board.viewed]
  BY DEF EnquiriesTypeOK, NoView

LEMMA AskedTypes ==
  ASSUME BoardInv, NEW kind \in {"resolve", "delete"}, NEW n \in 1..Len(board.rows), Ask(kind, n),
         UNCHANGED << inbox, visitorVars >>,
         board' = board \/ board' = [board EXCEPT !.view = NoView]
  PROVE  BoardInv'
  <1>1. /\ board \in [table: Tables, rows: Seq(Status), loaded: BOOLEAN, view: Nat, viewed: {"new", "resolved"}]
        /\ NoView \in Nat
    BY DEF EnquiriesTypeOK, Status, BoardInv, NoView
  <1>2. /\ board' \in [table: Tables, rows: Seq(Status), loaded: BOOLEAN, view: Nat, viewed: {"new", "resolved"}]
        /\ board'.rows = board.rows /\ board'.loaded = board.loaded /\ board'.table = board.table
        /\ board'.view \in {NoView, board.view}
    BY <1>1
  <1>3. /\ boardReq' \in [BoardRequests -> BoardRequest]
        /\ boardClicks' \in Nat /\ boardRaced' \in BOOLEAN
        /\ BoardShape' /\ RowsFollowInbox'
    BY <1>2, AskKeeps
  <1>4. EnquiriesTypeOK'
    BY <1>2, <1>3 DEF EnquiriesTypeOK, BoardInv, visitorVars, Status
  <1>5. QED
    BY <1>3, <1>4 DEF BoardInv

LEMMA OfficeKeeps ==
  ASSUME BoardInv, OfficeStep
  PROVE  BoardInv'
  <1>1. UNCHANGED << inbox, visitorVars >> /\ EnquiriesTypeOK /\ BoardShape
    BY DEF OfficeStep, BoardInv
  <1>2. CASE FetchEnquiries \/ FetchContacts
    BY <1>1, <1>2, VisitKeeps DEF FetchEnquiries, FetchContacts, Tables
  <1>3. CASE EnquiryModal \/ ContactModal
    <2>1. board.view # NoView /\ board' = [board EXCEPT !.view = NoView]
      BY <1>3 DEF EnquiryModal, ContactModal
    <2>2. Len(board.rows) \in Nat /\ board.viewed \in {"new", "resolved"}
      BY <1>1 DEF EnquiriesTypeOK
    <2>3. board.view \in 1..Len(board.rows)
      BY <1>1, <2>1, <2>2 DEF BoardShape, NoView
    <2>4. CASE BoardClick /\ UNCHANGED << boardReq, boardRaced >>
      <3>1. 0 \in 0..Len(board.rows) /\ board' = [board EXCEPT !.view = 0, !.viewed = board.viewed]
        BY <1>1, <2>1, <2>2, ClosedView
      <3>2. QED
        BY <1>1, <2>2, <2>4, <3>1, ViewedKeeps
    <2>5. CASE Ask("resolve", board.view)
      BY <1>1, <2>1, <2>3, <2>5, AskedTypes
    <2>6. QED
      BY <1>3, <2>4, <2>5 DEF EnquiryModal, ContactModal
  <1>4. ASSUME NEW n \in 1..MaxInbox, OnScreen(n)
        PROVE  n \in 1..Len(board.rows) /\ board.rows[n] \in {"new", "resolved"}
    BY <1>1, <1>4 DEF OnScreen, EnquiriesTypeOK
  <1>5. ASSUME NEW n \in 1..MaxInbox,
               ResolveEnquiry(n) \/ ResolveContact(n) \/ DeleteEnquiry(n) \/ DeleteContact(n)
        PROVE  BoardInv'
    <2>1. OnScreen(n) /\ board' = board /\ (Ask("resolve", n) \/ Ask("delete", n))
      BY <1>5 DEF ResolveEnquiry, ResolveContact, DeleteEnquiry, DeleteContact
    <2>2. n \in 1..Len(board.rows)
      BY <1>4, <2>1
    <2>3. QED
      BY <1>1, <2>1, <2>2, AskedTypes
  <1>6. ASSUME NEW n \in 1..MaxInbox, ViewEnquiry(n) \/ ViewContact(n)
        PROVE  BoardInv'
    <2>1. /\ OnScreen(n) /\ BoardClick /\ UNCHANGED << boardReq, boardRaced >>
          /\ board' = [board EXCEPT !.view = n, !.viewed = board.rows[n]]
      BY <1>6 DEF ViewEnquiry, ViewContact
    <2>2. Len(board.rows) \in Nat
      BY <1>1 DEF EnquiriesTypeOK
    <2>3. n \in 0..Len(board.rows) /\ board.rows[n] \in {"new", "resolved"}
      BY <1>4, <2>1, <2>2
    <2>4. QED
      BY <1>1, <2>1, <2>3, ViewedKeeps
  <1>7. QED
    BY <1>2, <1>3, <1>5, <1>6 DEF OfficeStep

LEMMA VisitorKeepsBoard ==
  ASSUME BoardInv, VisitorStep
  PROVE  BoardInv'
  <1>1. EnquiriesTypeOK /\ EnquiriesTypeOK' /\ UNCHANGED officeVars
    BY VisitorTypes, InboxGrows DEF BoardInv
  <1> DEFINE t == board.table
  <1>2. /\ t \in Tables /\ Len(inbox[t]) \in Nat /\ Len(inbox[t]) <= Len(inbox'[t])
        /\ \A m \in 1..Len(inbox[t]) : inbox'[t][m] = inbox[t][m]
    BY <1>1, InboxGrows DEF EnquiriesTypeOK
  <1>3. /\ board' = board /\ boardReq' = boardReq /\ boardRaced' = boardRaced
        /\ \A i \in BoardRequests : Changing(i)' <=> Changing(i)
    BY <1>1 DEF officeVars, Changing
  <1>4. Len(inbox'[t]) \in Nat /\ Len(board.rows) \in Nat
    BY <1>1, <1>2, <1>3 DEF EnquiriesTypeOK
  <1>5. BoardShape'
    <2>1. Len(board.rows) <= Len(inbox'[t])
      BY <1>2, <1>4 DEF BoardShape, BoardInv
    <2>2. QED
      BY <1>3, <2>1 DEF BoardShape, BoardInv
  <1>6. RowsFollowInbox'
    <2>1. \A m \in 1..Len(board.rows) : inbox'[t][m] = inbox[t][m]
      BY <1>2, <1>4 DEF BoardShape, BoardInv
    <2>2. \A i \in BoardRequests : Changing(i) => boardReq[i].row \in 1..Len(board.rows)
      BY DEF BoardShape, BoardInv
    <2>3. QED
      BY <1>3, <2>1, <2>2 DEF RowsFollowInbox, BoardInv
  <1>7. QED
    BY <1>1, <1>5, <1>6 DEF BoardInv

\* A change is served: the row it is about is written, and no other.
LEMMA ServeKeeps ==
  ASSUME BoardInv, NEW i \in BoardRequests, ServeBoard(i)
  PROVE  BoardInv'
  <1> DEFINE t == board.table
  <1> DEFINE n == boardReq[i].row
  <1>1. EnquiriesTypeOK /\ BoardShape /\ RowsFollowInbox /\ UNCHANGED << visitorVars, board, boardClicks, boardRaced >>
    BY DEF BoardInv, ServeBoard
  <1>2. /\ Changing(i) /\ inbox' \in [Tables -> Seq(Message)]
        /\ Len(inbox'[t]) = Len(inbox[t])
        /\ \A m \in 1..Len(inbox[t]) : m # n => inbox'[t][m] = inbox[t][m]
        /\ inbox'[t][n].status = IF boardReq[i].kind = "delete" \/ inbox[t][n].status = "deleted"
                                 THEN "deleted" ELSE "resolved"
    BY <1>1, ServeEffect
  <1>3. /\ boardReq[i].kind \in {"resolve", "delete"} /\ ~boardReq[i].done
        /\ boardReq' = [boardReq EXCEPT ![i] = [boardReq[i] EXCEPT !.done = TRUE]]
    BY DEF ServeBoard
  <1> DEFINE r == [kind |-> boardReq[i].kind, row |-> n, rows |-> boardReq[i].rows, done |-> TRUE]
  <1>4. r \in BoardRequest /\ r = [boardReq[i] EXCEPT !.done = TRUE]
    BY <1>1, <1>2, <1>3, RequestKinds DEF BoardRequest
  <1>5. r.kind = boardReq[i].kind /\ r.row = n /\ r.rows = boardReq[i].rows /\ r.done = TRUE
    OBVIOUS
  <1>6. boardReq[i] # Resting
    BY <1>3, RestingKind
  <1>7. r # Resting
    BY <1>3, <1>5, RestingKind
  <1> HIDE DEF r
  <1>8. boardReq \in [BoardRequests -> BoardRequest] /\ boardReq' = [boardReq EXCEPT ![i] = r]
    BY <1>1, <1>3, <1>4 DEF EnquiriesTypeOK
  <1>9. /\ boardReq' \in [BoardRequests -> BoardRequest] /\ boardReq'[i] = r
        /\ \A j \in BoardRequests \ {i} : boardReq'[j] = boardReq[j]
    BY <1>4, <1>8
  <1>10. \A j \in BoardRequests :
           /\ boardReq'[j].kind = boardReq[j].kind
           /\ Changing(j)' <=> Changing(j)
           /\ Changing(j) => boardReq'[j].rows = boardReq[j].rows /\ boardReq'[j].row = boardReq[j].row
           /\ boardReq'[j] = Resting <=> boardReq[j] = Resting
    BY <1>5, <1>6, <1>7, <1>9 DEF Changing
  <1>11. EnquiriesTypeOK'
    BY <1>1, <1>2, <1>9 DEF EnquiriesTypeOK, visitorVars
  <1>12. BoardShape'
    BY <1>1, <1>2, <1>10 DEF BoardShape
  <1>13. ASSUME ~boardRaced
         PROVE  RowsFollowInbox'
    <2>1. \A m \in 1..Len(board.rows) : m \in 1..Len(inbox[t])
      BY <1>1, RowIsShown
    <2>2. \A j \in BoardRequests : Changing(j) => j = i
      BY <1>1, <1>6, <1>13, RestingKind DEF RowsFollowInbox, Changing
    <2>3. inbox'[t][n].status # "new"
      BY <1>2
    <2>4. \A m \in 1..Len(board.rows) :
            \/ board.rows[m] = "deleted"
            \/ board.rows[m] = inbox[t][m].status
      BY <1>1, <1>3, <1>13, <2>2 DEF RowsFollowInbox
    <2>5. ASSUME NEW m \in 1..Len(board.rows)
          PROVE  \/ board.rows[m] = "deleted"
                 \/ board.rows[m] = inbox'[t][m].status
                 \/ r.row = m /\ (r.kind = "delete" \/ inbox'[t][m].status = "resolved")
      <3>1. CASE m = n
        BY <1>2, <1>5, <2>4, <3>1
      <3>2. CASE m # n
        BY <1>2, <2>1, <2>4, <3>2
      <3>3. QED
        BY <3>1, <3>2
    <2>6. \A j, k \in BoardRequests : boardReq'[j] # Resting /\ boardReq'[k] # Resting => j = k
      BY <1>1, <1>10, <1>13 DEF RowsFollowInbox
    <2>7. \A j \in BoardRequests :
            Changing(j)' => boardReq'[j].rows = board.rows /\ inbox'[t][boardReq'[j].row].status # "new"
      BY <1>1, <1>5, <1>9, <1>10, <1>13, <2>2, <2>3 DEF RowsFollowInbox
    <2>8. \A m \in 1..Len(board.rows) :
            \/ board.rows[m] = "deleted"
            \/ board.rows[m] = inbox'[t][m].status
            \/ \E j \in BoardRequests :
                 /\ Changing(j)' /\ boardReq'[j].done /\ boardReq'[j].row = m
                 /\ boardReq'[j].kind = "delete" \/ inbox'[t][m].status = "resolved"
      BY <1>2, <1>5, <1>9, <1>10, <2>5
    <2>9. QED
      BY <1>1, <2>6, <2>7, <2>8 DEF RowsFollowInbox
  <1>14. QED
    BY <1>1, <1>11, <1>12, <1>13 DEF BoardInv, RowsFollowInbox

\* A request has ended, and the others are as they were.
LEMMA Ended ==
  ASSUME EnquiriesTypeOK, NEW i \in BoardRequests, boardReq' = [boardReq EXCEPT ![i] = Resting]
  PROVE  /\ boardReq' \in [BoardRequests -> BoardRequest]
         /\ boardReq'[i] = Resting /\ ~Changing(i)'
         /\ \A j \in BoardRequests \ {i} : boardReq'[j] = boardReq[j] /\ (Changing(j)' <=> Changing(j))
  BY RestingKind DEF EnquiriesTypeOK, Changing

\* A list has come: it is that of the database.
LEMMA ListKeeps ==
  ASSUME BoardInv, NEW i \in BoardRequests, ListAnswers(i)
  PROVE  BoardInv'
  <1> DEFINE t == board.table
  <1> DEFINE a == Answer(t)
  <1>1. /\ EnquiriesTypeOK /\ BoardShape /\ UNCHANGED << inbox, visitorVars, boardClicks, boardRaced >>
        /\ board' = [board EXCEPT !.rows = a, !.loaded = TRUE]
        /\ boardReq[i].kind = "list"
    BY DEF BoardInv, ListAnswers
  <1>2. /\ board \in [table: Tables, rows: Seq(Status), loaded: BOOLEAN, view: Nat, viewed: {"new", "resolved"}]
        /\ t \in Tables /\ inbox[t] \in Seq(Message)
    BY <1>1 DEF EnquiriesTypeOK, Status
  <1>3. /\ Len(inbox[t]) \in Nat /\ \A m \in 1..Len(inbox[t]) : inbox[t][m].status \in Status
    <2>1. Len(inbox[t]) \in Nat /\ \A m \in 1..Len(inbox[t]) : inbox[t][m] \in Message
      BY <1>2
    <2>2. \A x \in Message : x.status \in Status
      BY DEF Message, Status
    <2>3. QED
      BY <2>1, <2>2
  <1>4. /\ a \in [1..Len(inbox[t]) -> Status]
        /\ \A m \in 1..Len(inbox[t]) : a[m] = "deleted" \/ a[m] = inbox[t][m].status
    BY <1>3 DEF Answer, Status
  <1> HIDE DEF a
  <1>5. a \in Seq(Status) /\ Len(a) = Len(inbox[t])
    BY <1>3, <1>4, IsSequence
  <1>6. board' \in [table: Tables, rows: Seq(Status), loaded: BOOLEAN, view: Nat, viewed: {"new", "resolved"}]
    BY <1>1, <1>2, <1>5
  <1>7. board'.table = t /\ board'.rows = a /\ board'.loaded = TRUE /\ board'.view = board.view
    BY <1>1, <1>2
  <1>8. /\ boardReq' \in [BoardRequests -> BoardRequest]
        /\ \A j \in BoardRequests : boardReq'[j] = Resting /\ ~Changing(j)'
    <2>1. /\ boardReq' \in [BoardRequests -> BoardRequest] /\ boardReq'[i] = Resting
          /\ \A j \in BoardRequests \ {i} : boardReq'[j] = boardReq[j]
      BY <1>1, Ended DEF ListAnswers
    <2>2. \A j \in BoardRequests \ {i} : boardReq[j] = Resting
      BY <1>1 DEF BoardShape
    <2>3. QED
      BY <2>1, <2>2, RestingKind DEF Changing
  <1>9. board.view \in 0..Len(a)
    <2>1. Len(board.rows) = 0 /\ board.view \in 0..Len(board.rows)
      BY <1>1 DEF BoardShape
    <2>2. QED
      BY <1>3, <1>5, <2>1
  <1>10. EnquiriesTypeOK'
    BY <1>1, <1>6, <1>8 DEF EnquiriesTypeOK, visitorVars, Status
  <1>11. BoardShape'
    BY <1>1, <1>3, <1>5, <1>7, <1>8, <1>9, RestingKind DEF BoardShape
  <1>12. RowsFollowInbox'
    BY <1>1, <1>4, <1>5, <1>7, <1>8 DEF RowsFollowInbox
  <1>13. QED
    BY <1>10, <1>11, <1>12 DEF BoardInv

\* A change has returned: its row is written on the screen.
LEMMA ReturnKeeps ==
  ASSUME BoardInv, NEW i \in BoardRequests, ChangeReturns(i)
  PROVE  BoardInv'
  <1> DEFINE t == board.table
  <1> DEFINE n == boardReq[i].row
  <1> DEFINE old == boardReq[i].rows
  <1> DEFINE v == IF boardReq[i].kind = "delete" \/ old[n] = "deleted" THEN "deleted" ELSE "resolved"
  <1> DEFINE new == [old EXCEPT ![n] = v]
  <1>1. /\ EnquiriesTypeOK /\ BoardShape /\ RowsFollowInbox
        /\ UNCHANGED << inbox, visitorVars, boardClicks, boardRaced >>
        /\ board' = [board EXCEPT !.rows = new]
        /\ Changing(i) /\ boardReq[i].done /\ boardReq[i].kind \in {"resolve", "delete"}
        /\ boardReq' = [boardReq EXCEPT ![i] = Resting]
    BY DEF BoardInv, ChangeReturns, Changing
  <1>2. board \in [table: Tables, rows: Seq(Status), loaded: BOOLEAN, view: Nat, viewed: {"new", "resolved"}]
    BY <1>1 DEF EnquiriesTypeOK, Status
  <1>3. /\ old \in Seq(Status) /\ Len(old) = Len(board.rows) /\ n \in 1..Len(board.rows)
    BY <1>1, RequestKinds DEF BoardShape, Status
  <1>4. v \in Status /\ (boardReq[i].kind = "delete" => v = "deleted")
        /\ (old[n] = "deleted" => v = "deleted") /\ v \in {"deleted", "resolved"}
    BY DEF Status
  <1> HIDE DEF v
  <1>5. new \in Seq(Status) /\ Len(new) = Len(board.rows) /\ new[n] = v
        /\ \A m \in 1..Len(board.rows) : m # n => new[m] = old[m]
    BY <1>3, <1>4, ExceptSeq
  <1> HIDE DEF new
  <1>6. board' \in [table: Tables, rows: Seq(Status), loaded: BOOLEAN, view: Nat, viewed: {"new", "resolved"}]
    BY <1>1, <1>2, <1>5
  <1>7. board'.table = t /\ board'.rows = new /\ board'.loaded = board.loaded /\ board'.view = board.view
    BY <1>1, <1>2
  <1>8. /\ boardReq' \in [BoardRequests -> BoardRequest]
        /\ boardReq'[i] = Resting /\ ~Changing(i)'
        /\ \A j \in BoardRequests \ {i} : boardReq'[j] = boardReq[j] /\ (Changing(j)' <=> Changing(j))
    BY <1>1, Ended
  <1>9. EnquiriesTypeOK'
    BY <1>1, <1>6, <1>8 DEF EnquiriesTypeOK, visitorVars, Status
  <1>10. board.loaded
    BY <1>1, <1>3, RowIsShown
  <1>11. BoardShape'
    <2>1. \A j \in BoardRequests : Changing(j)' =>
            Len(boardReq'[j].rows) = Len(new) /\ boardReq'[j].row \in 1..Len(new)
      BY <1>1, <1>5, <1>8 DEF BoardShape
    <2>2. \A j \in BoardRequests : boardReq'[j].kind # "list"
      BY <1>1, <1>8, <1>10, RestingKind DEF BoardShape
    <2>3. QED
      BY <1>1, <1>5, <1>7, <1>10, <2>1, <2>2 DEF BoardShape
  <1>12. ASSUME ~boardRaced
         PROVE  RowsFollowInbox'
    <2>1. boardReq[i] # Resting
      BY <1>1, RestingKind
    <2>2. \A j \in BoardRequests : boardReq'[j] = Resting /\ ~Changing(j)'
      BY <1>1, <1>8, <1>12, <2>1, RestingKind DEF RowsFollowInbox, Changing
    <2>3. old = board.rows /\ inbox[t][n].status # "new" /\ \A j \in BoardRequests : Changing(j) => j = i
      BY <1>1, <1>12, <2>1, RestingKind DEF RowsFollowInbox, Changing
    <2>4. \A m \in 1..Len(board.rows) :
            \/ old[m] = "deleted"
            \/ old[m] = inbox[t][m].status
            \/ m = n /\ (boardReq[i].kind = "delete" \/ inbox[t][m].status = "resolved")
      BY <1>1, <1>12, <2>3 DEF RowsFollowInbox
    <2>5. new[n] = "deleted" \/ new[n] = inbox[t][n].status
      BY <1>1, <1>3, <1>4, <1>5, <2>3, <2>4, RowIsShown DEF Status, v
    <2>6. \A m \in 1..Len(board.rows) : new[m] = "deleted" \/ new[m] = inbox[t][m].status
      BY <1>5, <2>4, <2>5
    <2>7. QED
      BY <1>1, <1>5, <1>7, <2>2, <2>6 DEF RowsFollowInbox
  <1>13. QED
    BY <1>1, <1>9, <1>11, <1>12 DEF BoardInv, RowsFollowInbox

LEMMA FailsKeeps ==
  ASSUME BoardInv, NEW i \in BoardRequests, BoardFails(i)
  PROVE  BoardInv'
  <1>1. /\ EnquiriesTypeOK /\ BoardShape /\ boardRaced' = TRUE
        /\ UNCHANGED << inbox, visitorVars, board, boardClicks >>
        /\ boardReq' = [boardReq EXCEPT ![i] = Resting]
    BY DEF BoardInv, BoardFails
  <1>2. /\ boardReq' \in [BoardRequests -> BoardRequest]
        /\ boardReq'[i] = Resting /\ ~Changing(i)'
        /\ \A j \in BoardRequests \ {i} : boardReq'[j] = boardReq[j] /\ (Changing(j)' <=> Changing(j))
    BY <1>1, Ended
  <1>3. EnquiriesTypeOK'
    BY <1>1, <1>2 DEF EnquiriesTypeOK, visitorVars
  <1>4. BoardShape'
    <2>1. \A j \in BoardRequests : boardReq'[j].kind = "list" =>
            ~board.loaded /\ \A k \in BoardRequests \ {j} : boardReq'[k] = Resting
      BY <1>1, <1>2, RestingKind DEF BoardShape
    <2>2. QED
      BY <1>1, <1>2, <2>1 DEF BoardShape
  <1>5. QED
    BY <1>1, <1>3, <1>4 DEF BoardInv, RowsFollowInbox

LEMMA InitBoardInv ==
  ASSUME EnquiriesInit
  PROVE  BoardInv
  <1>1. EnquiriesTypeOK
    <2>1. << >> \in Seq(Message) /\ << >> \in Seq(Status)
      OBVIOUS
    <2>2. board \in [table: Tables, rows: Seq(Status), loaded: BOOLEAN, view: Nat, viewed: {"new", "resolved"}]
      BY <2>1 DEF EnquiriesInit, Tables, NoView
    <2>3. dialog \in [open: BOOLEAN, text: Nat, at: {"form", "sending", "stored"}, success: BOOLEAN,
                      sent: Nat, timers: Nat, clearing: BOOLEAN]
      BY DEF EnquiriesInit
    <2>4. QED
      BY <2>1, <2>2, <2>3, RestingKind DEF EnquiriesInit, EnquiriesTypeOK, Status
  <1>2. /\ board.rows = << >> /\ board.view = 0 /\ ~board.loaded /\ Len(<< >>) = 0
        /\ inbox[board.table] = << >> /\ \A i \in BoardRequests : boardReq[i] = Resting /\ ~Changing(i)
    BY RestingKind DEF EnquiriesInit, NoView, Changing, Tables
  <1>3. BoardShape /\ RowsFollowInbox
    BY <1>2, RestingKind DEF BoardShape, RowsFollowInbox
  <1>4. QED
    BY <1>1, <1>3 DEF BoardInv

\* The rows of the office's page follow the tables of the server, for any number of requests at a
\* time, any limit of a list and any number of messages.
THEOREM BoardInvariance == EnquiriesSpec => []BoardInv
<1>1. EnquiriesInit => BoardInv
  BY InitBoardInv
<1>2. BoardInv /\ [EnquiriesNext]_enquiryVars => BoardInv'
  <2> SUFFICES ASSUME BoardInv, [EnquiriesNext]_enquiryVars
               PROVE  BoardInv'
    OBVIOUS
  <2>1. CASE VisitorStep
    BY <2>1, VisitorKeepsBoard
  <2>2. CASE OfficeStep
    BY <2>2, OfficeKeeps
  <2>3. CASE \E i \in BoardRequests : ServeBoard(i) \/ ListAnswers(i) \/ ChangeReturns(i) \/ BoardFails(i)
    BY <2>3, ServeKeeps, ListKeeps, ReturnKeeps, FailsKeeps
  <2>4. CASE UNCHANGED enquiryVars
    BY <2>4 DEF enquiryVars, visitorVars, officeVars, BoardInv, EnquiriesTypeOK, BoardShape, RowsFollowInbox,
                Changing
  <2>5. QED
    BY <2>1, <2>2, <2>3, <2>4 DEF EnquiriesNext
<1>3. QED
  BY <1>1, <1>2, PTL DEF EnquiriesSpec

\* When no request of the office is under way, a row on the screen has the status that the
\* database has, unless two requests overlapped or one failed (updateStatus, deleteEnquiry).
THEOREM BoardAsStoredAlways == EnquiriesSpec => []BoardAsStored
<1>1. BoardInv => BoardAsStored
  <2> SUFFICES ASSUME BoardInv, ~BoardBusy, ~boardRaced, NEW n \in DOMAIN board.rows
               PROVE  board.rows[n] # "deleted" => board.rows[n] = inbox[board.table][n].status
    BY DEF BoardAsStored
  <2>1. \A i \in BoardRequests : ~Changing(i)
    BY RestingKind DEF BoardBusy, Changing
  <2>2. n \in 1..Len(board.rows)
    BY DEF BoardInv, EnquiriesTypeOK
  <2>3. QED
    BY <2>1, <2>2 DEF BoardInv, RowsFollowInbox
<1>2. QED
  BY <1>1, BoardInvariance, PTL

-----------------------------------------------------------------------------
(* Enquiries: messages are kept and sent once.                                 *)

\* A text that its table does not hold yet is stored: the texts of the table still differ.
LEMMA InsertOnce ==
  ASSUME EnquiriesTypeOK, NEW t \in Tables, NEW x \in Nat, Insert(t, x), SentOnce, x \notin StoredTexts(t)
  PROVE  SentOnce'
  <1> DEFINE k == Len(inbox[t])
  <1>1. /\ \A u \in Tables \ {t} : inbox'[u] = inbox[u]
        /\ k \in Nat /\ Len(inbox'[t]) = k + 1
    BY InsertEffect
  <1>2. \A m \in 1..k : inbox'[t][m] = inbox[t][m] /\ inbox[t][m].text # x
    BY InsertEffect DEF StoredTexts
  <1>3. inbox'[t][k + 1].text = x
    <2>1. inbox'[t][k + 1] = [text |-> x, status |-> "new"]
      BY InsertEffect
    <2>2. QED
      BY <2>1
  <1>4. ASSUME NEW m \in 1..k + 1, NEW n \in 1..k + 1, m # n
        PROVE  inbox'[t][m].text # inbox'[t][n].text
    <2>1. CASE m \in 1..k /\ n \in 1..k
      BY <1>2, <1>4, <2>1 DEF SentOnce
    <2>2. CASE m = k + 1 \/ n = k + 1
      <3>1. (m = k + 1 /\ n \in 1..k) \/ (n = k + 1 /\ m \in 1..k)
        BY <1>1, <1>4, <2>2
      <3>2. QED
        BY <1>2, <1>3, <3>1
    <2>3. QED
      BY <1>1, <2>1, <2>2
  <1>5. \A u \in Tables \ {t} : \A m, n \in 1..Len(inbox'[u]) : m # n => inbox'[u][m].text # inbox'[u][n].text
    BY <1>1 DEF SentOnce
  <1>6. QED
    BY <1>1, <1>4, <1>5 DEF SentOnce

\* What the tables hold is told by the texts and by how many there are.
LEMMA SameInbox ==
  ASSUME inbox' = inbox
  PROVE  (SentOnce' <=> SentOnce) /\ \A t \in Tables : StoredTexts(t)' = StoredTexts(t)
  BY DEF SentOnce, StoredTexts

MessagesRest == TextsKnown /\ ContactFollows /\ DialogFollowsText /\ MessagesKeptAndSentOnce

LEMMA TextFacts ==
  ASSUME EnquiriesTypeOK, TextsKnown
  PROVE  /\ texts \in Nat /\ 0 \in 0..texts /\ 0..texts \subseteq 0..texts + 1
         /\ texts + 1 \in 0..texts + 1
         /\ 1..texts \subseteq 1..texts + 1 /\ texts + 1 # 0
         /\ \A t \in Tables : 0 \notin StoredTexts(t) /\ texts + 1 \notin StoredTexts(t)
  BY DEF EnquiriesTypeOK, TextsKnown

\* The contact page.
LEMMA ContactKeeps ==
  ASSUME EnquiriesTypeOK, MessagesRest,
         TypeContact \/ SubmitContact \/ ContactAnswered \/ ContactFails \/ ResetContact
  PROVE  MessagesRest'
  <1>1. inbox' = inbox /\ dialog' = dialog /\ rushed' = rushed
    BY DEF TypeContact, SubmitContact, ContactAnswered, ContactFails, ResetContact
  <1>2. (SentOnce' <=> SentOnce) /\ \A t \in Tables : StoredTexts(t)' = StoredTexts(t)
    BY <1>1, SameInbox
  <1>3. /\ contact \in [at: {"form", "sending", "stored", "success"}, text: Nat]
        /\ "contacts" \in Tables /\ "enquiries" \in Tables
    BY DEF EnquiriesTypeOK, Tables
  <1>4. TextsKnown'
    <2>1. CASE TypeContact
      BY <1>1, <1>2, <1>3, <2>1, TextFacts DEF TypeContact, Type, TextsKnown, MessagesRest
    <2>2. CASE SubmitContact \/ ContactAnswered \/ ContactFails \/ ResetContact
      BY <1>1, <1>2, <1>3, <2>2, TextFacts
         DEF SubmitContact, ContactAnswered, ContactFails, ResetContact, TextsKnown, MessagesRest
    <2>3. QED
      BY <2>1, <2>2
  <1>5. ContactFollows' /\ (lostAnswer => lostAnswer')
    <2>1. CASE TypeContact
      BY <1>2, <1>3, <2>1, TextFacts DEF TypeContact, Type, ContactFollows, MessagesRest
    <2>2. CASE SubmitContact
      BY <1>2, <1>3, <2>2 DEF SubmitContact, ContactFollows, MessagesRest
    <2>3. CASE ContactAnswered
      BY <1>2, <1>3, <2>3 DEF ContactAnswered, ContactFollows, MessagesRest
    <2>4. CASE ContactFails
      BY <1>2, <1>3, <2>4 DEF ContactFails, ContactFollows, MessagesRest
    <2>5. CASE ResetContact
      BY <1>2, <1>3, <2>5, TextFacts DEF ResetContact, ContactFollows, MessagesRest
    <2>6. QED
      BY <2>1, <2>2, <2>3, <2>4, <2>5
  <1>6. wiped' = wiped
    <2>1. CASE ResetContact
      <3>1. contact.text \in StoredTexts("contacts")
        BY <2>1 DEF ResetContact, ContactFollows, MessagesRest
      <3>2. ~\A i \in 1..Len(inbox["contacts"]) : inbox["contacts"][i].text # contact.text
        BY <3>1 DEF StoredTexts
      <3>3. QED
        BY <2>1, <3>2 DEF ResetContact, EnquiriesTypeOK
    <2>2. QED
      BY <2>1 DEF TypeContact, SubmitContact, ContactAnswered, ContactFails
  <1>7. DialogFollowsText'
    BY <1>1, <1>2, <1>3, <1>5 DEF DialogFollowsText, MessagesRest
  <1>8. MessagesKeptAndSentOnce'
    BY <1>1, <1>2, <1>5, <1>6 DEF MessagesKeptAndSentOnce, MessagesRest
  <1>9. QED
    BY <1>4, <1>5, <1>7, <1>8 DEF MessagesRest

LEMMA StoreContactKeeps ==
  ASSUME EnquiriesTypeOK, MessagesRest, StoreContact
  PROVE  MessagesRest'
  <1>1. /\ contact \in [at: {"form", "sending", "stored", "success"}, text: Nat] /\ contact.text \in Nat
        /\ "contacts" \in Tables /\ "enquiries" \in Tables
    BY DEF EnquiriesTypeOK, Tables
  <1>2. /\ contact.at = "sending" /\ Insert("contacts", contact.text)
        /\ contact' = [contact EXCEPT !.at = "stored"]
        /\ UNCHANGED << dialog, texts, wiped, rushed, lostAnswer >>
    BY DEF StoreContact
  <1>3. contact'.at = "stored" /\ contact'.text = contact.text
    BY <1>1, <1>2
  <1>4. /\ StoredTexts("contacts")' = StoredTexts("contacts") \cup {contact.text}
        /\ StoredTexts("enquiries")' = StoredTexts("enquiries")
    BY <1>1, <1>2, InsertStores
  <1>5. TextsKnown'
    <2>1. contact.text \in 1..texts
      BY <1>1, <1>2 DEF TextsKnown, MessagesRest, EnquiriesTypeOK
    <2>2. \A t \in Tables : StoredTexts(t)' \subseteq 1..texts
      BY <1>4, <2>1 DEF Tables, TextsKnown, MessagesRest
    <2>3. QED
      BY <1>2, <1>3, <2>1, <2>2 DEF TextsKnown, MessagesRest
  <1>6. ContactFollows'
    BY <1>3, <1>4 DEF ContactFollows
  <1>7. DialogFollowsText'
    BY <1>2, <1>4 DEF DialogFollowsText, MessagesRest
  <1>8. MessagesKeptAndSentOnce'
    <2>1. ASSUME ~lostAnswer, SentOnce
          PROVE  SentOnce'
      BY <1>1, <1>2, <2>1, InsertOnce DEF ContactFollows, MessagesRest
    <2>2. QED
      BY <1>2, <2>1 DEF MessagesKeptAndSentOnce, MessagesRest
  <1>9. QED
    BY <1>5, <1>6, <1>7, <1>8 DEF MessagesRest

\* The dialog.
LEMMA StoreDialogKeeps ==
  ASSUME EnquiriesTypeOK, MessagesRest, StoreDialog
  PROVE  MessagesRest'
  <1>1. /\ dialog.sent \in Nat /\ "contacts" \in Tables /\ "enquiries" \in Tables
    BY DEF EnquiriesTypeOK, Tables
  <1>2. /\ dialog.at = "sending" /\ Insert("enquiries", dialog.sent)
        /\ dialog' = [dialog EXCEPT !.at = "stored"]
        /\ UNCHANGED << contact, texts, wiped, rushed, lostAnswer >>
    BY DEF StoreDialog
  <1>3. /\ dialog'.at = "stored" /\ dialog'.text = dialog.text /\ dialog'.sent = dialog.sent
        /\ dialog'.timers = dialog.timers
    BY <1>2 DEF EnquiriesTypeOK
  <1>4. /\ StoredTexts("enquiries")' = StoredTexts("enquiries") \cup {dialog.sent}
        /\ StoredTexts("contacts")' = StoredTexts("contacts")
    BY <1>1, <1>2, InsertStores
  <1>5. TextsKnown'
    <2>1. dialog.sent \in 1..texts
      BY <1>1, <1>2 DEF TextsKnown, MessagesRest, EnquiriesTypeOK
    <2>2. \A t \in Tables : StoredTexts(t)' \subseteq 1..texts
      BY <1>4, <2>1 DEF Tables, TextsKnown, MessagesRest
    <2>3. QED
      BY <1>2, <1>3, <2>1, <2>2 DEF TextsKnown, MessagesRest
  <1>6. ContactFollows'
    BY <1>2, <1>4 DEF ContactFollows, MessagesRest
  <1>7. DialogFollowsText'
    BY <1>2, <1>3 DEF DialogFollowsText, MessagesRest
  <1>8. MessagesKeptAndSentOnce'
    <2>1. ASSUME ~rushed, ~lostAnswer, SentOnce
          PROVE  SentOnce'
      <3>1. dialog.timers = 0 /\ dialog.text = dialog.sent
        BY <1>2, <2>1 DEF DialogFollowsText, MessagesRest, EnquiriesTypeOK
      <3>2. dialog.sent \notin StoredTexts("enquiries")
        BY <1>2, <2>1, <3>1 DEF DialogFollowsText, MessagesRest
      <3>3. QED
        BY <1>1, <1>2, <2>1, <3>2, InsertOnce
    <2>2. QED
      BY <1>2, <2>1 DEF MessagesKeptAndSentOnce, MessagesRest
  <1>9. QED
    BY <1>5, <1>6, <1>7, <1>8 DEF MessagesRest

\* What an action of the dialog does to the text, to its copy that is sent and to the timers.
DialogTouches ==
  \/ OpenDialog \/ CloseDialog \/ ForgetSuccess \/ TypeDialog \/ SubmitDialog
  \/ DialogAnswered \/ DialogFails \/ ResetDialog

LEMMA DialogKeeps ==
  ASSUME EnquiriesTypeOK, MessagesRest, DialogTouches
  PROVE  MessagesRest'
  <1>1. inbox' = inbox /\ contact' = contact
    BY DEF DialogTouches, OpenDialog, CloseDialog, ForgetSuccess, TypeDialog, SubmitDialog, DialogAnswered,
           DialogFails, ResetDialog
  <1>2. (SentOnce' <=> SentOnce) /\ \A t \in Tables : StoredTexts(t)' = StoredTexts(t)
    BY <1>1, SameInbox
  <1>3. /\ dialog \in [open: BOOLEAN, text: Nat, at: {"form", "sending", "stored"}, success: BOOLEAN,
                       sent: Nat, timers: Nat, clearing: BOOLEAN]
        /\ "contacts" \in Tables /\ "enquiries" \in Tables
        /\ {wiped, rushed, lostAnswer} \subseteq BOOLEAN
    BY DEF EnquiriesTypeOK, Tables
  <1>4. /\ TextsKnown /\ ContactFollows /\ DialogFollowsText /\ MessagesKeptAndSentOnce
    BY DEF MessagesRest
  <1>5. CASE OpenDialog \/ CloseDialog \/ ForgetSuccess
    <2>1. /\ dialog'.text = dialog.text /\ dialog'.sent = dialog.sent /\ dialog'.timers = dialog.timers
          /\ dialog'.at = dialog.at
          /\ UNCHANGED << texts, wiped, rushed, lostAnswer >>
      BY <1>3, <1>5 DEF OpenDialog, CloseDialog, ForgetSuccess
    <2>2. TextsKnown'
      BY <1>1, <1>2, <1>4, <2>1 DEF TextsKnown
    <2>3. ContactFollows' /\ DialogFollowsText' /\ MessagesKeptAndSentOnce'
      BY <1>1, <1>2, <1>3, <1>4, <2>1 DEF ContactFollows, DialogFollowsText, MessagesKeptAndSentOnce
    <2>4. QED
      BY <2>2, <2>3 DEF MessagesRest
  <1>6. CASE TypeDialog
    <2>1. /\ dialog'.text = texts + 1 /\ dialog'.sent = dialog.sent /\ dialog'.timers = dialog.timers
          /\ dialog'.at = dialog.at /\ texts' = texts + 1
          /\ UNCHANGED << wiped, lostAnswer >>
          /\ rushed' = (rushed \/ dialog.timers > 0 \/ dialog.at # "form")
      BY <1>3, <1>6 DEF TypeDialog, Type, Hurried
    <2>2. TextsKnown'
      BY <1>1, <1>2, <1>4, <2>1, TextFacts DEF TextsKnown
    <2>3. ContactFollows'
      BY <1>1, <1>2, <1>3, <1>4, <2>1 DEF ContactFollows
    <2>4. DialogFollowsText'
      BY <1>2, <1>3, <1>4, <2>1, TextFacts DEF DialogFollowsText
    <2>5. MessagesKeptAndSentOnce'
      BY <1>2, <1>4, <2>1 DEF MessagesKeptAndSentOnce
    <2>6. QED
      BY <2>2, <2>3, <2>4, <2>5 DEF MessagesRest
  <1>7. CASE SubmitDialog
    <2>1. /\ dialog'.text = dialog.text /\ dialog'.sent = dialog.text /\ dialog'.timers = dialog.timers
          /\ dialog'.at = "sending" /\ dialog.at = "form" /\ dialog.text # 0
          /\ UNCHANGED << texts, wiped, lostAnswer >>
          /\ rushed' = (rushed \/ dialog.timers > 0 \/ dialog.at # "form")
      BY <1>3, <1>7 DEF SubmitDialog, Hurried
    <2>2. TextsKnown'
      BY <1>1, <1>2, <1>4, <2>1 DEF TextsKnown
    <2>3. ContactFollows'
      BY <1>1, <1>2, <1>3, <1>4, <2>1 DEF ContactFollows
    <2>4. DialogFollowsText'
      BY <1>2, <1>3, <1>4, <2>1 DEF DialogFollowsText
    <2>5. MessagesKeptAndSentOnce'
      BY <1>2, <1>4, <2>1 DEF MessagesKeptAndSentOnce
    <2>6. QED
      BY <2>2, <2>3, <2>4, <2>5 DEF MessagesRest
  <1>8. CASE DialogAnswered
    <2>1. /\ dialog'.text = dialog.text /\ dialog'.sent = dialog.sent /\ dialog'.timers = dialog.timers + 1
          /\ dialog'.at = "form" /\ dialog.at = "stored"
          /\ UNCHANGED << texts, wiped, rushed, lostAnswer >>
      BY <1>3, <1>8 DEF DialogAnswered
    <2>2. TextsKnown'
      BY <1>1, <1>2, <1>4, <2>1 DEF TextsKnown
    <2>3. ContactFollows'
      BY <1>1, <1>2, <1>3, <1>4, <2>1 DEF ContactFollows
    <2>4. DialogFollowsText'
      <3>1. dialog.timers \in Nat
        BY <1>3
      <3>2. QED
        BY <1>2, <1>4, <2>1, <3>1 DEF DialogFollowsText
    <2>5. MessagesKeptAndSentOnce'
      BY <1>2, <1>4, <2>1 DEF MessagesKeptAndSentOnce
    <2>6. QED
      BY <2>2, <2>3, <2>4, <2>5 DEF MessagesRest
  <1>9. CASE DialogFails
    <2>1. /\ dialog'.text = dialog.text /\ dialog'.sent = dialog.sent /\ dialog'.timers = dialog.timers
          /\ dialog'.at = "form" /\ dialog.at \in {"sending", "stored"}
          /\ UNCHANGED << texts, wiped, rushed >>
          /\ lostAnswer' = (lostAnswer \/ dialog.at = "stored")
      BY <1>3, <1>9 DEF DialogFails
    <2>2. TextsKnown'
      BY <1>1, <1>2, <1>4, <2>1 DEF TextsKnown
    <2>3. ContactFollows'
      BY <1>1, <1>2, <1>3, <1>4, <2>1 DEF ContactFollows
    <2>4. DialogFollowsText'
      BY <1>2, <1>3, <1>4, <2>1 DEF DialogFollowsText
    <2>5. MessagesKeptAndSentOnce'
      BY <1>2, <1>4, <2>1 DEF MessagesKeptAndSentOnce
    <2>6. QED
      BY <2>2, <2>3, <2>4, <2>5 DEF MessagesRest
  <1>10. CASE ResetDialog
    <2>1. /\ dialog'.text = 0 /\ dialog'.sent = dialog.sent /\ dialog'.timers = dialog.timers - 1
          /\ dialog'.at = dialog.at /\ dialog.timers > 0
          /\ UNCHANGED << texts, rushed, lostAnswer >>
          /\ wiped' = (wiped \/ dialog.text \notin {0, dialog.sent})
      BY <1>3, <1>10 DEF ResetDialog
    <2>2. TextsKnown'
      BY <1>1, <1>2, <1>4, <2>1, TextFacts DEF TextsKnown
    <2>3. ContactFollows'
      BY <1>1, <1>2, <1>3, <1>4, <2>1 DEF ContactFollows
    <2>4. DialogFollowsText' /\ (~rushed => dialog.text = dialog.sent)
      <3>1. ~rushed => dialog.at = "form" /\ dialog.timers = 1 /\ dialog.text = dialog.sent
        BY <1>4, <2>1 DEF DialogFollowsText
      <3>2. QED
        BY <1>2, <1>3, <2>1, <3>1, TextFacts, <1>4 DEF DialogFollowsText
    <2>5. MessagesKeptAndSentOnce'
      BY <1>2, <1>4, <2>1, <2>4 DEF MessagesKeptAndSentOnce
    <2>6. QED
      BY <2>2, <2>3, <2>4, <2>5 DEF MessagesRest
  <1>11. QED
    BY <1>5, <1>6, <1>7, <1>8, <1>9, <1>10 DEF DialogTouches

\* Serving a change of the office leaves the texts of the tables.
LEMMA TextsStay ==
  ASSUME BoardInv, UNCHANGED visitorVars,
         inbox' = inbox \/ \E i \in BoardRequests : ServeBoard(i)
  PROVE  (SentOnce => SentOnce') /\ \A t \in Tables : StoredTexts(t)' = StoredTexts(t)
  <1>1. CASE inbox' = inbox
    BY <1>1, SameInbox
  <1>2. ASSUME NEW i \in BoardRequests, ServeBoard(i)
        PROVE  SentOnce => SentOnce'
    <2>1. \A t \in Tables : /\ Len(inbox'[t]) = Len(inbox[t])
                            /\ \A m \in 1..Len(inbox[t]) : inbox'[t][m].text = inbox[t][m].text
      BY <1>2, ServeEffect DEF BoardInv
    <2>2. QED
      BY <2>1 DEF SentOnce
  <1>3. QED
    BY <1>1, <1>2, ServeStores DEF BoardInv

\* A visitor's message is neither lost nor stored twice, for any number of texts and messages.
THEOREM MessagesInvariance == EnquiriesSpec => []MessagesInv
<1>1. EnquiriesInit => MessagesRest
  <2> SUFFICES ASSUME EnquiriesInit
               PROVE  MessagesRest
    OBVIOUS
  <2>1. \A t \in Tables : Len(inbox[t]) = 0 /\ 1..Len(inbox[t]) = {} /\ StoredTexts(t) = {}
    BY DEF EnquiriesInit, StoredTexts
  <2>2. SentOnce
    BY <2>1 DEF SentOnce
  <2>3. TextsKnown
    BY <2>1 DEF EnquiriesInit, TextsKnown
  <2>4. ContactFollows /\ DialogFollowsText
    BY <2>1 DEF EnquiriesInit, ContactFollows, DialogFollowsText, Tables
  <2>5. MessagesKeptAndSentOnce
    BY <2>2 DEF EnquiriesInit, MessagesKeptAndSentOnce
  <2>6. QED
    BY <2>3, <2>4, <2>5 DEF MessagesRest
<1>2. BoardInv /\ MessagesRest /\ [EnquiriesNext]_enquiryVars => MessagesRest'
  <2> SUFFICES ASSUME BoardInv, MessagesRest, [EnquiriesNext]_enquiryVars
               PROVE  MessagesRest'
    OBVIOUS
  <2>1. EnquiriesTypeOK
    BY DEF BoardInv
  <2>2. CASE VisitorStep
    BY <2>1, <2>2, ContactKeeps, StoreContactKeeps, StoreDialogKeeps, DialogKeeps DEF VisitorStep, DialogTouches
  <2>3. ASSUME UNCHANGED visitorVars, inbox' = inbox \/ \E i \in BoardRequests : ServeBoard(i)
        PROVE  MessagesRest'
    <3>1. (SentOnce => SentOnce') /\ \A t \in Tables : StoredTexts(t)' = StoredTexts(t)
      BY <2>3, TextsStay
    <3>2. TextsKnown'
      BY <2>3, <3>1 DEF visitorVars, TextsKnown, MessagesRest
    <3>3. ContactFollows' /\ DialogFollowsText'
      BY <2>3, <3>1 DEF visitorVars, ContactFollows, DialogFollowsText, MessagesRest, Tables
    <3>4. MessagesKeptAndSentOnce'
      BY <2>3, <3>1 DEF visitorVars, MessagesKeptAndSentOnce, MessagesRest
    <3>5. QED
      BY <3>2, <3>3, <3>4 DEF MessagesRest
  <2>4. VisitorStep \/ (UNCHANGED visitorVars /\ (inbox' = inbox \/ \E i \in BoardRequests : ServeBoard(i)))
    BY DEF EnquiriesNext, OfficeStep, ServeBoard, ListAnswers, ChangeReturns, BoardFails, enquiryVars
  <2>5. QED
    BY <2>2, <2>3, <2>4
<1>3. BoardInv /\ MessagesRest => MessagesInv
  BY DEF BoardInv, MessagesRest, MessagesInv
<1>4. QED
  BY <1>1, <1>2, <1>3, BoardInvariance, PTL DEF EnquiriesSpec

\* What a visitor typed is not taken out of a form before it was sent, and is stored once, unless
\* the dialog was used again before its timer, or an answer was lost (handleSubmit, handleReset).
THEOREM MessagesKeptAndSentOnceAlways == EnquiriesSpec => []MessagesKeptAndSentOnce
<1>1. MessagesInv => MessagesKeptAndSentOnce
  BY DEF MessagesInv
<1>2. QED
  BY <1>1, MessagesInvariance, PTL

-----------------------------------------------------------------------------
(* Checkout: the draft and the cart.                                           *)

\* A change of the cart sends it, with the next number.
LEMMA StoredCartKeeps ==
  ASSUME DraftInv, NEW items, Store(items)
  PROVE  DraftInv'
  <1> DEFINE new == [n |-> posted + 1, items |-> items]
  <1>1. /\ posts' = posts \cup {new} /\ draft' = draft /\ cart' = items /\ posted' = posted + 1
        /\ restore' = restore /\ swapped' = swapped
        /\ overtaken' = (overtaken \/ (restore.at = "answered" /\ items # cart))
    BY DEF Store
  <1>2. Writes' = Writes \cup {new} /\ new \in Writes' /\ new.n = posted + 1 /\ new.items = items
    BY <1>1 DEF Writes
  <1>3. /\ posted + 1 \in Nat /\ posted + 1 \in 0..posted + 1
        /\ \A r \in Writes : r.n \in 0..posted + 1 /\ r.n # posted + 1
    BY DEF DraftInv, WritesKnown
  <1> HIDE DEF new
  <1>4. WritesKnown'
    BY <1>1, <1>2, <1>3 DEF DraftInv, WritesKnown
  <1>5. DraftFollows'
    <2>1. \A r \in Writes' : r.n = posted' => r.items = cart'
      BY <1>1, <1>2, <1>3
    <2>2. \E r \in Writes' : r.n = posted'
      BY <1>1, <1>2
    <2>3. ~overtaken' => ~overtaken /\ (restore.at = "answered" => cart' = cart)
      BY <1>1
    <2>4. QED
      BY <1>1, <2>1, <2>2, <2>3 DEF DraftInv, DraftFollows
  <1>6. QED
    BY <1>4, <1>5 DEF DraftInv

\* A request writes the draft, or is lost.
LEMMA SavedDraftKeeps ==
  ASSUME DraftInv, NEW r \in posts, SaveDraft(r)
  PROVE  DraftInv'
  <1>1. /\ posts' = posts \ {r} /\ draft' \in {r, draft}
        /\ UNCHANGED << cart, posted, restore, swapped >>
    BY DEF SaveDraft
  <1>2. Writes' \subseteq Writes
    BY <1>1 DEF Writes
  <1>3. WritesKnown'
    BY <1>1, <1>2 DEF DraftInv, WritesKnown
  <1>4. ASSUME ~overtaken'
        PROVE  \E w \in Writes' : w.n = posted
    <2>1. draft' = r /\ ~overtaken /\ ~(draft.n > r.n)
      BY <1>4 DEF SaveDraft
    <2>2. r.n \in 0..posted /\ draft.n \in 0..posted /\ posted \in Nat
      BY DEF DraftInv, WritesKnown, Writes
    <2>3. PICK w \in Writes : w.n = posted
      BY <2>1 DEF DraftInv, DraftFollows
    <2>4. CASE w \in posts
      BY <1>1, <2>1, <2>3, <2>4 DEF Writes
    <2>5. CASE w = draft
      BY <1>1, <2>1, <2>2, <2>3, <2>5 DEF Writes
    <2>6. QED
      BY <2>3, <2>4, <2>5 DEF Writes
  <1>5. ~overtaken' => ~overtaken
    BY DEF SaveDraft
  <1>6. DraftFollows'
    BY <1>1, <1>2, <1>4, <1>5 DEF DraftInv, DraftFollows
  <1>7. QED
    BY <1>3, <1>6 DEF DraftInv

\* What the checkout page does with the draft it fetches.
LEMMA FetchedDraftKeeps ==
  ASSUME DraftInv, AskDraft \/ GetDraft \/ RestoreCart
  PROVE  DraftInv'
  <1>1. CASE AskDraft
    <2>1. /\ restore' = [at |-> "asked", old |-> FALSE]
          /\ UNCHANGED << cart, draft, posts, posted, overtaken, swapped >>
      BY <1>1 DEF AskDraft
    <2>2. restore'.at = "asked" /\ Writes' = Writes
      BY <2>1 DEF Writes
    <2>3. QED
      BY <2>1, <2>2 DEF DraftInv, WritesKnown, DraftFollows
  <1>2. CASE GetDraft
    <2>1. /\ UNCHANGED << cart, draft, posts, posted, swapped >>
          /\ overtaken' = (overtaken \/ draft.items # cart) /\ Writes' = Writes
      BY <1>2 DEF GetDraft, Writes
    <2>2. PICK i \in {draft.items, << >>} : restore' = [at |-> "answered", old |-> restore.old, items |-> i]
      BY <1>2 DEF GetDraft
    <2>3. /\ restore'.at = "answered" /\ restore'.items = i
          /\ restore' = [at |-> "answered", old |-> restore'.old, items |-> restore'.items]
      BY <2>2
    <2>4. ASSUME ~overtaken'
          PROVE  i \in {<< >>, cart}
      BY <2>1, <2>2, <2>4
    <2>5. WritesKnown'
      BY <2>1, <2>3 DEF DraftInv, WritesKnown
    <2>6. DraftFollows'
      BY <2>1, <2>3, <2>4 DEF DraftInv, DraftFollows
    <2>7. QED
      BY <2>5, <2>6 DEF DraftInv
  <1>3. CASE RestoreCart
    <2>1. /\ restore.at = "answered" /\ UNCHANGED << draft, posts, posted, overtaken >> /\ Writes' = Writes
          /\ cart' = IF restore.items = << >> THEN cart ELSE restore.items
          /\ swapped' = (swapped \/ cart' # cart)
          /\ restore' \in {NoRestore, [at |-> "done", old |-> FALSE]}
      BY <1>3 DEF RestoreCart, Writes
    <2>2. restore'.at # "answered" /\ restore' = [at |-> restore'.at, old |-> restore'.old]
      BY <2>1 DEF NoRestore
    <2>3. ~overtaken => cart' = cart
      BY <2>1 DEF DraftInv, DraftFollows
    <2>4. WritesKnown'
      BY <2>1, <2>2 DEF DraftInv, WritesKnown
    <2>5. DraftFollows'
      BY <2>1, <2>2, <2>3 DEF DraftInv, DraftFollows
    <2>6. QED
      BY <2>4, <2>5 DEF DraftInv
  <1>4. QED
    BY <1>1, <1>2, <1>3

LEMMA OldAnswer ==
  ASSUME NEW r, NEW x, r = [at |-> "answered", old |-> r.old, items |-> r.items]
  PROVE  [r EXCEPT !.old = x] = [at |-> "answered", old |-> x, items |-> r.items]
  OBVIOUS

\* The page is left, or loaded again.
LEMMA LeftPageKeeps ==
  ASSUME DraftInv, LeaveCheckout \/ CancelPayment
  PROVE  DraftInv'
  <1>1. /\ UNCHANGED << cart, draft, posts, posted, overtaken, swapped >> /\ Writes' = Writes
        /\ \/ restore' = NoRestore
           \/ restore.at \in {"asked", "answered"} /\ restore' = [restore EXCEPT !.old = TRUE]
    BY DEF LeaveCheckout, CancelPayment, Writes
  <1>2. CASE restore' = NoRestore
    <2>1. restore'.at = "none" /\ restore' = [at |-> restore'.at, old |-> restore'.old]
      BY <1>2 DEF NoRestore
    <2>2. QED
      BY <1>1, <2>1 DEF DraftInv, WritesKnown, DraftFollows
  <1>3. CASE restore' = [restore EXCEPT !.old = TRUE]
    <2>1. CASE restore.at # "answered" /\ restore = [at |-> restore.at, old |-> restore.old]
      <3>1. restore' = [at |-> restore.at, old |-> TRUE]
        BY <1>3, <2>1
      <3>2. restore'.at # "answered" /\ restore' = [at |-> restore'.at, old |-> restore'.old]
        BY <2>1, <3>1
      <3>3. QED
        BY <1>1, <3>2 DEF DraftInv, WritesKnown, DraftFollows
    <2>2. CASE restore = [at |-> "answered", old |-> restore.old, items |-> restore.items]
      <3>1. restore' = [at |-> "answered", old |-> TRUE, items |-> restore.items]
        BY <1>3, <2>2, OldAnswer
      <3>2. /\ restore.at = "answered" /\ restore'.at = "answered" /\ restore'.items = restore.items
            /\ restore' = [at |-> "answered", old |-> restore'.old, items |-> restore'.items]
        BY <2>2, <3>1
      <3>3. QED
        BY <1>1, <3>2 DEF DraftInv, WritesKnown, DraftFollows
    <2>3. QED
      BY <2>1, <2>2 DEF DraftInv, WritesKnown
  <1>4. QED
    BY <1>1, <1>2, <1>3

\* Every step that changes the cart goes through the store, but for RestoreCart.
LEMMA CartChanges ==
  ASSUME ShopStep \/ TypeDetails \/ \E p \in Products : RemoveAtCheckout(p)
  PROVE  \E items : Store(items)
  <1>1. ASSUME NEW p \in Products, AddItemToCart(p) \/ RemoveFromCart(p)
        PROVE  \E items : Store(items)
    BY <1>1 DEF AddItemToCart, RemoveFromCart
  <1>2. ASSUME ClearCart
        PROVE  \E items : Store(items)
    BY <1>2 DEF ClearCart
  <1>3. CASE ShopStep
    BY <1>1, <1>2, <1>3 DEF ShopStep, BookTest, BookCourse, BookCscsCard, BookCpcsCard
  <1>4. CASE \E p \in Products : RemoveAtCheckout(p)
    BY <1>1, <1>4 DEF RemoveAtCheckout
  <1>5. CASE TypeDetails
    BY <1>5 DEF TypeDetails
  <1>6. QED
    BY <1>3, <1>4, <1>5

\* The draft follows the cart, for any products, any number of requests under way and of clicks.
THEOREM DraftInvariance == CheckoutSpec => []DraftInv
<1>1. CheckoutInit => DraftInv
  <2> SUFFICES ASSUME CheckoutInit
               PROVE  DraftInv
    OBVIOUS
  <2>1. Writes = {draft} /\ draft.n = 0 /\ draft.items = << >> /\ 0 \in 0..0
    BY DEF CheckoutInit, Writes
  <2>2. restore.at = "none" /\ restore = [at |-> restore.at, old |-> restore.old]
    BY DEF CheckoutInit, NoRestore
  <2>3. QED
    BY <2>1, <2>2 DEF CheckoutInit, DraftInv, WritesKnown, DraftFollows
<1>2. DraftInv /\ [ShopNext]_shopVars => DraftInv'
  <2> SUFFICES ASSUME DraftInv, [ShopNext]_shopVars
               PROVE  DraftInv'
    OBVIOUS
  <2>1. CASE ShopStep \/ TypeDetails \/ \E p \in Products : RemoveAtCheckout(p)
    BY <2>1, CartChanges, StoredCartKeeps
  <2>2. CASE \E r \in posts : SaveDraft(r)
    BY <2>2, SavedDraftKeeps
  <2>3. CASE AskDraft \/ GetDraft \/ RestoreCart
    BY <2>3, FetchedDraftKeeps
  <2>4. CASE LeaveCheckout \/ CancelPayment
    BY <2>4, LeftPageKeeps
  <2>5. ASSUME UNCHANGED << cart, draftVars >>
        PROVE  DraftInv'
    BY <2>5 DEF draftVars, DraftInv, WritesKnown, DraftFollows, Writes
  <2>6. CASE \/ OpenCheckout \/ CreateBooking \/ InsertBooking \/ InsertItem \/ BookingCreated
             \/ BookingFails \/ ApprovePayment \/ Reprice
    <3>1. UNCHANGED << cart, draftVars >>
      BY <2>6 DEF OpenCheckout, CreateBooking, InsertBooking, InsertItem, BookingCreated,
                  BookingFails, ApprovePayment, Reprice
    <3>2. QED
      BY <2>5, <3>1
  <2>7. CASE UNCHANGED shopVars
    BY <2>5, <2>7 DEF shopVars, draftVars
  <2>8. QED
    BY <2>1, <2>2, <2>3, <2>4, <2>6, <2>7 DEF ShopNext
<1>3. QED
  BY <1>1, <1>2, PTL DEF CheckoutSpec

\* The draft that the checkout page fetches brings back no cart but the one that is there, unless
\* a request that writes it was lost or late, or the cart was changed while the page waited
\* (syncWithRedis, the effect of the checkout page, SaveDraft).
THEOREM DraftKeepsCartAlways == CheckoutSpec => []DraftKeepsCart
<1>1. DraftInv => DraftKeepsCart
  BY DEF DraftInv, DraftFollows, DraftKeepsCart
<1>2. QED
  BY <1>1, DraftInvariance, PTL

-----------------------------------------------------------------------------
(* Checkout: sums. SumOf and the filter of removeItem are folds, and a fold is a *)
(* function that CHOOSE picks: it exists, by induction on the number of items,   *)
(* and so it adds, or drops, one item after the other.                           *)

\* What holds of 0 and of the number after every one it holds of, holds of all.
LEMMA LeastNumber ==
  ASSUME NEW P \in SUBSET Nat, 0 \in P, \A n \in P : n + 1 \in P
  PROVE  P = Nat
<1> DEFINE Q == Nat \ P
<1>1. SUFFICES ASSUME Q # {} PROVE FALSE
  OBVIOUS
<1>2. PICK m \in Q : \A y \in Q : ~(<<y, m>> \in OpToRel(<, Nat))
  BY <1>1, NatLessThanWellFounded, WFMin, Zenon
<1>3. \A y \in Q : ~(y < m)
  BY <1>2 DEF OpToRel
<1>4. m # 0 /\ m - 1 \in Nat
  OBVIOUS
<1>5. m - 1 \in P
  BY <1>3, <1>4
<1>6. (m - 1) + 1 \in P
  BY <1>5
<1>7. QED
  BY <1>6

LEMMA MaxOfSome ==
  ASSUME NEW n \in Nat, NEW s \in SUBSET (1..n), s # {}
  PROVE  Max(s) \in s /\ \A y \in s : Max(s) >= y
<1> DEFINE P == { m \in Nat : \A u \in SUBSET (1..m) : u # {} => \E x \in u : \A y \in u : x >= y }
<1>1. 0 \in P
  <2>1. 1..0 = {}
    OBVIOUS
  <2>2. \A u \in SUBSET (1..0) : u = {}
    BY <2>1
  <2>3. QED
    BY <2>2
<1>2. ASSUME NEW m \in P PROVE m + 1 \in P
  <2>1. SUFFICES ASSUME NEW u \in SUBSET (1..(m + 1)), u # {} PROVE \E x \in u : \A y \in u : x >= y
    OBVIOUS
  <2>2. CASE m + 1 \in u
    BY <2>2
  <2>3. CASE m + 1 \notin u
    <3>1. u \in SUBSET (1..m)
      BY <2>3
    <3>2. QED
      BY <2>1, <3>1
  <2>4. QED
    BY <2>2, <2>3
<1>3. P = Nat
  <2> HIDE DEF P
  <2> P \in SUBSET Nat
    BY DEF P
  <2> QED
    BY <1>1, <1>2, LeastNumber
<1>4. \E x \in s : \A y \in s : x >= y
  BY <1>3
<1>5. QED
  BY <1>4 DEF Max

\* The function that MapThenFoldSet chooses to fold w over v: of each set of places, the
\* greatest comes last.
FoldsWith(g, n, base, w, v) ==
  g = [s \in SUBSET (1..n) |-> IF s = {} THEN base ELSE w[g[s \ {Max(s)}]][v[Max(s)]]]

LEMMA WithoutLast ==
  ASSUME NEW m \in Nat, NEW s \in SUBSET (1..(m + 1)), m + 1 \notin s
  PROVE  s \in SUBSET (1..m)
<1>1. ASSUME NEW i \in s PROVE i \in 1..m
  <2>1. i \in 1..(m + 1) /\ i # m + 1
    OBVIOUS
  <2>2. QED
    BY <2>1
<1>2. QED
  BY <1>1

\* There is such a function, so that the fold is what its definition says.
LEMMA FoldExists ==
  ASSUME NEW n \in Nat, NEW A, NEW V, NEW base \in A, NEW w \in [A -> [V -> A]], NEW v \in [1..n -> V]
  PROVE  \E g \in [SUBSET (1..n) -> A] : FoldsWith(g, n, base, w, v)
<1> DEFINE F(m) == \E g \in [SUBSET (1..m) -> A] : FoldsWith(g, m, base, w, v)
           P == { m \in Nat : m <= n => F(m) }
<1>1. 0 \in P
  <2> DEFINE g == [s \in SUBSET (1..0) |-> base]
  <2>1. FoldsWith(g, 0, base, w, v)
    <3>1. 1..0 = {}
      OBVIOUS
    <3>2. \A s \in SUBSET (1..0) : s = {}
      BY <3>1
    <3>3. QED
      BY <3>2 DEF FoldsWith
  <2>2. g \in [SUBSET (1..0) -> A]
    OBVIOUS
  <2>3. QED
    BY <2>1, <2>2
<1>2. ASSUME NEW m \in Nat, m + 1 <= n, NEW g \in [SUBSET (1..m) -> A], FoldsWith(g, m, base, w, v)
      PROVE  \E h \in [SUBSET (1..(m + 1)) -> A] : FoldsWith(h, m + 1, base, w, v)
  <2> DEFINE h == [s \in SUBSET (1..(m + 1)) |-> IF m + 1 \in s THEN w[g[s \ {m + 1}]][v[m + 1]] ELSE g[s]]
  <2> HIDE DEF P
  <2>3. ASSUME NEW s \in SUBSET (1..(m + 1))
        PROVE  h[s] = IF s = {} THEN base ELSE w[h[s \ {Max(s)}]][v[Max(s)]]
    <3>1. CASE s = {}
      BY <1>2, <3>1 DEF FoldsWith
    <3>2. CASE m + 1 \in s
      <4>1. Max(s) = m + 1
        <5>1. m + 1 \in Nat /\ s # {}
          BY <3>2
        <5>2. Max(s) \in s /\ \A y \in s : Max(s) >= y
          BY <5>1, MaxOfSome
        <5>3. Max(s) >= m + 1 /\ Max(s) \in 1..(m + 1)
          BY <3>2, <5>2
        <5>4. QED
          BY <5>3
      <4>2. s \ {m + 1} \in SUBSET (1..m)
        OBVIOUS
      <4>3. h[s \ {m + 1}] = g[s \ {m + 1}]
        BY <4>2
      <4>4. QED
        BY <3>2, <4>1, <4>3
    <3>3. CASE s # {} /\ m + 1 \notin s
      <4>1. s \in SUBSET (1..m)
        BY <3>3, WithoutLast
      <4>2. Max(s) \in s
        BY <3>3, <4>1, MaxOfSome
      <4>3. h[s \ {Max(s)}] = g[s \ {Max(s)}]
        BY <3>3, <4>1
      <4>4. g[s] = w[g[s \ {Max(s)}]][v[Max(s)]]
        BY <1>2, <3>3, <4>1 DEF FoldsWith
      <4>5. QED
        BY <3>3, <4>3, <4>4
    <3>4. QED
      BY <3>1, <3>2, <3>3
  <2>4. h \in [SUBSET (1..(m + 1)) -> A]
    <3>1. ASSUME NEW s \in SUBSET (1..(m + 1)) PROVE h[s] \in A
      <4>1. CASE m + 1 \in s
        <5>1. g[s \ {m + 1}] \in A
          <6>1. s \ {m + 1} \in SUBSET (1..m)
            OBVIOUS
          <6>2. QED
            BY <6>1
        <5>2. v[m + 1] \in V
          BY <1>2
        <5>3. w[g[s \ {m + 1}]] \in [V -> A]
          BY <5>1
        <5>4. QED
          BY <4>1, <5>2, <5>3
      <4>2. CASE m + 1 \notin s
        <5>1. s \in SUBSET (1..m)
          BY <4>2, WithoutLast
        <5>2. QED
          BY <4>2, <5>1
      <4>3. QED
        BY <4>1, <4>2
    <3>2. QED
      BY <3>1
  <2>5. h = [s \in SUBSET (1..(m + 1)) |-> IF s = {} THEN base ELSE w[h[s \ {Max(s)}]][v[Max(s)]]]
    BY <2>3
  <2>6. FoldsWith(h, m + 1, base, w, v)
    BY <2>5 DEF FoldsWith
  <2>7. QED
    BY <2>4, <2>6
<1>3. ASSUME NEW m \in P PROVE m + 1 \in P
  <2>1. m \in Nat /\ (m <= n => F(m)) /\ m + 1 \in Nat /\ (m + 1 <= n => m <= n)
    <3> HIDE DEF F
    <3> QED
      OBVIOUS
  <2>2. m + 1 <= n => F(m + 1)
    BY <1>2, <2>1
  <2> HIDE DEF F
  <2>3. QED
    BY <2>1, <2>2
<1> HIDE DEF F
<1>4. n \in P
  <2> HIDE DEF P
  <2>1. P \in SUBSET Nat
    BY DEF P
  <2>2. P = Nat
    BY <1>1, <1>3, <2>1, LeastNumber
  <2>3. QED
    BY <2>2
<1>5. F(n)
  BY <1>4
<1>6. QED
  BY <1>5 DEF F

LEMMA MaxOfFirst ==
  ASSUME NEW n \in Nat, NEW k \in 1..n
  PROVE  1..k \in SUBSET (1..n) /\ 1..k # {} /\ Max(1..k) = k /\ (1..k) \ {k} = 1..(k - 1)
<1>1. 1..k \in SUBSET (1..n)
  <2>1. \A i \in 1..k : i \in 1..n
    OBVIOUS
  <2>2. QED
    BY <2>1
<1>2. 1..k # {}
  <2>1. 1 \in 1..k
    OBVIOUS
  <2>2. QED
    BY <2>1
<1>3. Max(1..k) = k
  <2>1. Max(1..k) \in 1..k /\ \A y \in 1..k : Max(1..k) >= y
    BY <1>1, <1>2, MaxOfSome
  <2>2. QED
    BY <2>1
<1>4. (1..k) \ {k} = 1..(k - 1)
  OBVIOUS
<1>5. QED
  BY <1>1, <1>2, <1>3, <1>4

\* The sums of the first prices.
SumSoFar(prices, t) ==
  /\ t \in [0..Len(prices) -> Nat]
  /\ t[0] = 0
  /\ \A k \in 1..Len(prices) : t[k] = t[k - 1] + prices[k]

\* The total is the last of them.
LEMMA TotalByStep ==
  ASSUME NEW prices \in Seq(Nat)
  PROVE  \E t : SumSoFar(prices, t) /\ Total(prices) = t[Len(prices)]
<1> DEFINE n == Len(prices)
           w == [a \in Nat |-> [b \in Nat |-> a + b]]
           Is(g) == g = [s \in SUBSET (DOMAIN prices) |->
                           IF s = {} THEN 0 ELSE g[s \ {Max(s)}] + prices[Max(s)]]
           h == CHOOSE g : Is(g)
           t == [k \in 0..n |-> h[1..k]]
<1>1. n \in Nat /\ DOMAIN prices = 1..n /\ \A i \in 1..n : prices[i] \in Nat
  OBVIOUS
<1>2. Total(prices) = h[DOMAIN prices]
  BY DEF Total, FoldLeft, MapThenFoldSet
<1>3. \E g : Is(g)
  <2>1. w \in [Nat -> [Nat -> Nat]] /\ prices \in [1..n -> Nat]
    BY <1>1
  <2> HIDE DEF w, n
  <2>2. PICK g \in [SUBSET (1..n) -> Nat] : FoldsWith(g, n, 0, w, prices)
    BY <1>1, <2>1, FoldExists
  <2>3. ASSUME NEW s \in SUBSET (1..n), s # {}
        PROVE  w[g[s \ {Max(s)}]][prices[Max(s)]] = g[s \ {Max(s)}] + prices[Max(s)]
    <3>1. Max(s) \in s
      BY <1>1, <2>3, MaxOfSome
    <3>2. s \ {Max(s)} \in SUBSET (1..n) /\ Max(s) \in 1..n
      BY <3>1
    <3>3. g[s \ {Max(s)}] \in Nat /\ prices[Max(s)] \in Nat
      BY <1>1, <2>2, <3>2
    <3>4. QED
      BY <3>3 DEF w
  <2>4. Is(g)
    BY <1>1, <2>2, <2>3 DEF FoldsWith
  <2>5. QED
    BY <2>4
<1>4. Is(h)
  <2> HIDE DEF Is
  <2> QED
    BY <1>3
<1> HIDE DEF h
<1>5. t[0] = 0
  BY <1>1, <1>4
<1>6. ASSUME NEW k \in 1..n PROVE t[k] = t[k - 1] + prices[k]
  <2>1. 1..k \in SUBSET (1..n) /\ 1..k # {} /\ Max(1..k) = k /\ (1..k) \ {k} = 1..(k - 1)
    BY <1>1, MaxOfFirst
  <2>2. h[1..k] = h[1..(k - 1)] + prices[k]
    BY <1>1, <1>4, <2>1
  <2>3. QED
    BY <1>1, <2>2
<1>7. t \in [0..n -> Nat]
  <2> DEFINE P == { k \in Nat : k <= n => t[k] \in Nat }
  <2> HIDE DEF t
  <2>1. 0 \in P
    BY <1>5
  <2>2. ASSUME NEW k \in P PROVE k + 1 \in P
    <3>1. CASE k + 1 <= n
      <4>1. k + 1 \in 1..n /\ (k + 1) - 1 = k
        BY <1>1, <3>1
      <4>2. t[k + 1] = t[k] + prices[k + 1]
        BY <1>6, <4>1
      <4>3. t[k] \in Nat /\ prices[k + 1] \in Nat
        BY <1>1, <3>1, <4>1
      <4>4. QED
        BY <4>2, <4>3
    <3>2. QED
      BY <3>1
  <2>3. ASSUME NEW k \in 0..n PROVE t[k] \in Nat
    <3> HIDE DEF P
    <3> P \in SUBSET Nat
      BY DEF P
    <3>1. P = Nat
      BY <2>1, <2>2, LeastNumber
    <3>2. QED
      BY <1>1, <3>1 DEF P
  <2>4. QED
    BY <2>3 DEF t
<1>8. Total(prices) = t[n]
  BY <1>1, <1>2
<1> HIDE DEF t
<1>9. QED
  BY <1>5, <1>6, <1>7, <1>8 DEF SumSoFar

\* What the filter of removeItem leaves is a cart.
LEMMA WithoutType ==
  ASSUME NEW items \in Seq(CartItem), NEW p
  PROVE  Without(items, p) \in Seq(CartItem)
<1> DEFINE A == Seq(CartItem)
           n == Len(items)
           w == [a \in A |-> [b \in CartItem |-> IF b.id = p THEN a ELSE Append(a, b)]]
           Is(g) == g = [s \in SUBSET (DOMAIN items) |->
                           IF s = {} THEN << >>
                           ELSE IF items[Max(s)].id = p THEN g[s \ {Max(s)}]
                                ELSE Append(g[s \ {Max(s)}], items[Max(s)])]
           h == CHOOSE g : Is(g)
<1>1. n \in Nat /\ DOMAIN items = 1..n /\ \A i \in 1..n : items[i] \in CartItem
  OBVIOUS
<1>2. Without(items, p) = h[DOMAIN items]
  BY DEF Without, FoldLeft, MapThenFoldSet
<1>3. \E g : Is(g)
  <2>1. w \in [A -> [CartItem -> A]] /\ items \in [1..n -> CartItem] /\ << >> \in A
    <3>1. \A a \in A, b \in CartItem : (IF b.id = p THEN a ELSE Append(a, b)) \in A
      OBVIOUS
    <3>2. w \in [A -> [CartItem -> A]]
      BY <3>1
    <3>3. items \in [1..n -> CartItem] /\ << >> \in A
      BY <1>1
    <3>4. QED
      BY <3>2, <3>3
  <2> HIDE DEF w, n, A
  <2>2. PICK g \in [SUBSET (1..n) -> A] : FoldsWith(g, n, << >>, w, items)
    BY <1>1, <2>1, FoldExists
  <2>3. ASSUME NEW s \in SUBSET (1..n), s # {}
        PROVE  w[g[s \ {Max(s)}]][items[Max(s)]]
                 = IF items[Max(s)].id = p THEN g[s \ {Max(s)}]
                   ELSE Append(g[s \ {Max(s)}], items[Max(s)])
    <3>1. Max(s) \in s
      BY <1>1, <2>3, MaxOfSome
    <3>2. s \ {Max(s)} \in SUBSET (1..n) /\ Max(s) \in 1..n
      BY <3>1
    <3>3. g[s \ {Max(s)}] \in A /\ items[Max(s)] \in CartItem
      BY <1>1, <2>2, <3>2
    <3>4. QED
      BY <3>3 DEF w
  <2>4. Is(g)
    BY <1>1, <2>2, <2>3 DEF FoldsWith
  <2>5. QED
    BY <2>4
<1>4. Is(h)
  <2> HIDE DEF Is
  <2> QED
    BY <1>3
<1> HIDE DEF h, A
<1>5. h[1..0] \in A
  <2>1. 1..0 = {} /\ {} \in SUBSET (1..n)
    OBVIOUS
  <2>2. h[1..0] = << >>
    BY <1>1, <1>4, <2>1
  <2>3. QED
    BY <2>2 DEF A
<1>6. ASSUME NEW k \in 1..n, h[1..(k - 1)] \in A PROVE h[1..k] \in A
  <2>1. 1..k \in SUBSET (1..n) /\ 1..k # {} /\ Max(1..k) = k /\ (1..k) \ {k} = 1..(k - 1)
    BY <1>1, MaxOfFirst
  <2>2. h[1..k] = IF items[k].id = p THEN h[1..(k - 1)] ELSE Append(h[1..(k - 1)], items[k])
    BY <1>1, <1>4, <2>1
  <2>3. items[k] \in CartItem
    BY <1>1
  <2>4. Append(h[1..(k - 1)], items[k]) \in A
    BY <1>6, <2>3 DEF A
  <2>5. QED
    BY <1>6, <2>2, <2>4
<1> DEFINE P == { k \in Nat : k <= n => h[1..k] \in A }
<1>7. 0 \in P
  BY <1>5
<1>8. ASSUME NEW k \in P PROVE k + 1 \in P
  <2> HIDE DEF A, Is
  <2>1. CASE k + 1 <= n
    <3>1. k \in Nat /\ k + 1 \in 1..n /\ (k + 1) - 1 = k /\ k <= n
      BY <1>1, <2>1
    <3>2. h[1..k] \in A
      BY <3>1
    <3>3. h[1..((k + 1) - 1)] \in A
      BY <3>1, <3>2
    <3>4. h[1..(k + 1)] \in A
      BY <1>6, <3>1, <3>3
    <3>5. QED
      BY <3>1, <3>4
  <2>2. QED
    BY <2>1
<1>9. h[1..n] \in A
  <2> HIDE DEF P
  <2>1. P \in SUBSET Nat
    BY DEF P
  <2>2. P = Nat
    BY <1>7, <1>8, <2>1, LeastNumber
  <2>3. QED
    BY <1>1, <2>2 DEF P
<1>10. QED
  BY <1>1, <1>2, <1>9 DEF A

\* A total is a number, and that of equal prices is a multiple.
LEMMA TotalNat ==
  ASSUME NEW prices \in Seq(Nat)
  PROVE  Total(prices) \in Nat
<1>1. PICK t : SumSoFar(prices, t) /\ Total(prices) = t[Len(prices)]
  BY TotalByStep
<1>2. Len(prices) \in 0..Len(prices)
  OBVIOUS
<1>3. QED
  BY <1>1, <1>2 DEF SumSoFar

LEMMA TotalOfEquals ==
  ASSUME NEW prices \in Seq(Nat), NEW c \in Nat, \A i \in 1..Len(prices) : prices[i] = c
  PROVE  Total(prices) = Len(prices) * c
<1> DEFINE n == Len(prices)
<1>1. PICK t : SumSoFar(prices, t) /\ Total(prices) = t[n]
  BY TotalByStep
<1>2. n \in Nat
  OBVIOUS
<1> DEFINE P == { k \in Nat : k <= n => t[k] = k * c }
<1>3. 0 \in P
  BY <1>1 DEF SumSoFar
<1>4. ASSUME NEW k \in P PROVE k + 1 \in P
  <2>1. CASE k + 1 <= n
    <3>1. k \in Nat /\ k + 1 \in 1..n /\ (k + 1) - 1 = k /\ k <= n
      BY <1>2, <2>1
    <3>2. t[k + 1] = t[k] + c /\ t[k] = k * c
      <4>1. t[k + 1] = t[(k + 1) - 1] + prices[k + 1]
        BY <1>1, <3>1 DEF SumSoFar
      <4>2. QED
        BY <3>1, <4>1
    <3>3. (k + 1) * c = k * c + c
      BY <3>1
    <3>4. QED
      BY <3>1, <3>2, <3>3
  <2>2. QED
    BY <2>1
<1>5. P = Nat
  <2> HIDE DEF P
  <2>1. P \in SUBSET Nat
    BY DEF P
  <2>2. QED
    BY <1>3, <1>4, <2>1, LeastNumber
<1>6. QED
  BY <1>1, <1>2, <1>5

-----------------------------------------------------------------------------
(* Checkout: the types, and the prices of a booking.                           *)

OrderType == [want: Seq(CartItem), shown: Nat, listed: Nat, total: Nat, items: Seq(Products),
              status: {"pending", "paid", "cancelled"}, current: BOOLEAN]

\* The parts of CheckoutTypeOK and UnderWay that belong to the cart and its draft,
\* to the booking, and to the shop.
CartTypes ==
  /\ cart \in Seq(CartItem)
  /\ draft.n \in Nat /\ draft.items \in Seq(CartItem)
  /\ \A r \in posts : r.n \in 1..posted /\ r.items \in Seq(CartItem)
  /\ posted \in Nat
  /\ restore.at \in {"none", "asked", "answered", "done"}
  /\ restore.at = "answered" => restore.items \in Seq(CartItem)

FlagTypes == restore.old \in BOOLEAN /\ overtaken \in BOOLEAN /\ swapped \in BOOLEAN

RequestTypes ==
  /\ order.at \in {"idle", "sent", "items", "failed"}
  /\ order.at = "sent" => /\ order.want \in Seq(CartItem) /\ order.want # << >>
                          /\ order.shown = SidebarTotal(order.want)

OrderTypes == created \in 0..Len(orders) /\ orders \in Seq(OrderType)

ShopTypes ==
  /\ shopClicks \in Nat
  /\ place \in {"shop", "checkout", "confirmation"}
  /\ tariff \in [test: Nat, fee: Nat]

LEMMA TypesSplit ==
  PricedInv <=> CartTypes /\ FlagTypes /\ RequestTypes /\ OrderTypes /\ ShopTypes /\ PricedAsShown
  BY DEF PricedInv, CheckoutTypeOK, UnderWay, CartTypes, FlagTypes, RequestTypes, OrderTypes, ShopTypes, OrderType

LEMMA PricesAreNumbers ==
  ASSUME ShopTypes
  PROVE  /\ \A p \in Products : ShopPrice(p) \in Nat
         /\ \A kind, p : Authoritative(kind, p) \in Nat
         /\ DefaultFee \in Nat
  BY CheckoutAssumption DEF ShopTypes, ShopPrice, Authoritative, ListPrice, SalePrice

LEMMA SummaryIsNumber ==
  ASSUME NEW items \in Seq(CartItem)
  PROVE  SumOf(items) \in Nat /\ SidebarTotal(items) \in Nat
<1>1. [i \in DOMAIN items |-> items[i].price] \in Seq(Nat)
  <2>1. Len(items) \in Nat /\ DOMAIN items = 1..Len(items) /\ \A i \in DOMAIN items : items[i] \in CartItem
    OBVIOUS
  <2>2. \A i \in DOMAIN items : items[i].price \in Nat
    BY <2>1 DEF CartItem
  <2>3. QED
    BY <2>1, <2>2, IsSequence
<1>2. SumOf(items) \in Nat
  BY <1>1, TotalNat DEF SumOf
<1>3. Len(items) * DefaultFee \in Nat
  BY CheckoutAssumption
<1>4. QED
  BY <1>2, <1>3 DEF SidebarTotal, WithVat

LEMMA PageIsNumber ==
  ASSUME ShopTypes, NEW items \in Seq(CartItem)
  PROVE  CartTotal(items) \in Nat
<1> DEFINE T == { i \in DOMAIN items : KindOf(items[i].id) = "test" }
<1>1. T \in SUBSET (1..Len(items)) /\ Len(items) \in Nat
  OBVIOUS
<1>2. IsFiniteSet(T)
  <2>1. IsFiniteSet(1..Len(items))
    BY <1>1, FS_Interval
  <2>2. QED
    BY <1>1, <2>1, FS_Subset
<1>3. Cardinality(T) \in Nat
  BY <1>2, FS_CardinalityType
<1>4. tariff.fee * Cardinality(T) \in Nat
  <2> HIDE DEF T
  <2>1. tariff.fee \in Nat
    BY DEF ShopTypes
  <2>2. QED
    BY <1>3, <2>1
<1>5. SumOf(items) \in Nat
  BY SummaryIsNumber
<1>6. QED
  BY <1>4, <1>5 DEF CartTotal, WithVat

LEMMA ServerIsNumber ==
  ASSUME ShopTypes, NEW items \in Seq(CartItem)
  PROVE  ServerTotal(items) \in Nat
<1> DEFINE prices == [i \in DOMAIN items |-> Authoritative(KindOf(items[1].id), items[i].id)]
<1>1. prices \in Seq(Nat)
  <2>1. Len(items) \in Nat /\ DOMAIN items = 1..Len(items)
    OBVIOUS
  <2>2. \A i \in DOMAIN items : Authoritative(KindOf(items[1].id), items[i].id) \in Nat
    BY PricesAreNumbers
  <2>3. prices \in [1..Len(items) -> Nat]
    BY <2>1, <2>2
  <2>4. QED
    BY <2>1, <2>3, IsSequence
<1>2. Total(prices) \in Nat
  BY <1>1, TotalNat
<1>3. QED
  BY <1>2 DEF ServerTotal, WithVat

-----------------------------------------------------------------------------
LEMMA StoreTypes ==
  ASSUME CartTypes, FlagTypes, NEW items \in Seq(CartItem), Store(items)
  PROVE  CartTypes' /\ FlagTypes'
<1> DEFINE new == [n |-> posted + 1, items |-> items]
<1>1. /\ posts' = posts \cup {new} /\ draft' = draft /\ cart' = items /\ posted' = posted + 1
      /\ restore' = restore /\ swapped' = swapped
      /\ overtaken' = (overtaken \/ (restore.at = "answered" /\ items # cart))
  BY DEF Store
<1>2. new.n = posted + 1 /\ new.items = items
  OBVIOUS
<1> HIDE DEF new
<1>3. posted \in Nat /\ posted + 1 \in Nat /\ posted + 1 \in 1..(posted + 1)
  BY DEF CartTypes
<1>4. ASSUME NEW r \in posts' PROVE r.n \in 1..posted' /\ r.items \in Seq(CartItem)
  <2>1. CASE r = new
    BY <1>1, <1>2, <1>3, <2>1
  <2>2. CASE r \in posts
    <3>1. r.n \in 1..posted /\ r.items \in Seq(CartItem)
      BY <2>2 DEF CartTypes
    <3>2. r.n \in 1..(posted + 1)
      BY <1>3, <3>1
    <3>3. QED
      BY <1>1, <3>1, <3>2
  <2>3. QED
    BY <1>1, <1>4, <2>1, <2>2
<1>5. CartTypes'
  BY <1>1, <1>3, <1>4 DEF CartTypes
<1>6. FlagTypes'
  BY <1>1, Zenon DEF FlagTypes
<1>7. QED
  BY <1>5, <1>6

\* Every step that changes the cart stores the items of a cart.
LEMMA StoredIsCart ==
  ASSUME CartTypes, ShopTypes, ShopStep \/ TypeDetails \/ \E p \in Products : RemoveAtCheckout(p)
  PROVE  \E items \in Seq(CartItem) : Store(items)
<1>1. ASSUME NEW p \in Products, AddItemToCart(p)
      PROVE  \E items \in Seq(CartItem) : Store(items)
  <2>1. [id |-> p, price |-> ShopPrice(p)] \in CartItem
    BY PricesAreNumbers DEF CartItem
  <2>2. Append(cart, [id |-> p, price |-> ShopPrice(p)]) \in Seq(CartItem)
    BY <2>1 DEF CartTypes
  <2>3. QED
    BY <1>1, <2>2 DEF AddItemToCart
<1>2. ASSUME NEW p \in Products, RemoveFromCart(p)
      PROVE  \E items \in Seq(CartItem) : Store(items)
  <2>1. Without(cart, p) \in Seq(CartItem)
    BY WithoutType DEF CartTypes
  <2>2. QED
    BY <1>2, <2>1 DEF RemoveFromCart
<1>3. ASSUME ClearCart
      PROVE  \E items \in Seq(CartItem) : Store(items)
  <2>1. << >> \in Seq(CartItem)
    OBVIOUS
  <2>2. QED
    BY <1>3, <2>1 DEF ClearCart
<1>4. CASE ShopStep
  BY <1>1, <1>2, <1>3, <1>4 DEF ShopStep, BookTest, BookCourse, BookCscsCard, BookCpcsCard
<1>5. CASE \E p \in Products : RemoveAtCheckout(p)
  BY <1>2, <1>5 DEF RemoveAtCheckout
<1>6. CASE TypeDetails
  BY <1>6 DEF TypeDetails, CartTypes
<1>7. QED
  BY <1>4, <1>5, <1>6

LEMMA CartTypesKeep ==
  ASSUME CartTypes, FlagTypes, ShopTypes, WritesKnown, [ShopNext]_shopVars
  PROVE  CartTypes' /\ FlagTypes'
<1>1. CASE ShopStep \/ TypeDetails \/ \E p \in Products : RemoveAtCheckout(p)
  BY <1>1, StoredIsCart, StoreTypes
<1>2. ASSUME NEW r \in posts, SaveDraft(r) PROVE CartTypes' /\ FlagTypes'
  <2>1. /\ posts' = posts \ {r} /\ draft' \in {r, draft}
        /\ UNCHANGED << cart, posted, restore, swapped >>
    BY <1>2 DEF SaveDraft
  <2>2. r.n \in 1..posted /\ r.items \in Seq(CartItem) /\ posted \in Nat
    BY DEF CartTypes
  <2>3. r.n \in Nat
    BY <2>2
  <2>4. CartTypes'
    BY <2>1, <2>2, <2>3 DEF CartTypes
  <2>5. overtaken' \in BOOLEAN
    BY <1>2, Zenon DEF SaveDraft
  <2>6. QED
    BY <2>1, <2>4, <2>5 DEF FlagTypes
<1>3. CASE AskDraft
  <2>1. /\ restore'.at = "asked" /\ restore'.old = FALSE
        /\ UNCHANGED << cart, draft, posts, posted, overtaken, swapped >>
    BY <1>3 DEF AskDraft
  <2>2. QED
    BY <2>1 DEF CartTypes, FlagTypes
<1>4. CASE GetDraft
  <2>1. UNCHANGED << cart, draft, posts, posted, swapped >> /\ overtaken' = (overtaken \/ draft.items # cart)
    BY <1>4 DEF GetDraft
  <2>2. PICK i \in {draft.items, << >>} : restore' = [at |-> "answered", old |-> restore.old, items |-> i]
    BY <1>4 DEF GetDraft
  <2>3. restore'.at = "answered" /\ restore'.old = restore.old /\ restore'.items = i
    BY <2>2
  <2>4. CartTypes'
    <3>1. << >> \in Seq(CartItem)
      OBVIOUS
    <3>2. i \in Seq(CartItem)
      BY <2>2, <3>1 DEF CartTypes
    <3>3. QED
      BY <2>1, <2>3, <3>2 DEF CartTypes
  <2>5. FlagTypes'
    BY <2>1, <2>3, Zenon DEF FlagTypes
  <2>6. QED
    BY <2>4, <2>5
<1>5. CASE RestoreCart
  <2>1. /\ restore.at = "answered" /\ UNCHANGED << draft, posts, posted, overtaken >>
        /\ cart' = IF restore.items = << >> THEN cart ELSE restore.items
        /\ swapped' = (swapped \/ cart' # cart)
        /\ restore' \in {NoRestore, [at |-> "done", old |-> FALSE]}
    BY <1>5 DEF RestoreCart
  <2>2. restore'.at \in {"none", "done"} /\ restore'.old = FALSE
    BY <2>1 DEF NoRestore
  <2>3. cart' \in Seq(CartItem)
    BY <2>1 DEF CartTypes
  <2>4. CartTypes'
    BY <2>1, <2>2, <2>3 DEF CartTypes
  <2>5. FlagTypes'
    BY <2>1, <2>2, Zenon DEF FlagTypes
  <2>6. QED
    BY <2>4, <2>5
<1>6. CASE LeaveCheckout \/ CancelPayment
  <2>1. /\ UNCHANGED << cart, draft, posts, posted, overtaken, swapped >>
        /\ \/ restore' = NoRestore
           \/ restore.at \in {"asked", "answered"} /\ restore' = [restore EXCEPT !.old = TRUE]
    BY <1>6 DEF LeaveCheckout, CancelPayment
  <2>2. CASE restore' = NoRestore
    <3>1. restore'.at = "none" /\ restore'.old = FALSE
      BY <2>2 DEF NoRestore
    <3>2. QED
      BY <2>1, <3>1 DEF CartTypes, FlagTypes
  <2>3. CASE restore' = [restore EXCEPT !.old = TRUE]
    <3>1. CASE restore.at # "answered" /\ restore = [at |-> restore.at, old |-> restore.old]
      <4>1. restore' = [at |-> restore.at, old |-> TRUE]
        BY <2>3, <3>1
      <4>2. restore'.at = restore.at /\ restore'.old = TRUE
        BY <4>1
      <4>3. QED
        BY <2>1, <3>1, <4>2 DEF CartTypes, FlagTypes
    <3>2. CASE restore = [at |-> "answered", old |-> restore.old, items |-> restore.items]
      <4>1. restore' = [at |-> "answered", old |-> TRUE, items |-> restore.items]
        BY <2>3, <3>2, OldAnswer
      <4>2. restore.at = "answered" /\ restore'.at = "answered" /\ restore'.old = TRUE /\ restore'.items = restore.items
        BY <3>2, <4>1
      <4>3. QED
        BY <2>1, <4>2 DEF CartTypes, FlagTypes
    <3>3. QED
      BY <3>1, <3>2 DEF WritesKnown
  <2>4. QED
    BY <2>1, <2>2, <2>3
<1>7. ASSUME UNCHANGED << cart, draftVars >> PROVE CartTypes' /\ FlagTypes'
  BY <1>7 DEF CartTypes, FlagTypes, draftVars
<1>8. CASE \/ OpenCheckout \/ CreateBooking \/ InsertBooking \/ InsertItem \/ BookingCreated
           \/ BookingFails \/ ApprovePayment \/ Reprice \/ UNCHANGED shopVars
  <2>1. UNCHANGED << cart, draftVars >>
    BY <1>8 DEF OpenCheckout, CreateBooking, InsertBooking, InsertItem, BookingCreated,
                BookingFails, ApprovePayment, Reprice, shopVars, draftVars
  <2>2. QED
    BY <1>7, <2>1
<1>9. QED
  BY <1>1, <1>2, <1>3, <1>4, <1>5, <1>6, <1>8 DEF ShopNext

\* The page, the clicks and the settings.
LEMMA ShopTypesKeep ==
  ASSUME ShopTypes, [ShopNext]_shopVars
  PROVE  ShopTypes'
<1>1. ASSUME ClickShop \/ UNCHANGED shopClicks PROVE shopClicks' \in Nat
  BY <1>1 DEF ClickShop, ShopTypes
<1>2. ClickShop \/ UNCHANGED shopClicks
  BY DEF ShopNext, ShopStep, SaveDraft, OpenCheckout, AskDraft, GetDraft, RestoreCart, LeaveCheckout,
         TypeDetails, RemoveAtCheckout, CreateBooking, InsertBooking, InsertItem, BookingCreated, BookingFails,
         ApprovePayment, CancelPayment, Reprice, shopVars
<1>3. place' \in {"shop", "checkout", "confirmation"}
  <2>1. place' \in {place, "shop", "checkout", "confirmation"}
    BY DEF ShopNext, ShopStep, SaveDraft, OpenCheckout, AskDraft, GetDraft, RestoreCart, LeaveCheckout,
         TypeDetails, RemoveAtCheckout, CreateBooking, InsertBooking, InsertItem, BookingCreated, BookingFails,
         ApprovePayment, CancelPayment, Reprice, shopVars, BookTest, BookCourse, BookCscsCard, BookCpcsCard
  <2>2. QED
    BY <2>1 DEF ShopTypes
<1>4. tariff' \in [test: Nat, fee: Nat]
  <2>1. CASE Reprice
    BY <2>1, CheckoutAssumption DEF Reprice, ShopTypes, ListPrice
  <2>2. CASE ~Reprice
    <3>1. UNCHANGED tariff
      BY <2>2 DEF ShopNext, ShopStep, SaveDraft, OpenCheckout, AskDraft, GetDraft, RestoreCart, LeaveCheckout,
         TypeDetails, RemoveAtCheckout, CreateBooking, InsertBooking, InsertItem, BookingCreated, BookingFails,
         ApprovePayment, CancelPayment, shopVars
    <3>2. QED
      BY <3>1 DEF ShopTypes
  <2>3. QED
    BY <2>1, <2>2
<1>5. QED
  BY <1>1, <1>2, <1>3, <1>4 DEF ShopTypes

\* A cart of one kind, priced as the shop prices it now, costs the same on every page.
LEMMA SameTotals ==
  ASSUME ShopTypes, NEW items \in Seq(CartItem), items # << >>, tariff.fee = DefaultFee,
         \A i \in DOMAIN items : items[i].price = ShopPrice(items[i].id),
         OneKind(items), Ids(items) \cap (CardItems \cup OnSale) = {}
  PROVE  ServerTotal(items) = SidebarTotal(items) /\ ServerTotal(items) = CartTotal(items)
<1> DEFINE n == Len(items)
           f == DefaultFee
           shop == [i \in DOMAIN items |-> items[i].price]
           server == [i \in DOMAIN items |-> Authoritative(KindOf(items[1].id), items[i].id)]
           T == { i \in DOMAIN items : KindOf(items[i].id) = "test" }
<1>1. n \in Nat \ {0} /\ DOMAIN items = 1..n /\ 1 \in 1..n /\ f \in Nat
  BY CheckoutAssumption
<1>2. ASSUME NEW i \in 1..n
      PROVE  /\ items[i].id \in Tests \cup (Lessons \ OnSale)
             /\ KindOf(items[i].id) = KindOf(items[1].id)
             /\ items[i].price = ShopPrice(items[i].id)
  <2>1. items[i] \in CartItem
    OBVIOUS
  <2>2. items[i].id \in Products /\ items[i].id \in Ids(items)
    BY <1>1, <2>1 DEF CartItem, Ids
  <2>3. QED
    BY <1>1, <2>2 DEF Products, OneKind
<1>3. ASSUME NEW p \in Tests \cup (Lessons \ OnSale)
      PROVE  /\ p \in Tests <=> KindOf(p) = "test"
             /\ p \in Lessons \ OnSale <=> KindOf(p) # "test"
  BY CheckoutAssumption DEF KindOf
<1>4. Len(shop) = n /\ Len(server) = n
  BY <1>1
<1>5. CASE KindOf(items[1].id) = "test"
  <2> DEFINE t == tariff.test
  <2>1. t \in Nat
    BY DEF ShopTypes
  <2>2. ASSUME NEW i \in 1..n
        PROVE  /\ items[i].price = t /\ KindOf(items[i].id) = "test"
               /\ Authoritative(KindOf(items[1].id), items[i].id) = t + f
    <3>1. items[i].id \in Tests /\ KindOf(items[i].id) = "test"
      BY <1>2, <1>3, <1>5
    <3>2. items[i].price = t
      BY <1>2, <3>1 DEF ShopPrice
    <3>3. QED
      BY <1>5, <3>1, <3>2 DEF Authoritative
  <2>3. shop \in Seq(Nat) /\ server \in Seq(Nat) /\ t + f \in Nat
    <3>1. shop \in [1..n -> Nat] /\ server \in [1..n -> Nat] /\ t + f \in Nat
      BY <1>1, <2>1, <2>2
    <3>2. QED
      BY <1>1, <3>1, IsSequence
  <2>4. \A i \in 1..n : shop[i] = t /\ server[i] = t + f
    BY <1>1, <2>2
  <2>5. T = 1..n
    BY <1>1, <2>2
  <2> HIDE DEF shop, server, t, n, T
  <2>6. Total(shop) = n * t /\ Total(server) = n * (t + f)
    BY <1>4, <2>1, <2>3, <2>4, TotalOfEquals
  <2>7. Cardinality(T) = n
    <3>1. Cardinality(1..n) = n
      BY <1>1, FS_Interval
    <3>2. QED
      BY <2>5, <3>1
  <2>8. n * (t + f) = n * t + n * f /\ n * f = f * n
    BY <1>1, <2>1
  <2>9. SumOf(items) = n * t
    BY <2>6 DEF SumOf, shop
  <2>10. ServerTotal(items) = 6 * (n * (t + f))
    BY <2>6 DEF ServerTotal, WithVat, server
  <2>11. SidebarTotal(items) = 6 * (n * t + n * f)
    BY <1>5, <2>9 DEF SidebarTotal, WithVat, n
  <2>12. CartTotal(items) = 6 * (n * t + f * n)
    BY <2>7, <2>9 DEF CartTotal, WithVat, T
  <2>13. QED
    BY <2>8, <2>10, <2>11, <2>12
<1>6. CASE KindOf(items[1].id) # "test"
  <2>1. ASSUME NEW i \in 1..n
        PROVE  /\ items[i].price = ListPrice /\ KindOf(items[i].id) # "test"
               /\ Authoritative(KindOf(items[1].id), items[i].id) = ListPrice
    <3>1. items[i].id \in Lessons \ OnSale /\ KindOf(items[i].id) # "test" /\ items[i].id \notin Tests
      BY <1>2, <1>3, <1>6
    <3>2. items[i].price = ListPrice
      BY <1>2, <3>1 DEF ShopPrice
    <3>3. QED
      BY <1>6, <3>1, <3>2 DEF Authoritative
  <2>2. ListPrice \in Nat
    BY DEF ListPrice
  <2>3. shop \in Seq(Nat) /\ server \in Seq(Nat)
    <3>1. shop \in [1..n -> Nat] /\ server \in [1..n -> Nat]
      BY <1>1, <2>1, <2>2
    <3>2. QED
      BY <1>1, <3>1, IsSequence
  <2>4. \A i \in 1..n : shop[i] = ListPrice /\ server[i] = ListPrice
    BY <1>1, <2>1
  <2>5. T = {}
    BY <1>1, <2>1
  <2> HIDE DEF shop, server, n, T
  <2>6. Total(shop) = n * ListPrice /\ Total(server) = n * ListPrice
    BY <1>4, <2>2, <2>3, <2>4, TotalOfEquals
  <2>7. Cardinality(T) = 0
    BY <2>5, FS_EmptySet
  <2>8. n * ListPrice \in Nat /\ n * ListPrice + 0 = n * ListPrice /\ f * 0 = 0
    BY <1>1, <2>2
  <2>9. SumOf(items) = n * ListPrice
    BY <2>6 DEF SumOf, shop
  <2>10. ServerTotal(items) = 6 * (n * ListPrice)
    BY <2>6 DEF ServerTotal, WithVat, server
  <2>11. SidebarTotal(items) = 6 * (n * ListPrice + 0)
    BY <1>6, <2>9 DEF SidebarTotal, WithVat
  <2>12. CartTotal(items) = 6 * (n * ListPrice + f * 0)
    BY <2>7, <2>9 DEF CartTotal, WithVat, T
  <2>13. QED
    BY <2>8, <2>10, <2>11, <2>12
<1>7. QED
  BY <1>5, <1>6

-----------------------------------------------------------------------------
\* What PricedAsShown says of one booking.
Priced(b) ==
  b.current /\ OneKind(b.want) /\ Ids(b.want) \cap (CardItems \cup OnSale) = {}
    => b.total = b.shown /\ b.total = b.listed

\* A booking is changed, but not what was asked for it.
LEMMA BookingChanges ==
  ASSUME OrderTypes, PricedAsShown, NEW n \in 1..Len(orders), NEW b \in OrderType,
         orders' = [orders EXCEPT ![n] = b], created' \in 0..Len(orders),
         b.want = orders[n].want, b.current = orders[n].current, b.shown = orders[n].shown,
         b.listed = orders[n].listed, b.total = orders[n].total
  PROVE  OrderTypes' /\ PricedAsShown'
<1>1. orders \in Seq(OrderType) /\ Len(orders) \in Nat /\ DOMAIN orders = 1..Len(orders)
  BY DEF OrderTypes
<1>2. orders' \in Seq(OrderType) /\ Len(orders') = Len(orders) /\ DOMAIN orders' = 1..Len(orders)
  BY <1>1
<1>3. orders'[n] = b /\ \A m \in 1..Len(orders) : m # n => orders'[m] = orders[m]
  BY <1>1
<1>4. \A m \in 1..Len(orders) : Priced(orders[m])
  BY <1>1 DEF PricedAsShown, Priced
<1>5. Priced(orders[n]) => Priced(b)
  BY DEF Priced
<1>6. \A m \in 1..Len(orders) : Priced(orders'[m])
  BY <1>3, <1>4, <1>5
<1>7. PricedAsShown'
  BY <1>2, <1>6 DEF PricedAsShown, Priced
<1>8. OrderTypes'
  BY <1>2 DEF OrderTypes
<1>9. QED
  BY <1>7, <1>8

LEMMA OrdersSame ==
  ASSUME OrderTypes, PricedAsShown, orders' = orders, created' \in {0, created}
  PROVE  OrderTypes' /\ PricedAsShown'
<1>1. Len(orders) \in Nat
  BY DEF OrderTypes
<1>2. OrderTypes'
  BY <1>1 DEF OrderTypes
<1>3. PricedAsShown'
  BY DEF PricedAsShown
<1>4. QED
  BY <1>2, <1>3

\* The booking that is inserted.
LEMMA BookingInserted ==
  ASSUME OrderTypes, PricedAsShown, RequestTypes, ShopTypes, InsertBooking
  PROVE  OrderTypes' /\ PricedAsShown'
<1> DEFINE now == /\ tariff.fee = DefaultFee
                  /\ \A i \in DOMAIN order.want : order.want[i].price = ShopPrice(order.want[i].id)
           b == [want |-> order.want, shown |-> order.shown, listed |-> CartTotal(order.want),
                 total |-> ServerTotal(order.want), items |-> << >>, status |-> "pending",
                 current |-> now]
<1>1. orders' = Append(orders, b) /\ created' = created
  BY DEF InsertBooking
<1>2. order.want \in Seq(CartItem) /\ order.want # << >> /\ order.shown = SidebarTotal(order.want)
  BY DEF InsertBooking, RequestTypes
<1>3. now \in BOOLEAN
  OBVIOUS
<1>4. now /\ OneKind(order.want) /\ Ids(order.want) \cap (CardItems \cup OnSale) = {}
        => ServerTotal(order.want) = order.shown /\ ServerTotal(order.want) = CartTotal(order.want)
  BY <1>2, SameTotals
<1> HIDE DEF now
<1>5. b \in OrderType
  <2>1. order.shown \in Nat /\ CartTotal(order.want) \in Nat /\ ServerTotal(order.want) \in Nat
    BY <1>2, SummaryIsNumber, PageIsNumber, ServerIsNumber
  <2>2. << >> \in Seq(Products)
    OBVIOUS
  <2>3. QED
    BY <1>2, <1>3, <2>1, <2>2 DEF OrderType
<1>6. Priced(b)
  BY <1>4 DEF Priced
<1> HIDE DEF b
<1>7. orders \in Seq(OrderType) /\ Len(orders) \in Nat /\ DOMAIN orders = 1..Len(orders)
  BY DEF OrderTypes
<1>8. /\ orders' \in Seq(OrderType) /\ Len(orders') = Len(orders) + 1 /\ DOMAIN orders' = 1..(Len(orders) + 1)
      /\ orders'[Len(orders) + 1] = b /\ \A m \in 1..Len(orders) : orders'[m] = orders[m]
  BY <1>1, <1>5, <1>7
<1>9. \A m \in 1..Len(orders) : Priced(orders[m])
  BY <1>7 DEF PricedAsShown, Priced
<1>10. \A m \in 1..(Len(orders) + 1) : Priced(orders'[m])
  <2>1. ASSUME NEW m \in 1..(Len(orders) + 1) PROVE Priced(orders'[m])
    <3>1. m = Len(orders) + 1 \/ m \in 1..Len(orders)
      BY <1>7
    <3>2. QED
      BY <1>6, <1>8, <1>9, <3>1
  <2>2. QED
    BY <2>1
<1>11. PricedAsShown'
  BY <1>8, <1>10 DEF PricedAsShown, Priced
<1>12. OrderTypes'
  <2>1. created \in 0..(Len(orders) + 1)
    BY <1>7 DEF OrderTypes
  <2>2. QED
    BY <1>1, <1>8, <2>1 DEF OrderTypes
<1>13. QED
  BY <1>11, <1>12

LEMMA NotWatched ==
  ASSUME NEW r, r = [at |-> "sent", want |-> r.want, shown |-> r.shown, watched |-> r.watched]
  PROVE  /\ [r EXCEPT !.watched = FALSE].at = "sent"
         /\ [r EXCEPT !.watched = FALSE].want = r.want
         /\ [r EXCEPT !.watched = FALSE].shown = r.shown
  OBVIOUS

\* The booking under way is answered, fails, or is not waited for any more.
LEMMA RequestKept ==
  ASSUME RequestTypes, OrderOfRow,
         \/ order' \in {order, NoOrder, [order EXCEPT !.watched = FALSE]}
         \/ order.at = "items" /\ order' = [order EXCEPT !.at = "failed"]
  PROVE  RequestTypes'
<1>1. CASE order' = order
  BY <1>1 DEF RequestTypes
<1>2. CASE order' = NoOrder
  <2>1. order'.at = "idle"
    BY <1>2 DEF NoOrder
  <2>2. QED
    BY <2>1 DEF RequestTypes
<1>3. CASE order' = [order EXCEPT !.watched = FALSE]
  <2>1. CASE order = NoOrder
    <3>1. order' = [at |-> "idle"]
      BY <1>3, <2>1 DEF NoOrder
    <3>2. QED
      BY <3>1 DEF RequestTypes
  <2>2. CASE order.at = "sent"
    <3>1. order = [at |-> "sent", want |-> order.want, shown |-> order.shown, watched |-> order.watched]
      BY <2>2 DEF OrderOfRow, NoOrder
    <3>2. order'.at = "sent" /\ order'.want = order.want /\ order'.shown = order.shown
      BY <1>3, <3>1, NotWatched
    <3>3. QED
      BY <2>2, <3>2 DEF RequestTypes
  <2>3. CASE order.at \in {"items", "failed"}
    <3>1. order = [at |-> order.at, row |-> order.row, watched |-> order.watched]
      BY <2>3 DEF OrderOfRow, NoOrder
    <3>2. order' = [at |-> order.at, row |-> order.row, watched |-> FALSE]
      BY <1>3, <3>1
    <3>3. order'.at = order.at
      BY <3>2
    <3>4. QED
      BY <2>3, <3>3 DEF RequestTypes
  <2>4. QED
    BY <2>1, <2>2, <2>3 DEF OrderOfRow
<1>4. CASE order.at = "items" /\ order' = [order EXCEPT !.at = "failed"]
  <2>1. order = [at |-> order.at, row |-> order.row, watched |-> order.watched]
    BY <1>4 DEF OrderOfRow, NoOrder
  <2>2. order' = [at |-> "failed", row |-> order.row, watched |-> order.watched]
    BY <1>4, <2>1
  <2>3. order'.at = "failed"
    BY <2>2
  <2>4. QED
    BY <2>3 DEF RequestTypes
<1>5. QED
  BY <1>1, <1>2, <1>3, <1>4

\* An item is inserted: it is one that the customer wanted.
LEMMA ItemInserted ==
  ASSUME OrderTypes, PricedAsShown, OrdersInv, InsertItem
  PROVE  OrderTypes' /\ PricedAsShown'
<1>1. CASE orders' = orders
  BY <1>1, OrdersSame DEF InsertItem
<1>2. CASE orders' # orders
  <2> DEFINE n == order.row
             i == orders[n].want[Len(orders[n].items) + 1].id
             b == [orders[n] EXCEPT !.items = Append(orders[n].items, i)]
  <2> HIDE DEF b
  <2>1. order.at = "items" /\ n \in 1..Len(orders)
    BY DEF InsertItem, OrdersInv, OrderOfRow, NoOrder
  <2>2. /\ Len(orders[n].items) < Len(orders[n].want) /\ created' = created
        /\ orders' = [orders EXCEPT ![n] = b]
    BY <1>2 DEF InsertItem, b
  <2>3. orders[n] \in OrderType
    BY <2>1 DEF OrderTypes
  <2>4. i \in Products
    <3>1. Len(orders[n].items) \in Nat /\ orders[n].want \in Seq(CartItem) /\ Len(orders[n].want) \in Nat
      <4>1. orders[n].items \in Seq(Products) /\ orders[n].want \in Seq(CartItem)
        BY <2>3 DEF OrderType
      <4>2. QED
        BY <4>1
    <3>2. Len(orders[n].items) + 1 \in 1..Len(orders[n].want)
      BY <2>2, <3>1
    <3>3. orders[n].want[Len(orders[n].items) + 1] \in CartItem
      BY <3>1, <3>2
    <3>4. QED
      BY <3>3 DEF CartItem
  <2>5. b \in OrderType /\ b.want = orders[n].want /\ b.current = orders[n].current
        /\ b.shown = orders[n].shown /\ b.listed = orders[n].listed /\ b.total = orders[n].total
    <3>1. Append(orders[n].items, i) \in Seq(Products)
      <4>1. orders[n].items \in Seq(Products)
        BY <2>3 DEF OrderType
      <4>2. QED
        BY <2>4, <4>1
    <3>2. QED
      BY <2>3, <3>1 DEF OrderType, b
  <2>6. created' \in 0..Len(orders)
    BY <2>2 DEF OrderTypes
  <2>7. QED
    BY <2>1, <2>2, <2>5, <2>6, BookingChanges
<1>3. QED
  BY <1>1, <1>2

LEMMA StatusChanged ==
  ASSUME OrderTypes, PricedAsShown, NEW n \in 1..Len(orders), NEW s \in {"paid", "pending", "cancelled"},
         orders' = [orders EXCEPT ![n].status = s], created' = 0
  PROVE  OrderTypes' /\ PricedAsShown'
<1> DEFINE b == [orders[n] EXCEPT !.status = s]
<1>1. orders[n] \in OrderType /\ Len(orders) \in Nat /\ 0 \in 0..Len(orders)
  BY DEF OrderTypes
<1>2. b \in OrderType /\ b.want = orders[n].want /\ b.current = orders[n].current
      /\ b.shown = orders[n].shown /\ b.listed = orders[n].listed /\ b.total = orders[n].total
  BY <1>1 DEF OrderType
<1>3. orders' = [orders EXCEPT ![n] = b]
  OBVIOUS
<1> HIDE DEF b
<1>4. QED
  BY <1>1, <1>2, <1>3, BookingChanges

LEMMA OrderTypesKeep ==
  ASSUME OrdersInv, CartTypes, RequestTypes, OrderTypes, ShopTypes, PricedAsShown, [ShopNext]_shopVars
  PROVE  RequestTypes' /\ OrderTypes' /\ PricedAsShown'
<1> OrderOfRow
  BY DEF OrdersInv
<1>1. CASE \/ ShopStep \/ \E r \in posts : SaveDraft(r)
           \/ OpenCheckout \/ AskDraft \/ GetDraft \/ RestoreCart \/ TypeDetails \/ Reprice
           \/ UNCHANGED shopVars
  <2>1. UNCHANGED << orders, order, created >>
    BY <1>1 DEF ShopStep, SaveDraft, OpenCheckout, AskDraft, GetDraft, RestoreCart, TypeDetails, Reprice,
                orderVars, shopVars
  <2>2. QED
    BY <2>1, OrdersSame, RequestKept
<1>2. CASE LeaveCheckout \/ \E p \in Products : RemoveAtCheckout(p)
  <2>1. orders' = orders /\ created' \in {0, created} /\ order' \in {order, [order EXCEPT !.watched = FALSE]}
    BY <1>2 DEF LeaveCheckout, RemoveAtCheckout
  <2>2. QED
    BY <2>1, OrdersSame, RequestKept
<1>3. CASE CreateBooking
  <2>1. /\ UNCHANGED << created, orders >> /\ cart # << >> /\ cart \in Seq(CartItem)
        /\ order' = [at |-> "sent", want |-> cart, shown |-> SidebarTotal(cart), watched |-> TRUE]
    BY <1>3 DEF CreateBooking, CartTypes
  <2>2. order'.at = "sent" /\ order'.want = cart /\ order'.shown = SidebarTotal(cart)
    BY <2>1
  <2>3. RequestTypes'
    BY <2>1, <2>2 DEF RequestTypes
  <2>4. QED
    BY <2>1, <2>3, OrdersSame
<1>4. CASE InsertBooking
  <2>1. order'.at = "items"
    BY <1>4 DEF InsertBooking
  <2>2. RequestTypes'
    BY <2>1 DEF RequestTypes
  <2>3. QED
    BY <1>4, <2>2, BookingInserted
<1>5. CASE InsertItem
  <2>1. order' = order \/ (order.at = "items" /\ order' = [order EXCEPT !.at = "failed"])
    BY <1>5 DEF InsertItem
  <2>2. QED
    BY <1>5, <2>1, ItemInserted, RequestKept
<1>6. CASE BookingCreated
  <2>1. orders' = orders /\ order' = NoOrder /\ created' \in {created, order.row} /\ order.row \in 1..Len(orders)
    BY <1>6 DEF BookingCreated, OrderOfRow, NoOrder
  <2>2. PricedAsShown' /\ RequestTypes'
    BY <2>1, RequestKept DEF PricedAsShown
  <2>3. OrderTypes'
    <3>1. order.row \in 0..Len(orders)
      BY <2>1 DEF OrderTypes
    <3>2. QED
      BY <2>1, <3>1 DEF OrderTypes
  <2>4. QED
    BY <2>2, <2>3
<1>7. CASE BookingFails
  <2>1. orders' = orders /\ order' = NoOrder /\ created' = created
    BY <1>7 DEF BookingFails
  <2>2. QED
    BY <2>1, OrdersSame, RequestKept
<1>8. CASE ApprovePayment \/ CancelPayment
  <2>1. created \in 1..Len(orders)
    BY <1>8 DEF ApprovePayment, CancelPayment, OrderTypes
  <2>2. PICK s \in {"paid", "pending", "cancelled"} : orders' = [orders EXCEPT ![created].status = s]
    BY <1>8 DEF ApprovePayment, CancelPayment
  <2>3. created' = 0 /\ order' = order
    BY <1>8 DEF ApprovePayment, CancelPayment
  <2>4. QED
    BY <2>1, <2>2, <2>3, StatusChanged, RequestKept
<1>9. QED
  BY <1>1, <1>2, <1>3, <1>4, <1>5, <1>6, <1>7, <1>8 DEF ShopNext

\* The types of the shop, and the totals of the bookings, for any products and fee, and any
\* numbers of clicks and of bookings.
THEOREM PricedInvariance == CheckoutSpec => []PricedInv
<1>1. CheckoutInit => PricedInv
  <2> SUFFICES ASSUME CheckoutInit PROVE PricedInv
    OBVIOUS
  <2>1. << >> \in Seq(CartItem) /\ << >> \in Seq(OrderType) /\ Len(<< >>) = 0 /\ DOMAIN << >> = {}
    OBVIOUS
  <2>2. CartTypes /\ FlagTypes
    BY <2>1 DEF CheckoutInit, CartTypes, FlagTypes, NoRestore
  <2>3. RequestTypes /\ OrderTypes /\ PricedAsShown
    BY <2>1 DEF CheckoutInit, RequestTypes, OrderTypes, PricedAsShown, NoOrder
  <2>4. ShopTypes
    BY CheckoutAssumption DEF CheckoutInit, ShopTypes, ListPrice
  <2>5. QED
    BY <2>2, <2>3, <2>4, TypesSplit
<1>2. PricedInv /\ OrdersInv /\ DraftInv /\ [ShopNext]_shopVars => PricedInv'
  <2> SUFFICES ASSUME PricedInv, OrdersInv, DraftInv, [ShopNext]_shopVars PROVE PricedInv'
    OBVIOUS
  <2>1. CartTypes /\ FlagTypes /\ RequestTypes /\ OrderTypes /\ ShopTypes /\ PricedAsShown
    BY TypesSplit
  <2>2. CartTypes' /\ FlagTypes'
    BY <2>1, CartTypesKeep DEF DraftInv
  <2>3. RequestTypes' /\ OrderTypes' /\ PricedAsShown'
    BY <2>1, OrderTypesKeep
  <2>4. ShopTypes'
    BY <2>1, ShopTypesKeep
  <2>5. (CartTypes /\ FlagTypes /\ RequestTypes /\ OrderTypes /\ ShopTypes /\ PricedAsShown)' => PricedInv'
    BY DEF PricedInv, CheckoutTypeOK, UnderWay, CartTypes, FlagTypes, RequestTypes, OrderTypes, ShopTypes, OrderType
  <2>6. QED
    BY <2>2, <2>3, <2>4, <2>5
<1>3. QED
  BY <1>1, <1>2, OrdersInvariance, DraftInvariance, PTL DEF CheckoutSpec

\* The total of a booking is the one that the summary beside the form showed when it was confirmed,
\* and that of the page of the cart, for a cart of tests only, or of courses of which none is
\* on sale, however many they are and whatever the fee is, while prices and fee are as they
\* were (BookingSummarySidebar, the page of the cart, BookingService.Create).
THEOREM PricedAsShownAlways == CheckoutSpec => []PricedAsShown
<1>1. PricedInv => PricedAsShown
  BY DEF PricedInv
<1>2. QED
  BY <1>1, PricedInvariance, PTL
=============================================================================
