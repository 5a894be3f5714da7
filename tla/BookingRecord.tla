----------------------------- MODULE BookingRecord -----------------------------
(* Whose booking it is: the form of the checkout page                          *)
(* (components/booking/CheckoutForm.tsx), the columns personal_details and      *)
(* company_details made of it, and the pages that read them back: the invoice  *)
(* (lib/utils/invoice.ts) and the administrator's pages of bookings and of      *)
(* payments. A person, or a firm, stands for all of its fields.                 *)
EXTENDS Integers, Sequences

CONSTANTS
  People,        \* whom a payer or a candidate can be
  Namesakes,     \* people who all bear one name
  Firms,
  Nobody,        \* fields that are empty, or details that are not there
  MaxRecords,    \* bound: bookings made with the form
  MaxFormSteps   \* bound: changes of the form

ASSUME BookingRecordAssumption ==
  /\ Nobody \notin People \cup Firms
  /\ Namesakes \subseteq People
  /\ MaxRecords \in Nat /\ MaxFormSteps \in Nat

VARIABLES
  details,     \* formData, which checkoutFormData of the store follows
  sending,     \* the request of handleCreateBooking under way
  booked,      \* createdBookingId, as a place in records; 0 for none
  records,     \* server: personal_details and company_details of each booking
  formSteps,
  confirmed,   \* history: what the form showed when each booking was confirmed
  typedMeanwhile \* history: the form was changed while its request was under way

recordVars == << details, sending, booked, records, formSteps, confirmed, typedMeanwhile >>

Details == [isCompany: BOOLEAN, firm: Firms \cup {Nobody}, payer: People \cup {Nobody},
            sameAsPayer: BOOLEAN, candidate: People \cup {Nobody}]
Parties == [payer: People, candidate: People, firm: Firms \cup {Nobody}]
NoSending == [at |-> "idle"]

\* What the fields on the page show: the fields of the company while the switch is
\* on, and the payer's in place of the candidate's while the box is ticked.
FormShows(d) ==
  [payer |-> d.payer,
   candidate |-> IF d.sameAsPayer THEN d.payer ELSE d.candidate,
   firm |-> IF d.isCompany THEN d.firm ELSE Nobody]

\* validationSchema and validateForm: what is not on the page is not asked for.
Complete(d) ==
  /\ d.payer # Nobody
  /\ d.isCompany => d.firm # Nobody
  /\ ~d.sameAsPayer => d.candidate # Nobody

\* Mutant: the candidate's fields are sent whatever the box says.
PayloadOfFields(d) ==
  [payer |-> d.payer, candidate |-> IF d.candidate = Nobody THEN d.payer ELSE d.candidate,
   firm |-> IF d.isCompany THEN d.firm ELSE Nobody]

\* personalDetails and companyDetails of the request.
PayloadOf(d) ==
  [payer |-> d.payer,
   candidate |-> IF d.sameAsPayer THEN d.payer ELSE d.candidate,
   firm |-> IF d.isCompany THEN d.firm ELSE Nobody]

-----------------------------------------------------------------------------
(* The pages that read a booking. *)

SameName(p, q) == p = q \/ {p, q} \subseteq Namesakes

\* The invoice names a candidate only if the payer's name is an other one.
InvoiceTo(r) ==
  [payer |-> r.payer, candidate |-> IF SameName(r.candidate, r.payer) THEN Nobody ELSE r.candidate]
InvoiceFirm(r) == r.firm

\* parsePersonal and the drawers of the two pages.
DrawerPersons(r) == [payer |-> r.payer, candidate |-> r.candidate]
LedgerPersons(r) == [payer |-> r.payer, candidate |-> r.candidate]

\* The drawer of bookings looks for company_name, contact_name, company_email and
\* company_phone, which the form does not write: it shows whether there is a company,
\* and four dashes.
DrawerFirm(r) == [given |-> r.firm # Nobody, shown |-> Nobody]

-----------------------------------------------------------------------------
RecordInit ==
  /\ details = [isCompany |-> FALSE, firm |-> Nobody, payer |-> Nobody, sameAsPayer |-> FALSE,
                candidate |-> Nobody]
  /\ sending = NoSending
  /\ booked = 0
  /\ records = << >>
  /\ formSteps = 0
  /\ confirmed = << >>
  /\ typedMeanwhile = FALSE

\* updateForm: the fields are disabled when there is a booking, not while it is made.
Fill(d) ==
  /\ booked = 0
  /\ d # details
  /\ formSteps < MaxFormSteps
  /\ formSteps' = formSteps + 1
  /\ details' = d
  /\ typedMeanwhile' = (typedMeanwhile \/ sending # NoSending)
  /\ UNCHANGED << sending, booked, records, confirmed >>

SwitchCompany == Fill([details EXCEPT !.isCompany = ~@])
TypeFirm == details.isCompany /\ \E f \in Firms \cup {Nobody} : Fill([details EXCEPT !.firm = f])
TypePayer == \E p \in People \cup {Nobody} : Fill([details EXCEPT !.payer = p])
SwitchSame == Fill([details EXCEPT !.sameAsPayer = ~@])
TypeCandidate ==
  ~details.sameAsPayer /\ \E p \in People \cup {Nobody} : Fill([details EXCEPT !.candidate = p])

ConfirmDetails ==
  /\ booked = 0 /\ sending = NoSending
  /\ Complete(details)
  /\ Len(records) < MaxRecords
  /\ sending' = [at |-> "sent", payload |-> PayloadOf(details), form |-> FormShows(details)]
  /\ typedMeanwhile' = FALSE
  /\ UNCHANGED << details, booked, records, formSteps, confirmed >>

\* BookingService.Create keeps the details as they came.
StoreRecord ==
  /\ sending.at = "sent"
  /\ records' = Append(records, sending.payload)
  /\ confirmed' = Append(confirmed, sending.form)
  /\ sending' = [sending EXCEPT !.at = "stored"]
  /\ UNCHANGED << details, booked, formSteps, typedMeanwhile >>

RecordAnswered ==
  /\ sending.at = "stored"
  /\ booked' = Len(records)
  /\ sending' = NoSending
  /\ UNCHANGED << details, records, formSteps, confirmed, typedMeanwhile >>

\* An error or a lost answer: the form stays, and can be confirmed again.
RecordFails ==
  /\ sending # NoSending
  /\ sending' = NoSending
  /\ UNCHANGED << details, booked, records, formSteps, confirmed, typedMeanwhile >>

\* The page is loaded again, with the form that the store kept.
ReloadForm ==
  /\ booked # 0 \/ sending # NoSending
  /\ booked' = 0
  /\ sending' = NoSending
  /\ UNCHANGED << details, records, formSteps, confirmed, typedMeanwhile >>

RecordNext ==
  \/ SwitchCompany \/ TypeFirm \/ TypePayer \/ SwitchSame \/ TypeCandidate
  \/ ConfirmDetails \/ StoreRecord \/ RecordAnswered \/ RecordFails \/ ReloadForm

RecordSpec == RecordInit /\ [][RecordNext]_recordVars

-----------------------------------------------------------------------------
RecordTypeOK ==
  /\ details \in Details
  /\ sending \in {NoSending} \cup [at: {"sent", "stored"}, payload: Parties, form: Parties]
  /\ booked \in 0..Len(records)
  /\ records \in Seq(Parties)
  /\ formSteps \in Nat
  /\ confirmed \in Seq(Parties)
  /\ typedMeanwhile \in BOOLEAN

\* The pages show of booking n what the form showed: the invoice its payer, its
\* company, and its candidate unless the payer has the same name; the two drawers its
\* payer and its candidate.
Shows(n, form) ==
  /\ InvoiceTo(records[n]).payer = form.payer
  /\ InvoiceTo(records[n]).candidate \in {form.candidate, Nobody}
  /\ InvoiceTo(records[n]).candidate = Nobody <=> SameName(form.candidate, form.payer)
  /\ InvoiceFirm(records[n]) = form.firm
  /\ DrawerPersons(records[n]) = [payer |-> form.payer, candidate |-> form.candidate]
  /\ LedgerPersons(records[n]) = DrawerPersons(records[n])
  /\ DrawerFirm(records[n]).given <=> form.firm # Nobody

\* The invoice and the drawers show whom the form showed when the booking was confirmed,
\* also after a company or a candidate was typed and then switched away; and
\* the form that asks for the payment shows the same, unless it was changed while
\* the booking was being created (handleCreateBooking, updateForm, the invoice). The
\* invoice leaves out a candidate whose name is the payer's.
DetailsAsShown ==
  /\ \A n \in DOMAIN records : Shows(n, confirmed[n])
  /\ booked # 0 /\ ~typedMeanwhile => Shows(booked, FormShows(details))

-----------------------------------------------------------------------------
(* What makes DetailsAsShown inductive. *)

\* A request under way, and a booking made by one, hold what the form showed.
RecordsKept ==
  /\ Len(confirmed) = Len(records)
  /\ \A n \in 1..Len(records) : records[n] = confirmed[n]
  /\ sending # NoSending => sending.payload = sending.form
  /\ sending.at = "stored" =>
       /\ Len(records) # 0
       /\ records[Len(records)] = sending.form

\* A form that was not changed meanwhile still shows what is on its way, or booked.
FormKept ==
  /\ booked # 0 => sending = NoSending
  /\ ~typedMeanwhile =>
       /\ sending # NoSending => sending.form = FormShows(details)
       /\ booked # 0 => records[booked] = FormShows(details)

RecordInv == RecordTypeOK /\ RecordsKept /\ FormKept
=============================================================================
