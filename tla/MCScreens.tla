------------------------------ MODULE MCScreens ------------------------------
(* The pages of the browser and the forms of the shop, for TLC. They share no   *)
(* state in the model, so a behaviour is one of a single page, and the states   *)
(* of all of them add up.                                                       *)
EXTENDS BookingsDesk, PaymentsDesk, CardsDesk, CourseEditor, Enquiries, Checkout, BookingRecord,
        VisitorForms

VARIABLE screen

backOffice == << deskVars, ledgerVars, cardVars, editorVars >>
shopFront == << enquiryVars, shopVars, recordVars, formVars >>
screenVars == << screen, backOffice, shopFront >>

\* The page that is not looked at has one initial state.
ScreensInit ==
  /\ screen \in {"bookings", "payments", "cards", "courses", "enquiries", "checkout", "record", "forms"}
  /\ DeskInit /\ LedgerInit /\ CardsInit /\ EditorInit
  /\ EnquiriesInit /\ CheckoutInit /\ RecordInit /\ FormInit
  /\ screen # "bookings" => \A b \in BookingId : row[b] = "pending"
  /\ screen # "forms" => isLogin

BackOfficeNext ==
  /\ \/ /\ screen = "bookings" /\ DeskNext
        /\ UNCHANGED << ledgerVars, cardVars, editorVars >>
     \/ /\ screen = "payments" /\ LedgerNext
        /\ UNCHANGED << deskVars, cardVars, editorVars >>
     \/ /\ screen = "cards" /\ CardsNext
        /\ UNCHANGED << deskVars, ledgerVars, editorVars >>
     \/ /\ screen = "courses" /\ EditorNext
        /\ UNCHANGED << deskVars, ledgerVars, cardVars >>
  /\ UNCHANGED shopFront

ShopFrontNext ==
  /\ \/ /\ screen = "enquiries" /\ EnquiriesNext
        /\ UNCHANGED << shopVars, recordVars, formVars >>
     \/ /\ screen = "checkout" /\ ShopNext
        /\ UNCHANGED << enquiryVars, recordVars, formVars >>
     \/ /\ screen = "record" /\ RecordNext
        /\ UNCHANGED << enquiryVars, shopVars, formVars >>
     \/ /\ screen = "forms" /\ FormNext
        /\ UNCHANGED << enquiryVars, shopVars, recordVars >>
  /\ UNCHANGED backOffice

ScreensNext == (BackOfficeNext \/ ShopFrontNext) /\ UNCHANGED screen

ScreensSpec == ScreensInit /\ [][ScreensNext]_screenVars

\* The types of the eight modules.
ScreensTypeOK ==
  /\ DeskTypeOK /\ LedgerTypeOK /\ CardsTypeOK /\ EditorTypeOK
  /\ EnquiriesTypeOK /\ CheckoutTypeOK /\ RecordTypeOK /\ FormTypeOK
=============================================================================
