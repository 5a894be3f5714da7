SPECIFICATION ScreensSpec
CONSTANTS
  Bookings = 2
  StripeBookings = {1}
  DeskStatus = {"pending", "confirmed"}
  DeskPageSize = 1
  RefreshLimit = 1
  DeskFetches = {1, 2}
  MaxDeskClicks = 4
  Payments = 2
  StripePayments = {1, 2}
  PayAmount = 2
  LedgerLimit = 1
  LedgerFetches = {1, 2}
  MaxLedgerClicks = 7
  Cards = {1, 2}
  FirstCards = {1}
  CardRequests = {1, 2}
  MaxCardClicks = 5
  Courses = {1, 2}
  FirstCourses = {1}
  Nvqs = {2}
  Units = {"unit"}
  Dates = {"slot"}
  Lines = {"unit"}
  FirstItems = {"unit", "slot"}
  CourseListLimit = 1
  Authors = {1, 2}
  MaxEdits = 3
  InboxLimit = 1
  BoardRequests = {1, 2}
  MaxTexts = 2
  MaxInbox = 2
  MaxBoardClicks = 2
  Tests = {"t1"}
  Lessons = {"c1", "c2"}
  CardItems = {"k1"}
  OnSale = {"c2"}
  CartLimit = 2
  DefaultFee = 1
  DraftRequests = 2
  MaxOrders = 1
  MaxShopClicks = 5
  People = {"ann", "bob", "eve"}
  Namesakes = {"ann", "bob"}
  Firms = {"acme"}
  Nobody = "nobody"
  MaxRecords = 2
  MaxFormSteps = 5
INVARIANTS
  ScreensTypeOK
  ListMatchesFilters
  FormIsOfPanel
  RefundedOnce
  CardsAsStored
  ImageInItsForm
  EditsAreKept
  MessagesKeptAndSentOnce
  BoardAsStored
  DraftKeepsCart
  PaidIsWhole
  PricedAsShown
  DetailsAsShown
  MessagesAreCurrent
CHECK_DEADLOCK FALSE
