SPECIFICATION Spec
CONSTANTS
  alice = alice
  bob = bob
  seat = seat
  wheel = wheel
  Users = {alice, bob}
  Products = {seat, wheel}
  Coupons = {"C", "Q"}
  Crafted = {"Q"}
  Rewritten <- MCRewritten
  Price <- MCPrice
  Stocked = {seat}
  Opening <- MCOpening
  Seeded <- MCSeeded
  Requests <- MCRequests
  MaxRequests = 3
  Keep = keep
  NotANumber = not_a_number
  NoRequest = no_request
  NoOrder = no_order
INVARIANTS
  Inv
  CreditAccounted
PROPERTY
  OnlyOwnRequests
CHECK_DEADLOCK FALSE
