SPECIFICATION SeedFair
CONSTANTS
  Catalogue <- MCCatalogue
  Mechanics <- MCMechanics
  MechanicCodes = {"TRAC_JHN", "TRAC_JME"}
  CodeOf <- MCCodeOf
  Customers <- MCCustomers
  Visitors <- MCVisitors
  Early <- MCEarly
  Reports = 2
  Orders = 2
  MaxBoots = 3
  Jhon = Jhon
  James = James
  Victim = Victim
  Latecomer = Latecomer
  Stranger = Stranger
INVARIANTS
  SeedInv
  BootCompletes
PROPERTY
  StartsAnyway
CHECK_DEADLOCK FALSE
