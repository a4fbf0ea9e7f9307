SPECIFICATION SpaceFairSpec
CONSTANTS
  None = None
  Users = {}
  Host = host
  Guests = {a}
  Plans <- SomePlans
  Handlers = {h1}
  Seats = 2
  MaxRequests = 1
PROPERTIES
  DueSpaceTornDown
