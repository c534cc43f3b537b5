\* Rider, darkstore, admin and customer drive one order; dispatchers give
\* orders to riders.
CONSTANTS
  r1 = r1  c1 = c1  c2 = c2  u1 = u1  u2 = u2
  o1 = o1  o2 = o2  f1 = f1  f2 = f2  d1 = d1  d2 = d2
  Riders <- MCRiders
  NoRider = NoRider
  Calls <- MCCalls
  Updates <- MCUpdates
  Asked = {"on-the-way"}
  Orders <- MCOrders
  NoOrder = NoOrder
  Fleet <- MCFleet
  NoOne = NoOne
  Dispatchers <- MCDispatchers
  MaxLoad = 2
  AutoLoad = 1
  Moves = {"gone"}
SPECIFICATION MCSpec
SYMMETRY Alike
CONSTRAINT Few
INVARIANTS TypeOK DispatchTypeOK NoStageSkipped PaidExactlyOnDelivery CustomerSeesWhatHappened
           DeliveryIsBooked DeliveryReachesCustomer LoadCoversOrders GroupIsAssigned
