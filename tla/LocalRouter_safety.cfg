CONSTANTS
  Publishers = {p1}
  Subscribers = {s1, s2, s3}
  Subscriptions <- AllSubscriptions
  Subjects <- AllSubjects
  SubscriptionBuffer = 1
  CommandBuffer = 2
  MaxMessages = 3
  NoQueue = NoQueue
  workers = workers
SPECIFICATION Spec
SYMMETRY SubscriberSymmetry
INVARIANTS
  TableMatchesSenders
  OneBindingPerQueue
  OpenStreamsStaySubscribed
PROPERTIES
  AllOrNothing
CHECK_DEADLOCK FALSE
