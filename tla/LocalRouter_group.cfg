CONSTANTS
  Publishers = {p1}
  Subscribers = {s1, s2}
  Subscriptions <- GroupSubscriptions
  Subjects <- OneSubject
  SubscriptionBuffer = 1
  CommandBuffer = 2
  MaxMessages = 3
  NoQueue = NoQueue
  workers = workers
SPECIFICATION Spec
PROPERTY GroupReceives
CHECK_DEADLOCK FALSE
