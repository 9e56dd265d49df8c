SPECIFICATION FairSpec
CONSTANTS
  m1 = m1
  m2 = m2
  c1 = c1
  NoMessage = NoMessage
  NoCallback = NoCallback
  Empty = Empty
  Msg <- TwoMessages
  Callback <- OneCallback
  MayUnsubscribe = TRUE
  MaxFaults = 1
INVARIANT TypeOK
PROPERTY QueueSpec Handled SubscribeReturns PublishReaches
CHECK_DEADLOCK FALSE
