CONSTANTS
  e1 = e1
  m1 = m1
  m2 = m2
  k1 = k1
  k2 = k2
  NoDelivery = NoDelivery
  Endpoints <- MCEndpoints
  Messages <- MCMessages
  Filters <- MCFilters
  Dispatchers <- MCDispatchers
  MAX_ATTEMPTS = 2
  SendBound = 3
  WebhookSettings <- MCWebhookSettings
SPECIFICATION FairWebhookSpec
INVARIANTS
  PostsAreEarned
PROPERTIES
  AllSettle
CHECK_DEADLOCK FALSE
