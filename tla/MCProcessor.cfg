\* One command: two notifications and the terminal response.
\* Every worker, exchange and discovery ends.
SPECIFICATION MCSpec
CONSTANTS
    Commands = {c1}
    MaxPosts = 3
    responseRetryAttempts = 2
    Pending = Pending
    Gone = Gone
INVARIANTS
    AnsweredOnceInOrder
    KeptOnlyWhenAnswered
    NotificationAtMostOnce
    ExchangeIsFaithful
    DiscoveryIsSound

    
CHECK_DEADLOCK FALSE
