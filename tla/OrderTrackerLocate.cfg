SPECIFICATION TrackerSpec
CONSTANTS
    Order = {o1}
    Thread = {t1, t2}
    MaxCasRetry = 3
INVARIANT RejectedOnlyIfRefused
