SPECIFICATION Spec
CONSTANTS
    Proc = {1, 2}
    Setups <- Deployments
    Nobody = Nobody
    Handler <- Handlers
    Child <- Dispatches
    Writer = {"log"}
    Cron <- Hourly
    NoRequest = NoRequest
CHECK_DEADLOCK FALSE
INVARIANT TypeOK
INVARIANT InOrder
INVARIANT CancelReported
PROPERTY ResultOfGoodRun
INVARIANT ExecuteTold
INVARIANT CronOnce
