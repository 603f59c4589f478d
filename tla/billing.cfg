SPECIFICATION FairSpec
CONSTANTS
    Admin = {a1}
    Cron = Cron
    Plan = {"free", "pro"}
    NoPlan = "none"
    Price <- MCPrice
    Term <- MCTerm
    TrialDays = 1
    GraceDays = 1
    SuspendAfterPastDueDays = 1
    RetryAttempts = 1
    RetryIntervalDays = 1
    Gateway = TRUE
    ExtraDays = {1}
    RefundValues = {2, 4}
    MaxLate = 1
    MaxInvoices = 2
    MaxRequests = 3
    MaxFaults = 1
CHECK_DEADLOCK FALSE
INVARIANTS
    TypeOK
    RefundRecordSound
PROPERTIES
    PaidStaysPaid
    RenewedOnlyIfPaid
    UnpaidIsSettled
