CONSTANTS
    NULL = NULL
    a = a
    b = b
    k1 = k1
    VMs = {a, b}
    IPRanges <- MCIPRanges
    ConcurrencyLimit = 1
    DatastoreRetries = 2
    MaxVersions <- MCMaxVersions
    MaxFaults = 2
    MaxCerts = 3
    MaxCertFaults = 2
SPECIFICATION FairSpec
INVARIANTS AddressesAreOwned AnswersMatchCalls SamplesAreBilledOnce KeyMatchesCert DegradedIsExact
    NewestReadyIsUsed
PROPERTIES SilentMonitorIsDropped EventsAreSent VmGetsCertificates OverlayForms
CHECK_DEADLOCK FALSE
