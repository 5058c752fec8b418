SPECIFICATION Spec
CONSTANTS
    w1 = w1
    w2 = w2
    NoWebhook = NoWebhook
    Webhooks = {w1}
    MaxCrashes = 2
    MaxExtra = 1
    MaxPanel = 2
CHECK_DEADLOCK FALSE
PROPERTY
    FinalIsCredited
