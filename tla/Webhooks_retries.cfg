SPECIFICATION WebhookSpec
CONSTANTS
    Passes = {s1, s2}
    s1 = s1
    s2 = s2
    MaxWebhookFaults = 1
PROPERTY DeliveriesSettle
CHECK_DEADLOCK FALSE
