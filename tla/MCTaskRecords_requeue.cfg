\* One client, no failed file operation: an interrupted task is not queued again.
SPECIFICATION Spec
CONSTANTS
    Clients = {c1}
    Main = c1
    c1 = c1
    c2 = c2
    MaxId = 1
    MaxLives = 2
    MaxFaults = 0
    None = None
PROPERTIES
    InterruptedIsRequeued
