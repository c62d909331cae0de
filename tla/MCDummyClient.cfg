SPECIFICATION Spec
CONSTANTS
    MaxClients = 2
    MoveQueue = 1
CONSTRAINT MonitorOrKeyboard
INVARIANTS
    DummyTypeOK
    CountersHonest
PROPERTIES
    ShutdownExits
    KeyPressesDrain
