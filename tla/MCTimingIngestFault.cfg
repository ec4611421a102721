CONSTANTS
    MaxFrames = 2
    MaxCrashes = 1
    MaxDrops = 1
    MaxFaults = 2
    Kinds <- MCMessagesOnly
SPECIFICATION FairSpec
PROPERTIES
    DecodedIsProcessed
    StopReleasesTask
    ActiveIsServed
