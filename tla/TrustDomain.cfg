SPECIFICATION FairSpec
CONSTANTS
    ha = ha
    hb = hb
    guest = guest
    Identities = {ha, hb, guest}
    Hosts = {ha, hb}
    Founders = {ha, guest}
    QuorumM = 1
    HashGeq <- MCHashGeq
    Origin <- MCOrigin
    NoFile = NoFile
    CheckpointEvery = 2
    Commands <- MCCommands
    MaxHeight = 4
    MaxCommands = 2
    MaxFaults = 1
PROPERTIES SyncImproves Converges
CHECK_DEADLOCK FALSE
