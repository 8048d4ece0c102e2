CONSTANTS
    supl = supl
    internet = internet
    wifi = wifi
    atl = atl
    bit = bit
    quipc = quipc
    Nif = {supl, internet, wifi}
    Client = {atl, bit, quipc}
    Users <- MCUsers
    WaitClient = {quipc}
    AtlClient = {atl}
    AtlOrder <- MCAtlOrder
    SingleNif = {wifi}
    ModemNif = {supl, internet}
    Reused = {atl, bit}
SPECIFICATION FairSpec
INVARIANTS
    LeaseMatchesState
    GrantBacked
    NoForgottenRequest
PROPERTIES
    OnlyRestartOrphans
    IsShared
    RequestAnswered
    ReleaseAnswered
