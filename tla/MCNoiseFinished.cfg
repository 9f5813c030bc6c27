SPECIFICATION Spec
CONSTANTS
    ada = ada
    bob = bob
    eve = eve
    other = other
    None = None
    Peer = {ada, bob}
    Key = {ada, bob, eve, other}
    StaticOf <- MCStaticOf
    SessionCap = 2
    MaxEphemeral = 2
    MaxNonce = 0
    MaxRestarts = 0
INVARIANT FinishedIsTransport
