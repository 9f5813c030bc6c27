SPECIFICATION Spec
CONSTANTS
    ada = ada
    bob = bob
    eve = eve
    other = other
    None = None
    Peer = {ada, bob, eve}
    Key = {ada, bob, eve, other}
    StaticOf <- MCStaticOf
    SessionCap = 1
    MaxEphemeral = 3
    MaxNonce = 1
    MaxRestarts = 0
INVARIANT TransportAuthenticated
PROPERTY TransportIsStable
