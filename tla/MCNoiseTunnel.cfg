SPECIFICATION Spec
CONSTANTS
    ada = ada
    bob = bob
    eve = eve
    other = other
    None = None
    Peer = {ada, bob}
    Key = {ada, bob, eve, other}
    StaticOf <- MCStaticOf
    SessionCap = 2
    MaxEphemeral = 4
    MaxNonce = 2
    MaxRestarts = 1
INVARIANT TypeOK
INVARIANT NonceUnique
INVARIANT EncryptedIsNeverRead
PROPERTY TransportIsStable
