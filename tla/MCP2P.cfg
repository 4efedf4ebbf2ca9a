\* Two connections over one address and one protocol, with concurrent
\* forward, close and stream close calls.
CONSTANTS
  Addrs = {adr1}
  Protos = {x}
  Peers = {p1}
  Conns = {c1, c2}
  Forwarders = {f1, f2}
  Closers = {k1}
SPECIFICATION FairSpec
INVARIANTS SocketsOwned RegistryCounts OpenStreamsListed
PROPERTY StreamsEnd
