\* A companion and a peer that sends anything; the peer writes ahead.
SPECIFICATION SessionFairSpec
CONSTANTS
  c1 = c1
  c2 = c2
  a1 = a1
  p1 = p1
  p2 = p2
  x1 = x1
  Conns = {c1, c2}
  Apps = {a1}
  Pids = {p1}
  NoPid = NoPid
  Acts = {x1}
  Packets <- Mixed
  Patient = {c1}
  QueueCap = 1
  MaxPackets <- Few
  None = None
INVARIANT SessionTypeOK
INVARIANT CardsFollowSessions
PROPERTY Answered
