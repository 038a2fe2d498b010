SPECIFICATION FairSpec
CONSTANTS
  c1 = c1
  c2 = c2
  l1 = l1
  l2 = l2
  Core = {c1, c2}
  Line = {l1, l2}
  Pc = {p1, p2}
  Workloads <- Guests
  Walks <- PageWalks
  SpinInsns = 2
  MaxTime = 2
INVARIANTS CommunicationFaithful SpinFaithful IdleFaithful
PROPERTY Quits
