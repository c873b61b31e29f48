SPECIFICATION Spec
CONSTANTS
  Requests = {r1, r2}
  Mixes <- Restoring
  Users = {u1, u2, u3}
  u1 = u1
  u2 = u2
  u3 = u3
  Speakers = {u1, u2, u3}
  Sockets = {s1, s2, s3, s4}
  s1 = s1
  s2 = s2
  s3 = s3
  s4 = s4
  SocketUser <- UserOf
  Topics = {l1}
  l1 = l1
  TopicOwner <- OwnerOf
  NoTopic = NoTopic
  Devices = {d1}
  d1 = d1
  Tokens = {t1, t2}
  t1 = t1
  t2 = t2
  Linked = {u1}
  Signals = {"BOOKING_NEW", "REVIEW_NEW"}
  NoUser = NoUser
PROPERTIES Restores
CHECK_DEADLOCK FALSE
