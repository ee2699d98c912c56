SPECIFICATION Spec
CONSTANTS
  Sessions = {s1, s2, s3}
  Broadcasts = {b1, b2}
  MaxPublished = 3
CONSTRAINT ShortRun
INVARIANT ContiguousDelivery
