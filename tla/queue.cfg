SPECIFICATION Spec
CONSTANTS
  s1 = s1
  s2 = s2
  s3 = s3
  none = none
  Segments <- ThreeSegments
  NoSegment = none
  SEGMENT_QUEUE_SIZE = 3

PROPERTIES Implements TakesOldest
