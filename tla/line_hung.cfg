SPECIFICATION Spec
CONSTANTS
  NUM_AXES = 2
  Lines <- None
  Segments <- ShortSegment
  Capacity = 1
  Moves <- None
  Stops <- None
  Halts <- None
  Faulty <- None
  Smooth = {TRUE}
  Speed = 1
  Window = 0
  StopDist = 2
  Reach = 5
  CrawlWay = 2
  MaxEvents = 2
PROPERTIES AlwaysDrains
