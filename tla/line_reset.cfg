SPECIFICATION Spec
CONSTANTS
  NUM_AXES = 2
  Lines <- NegativeSide
  Segments <- None
  Capacity = 1
  Moves <- None
  Stops <- None
  Halts <- None
  Faulty <- AllAxes
  Smooth = {TRUE, FALSE}
  Speed = 1
  Window = 0
  StopDist = 1
  Reach = 5
  CrawlWay = 0
  MaxEvents = 4
PROPERTIES ResetHoldsStill
