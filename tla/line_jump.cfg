SPECIFICATION Spec
CONSTANTS
  NUM_AXES = 2
  Lines <- Diagonal
  Segments <- None
  Capacity = 1
  Moves <- None
  Stops <- None
  Halts <- AllAxes
  Faulty <- None
  Smooth = {TRUE}
  Speed = 1
  Window = 0
  StopDist = 2
  Reach = 5
  CrawlWay = 0
  MaxEvents = 2
PROPERTIES NeverJumps
