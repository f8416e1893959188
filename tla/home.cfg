SPECIFICATION HomeSpec
CONSTANTS
  NUM_AXES = 2
  Zeros <- OneOrBoth
  Creep = 2
  Thresh = 0
  Lines <- Away
  Segments <- None
  Capacity = 1
  Moves <- OneMove
  Stops <- AllAxes
  Halts <- OnlyX
  Faulty <- OnlyX
  Smooth = {TRUE}
  Speed = 1
  Window = 1
  StopDist = 0
  Reach = 5
  CrawlWay = 2
  MaxEvents = 3
PROPERTIES HomedAtOrigin HomingDoesNotJump HomingEnds
