SPECIFICATION ArcSpec
CONSTANTS
  NUM_AXES = 2
  Arcs <- OutAndBack
  Landing = 0
  Edge = 7
  Lines <- Home
  Segments <- OneSegment
  Capacity = 1
  Moves <- OneMove
  Stops <- AllAxes
  Halts <- AllAxes
  Faulty <- AllAxes
  Smooth = {TRUE, FALSE}
  Speed = 1
  Window = 0
  StopDist = 1
  Reach = 4
  CrawlWay = 2
  MaxEvents = 3
INVARIANTS ArcMode ArcAdvances
PROPERTIES ArcDoesNotJump QueueWaitsForArc
