SPECIFICATION ArcSpec
CONSTANTS
  NUM_AXES = 2
  Arcs <- OneArc
  Landing = 0
  Edge = 7
  Lines <- None
  Segments <- None
  Capacity = 1
  Moves <- None
  Stops <- AllAxes
  Halts <- None
  Faulty <- None
  Smooth = {TRUE}
  Speed = 1
  Window = 0
  StopDist = 1
  Reach = 4
  CrawlWay = 0
  MaxEvents = 3
PROPERTIES StopEndsArc
