SPECIFICATION ArcSpec
CONSTANTS
  NUM_AXES = 2
  Arcs <- OneArc
  Landing = 0
  Edge = 7
  Lines <- Home
  Segments <- None
  Capacity = 1
  Moves <- None
  Stops <- None
  Halts <- None
  Faulty <- None
  Smooth = {TRUE}
  Speed = 1
  Window = 0
  StopDist = 1
  Reach = 4
  CrawlWay = 0
  MaxEvents = 2
INVARIANTS OnlyJogsGoOn
