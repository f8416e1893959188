SPECIFICATION Spec
CONSTANTS
  NUM_AXES = 2
  Lines <- OutAndBack
  Segments <- OneSegment
  Capacity = 1
  Moves <- OneMove
  Stops <- AllAxes
  Halts <- AllAxes
  Faulty <- AllAxes
  Smooth = {TRUE, FALSE}
  Speed = 1
  Window = 0
  StopDist = 1
  Reach = 5
  CrawlWay = 2
  MaxEvents = 3
INVARIANTS TypeOK Straight EndsTogether EndsNear
PROPERTIES LinesDoNotJump SegmentsJoin QueueDrains
