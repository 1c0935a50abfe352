SPECIFICATION FairSpec
CONSTANTS
  BufferLines = 4
  LowWater = 2
  CounterModulus = 1
  WireFrames <- LongFrames
  Keys = {}
PROPERTY
  FrameIsFinished
