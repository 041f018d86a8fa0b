SPECIFICATION DragSpec
CONSTANTS
  NumBalls = 2
  Speeds = {3, 7}
  Strides = {0, 7, 40}
PROPERTY RestingBallScrollsNothing
