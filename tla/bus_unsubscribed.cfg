SPECIFICATION Spec
CONSTANTS
  Subscriber = {a, b}
  MaxPublished = 1
CHECK_DEADLOCK FALSE
PROPERTIES UnsubscribeStopsCalls
