SPECIFICATION Spec
CONSTANTS
  Throttle = {h1, h2, h3}
  Decoder = {d1, d2, d3}
  NoThrottle = NoThrottle
  NoDecoder = NoDecoder
CHECK_DEADLOCK FALSE
INVARIANTS AcquiredIsDriven DriverAgrees
PROPERTIES ImplementsLeases
