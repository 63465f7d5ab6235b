SPECIFICATION Spec
CONSTANTS
  Requests <- MCRequests
  Pattern <- MCPattern
  boundary <- MCBoundary
  MaxFiles = 2
  MaxParams = 12
  MaxHeader = 20
INVARIANTS
  FormTrue
  FormTaken
  LineTrue
  RouteTrue
