SPECIFICATION Spec
CONSTANTS
  HalfAU = 2
  Pi = 6
  Eps = 1
  Start = 4
  Boundary = 9
  Dr <- MCDr
  Dtheta <- MCDtheta
  Dphi <- MCDphi
  MaxSteps <- MCMaxSteps
INVARIANT AllowedSteps
