SPECIFICATION Spec
CONSTANTS
  Unrouted <- Mistyped
  MaxHops = 5
INVARIANTS
  NoRedirectLoop
  LinksArrive
