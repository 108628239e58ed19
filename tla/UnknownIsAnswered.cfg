SPECIFICATION Spec

CONSTANTS
  aldor = aldor
  brienne = brienne
  cedric = cedric
  strength = strength
  wisdom = wisdom
  Names <- MCNames
  Ids <- MCIds
  Addresses = {a1, a2}
  Clients = {c1, c2}
  Abilities <- MCAbilities
  Unwritable = {cedric}
  Provisioned <- MCProvisioned
  Null = Null
  Absent = Absent
  Malformed = Malformed
  MaxHandlers = 2

PROPERTY
  UnknownIsAnswered
