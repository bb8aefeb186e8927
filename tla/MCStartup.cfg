CONSTANTS
  Arguments <- MCArguments
  Orderings = {"PERMUTE", "REQUIRE_ORDER"}
  Names <- MCNames
  Readable <- MCReadable
  Creatable <- MCCreatable
SPECIFICATION Spec
INVARIANTS TypeOK OptionsRight StartedRight
PROPERTIES ExchangeRotates Terminates
