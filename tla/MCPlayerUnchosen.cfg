\* Whether a player who has to choose a character stays out until then.
SPECIFICATION Spec
CONSTANT Vetoes = {}
INVARIANT UnchosenNotActive
