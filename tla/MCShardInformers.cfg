SPECIFICATION Spec
CONSTANTS
    Namespaces = {a}
    MaxChanges = 2
INVARIANTS InformersFollow ReadinessSettles
PROPERTIES InformersCatchUp
CHECK_DEADLOCK FALSE
