SPECIFICATION Spec
CONSTANT Sizes <- AllSizes
INVARIANTS
    IndexTable
    SameList
    SizesFit
    LinksInside
CHECK_DEADLOCK FALSE
