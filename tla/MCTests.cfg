SPECIFICATION Spec
INVARIANTS NamesFindTests   
PROPERTY PlanEnds
