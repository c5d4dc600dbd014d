SPECIFICATION Spec
CONSTANT Sizes <- MCSizes
INVARIANT ConnectedHasPublisher
