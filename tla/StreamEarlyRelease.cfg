SPECIFICATION Spec
CONSTANT MaxEvents = 2
PROPERTY
    ReleaseAfterTheStream
