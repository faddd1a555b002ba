\* Expected to fail: the hat is released at rest.
SPECIFICATION Spec
INVARIANTS
    HatAtRest
