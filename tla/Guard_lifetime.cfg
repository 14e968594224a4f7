SPECIFICATION Spec
INVARIANT GuardOutlivesUse
