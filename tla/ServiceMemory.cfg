SPECIFICATION Spec
CONSTANTS
    PageSizes <- ArmPages
INVARIANTS TypeOK ReportsOwn RequestFound
