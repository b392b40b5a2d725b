SPECIFICATION Spec
CONSTANT Borrowers = {b1, b2, b3, b4, b5, b6}
INVARIANTS CountsMatch Exclusion
