SPECIFICATION Spec
CONSTANTS
    Width = 3
    MaxRef = 2
    Programs <- MCPrograms
INVARIANTS Sound AssertsPreserved Exact
