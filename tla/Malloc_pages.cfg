CONSTANTS
  NPAGES = 5
  PGWORDS = 4
  Sizes <- OddSizes
  Foreign <- LastPage
SPECIFICATION Spec
INVARIANTS BlocksApart  
