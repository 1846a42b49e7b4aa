SPECIFICATION StoreSpec
CONSTANTS
  Requests = {r1, r2, r3}
  Passwords = {p, q}
  Methods = {"bcrypt", "argon2id"}
  StoredMethod = "sha512"
  MaxRows = 3
  Nothing = Nothing
SYMMETRY Symmetry
INVARIANTS
  LatestCountsUnlessPutBack
PROPERTY
  ChangeReplacesWhatItVerified
