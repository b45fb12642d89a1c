\* The parts one after the other; the windows are interchangeable.
SPECIFICATION Spec
CONSTANTS
  None = None
  ta = ta tb = tb ca = ca da = da
  Bad = Bad Uncached = Uncached xf = xf xg = xg i1 = i1 w1 = w1 w2 = w2
  pipe = pipe ma = ma pa = pa pb = pb ka = ka kb = kb
INVARIANTS TypeOK DraftIsSound ImportIsSound  ReviewIsSound RestoreIsSound
PROPERTIES StepsKeep
CHECK_DEADLOCK FALSE
SYMMETRY Windows
