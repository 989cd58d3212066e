\* Two calls, four changes of the releases, two newer ones among them.
CONSTANTS
  Calls = {c1, c2}
  Current <- MCCurrent
  Versions <- MCVersions
  Builds = {b1, b2}
  Junk = Junk
  Absent = Absent
  Nothing = Nothing
  MaxChanges = 4
SPECIFICATION Spec
INVARIANTS LaunchedIsVerified
PROPERTIES ReplacesInstaller
