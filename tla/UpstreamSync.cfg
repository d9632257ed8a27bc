SPECIFICATION Spec
CONSTANTS
  Procs = {p1}
  Exclusive = TRUE
  Refs = {master, tag}
  Branches = {master}
  Master = master
  NoRef = noref
  Versions <- MCVersions
  NoSha = 0
  Docs = {changed, removed, local, vi}
  ViPages = {vi}
  Copying = copying
  Licenses = licenses
  Blobs = {b1, b2, link}
  Links = {link}
  Absent = none
  Content <- MCContent
  changed = changed
  removed = removed
  local = local
  vi = vi
  copying = copying
  licenses = licenses
  b1 = b1
  b2 = b2
  link = link
  none = none
INVARIANTS TypeOK SyncedMirrors Provenance
PROPERTIES SummaryComplete ViUntouched DiffReadOnly InitRecovers ImplementsMirror
