SPECIFICATION Spec
CONSTANTS
  a = a
  b = b
  None = None
  SubprojectIndex = included
  Pages <- MCPages
  Sites <- ViSites
  Revisions <- MCRevisions
  Namespaces <- MCNamespaces
  Names <- MCNames
  MaxPageEdits = 1
  MaxFileEdits = 2
  Files = {included, exceptions, code, exporting, abi, feature}
  included = included
  exceptions = exceptions
  code = code
  exporting = exporting
  abi = abi
  feature = feature
  Dir <- MCDir
  Mentions <- MCMentions
  AbiDir = "ABI"
  Nothing = Nothing
INVARIANT TranslationsBuild
