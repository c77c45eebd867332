SPECIFICATION Spec
CONSTANTS
  Namespaces <- OneNamespace
  Names <- MCNames
  Nodes <- MCNodes
  Images <- MCImages
  Containers <- MCContainers
  Specs <- OneSpec
  Sources <- Generated
  AdmissionUid <- MCAdmissionUid
  GeneratedName <- MCGeneratedName
  LooksMadeUp <- MCLooksMadeUp
  Roots <- ChartRoot
  MaxPods = 2
  MaxDumps = 1
INVARIANT NamesThePod
CHECK_DEADLOCK FALSE
