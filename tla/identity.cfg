SPECIFICATION Spec
CONSTANTS
  Namespaces <- OneNamespace
  Names <- MCNames
  Nodes <- MCNodes
  Images <- MCImages
  Containers <- MCContainers
  Specs <- MCSpecs
  Sources <- AllSources
  AdmissionUid <- MCAdmissionUid
  GeneratedName <- MCGeneratedName
  LooksMadeUp <- MCLooksMadeUp
  Roots <- RootKinds
  MaxPods = 3
  MaxDumps = 1
INVARIANT TypeOK
INVARIANT ReportsRightPod
INVARIANT DetailsBelong
CHECK_DEADLOCK FALSE
