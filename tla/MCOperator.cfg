\* Two reconciliations may overlap; a watch is replaced and two faults happen, with and
\* without the status subresource.  With it no more than MaxTenants rows are needed.
SPECIFICATION FairSpec
CONSTANTS
  Handlers = {h1, h2}
  MaxWatches = 1
  MaxTenants = 6
  MaxFaults = 2
INVARIANTS
  TypeOK
  NamedTenantIsComplete
PROPERTIES
  EventuallyProvisioned
  EventuallyActive
