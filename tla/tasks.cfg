SPECIFICATION Spec
CONSTANTS
  Lines = 3
  Length <- Lengths
  Size = 4
  MaxPending = 2
  Hosts <- AllHosts
  Started = TRUE
  Crawling = {3}
  PassCrawls = TRUE
INVARIANT ParsesBetweenPasses
PROPERTIES PassWhenDue PanelServed PatientObeyed
