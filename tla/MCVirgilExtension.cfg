SPECIFICATION Spec
CONSTANTS
  UserSources <- Settings
  Base <- ManagementUrl
  QueueKeys <- SimpleKeys
INVARIANTS TextSettingsSurvive OverridesKept RequestsArrive TabIsOffered
