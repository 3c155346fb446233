SPECIFICATION PanelSpec
CONSTANTS
  Names = {"ugv", "other"}
  Domains = {"0", "5"}
  Rmws = {"fastrtps", "cyclone"}
  Hosts = {"nuc", "pc"}
  Safeties = {"none", "full"}
  Unset = Unset
  DefaultName = "ugv"
  DefaultDomain = "0"
  DefaultRmw = "fastrtps"
  DefaultNuc = "nuc"
  Globals <- NoGlobals
  Typings <- MCTypings
  Meddled <- MCMeddled
  Factory <- MCFactory
INVARIANTS
  PanelTypeOK
  SecondRunFindsNothing
  AppliedMeansLoaded
  UnloadedOnlyIfTorn
  AppliedPasses
  GreenMeansConfigured
PROPERTIES
  SafetyOnlyWhenNamed
  DryRunHonoured
  RetriesConverge
