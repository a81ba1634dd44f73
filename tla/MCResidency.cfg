SPECIFICATION ResidencySpec
CONSTANTS
  Keys = {"load", "unload"}
  ToTier <- MCToTier
  Limits <- MCLimits

  
PROPERTIES
  
  ResidencySettles
