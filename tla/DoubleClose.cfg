\* A panel is closed twice.
CONSTANTS
  Nothing = ""
  Name = {"MainStartup", "ProjectSetup", "CfgPlatform", "FolderSelect",
          "MainMenu", "AssetManager", "AboutPage"}
  Registers <- MCRegisters
  Known = {"MainStartup", "ProjectSetup", "CfgPlatform", "MainMenu",
           "AssetManager", "AboutPage"}
  MaxDepth = 4
  SlideTime = 2
  MaxTick = 2
  MaxClicks = 14
SPECIFICATION ScreensSpec
INVARIANT OwnerSurvives
CHECK_DEADLOCK FALSE
