\* Up to fourteen clicks, panels that take two ticks to slide, frames of one or two ticks.
CONSTANTS
  Nothing = ""
  Name = {"MainStartup", "ProjectSetup", "CfgPlatform", "FolderSelect",
          "MainMenu", "AssetManager", "AboutPage"}
  Registers <- MCRegisters
  Known = {"MainStartup", "ProjectSetup", "CfgPlatform", "MainMenu",
           "AssetManager", "AboutPage"}
  MaxDepth = 4
  SlideTime = 2
  MaxTick = 2
  MaxClicks = 14
SPECIFICATION ScreensSpec
INVARIANTS TypeOK WayBack OneCloseOneExit
PROPERTIES CloseServed NestedUntilEager
CHECK_DEADLOCK FALSE
