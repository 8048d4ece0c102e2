CONSTANTS
    Millis = {0, 1}
    Brightness = {176, 177}
SPECIFICATION LightsSpec
INVARIANT
    ShowsMostImportant
PROPERTY
    BlinksAsAsked
