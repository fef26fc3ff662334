SPECIFICATION McpSpec
CONSTANTS
    p1 = p1
    p2 = p2
    p3 = p3
    c1 = c1
    c2 = c2
    Plugins <- MCPlugins
    Paths <- MCPaths
    HooksOf <- MCHooksOf
    Calls <- MCCalls
PROPERTIES
    AnnouncedIsPublished
CHECK_DEADLOCK FALSE
