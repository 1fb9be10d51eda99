\* A watch on native-group policies through the proxy, with a server that
\* keeps the watch open.
CONSTANTS
    MaxEvents <- MCMaxEvents
    MaxLines <- MCMaxLines
SPECIFICATION Spec
PROPERTY WatchEventsForwarded
CHECK_DEADLOCK FALSE
