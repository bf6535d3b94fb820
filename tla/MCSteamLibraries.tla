-------------------------- MODULE MCSteamLibraries --------------------------
EXTENDS SteamLibraries
=============================================================================
