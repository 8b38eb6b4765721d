--------------------------- MODULE MCAvatarStream ---------------------------
EXTENDS AvatarStream
=============================================================================
