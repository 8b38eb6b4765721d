--------------------------- MODULE MCDuplexSession ---------------------------
EXTENDS DuplexSession

TwoThenOne == <<2, 1>>
OneEach == <<1, 1>>
=============================================================================
