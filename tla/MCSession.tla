------------------------------ MODULE MCSession ------------------------------
EXTENDS Session

\* A window, a limit that lowers one and a limit that would raise it again.
AllSettings == {Ack(1), Limit(1, "soft"), Limit(2, "dynamic")}
==============================================================================
