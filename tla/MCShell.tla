------------------------------ MODULE MCShell ------------------------------
EXTENDS Shell

MCCommands == <<
    DOMAIN Registry \cup {"cd", "mkdir", "rm", "exit", "ex", "#", "/sb", "w", "cl", "clr", "pw"},
    {"cd", "mkdir", "rm", "exit", "clr", "/sbin/ec", "s", "work", "env"}>>
MCPaths == {"w", "work", "work/a", "..", "/", "/s", "/sbin", "/pktgen/bin", "ec", "$(SHELL)", "quit"}
MCParts == {"b", "ec"}
MCValues == [letter \in {"d", "D", "u", "U", "b", "n"} |-> {"7"}]
    @@ [letter \in {"h", "H"} |-> {"0x1f"}]
    @@ [letter \in {"m"} |-> {"00:11:22:33:44:55"}]
    @@ [letter \in {"4"} |-> {"10.0.0.1"}]
    @@ [letter \in {"6"} |-> {"fe80::1"}]
    @@ [letter \in {"P", "C"} |-> {"0", "al"}]
    @@ [letter \in {"s", "c", "k", "l", "%"} |-> {"SH"}]
=============================================================================
