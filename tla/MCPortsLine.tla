---------------------------- MODULE MCPortsLine ----------------------------
(* One standalone COM port with every call an application can make. *)
EXTENDS VmodemPorts, TLC
Standalone == {[p \in Ports |-> NoGroup]}
AllUses == {"DEINIT", "DTR", "PURGE", "ATH", "ATZ", "AT&D", "ATS0", "ATS30",
            "MUX_POLL", "MUX_DISCONNECT"}
SockSymmetry == Permutations(Socks)
============================================================================
