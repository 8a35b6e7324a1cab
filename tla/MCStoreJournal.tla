--------------------------- MODULE MCStoreJournal ---------------------------
EXTENDS StoreJournal

BindTo(e, endpoint) == [command |-> "bind", endpoint |-> endpoint, key |-> "none", environment |-> e]
On_(command, endpoint, key, run, mode) ==
    [command |-> command, endpoint |-> endpoint, key |-> key, run |-> run, mode |-> mode]

\* The right command lines, and the operator's slips: another endpoint, another key, another mode.
MCInvocations ==
    {BindTo("mainnet", "production"), BindTo("testnet", "test"),
     On_("adopt", "production", "k1", "r1", "none"), On_("adopt", "production", "none", "r1", "dry_run"),
     On_("adopt", "test", "k1", "r1", "live"),
     On_("drive", "production", "k1", "r1", "live"), On_("drive", "test", "k1", "r1", "live"),
     On_("drive", "production", "none", "r1", "dry_run"),
     On_("close", "production", "k1", "r1", "live"), On_("close", "production", "k2", "r1", "live")}
=============================================================================
