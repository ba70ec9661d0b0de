------------------------------ MODULE Settings ------------------------------
(***************************************************************************)
(* Which identity and which statement timeout a connection has: skycat/    *)
(* config.py, with what CatalogReader and create_catalog_engine() make of  *)
(* it.  A setting is None when its environment variable is unset or empty. *)
(* Host, port, TLS and pool sizes are passed on as they are and left out.  *)
(***************************************************************************)
EXTENDS Integers

CONSTANT None

CatalogRoles == {"default", "bootstrap", "admin", "ingest", "reader"}

\* Credentials and statement timeouts by role; generic is
\* SKYCAT_DB_STATEMENT_TIMEOUT.  The default role has no timeout of its own.
SettingsOf(users, passwords, timeouts) ==
    [database : {"catalog", "reserved"},
     user     : [CatalogRoles -> users],
     password : [CatalogRoles -> passwords],
     timeout  : [CatalogRoles \ {"default"} -> timeouts],
     generic  : timeouts]

\* Mutant of CredsFor: the password falls back by itself.
CredsForEach(s, role) ==
    [user     |-> IF s.user[role] = None THEN s.user["default"] ELSE s.user[role],
     password |-> IF s.password[role] = None THEN s.password["default"] ELSE s.password[role]]

\* User and password fall back together, and on the user alone.
CredsFor(s, role) ==
    LET named == IF s.user[role] = None THEN "default" ELSE role IN
    [user |-> s.user[named], password |-> s.password[named]]

\* A default connection is a reader's; only readers take the generic timeout.
StatementTimeoutFor(s, role) ==
    LET own == s.timeout[IF role = "default" THEN "reader" ELSE role] IN
    IF own # None THEN own
    ELSE IF role \in {"reader", "default"} THEN s.generic
    ELSE None

ConfigFor(s, role) ==
    [role |-> role, login |-> CredsFor(s, role), timeout |-> StatementTimeoutFor(s, role)]

\* What CatalogReader adds to the configuration of its role: its own default,
\* where nothing is configured.
ReaderConfig(s, default) ==
    LET cfg == ConfigFor(s, "reader") IN
    IF cfg.timeout = None /\ default # 0 THEN [cfg EXCEPT !.timeout = default] ELSE cfg

\* A new connection: no timeout is set for 0, which is no limit to PostgreSQL
\* either.
Session(cfg) == IF cfg.timeout = 0 THEN [cfg EXCEPT !.timeout = None] ELSE cfg

\* PostgreSQL's maintenance databases and the templates are never touched.
Reserved(database) == database = "reserved"
=============================================================================
