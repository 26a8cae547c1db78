----------------------------- MODULE SslSession ------------------------------
(***************************************************************************)
(* The creation of SSL sessions (src/src/ssl.c).  Threads create sessions from  *)
(* files and directories that somebody else changes meanwhile; the names of    *)
(* the trusted CAs are kept in a cache under a lock, with the time the          *)
(* directory was last modified.                                               *)
(*                                                                           *)
(* One CA directory, whose files hold one CA each.  OpenSSL and the file        *)
(* system are external; a change of the directory is a new modification time,   *)
(* so the second-granularity of st_mtime is not in the model.                  *)
(***************************************************************************)
EXTENDS Integers, FiniteSets

CONSTANTS
    Creators,   \* threads that create sessions
    CaFiles,    \* names of files
    NoThread,
    MaxMtime,   \* bound: changes of the directory
    MaxNew      \* bound: sessions created by a thread

ASSUME CreatorsAssumption == NoThread \notin Creators /\ MaxMtime \in Nat /\ MaxNew \in Nat

VARIABLES
    ca_dir_hash,  \* the cache: present, modtime, contents
    ca_lock,      \* the static lock
    dir,          \* the directory: exists, mtime, files, and which files can be loaded
    creator       \* a thread in z_ssl_session_new

sessionvars == <<ca_dir_hash, ca_lock, dir, creator>>

NoEntry == [present |-> FALSE, modtime |-> 0, contents |-> {}]

IdleCreator == [at |-> "idle", mode |-> "client", modtime |-> 0, todo |-> {}, found |-> {},
                ctx |-> FALSE, crl_store |-> FALSE, session |-> FALSE, made |-> 0]

SessionInit ==
    /\ ca_dir_hash = NoEntry
    /\ ca_lock = NoThread
    /\ \E files, good \in SUBSET CaFiles :
          dir = [exists |-> TRUE, mtime |-> 0, files |-> files, good |-> good]
    /\ creator = [t \in Creators |-> IdleCreator]

-----------------------------------------------------------------------------
(* z_ssl_session_new, z_ssl_session_new_inline *)

\* Every error frees the context and returns NULL; a session is freed likewise.
Ends(t) == creator' = [creator EXCEPT ![t] = [IdleCreator EXCEPT !.made = creator[t].made]]

Moves(t, c) == creator' = [creator EXCEPT ![t] = c]

\* The key and the certificate, from files or inline: they must load, and match.
Keys == {"none", "good", "bad_key", "bad_cert", "mismatch"}

z_ssl_load_privkey_and_cert(key) == key \in {"none", "good"}

z_ssl_set_privkey_and_cert(key) == key \in {"none", "good"}

\* z_ssl_create_ctx may fail, too.  `ca` is whether there is a ca_dir.
Created(t, mode, ok, ca) ==
    /\ creator[t].at = "idle"
    /\ creator[t].made < MaxNew
    /\ LET c == [IdleCreator EXCEPT !.made = creator[t].made + 1, !.mode = mode]
       IN  \/ Moves(t, c)
          \/ /\ ok
             /\ Moves(t, [c EXCEPT !.ctx = TRUE,
                            !.at = IF ~ca THEN "context" ELSE IF mode = "server" THEN "lock" ELSE "access"])
    /\ UNCHANGED <<ca_dir_hash, ca_lock, dir>>

z_ssl_session_new(t, mode, key, ca) == Created(t, mode, z_ssl_load_privkey_and_cert(key), ca)

z_ssl_session_new_inline(t, mode, key, ca) == Created(t, mode, z_ssl_set_privkey_and_cert(key), ca)

-----------------------------------------------------------------------------
(* z_ssl_set_trusted_ca_list *)

\* The lock, and the lookup: an entry is used if the directory still has its
\* modification time, and dropped if not.
CacheLookup(t) ==
    /\ creator[t].at = "lock"
    /\ ca_lock = NoThread
    /\ IF ca_dir_hash.present /\ dir.exists /\ ca_dir_hash.modtime = dir.mtime
       THEN /\ Moves(t, [creator[t] EXCEPT !.at = "access", !.found = ca_dir_hash.contents])
            /\ UNCHANGED <<ca_dir_hash, ca_lock>>
       ELSE /\ Moves(t, [creator[t] EXCEPT !.at = "stat"])
            /\ ca_lock' = t
            /\ ca_dir_hash' = NoEntry
    /\ UNCHANGED dir

\* The modification time is taken before the directory is read.
StatDir(t) ==
    /\ creator[t].at = "stat"
    /\ IF dir.exists
       THEN /\ Moves(t, [creator[t] EXCEPT !.at = "read", !.modtime = dir.mtime, !.todo = CaFiles])
            /\ UNCHANGED ca_lock
       ELSE /\ Ends(t)
            /\ ca_lock' = NoThread
    /\ UNCHANGED <<ca_dir_hash, dir>>

\* SSL_load_client_CA_file of an entry of the directory; one that cannot be
\* loaded is skipped.
LoadsFile(t) ==
    /\ creator[t].at = "read"
    /\ \E f \in creator[t].todo :
          Moves(t, [creator[t] EXCEPT !.todo = @ \ {f}, !.found = @ \union ({f} \cap dir.files \cap dir.good)])
    /\ UNCHANGED <<ca_dir_hash, ca_lock, dir>>

\* (mutant) the time is taken after the directory has been read
CachePublish_restat(t) ==
    /\ creator[t].at = "read" /\ creator[t].todo = {}
    /\ ca_dir_hash' = [present |-> TRUE, modtime |-> dir.mtime, contents |-> creator[t].found]
    /\ ca_lock' = NoThread
    /\ Moves(t, [creator[t] EXCEPT !.at = "access"])
    /\ UNCHANGED dir

CachePublish(t) ==
    /\ creator[t].at = "read" /\ creator[t].todo = {}
    /\ ca_dir_hash' = [present |-> TRUE, modtime |-> creator[t].modtime, contents |-> creator[t].found]
    /\ ca_lock' = NoThread
    /\ Moves(t, [creator[t] EXCEPT !.at = "access"])
    /\ UNCHANGED dir

-----------------------------------------------------------------------------

\* Whether there is a store; a failure to create it is no error.
z_ssl_crl_store_create(crl) == crl = "given"

\* The rest of z_ssl_load_ca_list: both directories must be accessible, and only
\* then the CRL store is created.
z_ssl_load_ca_list(t, crl) ==
    /\ creator[t].at = "access"
    /\ IF dir.exists /\ crl # "inaccessible"
       THEN Moves(t, [creator[t] EXCEPT !.at = "context", !.crl_store = z_ssl_crl_store_create(crl)])
       ELSE Ends(t)
    /\ UNCHANGED <<ca_dir_hash, ca_lock, dir>>

\* z_ssl_session_new_from_context: SSL_new may fail, and the store is freed; the
\* context is released on both ways.
z_ssl_session_new_from_context(t) ==
    /\ creator[t].at = "context"
    /\ \/ Moves(t, [creator[t] EXCEPT !.at = "done", !.ctx = FALSE, !.session = TRUE])
       \/ Ends(t)
    /\ UNCHANGED <<ca_dir_hash, ca_lock, dir>>

\* z_ssl_session_unref, the last one: z_ssl_session_free.
z_ssl_session_free(t) ==
    /\ creator[t].at = "done"
    /\ Ends(t)
    /\ UNCHANGED <<ca_dir_hash, ca_lock, dir>>

\* Somebody installs or removes a CA, or removes the directory (external).
DirChanges ==
    /\ dir.mtime < MaxMtime
    /\ \E files \in SUBSET CaFiles, exists \in BOOLEAN :
          /\ ~exists => files = {}
          /\ dir' = [dir EXCEPT !.mtime = @ + 1, !.files = files, !.exists = exists]
    /\ UNCHANGED <<ca_dir_hash, ca_lock, creator>>

SessionNext ==
    \/ DirChanges
    \/ \E t \in Creators :
          \/ \E mode \in {"client", "server"}, key \in Keys, ca \in BOOLEAN :
                z_ssl_session_new(t, mode, key, ca) \/ z_ssl_session_new_inline(t, mode, key, ca)
          \/ CacheLookup(t) \/ StatDir(t) \/ LoadsFile(t) \/ CachePublish(t)
          \/ \E crl \in {"none", "given", "no_memory", "inaccessible"} : z_ssl_load_ca_list(t, crl)
          \/ z_ssl_session_new_from_context(t)
          \/ z_ssl_session_free(t)

-----------------------------------------------------------------------------
(* Properties. *)

\* An entry that the next session would take from the cache is what the
\* directory holds: a change that comes while the directory is being read, by
\* whichever thread, makes the entry stale and never looks current.
CaListCurrent ==
    ca_dir_hash.present /\ dir.exists /\ ca_dir_hash.modtime = dir.mtime =>
        ca_dir_hash.contents = dir.files \cap dir.good
=============================================================================
