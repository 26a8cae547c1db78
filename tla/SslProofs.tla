------------------------------ MODULE SslProofs ------------------------------
(***************************************************************************)
(* Proofs about Ssl, for any number of threads and files, chains of any      *)
(* length and any limit of the depth.                                        *)
(***************************************************************************)
EXTENDS Ssl, TLAPS

-----------------------------------------------------------------------------
(* The cache of CA lists. *)

CreatorType ==
    [at : {"idle", "lock", "stat", "read", "access", "context", "done"},
     mode : {"client", "server"}, modtime : Nat, todo : SUBSET CaFiles,
     found : SUBSET CaFiles, ctx : BOOLEAN, crl_store : BOOLEAN,
     session : BOOLEAN, made : Nat]

SessionTypeOK ==
    /\ ca_dir_hash \in [present : BOOLEAN, modtime : Nat, contents : SUBSET CaFiles]
    /\ ca_lock \in Creators \cup {NoThread}
    /\ dir \in [exists : BOOLEAN, mtime : Nat, files : SUBSET CaFiles, good : SUBSET CaFiles]
    /\ creator \in [Creators -> CreatorType]

\* What a thread that reads the directory has found is what is there, but for
\* the files it has not come to, unless the directory has changed since the
\* thread took its time; no time is from the future.
ReadSound ==
    \A t \in Creators :
        /\ creator[t].at \in {"lock", "stat"} => creator[t].found = {}
        /\ creator[t].at = "read" =>
              /\ creator[t].modtime <= dir.mtime
              /\ creator[t].modtime = dir.mtime =>
                    creator[t].found = (dir.files \cap dir.good) \ creator[t].todo

SessionInv ==
    /\ SessionTypeOK
    /\ ReadSound
    /\ ca_dir_hash.present => ca_dir_hash.modtime <= dir.mtime
    /\ CaListCurrent

\* A thread that moves on without a lock, a directory or a cache entry changed
\* keeps the invariant if it keeps its own part of it.
LEMMA CreatorMoves ==
    ASSUME SessionInv, NEW t \in Creators, NEW c \in CreatorType, Moves(t, c),
           UNCHANGED <<ca_dir_hash, dir>>, ca_lock' \in Creators \cup {NoThread},
           c.at \in {"lock", "stat"} => c.found = {},
           c.at = "read" =>
              /\ c.modtime <= dir.mtime
              /\ c.modtime = dir.mtime => c.found = (dir.files \cap dir.good) \ c.todo
    PROVE  SessionInv'
<1>1. creator' \in [Creators -> CreatorType] /\ creator'[t] = c
      /\ \A u \in Creators \ {t} : creator'[u] = creator[u]
  BY DEF SessionInv, SessionTypeOK, Moves
<1>2. SessionTypeOK'
  BY <1>1 DEF SessionInv, SessionTypeOK
<1>3. ReadSound'
  BY <1>1 DEF SessionInv, ReadSound
<1> QED
  BY <1>2, <1>3 DEF SessionInv, CaListCurrent

\* The same for a thread that returns.
LEMMA CreatorEnds ==
    ASSUME SessionInv, NEW t \in Creators, Ends(t),
           UNCHANGED <<ca_dir_hash, dir>>, ca_lock' \in Creators \cup {NoThread}
    PROVE  SessionInv'
<1> DEFINE c == [IdleCreator EXCEPT !.made = creator[t].made]
<1>1. creator[t] \in CreatorType
  BY DEF SessionInv, SessionTypeOK
<1>2. c \in CreatorType /\ c.at = "idle"
  BY <1>1 DEF CreatorType, IdleCreator
<1>3. Moves(t, c)
  BY DEF Ends, Moves
<1> HIDE DEF c
<1> QED
  BY <1>2, <1>3, CreatorMoves

LEMMA SessionInitInv == SessionInit => SessionInv
<1> SUFFICES ASSUME SessionInit PROVE SessionInv
  OBVIOUS
<1>1. SessionTypeOK
  <2>1. ca_dir_hash \in [present : BOOLEAN, modtime : Nat, contents : SUBSET CaFiles]
    BY DEF SessionInit, NoEntry
  <2>2. dir \in [exists : BOOLEAN, mtime : Nat, files : SUBSET CaFiles, good : SUBSET CaFiles]
    BY DEF SessionInit
  <2>3. IdleCreator \in CreatorType
    BY DEF IdleCreator, CreatorType
  <2> QED
    BY <2>1, <2>2, <2>3 DEF SessionInit, SessionTypeOK
<1>2. ReadSound
  BY DEF SessionInit, ReadSound, IdleCreator
<1> QED
  BY <1>1, <1>2 DEF SessionInv, SessionInit, NoEntry, CaListCurrent

LEMMA CreatedInv ==
    ASSUME SessionInv, NEW t \in Creators, NEW mode \in {"client", "server"},
           NEW ok, NEW ca \in BOOLEAN, Created(t, mode, ok, ca)
    PROVE  SessionInv'
<1> DEFINE c == [IdleCreator EXCEPT !.made = creator[t].made + 1, !.mode = mode]
           d == [c EXCEPT !.ctx = TRUE,
                          !.at = IF ~ca THEN "context" ELSE IF mode = "server" THEN "lock" ELSE "access"]
<1>1. creator[t] \in CreatorType
  BY DEF SessionInv, SessionTypeOK
<1>2. c \in CreatorType /\ c.at = "idle" /\ c.found = {}
  <2>1. creator[t].made + 1 \in Nat
    BY <1>1 DEF CreatorType
  <2>2. IdleCreator \in CreatorType
    BY DEF IdleCreator, CreatorType
  <2>3. c.at = "idle" /\ c.found = {}
    BY DEF IdleCreator
  <2> QED
    BY <2>1, <2>2, <2>3 DEF CreatorType
<1>5. PICK w \in {"context", "lock", "access"} : d = [c EXCEPT !.ctx = TRUE, !.at = w]
  OBVIOUS
<1>6. d \in CreatorType /\ d.at # "read" /\ d.found = {}
  BY <1>2, <1>5 DEF CreatorType
<1>3. (Moves(t, c) \/ Moves(t, d)) /\ UNCHANGED <<ca_dir_hash, ca_lock, dir>>
  BY DEF Created
<1>4. ca_lock' \in Creators \cup {NoThread}
  BY <1>3 DEF SessionInv, SessionTypeOK
<1> HIDE DEF c, d
<1> QED
  BY <1>2, <1>3, <1>4, <1>6, CreatorMoves

LEMMA CacheLookupInv ==
    ASSUME SessionInv, NEW t \in Creators, CacheLookup(t)
    PROVE  SessionInv'
<1>1. creator[t] \in CreatorType /\ creator[t].found = {}
  BY DEF SessionInv, SessionTypeOK, ReadSound, CacheLookup
<1>2. CASE ca_dir_hash.present /\ dir.exists /\ ca_dir_hash.modtime = dir.mtime
  <2> DEFINE c == [creator[t] EXCEPT !.at = "access", !.found = ca_dir_hash.contents]
  <2>1. c \in CreatorType /\ c.at = "access"
    BY <1>1 DEF CreatorType, SessionInv, SessionTypeOK
  <2>2. Moves(t, c) /\ UNCHANGED <<ca_dir_hash, ca_lock, dir>>
    BY <1>2 DEF CacheLookup
  <2>3. ca_lock' \in Creators \cup {NoThread}
    BY <2>2 DEF SessionInv, SessionTypeOK
  <2> HIDE DEF c
  <2> QED
    BY <2>1, <2>2, <2>3, CreatorMoves
<1>3. CASE ~(ca_dir_hash.present /\ dir.exists /\ ca_dir_hash.modtime = dir.mtime)
  <2>1. /\ creator' = [creator EXCEPT ![t] = [creator[t] EXCEPT !.at = "stat"]]
        /\ ca_lock' = t /\ ca_dir_hash' = NoEntry /\ dir' = dir
    BY <1>3 DEF CacheLookup, Moves
  <2>2. [creator[t] EXCEPT !.at = "stat"] \in CreatorType
    BY <1>1 DEF CreatorType
  <2>3. SessionTypeOK'
    BY <2>1, <2>2 DEF SessionInv, SessionTypeOK, NoEntry
  <2>4. ReadSound'
    BY <1>1, <2>1 DEF SessionInv, SessionTypeOK, CreatorType, ReadSound
  <2> QED
    BY <2>1, <2>3, <2>4 DEF SessionInv, CaListCurrent, NoEntry
<1> QED
  BY <1>2, <1>3

LEMMA StatDirInv ==
    ASSUME SessionInv, NEW t \in Creators, StatDir(t)
    PROVE  SessionInv'
<1>1. creator[t] \in CreatorType /\ creator[t].found = {} /\ dir.mtime \in Nat
      /\ dir.files \subseteq CaFiles
  BY DEF SessionInv, SessionTypeOK, ReadSound, StatDir
<1>2. CASE dir.exists
  <2> DEFINE c == [creator[t] EXCEPT !.at = "read", !.modtime = dir.mtime, !.todo = CaFiles]
  <2>1. c \in CreatorType /\ c.at = "read" /\ c.modtime = dir.mtime
        /\ c.found = (dir.files \cap dir.good) \ c.todo
    BY <1>1 DEF CreatorType
  <2>2. Moves(t, c) /\ UNCHANGED <<ca_dir_hash, ca_lock, dir>>
    BY <1>2 DEF StatDir
  <2>3. ca_lock' \in Creators \cup {NoThread}
    BY <2>2 DEF SessionInv, SessionTypeOK
  <2> HIDE DEF c
  <2> QED
    BY <1>1, <2>1, <2>2, <2>3, CreatorMoves
<1>3. CASE ~dir.exists
  BY <1>3, CreatorEnds DEF StatDir
<1> QED
  BY <1>2, <1>3

LEMMA LoadsFileInv ==
    ASSUME SessionInv, NEW t \in Creators, LoadsFile(t)
    PROVE  SessionInv'
<1>1. PICK f \in creator[t].todo :
         Moves(t, [creator[t] EXCEPT !.todo = @ \ {f},
                      !.found = @ \union ({f} \cap dir.files \cap dir.good)])
  BY DEF LoadsFile
<1> DEFINE c == [creator[t] EXCEPT !.todo = @ \ {f},
                    !.found = @ \union ({f} \cap dir.files \cap dir.good)]
<1>2. creator[t] \in CreatorType /\ dir.files \subseteq CaFiles /\ creator[t].at = "read"
  BY DEF SessionInv, SessionTypeOK, LoadsFile
<1>3. c \in CreatorType /\ c.at = "read" /\ c.modtime = creator[t].modtime
      /\ c.todo = creator[t].todo \ {f}
      /\ c.found = creator[t].found \union ({f} \cap dir.files \cap dir.good)
  BY <1>2 DEF CreatorType
<1>4. creator[t].modtime <= dir.mtime
      /\ (creator[t].modtime = dir.mtime =>
             creator[t].found = (dir.files \cap dir.good) \ creator[t].todo)
  BY <1>2 DEF SessionInv, ReadSound
<1>5. c.modtime = dir.mtime => c.found = (dir.files \cap dir.good) \ c.todo
  BY <1>1, <1>3, <1>4
<1>6. ca_lock' \in Creators \cup {NoThread}
  BY DEF SessionInv, SessionTypeOK, LoadsFile
<1>7. Moves(t, c) /\ UNCHANGED <<ca_dir_hash, dir>>
  BY <1>1 DEF LoadsFile
<1> HIDE DEF c
<1> QED
  BY <1>3, <1>4, <1>5, <1>6, <1>7, CreatorMoves

LEMMA CachePublishInv ==
    ASSUME SessionInv, NEW t \in Creators, CachePublish(t)
    PROVE  SessionInv'
<1>1. /\ ca_dir_hash' = [present |-> TRUE, modtime |-> creator[t].modtime,
                         contents |-> creator[t].found]
      /\ ca_lock' = NoThread /\ dir' = dir
      /\ creator' = [creator EXCEPT ![t] = [creator[t] EXCEPT !.at = "access"]]
      /\ creator[t].at = "read" /\ creator[t].todo = {}
  BY DEF CachePublish, Moves
<1>2. creator[t] \in CreatorType
  BY DEF SessionInv, SessionTypeOK
<1>3. [creator[t] EXCEPT !.at = "access"] \in CreatorType
  BY <1>2 DEF CreatorType
<1>4. SessionTypeOK'
  BY <1>1, <1>2, <1>3 DEF SessionInv, SessionTypeOK, CreatorType
<1>5. ReadSound'
  BY <1>1, <1>2 DEF SessionInv, SessionTypeOK, CreatorType, ReadSound
<1>6. creator[t].modtime <= dir.mtime
      /\ (creator[t].modtime = dir.mtime => creator[t].found = dir.files \cap dir.good)
  BY <1>1 DEF SessionInv, ReadSound
<1> QED
  BY <1>1, <1>4, <1>5, <1>6 DEF SessionInv, CaListCurrent

LEMMA DirChangesInv ==
    ASSUME SessionInv, DirChanges
    PROVE  SessionInv'
<1>1. PICK files \in SUBSET CaFiles, exists \in BOOLEAN :
         dir' = [dir EXCEPT !.mtime = @ + 1, !.files = files, !.exists = exists]
  BY DEF DirChanges
<1>2. dir \in [exists : BOOLEAN, mtime : Nat, files : SUBSET CaFiles, good : SUBSET CaFiles]
  BY DEF SessionInv, SessionTypeOK
<1>a. dir' = [exists |-> exists, mtime |-> dir.mtime + 1, files |-> files, good |-> dir.good]
  BY <1>1, <1>2
<1>3. dir' \in [exists : BOOLEAN, mtime : Nat, files : SUBSET CaFiles, good : SUBSET CaFiles]
      /\ dir'.mtime = dir.mtime + 1
  BY <1>a, <1>2
<1>4. UNCHANGED <<ca_dir_hash, ca_lock, creator>>
  BY DEF DirChanges
<1>5. SessionTypeOK'
  BY <1>3, <1>4 DEF SessionInv, SessionTypeOK
<1>6. ReadSound'
  BY <1>2, <1>3, <1>4 DEF SessionInv, SessionTypeOK, CreatorType, ReadSound
<1>7. ca_dir_hash.present => ca_dir_hash.modtime < dir'.mtime
  BY <1>2, <1>3 DEF SessionInv, SessionTypeOK
<1>8. ca_dir_hash.modtime \in Nat
  BY DEF SessionInv, SessionTypeOK
<1> QED
  BY <1>3, <1>4, <1>5, <1>6, <1>7, <1>8 DEF SessionInv, CaListCurrent

LEMMA SessionNextInv ==
    ASSUME SessionInv, SessionNext
    PROVE  SessionInv'
<1>1. CASE DirChanges
  BY <1>1, DirChangesInv
<1>2. ASSUME NEW t \in Creators, NEW mode \in {"client", "server"}, NEW key \in Keys,
             NEW ca \in BOOLEAN,
             z_ssl_session_new(t, mode, key, ca) \/ z_ssl_session_new_inline(t, mode, key, ca)
      PROVE  SessionInv'
  BY <1>2, CreatedInv DEF z_ssl_session_new, z_ssl_session_new_inline
<1>3. ASSUME NEW t \in Creators,
             CacheLookup(t) \/ StatDir(t) \/ LoadsFile(t) \/ CachePublish(t)
      PROVE  SessionInv'
  BY <1>3, CacheLookupInv, StatDirInv, LoadsFileInv, CachePublishInv
<1>4. ca_lock \in Creators \cup {NoThread}
  BY DEF SessionInv, SessionTypeOK
<1>5. ASSUME NEW t \in Creators, NEW crl, z_ssl_load_ca_list(t, crl)
      PROVE  SessionInv'
  <2> DEFINE c == [creator[t] EXCEPT !.at = "context", !.crl_store = z_ssl_crl_store_create(crl)]
  <2>1. creator[t] \in CreatorType /\ z_ssl_crl_store_create(crl) \in BOOLEAN
    BY DEF SessionInv, SessionTypeOK, z_ssl_crl_store_create
  <2>2. c \in CreatorType /\ c.at = "context"
    BY <2>1 DEF CreatorType
  <2>3. (Moves(t, c) \/ Ends(t)) /\ UNCHANGED <<ca_dir_hash, ca_lock, dir>>
    BY <1>5 DEF z_ssl_load_ca_list
  <2> HIDE DEF c
  <2> QED
    BY <1>4, <2>2, <2>3, CreatorMoves, CreatorEnds
<1>6. ASSUME NEW t \in Creators,
             z_ssl_session_new_from_context(t) \/ z_ssl_session_free(t)
      PROVE  SessionInv'
  <2> DEFINE c == [creator[t] EXCEPT !.at = "done", !.ctx = FALSE, !.session = TRUE]
  <2>1. creator[t] \in CreatorType
    BY DEF SessionInv, SessionTypeOK
  <2>2. c \in CreatorType /\ c.at = "done"
    BY <2>1 DEF CreatorType
  <2>3. (Moves(t, c) \/ Ends(t)) /\ UNCHANGED <<ca_dir_hash, ca_lock, dir>>
    BY <1>6 DEF z_ssl_session_new_from_context, z_ssl_session_free
  <2> HIDE DEF c
  <2> QED
    BY <1>4, <2>2, <2>3, CreatorMoves, CreatorEnds
<1> QED
  BY <1>1, <1>2, <1>3, <1>5, <1>6 DEF SessionNext

LEMMA SessionStutter ==
    ASSUME SessionInv, UNCHANGED sessionvars
    PROVE  SessionInv'
BY DEF SessionInv, SessionTypeOK, ReadSound, CaListCurrent, sessionvars

\* An entry of the cache that looks current holds what the directory holds,
\* however the directory changes while any number of threads read it
\* (z_ssl_set_trusted_ca_list).
THEOREM CaListSound == Spec => []CaListCurrent
<1>1. Init => SessionInv
  BY SessionInitInv DEF Init
<1>2. SessionInv /\ [Next]_sslvars => SessionInv'
  BY SessionNextInv, SessionStutter DEF Next, sslvars
<1>3. SessionInv => CaListCurrent
  BY DEF SessionInv
<1> QED
  BY <1>1, <1>2, <1>3, PTL DEF Spec

-----------------------------------------------------------------------------
(* The verification of the peer. *)

\* What the callback has made sure of when it has accepted certificate i.
Sound(i) ==
    /\ peer.chain[i].verdict = "ok"
    /\ session.verify_depth # -1 => i - 1 <= session.verify_depth
    /\ session.crl_store => z_ssl_verify_crl(peer.chain, i)

\* The certificates above the next one are sound, and all of them once the
\* peer has been accepted.
VerifyInv ==
    /\ peer.chain \in Seq(Certificates)
    /\ session.verify_depth \in Int
    /\ peer.state = "verifying" => peer.next \in DOMAIN peer.chain
    /\ session.verify_type = "REQUIRED_TRUSTED" =>
          /\ peer.state = "verifying" =>
                \A i \in DOMAIN peer.chain : i > peer.next => Sound(i)
          /\ peer.state = "accepted" =>
                peer.chain # <<>> /\ \A i \in DOMAIN peer.chain : Sound(i)

LEMMA ChainsAreSequences == Chains \subseteq Seq(Certificates)
<1> SUFFICES ASSUME NEW n \in 0 .. MaxChain, NEW c \in [1 .. n -> Certificates]
             PROVE  c \in Seq(Certificates)
  BY DEF Chains
<1> QED
  BY ChainAssumption

LEMMA VerifyInitInv == VerifyInit => VerifyInv
<1> SUFFICES ASSUME VerifyInit PROVE VerifyInv
  OBVIOUS
<1>1. peer.chain = <<>> /\ peer.state = "new" /\ <<>> \in Seq(Certificates)
  BY DEF VerifyInit
<1>2. session.verify_depth \in Int
  BY ChainAssumption DEF VerifyInit
<1> QED
  BY <1>1, <1>2 DEF VerifyInv

LEMMA PresentsInv ==
    ASSUME VerifyInv, NEW chain \in Chains, Presents(chain)
    PROVE  VerifyInv'
<1>1. chain \in Seq(Certificates)
  BY ChainsAreSequences
<1>2. session' = session /\ session.verify_depth \in Int
  BY DEF Presents, VerifyInv
<1>3. /\ peer'.chain = chain /\ peer'.next = Len(chain)
      /\ peer'.state = "verifying" => chain # <<>>
      /\ peer'.state = "accepted" => session.verify_type # "REQUIRED_TRUSTED"
  BY DEF Presents, FAIL_IF_NO_PEER_CERT
<1>4. peer'.state = "verifying" => peer'.next \in DOMAIN chain
  BY <1>1, <1>3
<1>5. \A i \in DOMAIN chain : ~(i > Len(chain))
  BY <1>1
<1> QED
  BY <1>1, <1>2, <1>3, <1>4, <1>5 DEF VerifyInv

LEMMA VisitsInv ==
    ASSUME VerifyInv, Visits
    PROVE  VerifyInv'
<1> DEFINE i == peer.next
<1>1. peer.chain \in Seq(Certificates) /\ i \in DOMAIN peer.chain /\ i \in Nat /\ i >= 1
      /\ session' = session /\ session.verify_depth \in Int
  BY DEF VerifyInv, Visits
<1>2. /\ peer'.chain = peer.chain /\ peer'.next = i - 1
      /\ peer'.state = "verifying" => i # 1
      /\ peer'.state = "accepted" => i = 1
      /\ peer'.state # "rejected" =>
            \E error : z_ssl_verify_callback(peer.chain, i, peer.chain[i].verdict = "ok", error)
  BY DEF Visits
<1>3. session.verify_type = "REQUIRED_TRUSTED" /\ peer'.state # "rejected" => Sound(i)
  BY <1>1, <1>2 DEF z_ssl_verify_callback, ForcedOk, TooDeep, Sound
<1>4. session.verify_type = "REQUIRED_TRUSTED" /\ peer'.state # "rejected" =>
         \A j \in DOMAIN peer.chain : j > i - 1 => Sound(j)
  BY <1>1, <1>3 DEF VerifyInv, Visits
<1>5. \A j \in DOMAIN peer.chain : Sound(j)' <=> Sound(j)
  BY <1>1, <1>2 DEF Sound, z_ssl_verify_crl, SubjectCrlGood, Revoked, z_ssl_x509_store_lookup, Issuer
<1>6. peer'.state = "verifying" => i - 1 \in DOMAIN peer.chain
  BY <1>1, <1>2
<1>7. i = 1 => \A j \in DOMAIN peer.chain : j > i - 1
  BY <1>1
<1> QED
  BY <1>1, <1>2, <1>4, <1>5, <1>6, <1>7 DEF VerifyInv

LEMMA VerifyStutter ==
    ASSUME VerifyInv, UNCHANGED verifyvars
    PROVE  VerifyInv'
BY DEF VerifyInv, verifyvars, Sound, z_ssl_verify_crl, SubjectCrlGood, Revoked,
       z_ssl_x509_store_lookup, Issuer

LEMMA VerifyImplies == VerifyInv => TrustedPeer
<1> SUFFICES ASSUME VerifyInv, session.verify_type = "REQUIRED_TRUSTED",
                    peer.state = "accepted"
             PROVE  /\ peer.chain # <<>>
                    /\ \A i \in DOMAIN peer.chain :
                         /\ peer.chain[i].verdict = "ok"
                         /\ session.verify_depth # -1 => i - 1 <= session.verify_depth
                         /\ session.crl_store =>
                              LET crl == peer.chain[Issuer(peer.chain, i)].crl
                              IN  crl = "none" \/ (crl = "valid" /\ ~peer.chain[i].listed)
  BY DEF TrustedPeer
<1>1. peer.chain # <<>> /\ \A i \in DOMAIN peer.chain : Sound(i)
  BY DEF VerifyInv
<1>2. ASSUME NEW i \in DOMAIN peer.chain
      PROVE  Issuer(peer.chain, i) \in DOMAIN peer.chain
  BY <1>2 DEF VerifyInv, Issuer
<1> QED
  BY <1>1, <1>2 DEF Sound, z_ssl_verify_crl, SubjectCrlGood, Revoked, z_ssl_x509_store_lookup

\* A session that requires a trusted peer accepts only sound chains, of any
\* length and whatever the limit of the depth (z_ssl_verify_callback,
\* z_ssl_verify_crl).
THEOREM PeerTrusted == Spec => []TrustedPeer
<1>1. Init => VerifyInv
  BY VerifyInitInv DEF Init
<1>2. VerifyInv /\ [Next]_sslvars => VerifyInv'
  BY PresentsInv, VisitsInv, VerifyStutter DEF Next, VerifyNext, sslvars
<1> QED
  BY <1>1, <1>2, VerifyImplies, PTL DEF Spec

-----------------------------------------------------------------------------
(* The retries of the stream. *)

\* In half-duplex use at most one call is under way.  The conditions of the
\* child hold the direction of the call itself, and the other one as long as
\* what_if_called says so; it says so for that call only, and for none if no
\* call is under way and the stream has not failed.
CallWatched(call, crossed) ==
    /\ Own(call) \in child.cond
    /\ app.waits[call] \in {"IN", "OUT"}
    /\ ssl.what \in {"DO_AS_USUAL", crossed}
    /\ ssl.what = "DO_AS_USUAL" => app.waits[call] = Own(call)
    /\ ssl.what = crossed => {"IN", "OUT"} \subseteq child.cond

StreamTypeOK ==
    /\ ssl \in [session : BOOLEAN, shutdown : BOOLEAN, pending : BOOLEAN,
                what : {"DO_AS_USUAL", "CALL_READ_WHEN_WRITE", "CALL_WRITE_WHEN_READ"}]
    /\ child \in [cond : SUBSET {"IN", "OUT"}, ready : SUBSET {"IN", "OUT"},
                  state : {"open", "eof", "failed"}]
    /\ app \in [wants : SUBSET Calls, waits : [Calls -> {"IN", "OUT"}], over : BOOLEAN]

RetryInv ==
    /\ StreamTypeOK
    /\ app.wants \in {{}, {"read"}, {"write"}}
    /\ ~ssl.session => ssl.what = "DO_AS_USUAL"
    /\ "read" \in app.wants => CallWatched("read", "CALL_READ_WHEN_WRITE")
    /\ "write" \in app.wants => CallWatched("write", "CALL_WRITE_WHEN_READ")
    /\ app.wants = {} => ssl.what = "DO_AS_USUAL" \/ app.over

LEMMA RetryInitInv == StreamInit => RetryInv
<1> SUFFICES ASSUME StreamInit PROVE RetryInv
  OBVIOUS
<1>1. /\ ssl \in [session : BOOLEAN, shutdown : BOOLEAN, pending : BOOLEAN,
                  what : {"DO_AS_USUAL", "CALL_READ_WHEN_WRITE", "CALL_WRITE_WHEN_READ"}]
      /\ ssl.what = "DO_AS_USUAL"
  BY DEF StreamInit
<1>2. child \in [cond : SUBSET {"IN", "OUT"}, ready : SUBSET {"IN", "OUT"},
                 state : {"open", "eof", "failed"}]
  BY DEF StreamInit
<1>3. app \in [wants : SUBSET Calls, waits : [Calls -> {"IN", "OUT"}], over : BOOLEAN]
      /\ app.wants = {}
  BY DEF StreamInit, Own
<1> QED
  BY <1>1, <1>2, <1>3 DEF RetryInv, StreamTypeOK

\* A call that ends leaves nothing crossed behind.
LEMMA EndedInv ==
    ASSUME RetryInv, NEW call \in Calls, app.wants = {call},
           NEW cond \in SUBSET {"IN", "OUT"}, Ended(call, cond), Own(call) \in cond,
           ssl' \in [session : BOOLEAN, shutdown : BOOLEAN, pending : BOOLEAN,
                     what : {"DO_AS_USUAL", "CALL_READ_WHEN_WRITE", "CALL_WRITE_WHEN_READ"}],
           ssl'.what = "DO_AS_USUAL"
    PROVE  RetryInv'
<1>1. app \in [wants : SUBSET Calls, waits : [Calls -> {"IN", "OUT"}], over : BOOLEAN]
      /\ child \in [cond : SUBSET {"IN", "OUT"}, ready : SUBSET {"IN", "OUT"},
                     state : {"open", "eof", "failed"}]
  BY DEF RetryInv, StreamTypeOK
<1>2. CASE /\ app' = [app EXCEPT !.waits[call] = Own(call)]
           /\ child' = [child EXCEPT !.cond = cond, !.ready = @ \ {Own(call)}]
  <2>1. /\ app' \in [wants : SUBSET Calls, waits : [Calls -> {"IN", "OUT"}], over : BOOLEAN]
        /\ app'.wants = {call} /\ app'.waits[call] = Own(call)
    BY <1>1, <1>2 DEF Own
  <2>2. /\ child' \in [cond : SUBSET {"IN", "OUT"}, ready : SUBSET {"IN", "OUT"},
                        state : {"open", "eof", "failed"}]
        /\ child'.cond = cond
    BY <1>1, <1>2
  <2> QED
    BY <2>1, <2>2 DEF RetryInv, StreamTypeOK, CallWatched, Calls, Own
<1>3. CASE /\ app' = [app EXCEPT !.waits[call] = Own(call), !.wants = @ \ {call}]
           /\ child' = [child EXCEPT !.cond = cond \ {Own(call)}, !.ready = @ \ {Own(call)}]
  <2>1. /\ app' \in [wants : SUBSET Calls, waits : [Calls -> {"IN", "OUT"}], over : BOOLEAN]
        /\ app'.wants = {}
    BY <1>1, <1>3 DEF Own
  <2>2. child' \in [cond : SUBSET {"IN", "OUT"}, ready : SUBSET {"IN", "OUT"},
                        state : {"open", "eof", "failed"}]
    BY <1>1, <1>3
  <2> QED
    BY <2>1, <2>2 DEF RetryInv, StreamTypeOK, Calls, Own
<1> QED
  BY <1>2, <1>3 DEF Ended

\* An application that leaves the stream waits for nothing.
LEMMA GivesUpInv ==
    ASSUME RetryInv, NEW call \in Calls, app.wants = {call},
           NEW cond \in SUBSET {"IN", "OUT"}, GivesUp(call, cond),
           ssl' \in [session : BOOLEAN, shutdown : BOOLEAN, pending : BOOLEAN,
                     what : {"DO_AS_USUAL", "CALL_READ_WHEN_WRITE", "CALL_WRITE_WHEN_READ"}],
           ~ssl'.session => ssl'.what = "DO_AS_USUAL"
    PROVE  RetryInv'
<1>1. /\ app' \in [wants : SUBSET Calls, waits : [Calls -> {"IN", "OUT"}], over : BOOLEAN]
      /\ app'.wants = {} /\ app'.over
  BY DEF RetryInv, StreamTypeOK, GivesUp
<1>2. child' \in [cond : SUBSET {"IN", "OUT"}, ready : SUBSET {"IN", "OUT"},
                  state : {"open", "eof", "failed"}]
  BY DEF RetryInv, StreamTypeOK, GivesUp
<1> QED
  BY <1>1, <1>2 DEF RetryInv, StreamTypeOK

Results == {"done", "SSL_ERROR_SSL", "SSL_ERROR_ZERO_RETURN", "0", "SYSCALL_EAGAIN",
            "SYSCALL", "WANT_READ", "WANT_WRITE"}

Crossed(call) == IF call = "read" THEN "CALL_READ_WHEN_WRITE" ELSE "CALL_WRITE_WHEN_READ"

\* What a method leaves in what_if_called and in the conditions of the child: a
\* finished call nothing crossed, a call that is tried again both directions
\* whenever it is crossed.
AfterSound(call, result, what, cond) ==
    /\ what \in {"DO_AS_USUAL", Crossed(call)}
    /\ cond \in SUBSET {"IN", "OUT"}
    /\ Own(call) \in cond
    /\ Status(result) = "NORMAL" => what = "DO_AS_USUAL"
    /\ what = "DO_AS_USUAL" => WaitsFor(call, result) = Own(call)
    /\ Status(result) = "AGAIN" /\ what = Crossed(call) => {"IN", "OUT"} \subseteq cond

LEMMA ResultsOf ==
    ASSUME NEW call \in Calls, NEW result \in SslResults(call)
    PROVE  result \in Results
  BY DEF SslResults, Results

LEMMA ReadAfter ==
    ASSUME RetryInv, "read" \in app.wants, NEW result \in Results
    PROVE  AfterSound("read", result, z_stream_ssl_read_method_impl(result)[1],
                      z_stream_ssl_read_method_impl(result)[2])
<1>1. /\ child.cond \in SUBSET {"IN", "OUT"}
      /\ CallWatched("read", "CALL_READ_WHEN_WRITE")
  BY DEF RetryInv, StreamTypeOK
<1>2. CASE result = "WANT_WRITE"
  BY <1>1, <1>2 DEF z_stream_ssl_read_method_impl, AfterSound, Crossed, Own, Status, WaitsFor, CallWatched
<1>3. CASE result = "done"
  BY <1>1, <1>3 DEF z_stream_ssl_read_method_impl, AfterSound, Crossed, Own, Status, WaitsFor, CallWatched
<1>4. CASE result \notin {"WANT_WRITE", "done"}
  BY <1>1, <1>4 DEF z_stream_ssl_read_method_impl, AfterSound, Crossed, Own, Status, WaitsFor, CallWatched, Results
<1> QED
  BY <1>2, <1>3, <1>4

LEMMA WriteAfter ==
    ASSUME RetryInv, "write" \in app.wants, NEW result \in Results
    PROVE  AfterSound("write", result, z_stream_ssl_write_method_impl(result)[1],
                      z_stream_ssl_write_method_impl(result)[2])
<1>1. /\ child.cond \in SUBSET {"IN", "OUT"}
      /\ CallWatched("write", "CALL_WRITE_WHEN_READ")
  BY DEF RetryInv, StreamTypeOK
<1>2. CASE result = "WANT_READ"
  BY <1>1, <1>2 DEF z_stream_ssl_write_method_impl, AfterSound, Crossed, Own, Status, WaitsFor, CallWatched
<1>3. CASE result = "done"
  BY <1>1, <1>3 DEF z_stream_ssl_write_method_impl, AfterSound, Crossed, Own, Status, WaitsFor, CallWatched
<1>4. CASE result \notin {"WANT_READ", "done"}
  BY <1>1, <1>4 DEF z_stream_ssl_write_method_impl, AfterSound, Crossed, Own, Status, WaitsFor, CallWatched, Results
<1> QED
  BY <1>2, <1>3, <1>4

\* One SSL_read or SSL_write with what follows it.
LEMMA SslCallInv ==
    ASSUME RetryInv, NEW call \in Calls, app.wants = {call}, ssl.session,
           NEW result \in Results, NEW what, NEW cond, NEW pending \in BOOLEAN,
           AfterSound(call, result, what, cond),
           ssl' = [ssl EXCEPT !.what = what, !.pending = pending],
           CASE Status(result) = "NORMAL" -> Ended(call, cond)
             [] Status(result) = "AGAIN" ->
                  /\ app' = [app EXCEPT !.waits[call] = WaitsFor(call, result)]
                  /\ child' = [child EXCEPT !.cond = cond]
             [] OTHER -> GivesUp(call, cond)
    PROVE  RetryInv'
<1>1. /\ ssl' \in [session : BOOLEAN, shutdown : BOOLEAN, pending : BOOLEAN,
                   what : {"DO_AS_USUAL", "CALL_READ_WHEN_WRITE", "CALL_WRITE_WHEN_READ"}]
      /\ ssl'.what = what
      /\ ssl'.session
  BY DEF RetryInv, StreamTypeOK, AfterSound, Crossed
<1>2. cond \in SUBSET {"IN", "OUT"} /\ Own(call) \in cond
  BY DEF AfterSound
<1>3. CASE Status(result) = "NORMAL"
  BY <1>1, <1>2, <1>3, EndedInv DEF AfterSound
<1>4. CASE Status(result) = "AGAIN"
  <2>1. /\ app' = [app EXCEPT !.waits[call] = WaitsFor(call, result)]
        /\ child' = [child EXCEPT !.cond = cond]
    BY <1>4
  <2>2. WaitsFor(call, result) \in {"IN", "OUT"}
    BY DEF WaitsFor, Own
  <2>3. /\ app' \in [wants : SUBSET Calls, waits : [Calls -> {"IN", "OUT"}], over : BOOLEAN]
        /\ app'.wants = {call} /\ app'.waits[call] = WaitsFor(call, result)
    BY <2>1, <2>2 DEF RetryInv, StreamTypeOK
  <2>4. /\ child' \in [cond : SUBSET {"IN", "OUT"}, ready : SUBSET {"IN", "OUT"},
                        state : {"open", "eof", "failed"}]
        /\ child'.cond = cond
    BY <1>2, <2>1 DEF RetryInv, StreamTypeOK
  <2>5. CallWatched(call, Crossed(call))'
    BY <1>1, <1>2, <1>4, <2>2, <2>3, <2>4 DEF CallWatched, AfterSound, Crossed
  <2> QED
    BY <1>1, <2>3, <2>4, <2>5 DEF RetryInv, StreamTypeOK, Crossed, Calls
<1>5. CASE Status(result) \notin {"NORMAL", "AGAIN"}
  BY <1>1, <1>2, <1>5, GivesUpInv
<1> QED
  BY <1>3, <1>4, <1>5

LEMMA TriesInv ==
    ASSUME RetryInv, NEW call \in Calls, call \in app.wants, Tries(call)
    PROVE  RetryInv'
<1>1. app.wants = {call} /\ child.cond \in SUBSET {"IN", "OUT"} /\ Own(call) \in child.cond
  BY DEF RetryInv, StreamTypeOK, CallWatched, Calls
<1>2. CASE ssl.shutdown
  BY <1>1, <1>2, GivesUpInv DEF Tries, RetryInv, StreamTypeOK
<1>3. CASE ~ssl.shutdown /\ ~ssl.session
  <2> DEFINE bio == IF call = "read" THEN z_stream_bio_read ELSE z_stream_bio_write
  <2>1. /\ UNCHANGED ssl
        /\ CASE bio = "data" -> Ended(call, child.cond)
             [] bio = "retry" -> UNCHANGED <<app, child>>
             [] OTHER -> GivesUp(call, child.cond)
    BY <1>3 DEF Tries
  <2> HIDE DEF bio
  <2>2. /\ ssl' \in [session : BOOLEAN, shutdown : BOOLEAN, pending : BOOLEAN,
                     what : {"DO_AS_USUAL", "CALL_READ_WHEN_WRITE", "CALL_WRITE_WHEN_READ"}]
        /\ ssl'.what = "DO_AS_USUAL"
    BY <1>3, <2>1 DEF RetryInv, StreamTypeOK
  <2>3. CASE bio = "data"
    BY <1>1, <2>1, <2>2, <2>3, EndedInv
  <2>4. CASE bio = "retry"
    BY <2>1, <2>4 DEF RetryInv, StreamTypeOK, CallWatched
  <2>5. CASE bio \notin {"data", "retry"}
    BY <1>1, <2>1, <2>2, <2>5, GivesUpInv
  <2> QED
    BY <2>3, <2>4, <2>5
<1>4. CASE ~ssl.shutdown /\ ssl.session
  <2> DEFINE after(r) == IF call = "read" THEN z_stream_ssl_read_method_impl(r)
                                          ELSE z_stream_ssl_write_method_impl(r)
  <2>1. PICK result \in SslResults(call), more \in BOOLEAN :
          /\ ssl' = [ssl EXCEPT !.what = after(result)[1],
                       !.pending = IF call = "read" /\ Status(result) = "NORMAL" THEN more ELSE @]
          /\ CASE Status(result) = "NORMAL" -> Ended(call, after(result)[2])
               [] Status(result) = "AGAIN" ->
                    /\ app' = [app EXCEPT !.waits[call] = WaitsFor(call, result)]
                    /\ child' = [child EXCEPT !.cond = after(result)[2]]
               [] OTHER -> GivesUp(call, after(result)[2])
    BY <1>4 DEF Tries
  <2>2. result \in Results
    BY ResultsOf
  <2>3. AfterSound(call, result, after(result)[1], after(result)[2])
    BY <1>1, <2>2, ReadAfter, WriteAfter DEF Calls
  <2> DEFINE pending == IF call = "read" /\ Status(result) = "NORMAL" THEN more ELSE ssl.pending
  <2>4. pending \in BOOLEAN
    BY DEF RetryInv, StreamTypeOK
  <2>5. ssl' = [ssl EXCEPT !.what = after(result)[1], !.pending = pending]
    BY <2>1
  <2> HIDE DEF after, pending
  <2> QED
    BY <1>1, <1>4, <2>1, <2>2, <2>3, <2>4, <2>5, SslCallInv
<1> QED
  BY <1>2, <1>3, <1>4

LEMMA StreamSetCondInv ==
    ASSUME RetryInv, ~Duplex, NEW call \in Calls, z_stream_set_cond(call)
    PROVE  RetryInv'
<1>1. /\ app' \in [wants : SUBSET Calls, waits : [Calls -> {"IN", "OUT"}], over : BOOLEAN]
      /\ app'.wants = {call} /\ app'.waits[call] = Own(call)
  BY DEF RetryInv, StreamTypeOK, z_stream_set_cond, Own
<1>2. /\ child' \in [cond : SUBSET {"IN", "OUT"}, ready : SUBSET {"IN", "OUT"},
                     state : {"open", "eof", "failed"}]
      /\ Own(call) \in child'.cond
  BY DEF RetryInv, StreamTypeOK, z_stream_set_cond, Own
<1>3. ssl' = ssl /\ ssl.what = "DO_AS_USUAL"
  BY DEF RetryInv, z_stream_set_cond
<1> QED
  BY <1>1, <1>2, <1>3 DEF RetryInv, StreamTypeOK, CallWatched, Calls, Own

LEMMA OutsideInv ==
    ASSUME RetryInv, SetSession \/ z_stream_ssl_shutdown_method \/ ChildChanges
    PROVE  RetryInv'
<1>1. CASE SetSession
  <2>1. /\ ssl' \in [session : BOOLEAN, shutdown : BOOLEAN, pending : BOOLEAN,
                     what : {"DO_AS_USUAL", "CALL_READ_WHEN_WRITE", "CALL_WRITE_WHEN_READ"}]
        /\ ssl'.what = "DO_AS_USUAL" /\ app' = app /\ child' = child /\ app.wants = {}
    BY <1>1 DEF RetryInv, StreamTypeOK, SetSession
  <2> QED
    BY <2>1 DEF RetryInv, StreamTypeOK
<1>2. CASE z_stream_ssl_shutdown_method
  <2>1. /\ ssl' \in [session : BOOLEAN, shutdown : BOOLEAN, pending : BOOLEAN,
                     what : {"DO_AS_USUAL", "CALL_READ_WHEN_WRITE", "CALL_WRITE_WHEN_READ"}]
        /\ ssl'.what = ssl.what /\ ssl'.session = ssl.session /\ app' = app
    BY <1>2 DEF RetryInv, StreamTypeOK, z_stream_ssl_shutdown_method
  <2>2. /\ child' \in [cond : SUBSET {"IN", "OUT"}, ready : SUBSET {"IN", "OUT"},
                       state : {"open", "eof", "failed"}]
        /\ child'.cond = child.cond
    BY <1>2 DEF RetryInv, StreamTypeOK, z_stream_ssl_shutdown_method
  <2> QED
    BY <2>1, <2>2 DEF RetryInv, StreamTypeOK, CallWatched
<1>3. CASE ChildChanges
  <2>1. /\ child' \in [cond : SUBSET {"IN", "OUT"}, ready : SUBSET {"IN", "OUT"},
                       state : {"open", "eof", "failed"}]
        /\ child'.cond = child.cond
    BY <1>3 DEF RetryInv, StreamTypeOK, ChildChanges
  <2> QED
    BY <1>3, <2>1 DEF RetryInv, StreamTypeOK, CallWatched, ChildChanges
<1> QED
  BY <1>1, <1>2, <1>3

LEMMA StreamNextInv ==
    ASSUME RetryInv, ~Duplex, StreamNext
    PROVE  RetryInv'
<1>1. ASSUME NEW d \in {"IN", "OUT"}, z_stream_ssl_callback(d)
      PROVE  RetryInv'
  BY <1>1, TriesInv DEF z_stream_ssl_callback, Routed, Calls, z_stream_ssl_read_method,
     z_stream_ssl_write_method
<1>2. CASE z_stream_ssl_watch_dispatch
  BY <1>2, TriesInv DEF z_stream_ssl_watch_dispatch, WatchReady, z_stream_ssl_read_method, Calls
<1> QED
  BY <1>1, <1>2, StreamSetCondInv, OutsideInv DEF StreamNext

LEMMA RetryStutter ==
    ASSUME RetryInv, UNCHANGED streamvars
    PROVE  RetryInv'
  BY DEF RetryInv, StreamTypeOK, CallWatched, streamvars

LEMMA RetryImplies == RetryInv => RetryWoken
  BY DEF RetryInv, CallWatched, RetryWoken, Routed, StreamTypeOK, Calls, Own

\* No call of an application that either reads or writes is left waiting: what the
\* methods remember in what_if_called and the conditions they set on the child
\* always lead an event of the child to the call that waits for it.  (An
\* application that reads and writes at the same time is outside the theorem:
\* one what_if_called serves two calls.)
THEOREM RetriesWoken ==
    ASSUME ~Duplex
    PROVE  Spec => []RetryWoken
<1>1. Init => RetryInv
  BY RetryInitInv DEF Init
<1>2. RetryInv /\ [Next]_sslvars => RetryInv'
  <2> SUFFICES ASSUME RetryInv, [Next]_sslvars PROVE RetryInv'
    OBVIOUS
  <2>1. CASE UNCHANGED streamvars
    BY <2>1, RetryStutter
  <2>2. CASE StreamNext
    BY <2>2, StreamNextInv
  <2> QED
    BY <2>1, <2>2 DEF Next, sslvars
<1> QED
  BY <1>1, <1>2, RetryImplies, PTL DEF Spec

==============================================================================
